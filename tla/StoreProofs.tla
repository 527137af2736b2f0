---------------------------- MODULE StoreProofs ----------------------------
(***************************************************************************)
(* Theorems about Store, for every buffer, batch and retry bound.          *)
(*                                                                         *)
(* TypeOK is not inductive: that a batch never outgrows its size and the   *)
(* retry counter its limit depends on where the worker is (InFlight).      *)
(* DrainComplete needs to know what the worker did before it exited        *)
(* (Exiting) and which steps of Close have been taken (Closing).  That     *)
(* Store implements Sink also needs that a flush has rows (Flushing).      *)
(*                                                                         *)
(* DropCountSound rests on the account and on one bound: a flush that is   *)
(* given up makes at most as many rows missing as its batch holds.         *)
(***************************************************************************)
EXTENDS Store, FiniteSetTheorems, TLAPS

\* Between flushes the batch has room; a try under way is not beyond the last.
InFlight ==
    /\ pc \in {"ping", "ddl", "schemaWait", "select", "drain"} => Len(batch) < BatchSize
    /\ pc = "insert" => attempt < Attempts

\* The worker is past the last receive of its drain loop.
LastFlush == pc = "exited" \/ (pc \in {"insert", "sleep"} /\ ret = "exited")

\* What is in the channel when the worker is leaving was saved after Close.
Exiting ==
    /\ pc \in {"ping", "ddl", "schemaWait"} => ~ready
    /\ (LastFlush /\ ready) => done /\ \A i \in 1 .. Len(ch) : ch[i] > closedAt
    /\ (pc = "exited" /\ ready) => batch = <<>>
    /\ (pc = "drain" \/ (pc \in {"insert", "sleep"} /\ ret = "drain")) => done

Closing ==
    /\ closedAt <= saved
    /\ done <=> closer # "open"
    /\ (closer \in {"pool", "closed"} /\ ~timedOut) => pc = "exited"
    /\ ~poolOpen <=> closer = "closed"

\* insertWithRetry is never called without rows.
Flushing == pc \in {"insert", "sleep"} => batch # <<>>

IInv == TypeOK /\ InFlight /\ Accounting /\ Exiting /\ Closing /\ Flushing

-----------------------------------------------------------------------------
\* What the sequence operators of the worker do to a sequence of rows.
LEMMA AppendRow ==
    ASSUME NEW s \in Seq(Nat), NEW r \in Nat
    PROVE  /\ Append(s, r) \in Seq(Nat)
           /\ Len(Append(s, r)) = Len(s) + 1
           /\ \A i \in 1 .. Len(s) : Append(s, r)[i] = s[i]
           /\ Append(s, r)[Len(s) + 1] = r
  OBVIOUS

\* A row is taken from a sequence that has one.
LEMMA TakeRow ==
    ASSUME NEW s \in Seq(Nat), s # <<>>
    PROVE  /\ Tail(s) \in Seq(Nat) /\ Head(s) \in Nat
           /\ Len(Tail(s)) = Len(s) - 1 /\ Len(s) \in Nat \ {0}
  OBVIOUS

\* Rows appended to rows.
LEMMA ConcatRows ==
    ASSUME NEW s \in Seq(Nat), NEW t \in Seq(Nat)
    PROVE  s \o t \in Seq(Nat)
  OBVIOUS

\* No rows.
LEMMA EmptyRows == <<>> \in Seq(Nat) /\ Len(<<>>) = 0
  OBVIOUS

\* The length of a sequence of rows.
LEMMA LenRows == ASSUME NEW s \in Seq(Nat) PROVE Len(s) \in Nat /\ (Len(s) = 0 <=> s = <<>>)
  OBVIOUS

-----------------------------------------------------------------------------
\* A row received from the channel fits into the batch, and a flush starts
\* exactly when the batch is full.
LEMMA ReceiveType ==
    ASSUME TypeOK, InFlight, NEW here \in {"select", "drain"}, Receive(here)
    PROVE  TypeOK' /\ InFlight'
<1> USE StoreAssumption
<1>1. /\ ch \in Seq(Nat) /\ ch # <<>> /\ batch \in Seq(Nat) /\ Len(ch) <= BufferSize
      /\ Len(batch) < BatchSize
      /\ batch' = Append(batch, Head(ch)) /\ ch' = Tail(ch)
  BY DEF TypeOK, RowTypes, InFlight, Receive
<1>2. /\ ch' \in Seq(Nat) /\ Len(ch') <= BufferSize
      /\ batch' \in Seq(Nat) /\ Len(batch') = Len(batch) + 1 /\ Len(batch') <= BatchSize
  BY <1>1, TakeRow, AppendRow, LenRows
<1>3. RowTypes'
  BY <1>2 DEF TypeOK, RowTypes, Receive, flushVars, closeVars
<1>4. \/ Len(batch') >= BatchSize /\ batch' # <<>> /\ pc' = "insert" /\ ret' = here /\ attempt' = 0
      \/ Len(batch') < BatchSize /\ UNCHANGED <<pc, ret, attempt>>
  <2>1. batch' # <<>>
    BY <1>1, <1>2, LenRows
  <2>2. QED
    BY <1>2, <2>1, LenRows DEF Receive, Flush
<1>5. ControlTypes'
  BY <1>4 DEF TypeOK, ControlTypes, WorkerPC, Receive, closeVars
<1>6. InFlight'
  BY <1>4 DEF InFlight, Receive
<1>7. QED
  BY <1>3, <1>5, <1>6 DEF TypeOK

\* The types and the bounds are kept by every step.
LEMMA TypeStep ==
    ASSUME TypeOK, InFlight, [Next]_vars
    PROVE  TypeOK' /\ InFlight'
<1> USE StoreAssumption
<1>1. CASE Save
  <2>1. ch' \in Seq(Nat) /\ Len(ch') <= BufferSize /\ dropped' \in Nat /\ saved' \in Nat
    <3>1. ch \in Seq(Nat) /\ Len(ch) <= BufferSize /\ saved + 1 \in Nat /\ dropped \in Nat
      BY DEF TypeOK, RowTypes
    <3>2. \/ ch' = ch /\ dropped' = dropped + 1
          \/ Len(ch) < BufferSize /\ ch' = Append(ch, saved + 1) /\ dropped' = dropped
      BY <1>1 DEF Save
    <3>3. saved' = saved + 1
      BY <1>1 DEF Save
    <3>4. BufferSize \in Nat /\ Len(ch) \in Nat
      BY <3>1, LenRows
    <3>5. ch' \in Seq(Nat) /\ Len(ch') <= BufferSize
      BY <3>1, <3>2, <3>4
    <3>6. dropped' \in Nat /\ saved' \in Nat
      BY <3>1, <3>2, <3>3
    <3>7. QED
      BY <3>5, <3>6
  <2>2. UNCHANGED <<batch, table, acked, closedAt, done, ready, timedOut, poolOpen, pc, ret,
                    closer, attempt>>
    BY <1>1 DEF Save, closeVars
  <2>3. QED
    BY <2>1, <2>2 DEF TypeOK, RowTypes, ControlTypes, InFlight
<1>2. CASE Schema \/ SchemaRetry \/ SchemaAbort \/ Retry
  <2>1. UNCHANGED <<ch, batch, ret, attempt, flushVars, closeVars, saved>>
    BY <1>2 DEF Schema, Ping, RunSchemaStatements, SchemaRetry, SchemaAbort, Retry, Goto
  <2>2. RowTypes'
    BY <2>1 DEF TypeOK, RowTypes, flushVars, closeVars
  <2>3. pc' \in WorkerPC /\ ready' \in BOOLEAN
    BY <1>2 DEF Schema, Ping, RunSchemaStatements, SchemaRetry, SchemaAbort, Retry, Goto,
                WorkerPC, TypeOK, ControlTypes
  <2>4. ControlTypes'
    BY <2>1, <2>3 DEF TypeOK, ControlTypes, closeVars
  <2>5. InFlight'
    BY <1>2 DEF Schema, Ping, RunSchemaStatements, SchemaRetry, SchemaAbort, Retry, Goto, InFlight
  <2>6. QED
    BY <2>2, <2>4, <2>5 DEF TypeOK
<1>3. CASE SelectReceive \/ DrainReceive
  BY <1>3, ReceiveType DEF SelectReceive, DrainReceive
<1>4. CASE SelectTick \/ SelectDone \/ DrainDefault
  <2>1. UNCHANGED <<ch, batch, ready, flushVars, closeVars, saved>>
    BY <1>4 DEF SelectTick, SelectDone, DrainDefault, Goto
  <2>2. RowTypes'
    BY <2>1 DEF TypeOK, RowTypes, flushVars, closeVars
  <2>3. /\ pc' \in {"insert", "drain", "exited"} /\ ret' \in {"select", "drain", "exited"}
        /\ attempt' \in 0 .. Attempts /\ (pc' = "insert" => attempt' = 0)
    BY <1>4 DEF SelectTick, SelectDone, DrainDefault, Flush, Goto, TypeOK, ControlTypes
  <2>4. ControlTypes'
    BY <2>1, <2>3 DEF TypeOK, ControlTypes, WorkerPC, closeVars
  <2>5. InFlight'
    BY <1>4, <2>1, <2>3 DEF SelectTick, SelectDone, DrainDefault, InFlight
  <2>6. QED
    BY <2>2, <2>4, <2>5 DEF TypeOK
<1>5. CASE InsertOk \/ InsertErr \/ GiveUp
  <2>1. /\ ch' = ch /\ saved' = saved /\ closedAt' = closedAt
        /\ batch' = batch \/ batch' = <<>>
        /\ table' = table \/ table' = table \o batch
        /\ dropped' = dropped \/ dropped' = dropped + Len(batch)
        /\ acked' = acked \/ acked' = acked + Len(batch)
    BY <1>5 DEF InsertOk, InsertErr, GiveUp, EndFlush, closeVars
  <2>2. RowTypes'
    <3>1. /\ ch \in Seq(Nat) /\ batch \in Seq(Nat) /\ table \in Seq(Nat)
          /\ Len(ch) <= BufferSize /\ Len(batch) <= BatchSize /\ BatchSize \in Nat
          /\ dropped \in Nat /\ acked \in Nat /\ saved \in Nat /\ closedAt \in Nat
      BY DEF TypeOK, RowTypes
    <3>2. Len(batch) \in Nat /\ table' \in Seq(Nat)
      BY <2>1, <3>1, ConcatRows, LenRows
    <3>3. batch' \in Seq(Nat) /\ Len(batch') <= BatchSize
      <4>1. batch' = batch \/ batch' = <<>>
        BY <2>1
      <4>2. CASE batch' = <<>>
        <5>1. batch' \in Seq(Nat) /\ Len(batch') = 0
          BY <4>2, EmptyRows
        <5>2. QED
          BY <3>1, <5>1
      <4>3. CASE batch' = batch
        BY <3>1, <4>3
      <4>4. QED
        BY <4>1, <4>2, <4>3
    <3>4. dropped' \in Nat /\ acked' \in Nat
      BY <2>1, <3>1, <3>2
    <3>5. UNCHANGED <<ch, saved, closedAt>>
      BY <2>1
    <3>6. QED
      BY <3>1, <3>2, <3>3, <3>4, <3>5 DEF RowTypes
  <2>3. /\ pc' \in {"sleep", "select", "drain", "exited"} /\ ret' = ret
        /\ attempt' \in 0 .. Attempts
        /\ pc' = "sleep" \/ batch' = <<>>
    BY <1>5 DEF InsertOk, InsertErr, GiveUp, EndFlush, TypeOK, ControlTypes, InFlight
  <2>4. ControlTypes'
    BY <1>5, <2>3 DEF InsertOk, InsertErr, GiveUp, TypeOK, ControlTypes, WorkerPC, closeVars
  <2>5. InFlight'
    BY <2>3, EmptyRows DEF InFlight
  <2>6. QED
    BY <2>2, <2>4, <2>5 DEF TypeOK
<1>6. CASE Close
  <2>1. UNCHANGED <<ch, pc, batch, ret, attempt, ready, flushVars, saved>>
    BY <1>6 DEF Close, CloseCall, CloseFinished, CloseTimeout, PoolClose
  <2>2. closedAt' = closedAt \/ closedAt' = saved
    BY <1>6 DEF Close, CloseCall, CloseFinished, CloseTimeout, PoolClose
  <2>3. RowTypes'
    BY <2>1, <2>2 DEF TypeOK, RowTypes, flushVars
  <2>4. ControlTypes'
    BY <1>6, <2>1 DEF Close, CloseCall, CloseFinished, CloseTimeout, PoolClose, TypeOK, ControlTypes
  <2>5. QED
    BY <2>1, <2>3, <2>4 DEF TypeOK, InFlight
<1>7. CASE Terminated \/ UNCHANGED vars
  BY <1>7 DEF Terminated, vars, TypeOK, RowTypes, ControlTypes, InFlight
<1>8. QED
  BY <1>1, <1>2, <1>3, <1>4, <1>5, <1>6, <1>7 DEF Next, WorkerProgress

\* No step makes the count of alerts disagree with where they are.
LEMMA AccountingStep ==
    ASSUME TypeOK, Accounting, [Next]_vars
    PROVE  Accounting'
<1>1. CASE Save
  <2>1. /\ ch \in Seq(Nat) /\ saved \in Nat /\ dropped \in Nat /\ acked \in Nat
        /\ Len(batch) \in Nat /\ Len(ch) \in Nat
        /\ saved = Len(ch) + Len(batch) + acked + dropped
    BY LenRows DEF TypeOK, RowTypes, Accounting
  <2>2. /\ saved' = saved + 1 /\ batch' = batch /\ acked' = acked
        /\ \/ ch' = ch /\ dropped' = dropped + 1
           \/ ch' = Append(ch, saved + 1) /\ dropped' = dropped
    BY <1>1 DEF Save
  <2>3. QED
    BY <2>1, <2>2, AppendRow DEF Accounting
<1>2. CASE SelectReceive \/ DrainReceive
  <2>1. /\ ch \in Seq(Nat) /\ batch \in Seq(Nat) /\ ch # <<>>
        /\ saved \in Nat /\ dropped \in Nat /\ acked \in Nat
        /\ saved = Len(ch) + Len(batch) + acked + dropped
    BY <1>2 DEF TypeOK, RowTypes, Accounting, SelectReceive, DrainReceive, Receive
  <2>2. /\ batch' = Append(batch, Head(ch)) /\ ch' = Tail(ch)
        /\ UNCHANGED <<saved, dropped, acked>>
    BY <1>2 DEF SelectReceive, DrainReceive, Receive, flushVars
  <2>3. Len(batch') = Len(batch) + 1 /\ Len(ch') = Len(ch) - 1
    BY <2>1, <2>2, TakeRow, AppendRow
  <2>4. QED
    BY <2>1, <2>2, <2>3, LenRows DEF Accounting
<1>3. CASE InsertOk \/ GiveUp
  <2>1. /\ Len(ch) \in Nat /\ Len(batch) \in Nat
        /\ saved \in Nat /\ dropped \in Nat /\ acked \in Nat
        /\ saved = Len(ch) + Len(batch) + acked + dropped
    BY LenRows DEF TypeOK, RowTypes, Accounting
  <2>2. /\ ch' = ch /\ saved' = saved /\ batch' = <<>>
        /\ \/ dropped' = dropped + Len(batch) /\ acked' = acked
           \/ dropped' = dropped /\ acked' = acked + Len(batch)
    BY <1>3 DEF InsertOk, GiveUp, EndFlush
  <2>3. QED
    BY <2>1, <2>2, EmptyRows DEF Accounting
<1>4. CASE \/ Schema \/ SchemaRetry \/ SchemaAbort \/ Retry
          \/ SelectTick \/ SelectDone \/ DrainDefault \/ InsertErr
  BY <1>4 DEF Schema, Ping, RunSchemaStatements, SchemaRetry, SchemaAbort, Retry, Goto,
              SelectTick, SelectDone, DrainDefault, InsertErr, flushVars, Accounting
<1>5. CASE Close \/ Terminated \/ UNCHANGED vars
  BY <1>5 DEF Close, CloseCall, CloseFinished, CloseTimeout, PoolClose, Terminated, vars,
              flushVars, Accounting
<1>6. QED
  BY <1>1, <1>2, <1>3, <1>4, <1>5 DEF Next, WorkerProgress

-----------------------------------------------------------------------------
\* What is left in the channel when the worker leaves came after Close.
LEMMA ExitingStep ==
    ASSUME TypeOK, Exiting, Closing, [Next]_vars
    PROVE  Exiting'
<1>1. CASE Save
  <2>1. UNCHANGED <<pc, ret, ready, done, batch, closedAt>>
    BY <1>1 DEF Save, closeVars
  <2>2. ASSUME LastFlush, ready
        PROVE  \A i \in 1 .. Len(ch') : ch'[i] > closedAt
    <3>1. /\ ch \in Seq(Nat) /\ saved \in Nat /\ closedAt \in Nat /\ closedAt <= saved
          /\ \A i \in 1 .. Len(ch) : ch[i] > closedAt
      BY <2>2 DEF TypeOK, RowTypes, Exiting, Closing
    <3>2. ch' = ch \/ ch' = Append(ch, saved + 1)
      BY <1>1 DEF Save
    <3>3. CASE ch' = ch
      BY <3>1, <3>3
    <3>4. CASE ch' = Append(ch, saved + 1)
      <4>1. Len(ch') = Len(ch) + 1 /\ Len(ch) \in Nat
        BY <3>1, <3>4, AppendRow, LenRows
      <4>2. ch'[Len(ch) + 1] = saved + 1 /\ \A i \in 1 .. Len(ch) : ch'[i] = ch[i]
        BY <3>1, <3>4, AppendRow
      <4>3. TAKE i \in 1 .. Len(ch')
      <4>4. i \in 1 .. Len(ch) \/ i = Len(ch) + 1
        BY <4>1
      <4>5. QED
        BY <3>1, <4>2, <4>4
    <3>5. QED
      BY <3>2, <3>3, <3>4
  <2>3. QED
    BY <2>1, <2>2 DEF Exiting, LastFlush
<1>2. CASE Schema \/ SchemaRetry \/ SchemaAbort
  BY <1>2 DEF Schema, Ping, RunSchemaStatements, SchemaRetry, SchemaAbort, Goto, Exiting,
              LastFlush, closeVars
<1>3. CASE SelectReceive \/ DrainReceive
  <2>1. /\ pc \in {"select", "drain"} /\ UNCHANGED <<ready, done, closedAt>>
        /\ \/ pc' \in {"select", "drain"} /\ pc' = pc
           \/ pc' = "insert" /\ ret' = pc
    BY <1>3 DEF SelectReceive, DrainReceive, Receive, Flush, closeVars
  <2>2. QED
    BY <2>1 DEF Exiting, LastFlush
<1>4. CASE SelectTick
  BY <1>4 DEF SelectTick, Flush, Exiting, LastFlush, closeVars
<1>5. CASE SelectDone
  BY <1>5 DEF SelectDone, Goto, Exiting, LastFlush, closeVars
<1>6. CASE DrainDefault
  <2>1. /\ ch' = <<>> /\ done' /\ ret' = "exited" /\ UNCHANGED <<ready, closedAt, batch>>
        /\ \/ pc' = "insert"
           \/ pc' = "exited" /\ batch = <<>>
    BY <1>6 DEF DrainDefault, Flush, Exiting, closeVars
  <2>2. Len(ch') = 0
    BY <2>1, EmptyRows
  <2>3. QED
    BY <2>1, <2>2 DEF Exiting, LastFlush
<1>7. CASE InsertOk \/ GiveUp
  <2>1. /\ pc \in {"insert", "sleep"} /\ pc' = ret /\ batch' = <<>> 
        /\ UNCHANGED <<ch, ret, ready, done, closedAt>>
    BY <1>7 DEF InsertOk, GiveUp, EndFlush, closeVars
  <2>2. ret \in {"select", "drain", "exited"}
    BY DEF TypeOK, ControlTypes
  <2>3. QED
    BY <2>1, <2>2 DEF Exiting, LastFlush
<1>8. CASE InsertErr \/ Retry
  <2>1. /\ pc \in {"insert", "sleep"} /\ pc' \in {"insert", "sleep"}
        /\ UNCHANGED <<ch, batch, ret, ready, done, closedAt>>
    BY <1>8 DEF InsertErr, Retry, Goto, closeVars
  <2>2. QED
    BY <2>1 DEF Exiting, LastFlush
<1>9. CASE Close
  <2>1. UNCHANGED <<ch, pc, batch, ret, ready>>
    BY <1>9 DEF Close, CloseCall, CloseFinished, CloseTimeout, PoolClose
  <2>2. \/ UNCHANGED <<done, closedAt>>
        \/ ~done /\ done'
    BY <1>9 DEF Close, CloseCall, CloseFinished, CloseTimeout, PoolClose, Closing
  <2>3. QED
    BY <2>1, <2>2 DEF Exiting, LastFlush
<1>10. CASE Terminated \/ UNCHANGED vars
  BY <1>10 DEF Terminated, vars, Exiting, LastFlush
<1>11. QED
  BY <1>1, <1>2, <1>3, <1>4, <1>5, <1>6, <1>7, <1>8, <1>9, <1>10 DEF Next, WorkerProgress

\* Close takes its steps in order, and without a timeout only after the worker.
LEMMA ClosingStep ==
    ASSUME TypeOK, Closing, [Next]_vars
    PROVE  Closing'
<1>1. CASE Save
  BY <1>1 DEF Save, closeVars, Closing, TypeOK, RowTypes
<1>2. CASE Schema \/ WorkerProgress
  <2>1. UNCHANGED <<closeVars, saved>> /\ pc # "exited"
    BY <1>2 DEF Schema, Ping, RunSchemaStatements, WorkerProgress, SchemaRetry, SchemaAbort, Retry,
                Goto, SelectReceive, DrainReceive, Receive, SelectTick, SelectDone, DrainDefault,
                InsertOk, InsertErr, GiveUp
  <2>2. QED
    BY <2>1 DEF Closing, closeVars
<1>3. CASE Close
  BY <1>3 DEF Close, CloseCall, CloseFinished, CloseTimeout, PoolClose, Closing, TypeOK, RowTypes,
              ControlTypes
<1>4. CASE Terminated \/ UNCHANGED vars
  BY <1>4 DEF Terminated, vars, Closing
<1>5. QED
  BY <1>1, <1>2, <1>3, <1>4 DEF Next

\* Rows stay in the batch until the flush is over.
LEMMA FlushingStep ==
    ASSUME TypeOK, Flushing, [Next]_vars
    PROVE  Flushing'
<1>1. CASE SelectReceive \/ DrainReceive
  <2>1. batch \in Seq(Nat) /\ Head(ch) \in Nat /\ batch' = Append(batch, Head(ch))
    BY <1>1, TakeRow DEF TypeOK, RowTypes, SelectReceive, DrainReceive, Receive
  <2>2. batch' # <<>>
    BY <2>1, AppendRow, LenRows, EmptyRows
  <2>3. QED
    BY <2>2 DEF Flushing
<1>2. CASE Schema \/ SchemaRetry \/ SchemaAbort \/ Retry \/ SelectDone
  BY <1>2 DEF Schema, Ping, RunSchemaStatements, SchemaRetry, SchemaAbort, Retry, SelectDone, Goto,
              Flushing
<1>3. CASE SelectTick \/ DrainDefault
  BY <1>3 DEF SelectTick, DrainDefault, Flush, Flushing
<1>4. CASE InsertOk \/ GiveUp
  BY <1>4 DEF InsertOk, GiveUp, EndFlush, Flushing, TypeOK, ControlTypes
<1>5. CASE InsertErr
  BY <1>5 DEF InsertErr, Flushing
<1>6. CASE Save \/ Close \/ Terminated \/ UNCHANGED vars
  BY <1>6 DEF Save, Close, CloseCall, CloseFinished, CloseTimeout, PoolClose, Terminated, vars,
              Flushing
<1>7. QED
  BY <1>1, <1>2, <1>3, <1>4, <1>5, <1>6 DEF Next, WorkerProgress

-----------------------------------------------------------------------------
\* The inductive invariant holds in every reachable state.
THEOREM Invariance == Spec => []IInv
<1>1. Init => IInv
  <2> SUFFICES ASSUME Init PROVE IInv
    OBVIOUS
  <2>1. RowTypes
    <3>1. /\ ch \in Seq(Nat) /\ batch \in Seq(Nat) /\ table \in Seq(Nat)
          /\ Len(ch) = 0 /\ Len(batch) = 0
      BY EmptyRows DEF Init
    <3>2. dropped = 0 /\ saved = 0 /\ acked = 0 /\ closedAt = 0
      BY DEF Init
    <3>3. QED
      BY <3>1, <3>2, StoreAssumption DEF RowTypes
  <2>2. ControlTypes
    <3>1. done \in BOOLEAN /\ ready \in BOOLEAN /\ timedOut \in BOOLEAN /\ poolOpen \in BOOLEAN
      BY Zenon DEF Init
    <3>2. pc = "ping" /\ ret = "select" /\ closer = "open" /\ attempt = 0
      BY DEF Init
    <3>3. QED
      BY <3>1, <3>2, StoreAssumption DEF ControlTypes, WorkerPC
  <2>3. InFlight /\ Accounting
    <3>1. /\ Len(ch) = 0 /\ Len(batch) = 0 /\ pc = "ping"
          /\ dropped = 0 /\ saved = 0 /\ acked = 0
      BY EmptyRows DEF Init
    <3>2. QED
      BY <3>1, StoreAssumption DEF InFlight, Accounting
  <2>4. Exiting /\ Closing /\ Flushing
    BY DEF Init, Exiting, LastFlush, Closing, Flushing
  <2>5. QED
    BY <2>1, <2>2, <2>3, <2>4 DEF IInv, TypeOK
<1>2. IInv /\ [Next]_vars => IInv'
  BY TypeStep, AccountingStep, ExitingStep, ClosingStep, FlushingStep DEF IInv
<1>3. QED
  BY <1>1, <1>2, PTL DEF Spec

\* The store's variables keep their types, and the channel, the batch and the
\* retry counter their limits, for every size of buffer and batch.
THEOREM TypeCorrect == Spec => []TypeOK
BY Invariance, PTL DEF IInv

\* Every alert given to Save is buffered, batched, stored or counted as
\* dropped, for every buffer, batch and retry limit.
THEOREM AlertsAccounted == Spec => []Accounting
BY Invariance, PTL DEF IInv

\* A Close that does not time out leaves nothing behind that was saved before
\* it, once the schema was ready: Store.Close flushes the buffer.
THEOREM CloseDrains == Spec => []DrainComplete
<1>1. IInv => DrainComplete
  <2> SUFFICES ASSUME IInv, ~poolOpen, ready, ~timedOut,
                      NEW r \in Range(ch) \cup Range(batch)
               PROVE  r > closedAt
    BY DEF DrainComplete
  <2>1. pc = "exited"
    BY DEF IInv, Closing
  <2>2. batch = <<>> /\ \A i \in 1 .. Len(ch) : ch[i] > closedAt
    BY <2>1 DEF IInv, Exiting, LastFlush
  <2>3. ch \in Seq(Nat)
    BY DEF IInv, TypeOK, RowTypes
  <2>4. Range(batch) = {}
    BY <2>2 DEF Range
  <2>5. PICK i \in 1 .. Len(ch) : r = ch[i]
    BY <2>3, <2>4 DEF Range
  <2>6. QED
    BY <2>2, <2>5
<1>2. QED
  BY <1>1, Invariance, PTL

\* After Close has returned no step touches the alerts table: an insert or a
\* retry of a worker that outlived the timeout finds the pool closed.
THEOREM ClosedTableIsFinal == Spec => NoWriteAfterClose
<1>1. IInv /\ [Next]_vars => [closer = "closed" => UNCHANGED table]_vars
  <2> SUFFICES ASSUME IInv, Next, closer = "closed" PROVE UNCHANGED table
    OBVIOUS
  <2>1. ~poolOpen
    BY DEF IInv, Closing
  <2>2. CASE WorkerProgress
    BY <2>1, <2>2 DEF WorkerProgress, SchemaRetry, SchemaAbort, SelectReceive, DrainReceive, Receive,
         SelectTick, SelectDone, DrainDefault, InsertOk, InsertErr, Retry, GiveUp, Goto, flushVars
  <2>3. CASE Save \/ Schema \/ Close \/ Terminated
    BY <2>3 DEF Save, Schema, Ping, RunSchemaStatements, Goto, Close, CloseCall, CloseFinished,
         CloseTimeout, PoolClose, Terminated, flushVars, vars
  <2>4. QED
    BY <2>2, <2>3 DEF Next
<1>2. QED
  BY <1>1, Invariance, PTL DEF Spec, NoWriteAfterClose

-----------------------------------------------------------------------------
(* The count of lost alerts.                                               *)

\* The rows of a sequence are no more than its length.
LEMMA RangeBound ==
    ASSUME NEW s \in Seq(Nat)
    PROVE  IsFiniteSet(Range(s)) /\ Cardinality(Range(s)) \in Nat /\ Cardinality(Range(s)) <= Len(s)
<1>1. Len(s) \in Nat /\ DOMAIN s = 1 .. Len(s) /\ s \in [1 .. Len(s) -> Nat]
  OBVIOUS
<1>2. s \in Surjection(1 .. Len(s), Range(s))
  BY <1>1 DEF Surjection, Range
<1>3. IsFiniteSet(1 .. Len(s))
  BY <1>1, FS_Interval
<1>4. IsFiniteSet(Range(s))
  BY <1>2, <1>3, FS_Surjection
<1>5. ExistsSurjection(1 .. Len(s), Range(s))
  BY <1>2 DEF ExistsSurjection
<1> QED BY <1>1, <1>4, <1>5, FS_SurjCardinalityBound, FS_CardinalityType

\* Rows go missing at most by the number by which the counter is raised.
LEMMA MissingGrows ==
    ASSUME NEW M, NEW M1, NEW lost, NEW d \in Nat, NEW d1 \in Nat,
           IsFiniteSet(M), Cardinality(M) <= d, IsFiniteSet(lost), Cardinality(lost) <= d1,
           M1 \subseteq M \cup lost
    PROVE  Cardinality(M1) <= d + d1
<1>1. IsFiniteSet(M \cup lost)
      /\ Cardinality(M \cup lost) = Cardinality(M) + Cardinality(lost) - Cardinality(M \cap lost)
  BY FS_Union
<1>2. IsFiniteSet(M1) /\ Cardinality(M1) <= Cardinality(M \cup lost)
  BY <1>1, FS_Subset
<1>3. Cardinality(M \cap lost) \in Nat /\ Cardinality(M) \in Nat /\ Cardinality(lost) \in Nat
      /\ Cardinality(M1) \in Nat
  BY <1>2, FS_Intersection, FS_CardinalityType
<1> QED BY <1>1, <1>2, <1>3

LEMMA MissingFinite ==
    ASSUME TypeOK
    PROVE  IsFiniteSet(Missing) /\ Cardinality(Missing) \in Nat
<1>1. IsFiniteSet(1 .. saved)
  BY FS_Interval DEF TypeOK, RowTypes
<1>2. Missing \subseteq 1 .. saved
  BY DEF Missing
<1> QED BY <1>1, <1>2, FS_Subset, FS_CardinalityType

\* What the worker's operators do to the rows of a sequence.
LEMMA RangeAppend ==
    ASSUME NEW s \in Seq(Nat), NEW r \in Nat
    PROVE  Range(Append(s, r)) = Range(s) \cup {r}
<1>1. DOMAIN s = 1 .. Len(s) /\ Len(s) \in Nat /\ DOMAIN Append(s, r) = 1 .. Len(s) + 1
      /\ (\A i \in 1 .. Len(s) : Append(s, r)[i] = s[i]) /\ Append(s, r)[Len(s) + 1] = r
  OBVIOUS
<1> QED BY <1>1 DEF Range

LEMMA RangeTake ==
    ASSUME NEW s \in Seq(Nat), s # <<>>
    PROVE  Range(s) = Range(Tail(s)) \cup {Head(s)}
<1>1. DOMAIN s = 1 .. Len(s) /\ Len(s) \in Nat \ {0} /\ DOMAIN Tail(s) = 1 .. Len(s) - 1
      /\ (\A i \in 1 .. Len(s) - 1 : Tail(s)[i] = s[i + 1]) /\ Head(s) = s[1]
  OBVIOUS
<1>2. ASSUME NEW r \in Range(s) PROVE r \in Range(Tail(s)) \cup {Head(s)}
  <2>1. PICK i \in 1 .. Len(s) : r = s[i]
    BY <1>1, <1>2 DEF Range
  <2>2. CASE i = 1
    BY <1>1, <2>1, <2>2
  <2>3. CASE i # 1
    <3>1. i - 1 \in 1 .. Len(s) - 1 /\ (i - 1) + 1 = i
      BY <1>1, <2>3
    <3>2. r = Tail(s)[i - 1]
      BY <1>1, <2>1, <3>1
    <3>3. i - 1 \in DOMAIN Tail(s)
      BY <1>1, <3>1
    <3> QED BY <3>2, <3>3 DEF Range
  <2> QED BY <2>2, <2>3
<1>3. ASSUME NEW r \in Range(Tail(s)) PROVE r \in Range(s)
  <2>1. PICK i \in 1 .. Len(s) - 1 : r = Tail(s)[i]
    BY <1>1, <1>3 DEF Range
  <2>2. i + 1 \in 1 .. Len(s) /\ r = s[i + 1]
    BY <1>1, <2>1
  <2> QED BY <1>1, <2>2 DEF Range
<1>4. Head(s) \in Range(s)
  BY <1>1 DEF Range
<1> QED BY <1>2, <1>3, <1>4

LEMMA RangeConcat ==
    ASSUME NEW s \in Seq(Nat), NEW t \in Seq(Nat)
    PROVE  Range(s \o t) = Range(s) \cup Range(t)
<1>1. /\ DOMAIN s = 1 .. Len(s) /\ DOMAIN t = 1 .. Len(t) /\ Len(s) \in Nat /\ Len(t) \in Nat
      /\ DOMAIN (s \o t) = 1 .. Len(s) + Len(t)
      /\ \A i \in 1 .. Len(s) : (s \o t)[i] = s[i]
      /\ \A i \in Len(s) + 1 .. Len(s) + Len(t) : (s \o t)[i] = t[i - Len(s)]
  OBVIOUS
<1>2. ASSUME NEW i \in 1 .. Len(s) + Len(t) PROVE (s \o t)[i] \in Range(s) \cup Range(t)
  <2>1. CASE i <= Len(s)
    <3>1. i \in 1 .. Len(s)
      BY <2>1, <1>1, <1>2
    <3> QED BY <3>1, <1>1 DEF Range
  <2>2. CASE i > Len(s)
    <3>1. i \in Len(s) + 1 .. Len(s) + Len(t) /\ i - Len(s) \in 1 .. Len(t)
      BY <2>2, <1>1, <1>2
    <3> QED BY <3>1, <1>1 DEF Range
  <2> QED BY <2>1, <2>2, <1>1, <1>2
<1>3. ASSUME NEW i \in 1 .. Len(s) PROVE s[i] \in Range(s \o t)
  <2>1. i \in 1 .. Len(s) + Len(t)
    BY <1>1, <1>3
  <2> QED BY <2>1, <1>1 DEF Range
<1>4. ASSUME NEW i \in 1 .. Len(t) PROVE t[i] \in Range(s \o t)
  <2>1. Len(s) + i \in Len(s) + 1 .. Len(s) + Len(t) /\ (Len(s) + i) - Len(s) = i
        /\ Len(s) + i \in 1 .. Len(s) + Len(t)
    BY <1>1, <1>4
  <2> QED BY <2>1, <1>1 DEF Range
<1> QED BY <1>1, <1>2, <1>3, <1>4 DEF Range

LEMMA DropStep ==
    ASSUME TypeOK, DropCountSound, [Next]_vars
    PROVE  DropCountSound'
<1>1. /\ ch \in Seq(Nat) /\ batch \in Seq(Nat) /\ table \in Seq(Nat) /\ saved \in Nat /\ dropped \in Nat
      /\ IsFiniteSet(Missing) /\ Cardinality(Missing) \in Nat /\ Cardinality(Missing) <= dropped
  BY MissingFinite DEF TypeOK, RowTypes, DropCountSound
<1>2. ASSUME Missing' \subseteq Missing, dropped' = dropped PROVE DropCountSound'
  <2>1. Cardinality(Missing') <= Cardinality(Missing) /\ Cardinality(Missing') \in Nat
    BY <1>1, <1>2, FS_Subset, FS_CardinalityType
  <2> QED BY <2>1, <1>1, <1>2 DEF DropCountSound
<1>3. ASSUME NEW lost, NEW d1 \in Nat, IsFiniteSet(lost), Cardinality(lost) <= d1,
             Missing' \subseteq Missing \cup lost, dropped' = dropped + d1
      PROVE  DropCountSound'
  <2>1. Cardinality(Missing') <= dropped + d1
    BY <1>1, <1>3, MissingGrows
  <2> QED BY <2>1, <1>3 DEF DropCountSound
<1>4. CASE Save
  <2>1. saved' = saved + 1 /\ batch' = batch /\ table' = table
    BY <1>4 DEF Save
  <2>2. CASE ch' = Append(ch, saved + 1) /\ dropped' = dropped
    <3>1. Range(ch') = Range(ch) \cup {saved + 1}
      BY <2>2, <1>1, RangeAppend
    <3>2. Missing' \subseteq Missing
      BY <2>1, <3>1, <1>1 DEF Missing
    <3> QED BY <2>2, <3>2, <1>2
  <2>3. CASE ch' = ch /\ dropped' = dropped + 1
    <3>1. Missing' \subseteq Missing \cup {saved + 1}
      BY <2>1, <2>3, <1>1 DEF Missing
    <3>2. IsFiniteSet({saved + 1}) /\ Cardinality({saved + 1}) = 1
      BY FS_Singleton
    <3>3. Cardinality({saved + 1}) <= 1
      BY <3>2
    <3> QED BY <2>3, <3>1, <3>2, <3>3, <1>3
  <2> QED BY <2>2, <2>3, <1>4 DEF Save
<1>5. CASE SelectReceive \/ DrainReceive
  <2>1. ch # <<>> /\ batch' = Append(batch, Head(ch)) /\ ch' = Tail(ch) /\ UNCHANGED <<saved, table, dropped>>
    BY <1>5 DEF SelectReceive, DrainReceive, Receive, flushVars
  <2>2. Range(batch') = Range(batch) \cup {Head(ch)} /\ Range(ch) = Range(ch') \cup {Head(ch)}
    BY <2>1, <1>1, RangeAppend, RangeTake, TakeRow
  <2>3. Missing' \subseteq Missing
    BY <2>1, <2>2 DEF Missing
  <2> QED BY <2>1, <2>3, <1>2
<1>6. CASE InsertOk
  <2>1. table' = table \o batch /\ batch' = <<>> /\ UNCHANGED <<ch, saved, dropped>>
    BY <1>6 DEF InsertOk, EndFlush
  <2>2. Range(table') = Range(table) \cup Range(batch)
    BY <2>1, <1>1, RangeConcat
  <2>3. Missing' \subseteq Missing
    BY <2>1, <2>2 DEF Missing
  <2> QED BY <2>1, <2>3, <1>2
<1>7. CASE InsertErr
  <2>1. (table' = table \/ table' = table \o batch) /\ UNCHANGED <<ch, batch, saved, dropped>>
    BY <1>7 DEF InsertErr
  <2>2. Range(table) \subseteq Range(table')
    BY <2>1, <1>1, RangeConcat
  <2>3. Missing' \subseteq Missing
    BY <2>1, <2>2 DEF Missing
  <2> QED BY <2>1, <2>3, <1>2
<1>8. CASE GiveUp
  <2>1. batch' = <<>> /\ dropped' = dropped + Len(batch) /\ UNCHANGED <<ch, saved, table>>
    BY <1>8 DEF GiveUp, EndFlush
  <2>2. Missing' \subseteq Missing \cup Range(batch)
    BY <2>1 DEF Missing
  <2>3. Len(batch) \in Nat
    BY <1>1, LenRows
  <2> QED BY <2>1, <2>2, <2>3, <1>1, <1>3, RangeBound
<1>9. CASE UNCHANGED <<ch, batch, table, saved, dropped>>
  BY <1>9 DEF DropCountSound, Missing
<1> QED BY <1>4, <1>5, <1>6, <1>7, <1>8, <1>9
        DEF Next, WorkerProgress, Schema, Ping, RunSchemaStatements, SchemaRetry, SchemaAbort, Retry,
            Goto, SelectTick, SelectDone, DrainDefault, Close, CloseCall, CloseFinished, CloseTimeout,
            PoolClose, Terminated, vars, flushVars

\* Store.dropped never understates the loss: however inserts fail, are retried
\* or commit after their deadline, the rows that reached neither the table nor
\* the buffers are at most as many as were counted.
THEOREM LossNeverUnderstated == Spec => []DropCountSound
<1>1. Init => DropCountSound
  <2>1. ASSUME Init PROVE Missing = {} /\ dropped = 0
    BY <2>1 DEF Init, Missing
  <2> QED BY <2>1, FS_EmptySet DEF DropCountSound
<1>2. TypeOK /\ DropCountSound /\ [Next]_vars => DropCountSound'
  BY DropStep
<1> QED BY TypeCorrect, <1>1, <1>2, PTL DEF Spec

-----------------------------------------------------------------------------
(* Store implements Sink.  The queue of the sink is the batch followed by  *)
(* the channel; what a flush settles is exactly the batch.                 *)

\* Moving the first row of the channel to the end of the batch moves nothing.
LEMMA QueueKept ==
    ASSUME NEW s \in Seq(Nat), NEW t \in Seq(Nat), t # <<>>
    PROVE  Append(s, Head(t)) \o Tail(t) = s \o t
  OBVIOUS

\* The oldest rows of the queue are the batch, and the others the channel.
LEMMA QueueSplit ==
    ASSUME NEW s \in Seq(Nat), NEW t \in Seq(Nat)
    PROVE  /\ SubSeq(s \o t, 1, Len(s)) = s
           /\ SubSeq(s \o t, Len(s) + 1, Len(s \o t)) = t
           /\ Len(s \o t) = Len(s) + Len(t)
  OBVIOUS

\* A row appended to the channel is appended to the queue.
LEMMA QueueAppend ==
    ASSUME NEW s \in Seq(Nat), NEW t \in Seq(Nat), NEW r \in Nat
    PROVE  s \o Append(t, r) = Append(s \o t, r)
  OBVIOUS

\* Every step of the store is a step of the sink or leaves it unchanged.
LEMMA SinkStep ==
    ASSUME IInv, [Next]_vars
    PROVE  [S!Next]_(S!vars)
<1>1. /\ ch \in Seq(Nat) /\ batch \in Seq(Nat) /\ Len(ch) \in Nat /\ Len(batch) \in Nat
      /\ saved \in Nat /\ (closer = "closed" <=> ~poolOpen)
  BY LenRows DEF IInv, TypeOK, RowTypes, Closing
<1>2. CASE Save
  <2>1. /\ UNCHANGED <<batch, table, closer>> /\ saved + 1 \in 1 .. MaxSaves
        /\ \/ ch' = Append(ch, saved + 1) /\ dropped' = dropped
           \/ Len(ch) >= BufferSize /\ ch' = ch /\ dropped' = dropped + 1
    BY <1>1, <1>2, StoreAssumption DEF Save, closeVars
  <2>2. CASE ch' = Append(ch, saved + 1) /\ dropped' = dropped
    <3>1. batch' \o ch' = Append(batch \o ch, saved + 1)
      BY <1>1, <2>1, <2>2, QueueAppend
    <3>2. S!Accept(saved + 1)
      BY <2>1, <2>2, <3>1 DEF S!Accept
    <3>3. QED
      BY <2>1, <3>2 DEF S!Next
  <2>3. CASE Len(ch) >= BufferSize /\ ch' = ch /\ dropped' = dropped + 1
    <3>1. Len(batch \o ch) >= BufferSize
      BY <1>1, <2>3, QueueSplit, StoreAssumption
    <3>2. S!Refuse
      BY <2>1, <2>3, <3>1 DEF S!Refuse
    <3>3. QED
      BY <3>2 DEF S!Next
  <2>4. QED
    BY <2>1, <2>2, <2>3
<1>3. CASE SelectReceive \/ DrainReceive
  <2>1. ch # <<>> /\ batch' = Append(batch, Head(ch)) /\ ch' = Tail(ch)
    BY <1>3 DEF SelectReceive, DrainReceive, Receive
  <2>2. batch' \o ch' = batch \o ch
    BY <1>1, <2>1, QueueKept
  <2>3. UNCHANGED <<table, dropped, closer>>
    BY <1>3 DEF SelectReceive, DrainReceive, Receive, flushVars, closeVars
  <2>4. QED
    BY <2>2, <2>3 DEF S!vars
<1>4. CASE InsertOk \/ InsertErr \/ GiveUp
  <2> DEFINE k == Len(batch)
  <2>1. k \in 1 .. Len(batch \o ch) /\ S!Oldest(k) = batch /\ S!Rest(k) = ch
    <3>1. batch # <<>>
      BY <1>4 DEF IInv, Flushing, InsertOk, InsertErr, GiveUp
    <3>2. Len(batch) \in 1 .. Len(batch \o ch)
      BY <1>1, <3>1, QueueSplit, LenRows
    <3>3. QED
      BY <1>1, <3>2, QueueSplit DEF S!Oldest, S!Rest
  <2>2. ch' = ch /\ closer' = closer /\ (batch' = <<>> => batch' \o ch' = ch)
    BY <1>1, <1>4 DEF InsertOk, InsertErr, GiveUp, closeVars
  <2> HIDE DEF k
  <2>3. CASE InsertOk
    <3>1. S!Deliver(k)
      BY <1>1, <2>1, <2>2, <2>3 DEF InsertOk, EndFlush, S!Deliver
    <3>2. QED
      BY <2>1, <3>1 DEF S!Next
  <2>4. CASE InsertErr
    <3>1. batch' = batch /\ dropped' = dropped /\ (table' = table \/ (poolOpen /\ table' = table \o batch))
      BY <2>4 DEF InsertErr
    <3>2. CASE table' = table
      BY <2>2, <3>1, <3>2 DEF S!vars
    <3>3. CASE poolOpen /\ table' = table \o batch
      <4>1. S!DeliverUnnoticed(k)
        BY <1>1, <2>1, <2>2, <3>1, <3>3 DEF S!DeliverUnnoticed
      <4>2. QED
        BY <2>1, <4>1 DEF S!Next
    <3>4. QED
      BY <3>1, <3>2, <3>3
  <2>5. CASE GiveUp
    <3>1. S!GiveUp(k)
      BY <2>1, <2>2, <2>5 DEF GiveUp, EndFlush, S!GiveUp, k
    <3>2. QED
      BY <2>1, <3>1 DEF S!Next
  <2>6. QED
    BY <1>4, <2>3, <2>4, <2>5
<1>5. CASE PoolClose
  <2>1. S!Close
    BY <1>5 DEF PoolClose, flushVars, S!Close
  <2>2. QED
    BY <2>1 DEF S!Next
<1>6. CASE \/ Schema \/ SchemaRetry \/ SchemaAbort \/ Retry \/ SelectTick \/ SelectDone
          \/ DrainDefault \/ CloseCall \/ CloseFinished \/ CloseTimeout
  <2>1. /\ UNCHANGED <<ch, batch, table, dropped>>
        /\ \/ closer # "closed" /\ closer' # "closed"
           \/ UNCHANGED closer
    BY <1>6 DEF Schema, Ping, RunSchemaStatements, SchemaRetry, SchemaAbort, Retry, Goto, SelectTick,
         SelectDone, DrainDefault, CloseCall, CloseFinished, CloseTimeout, flushVars, closeVars
  <2>2. QED
    BY <2>1 DEF S!vars
<1>7. CASE Terminated \/ UNCHANGED vars
  BY <1>7 DEF Terminated, vars, S!vars
<1>8. QED
  BY <1>2, <1>3, <1>4, <1>5, <1>6, <1>7 DEF Next, WorkerProgress, Close

\* Store implements Sink for every buffer, batch and retry limit: an accepted
\* alert leaves the queue in order, into the table or into the drop count.
THEOREM StoreIsSink == Spec => ImplementsSink
<1>1. Init => S!Init
  <2> SUFFICES ASSUME Init PROVE S!Init
    OBVIOUS
  <2>1. batch \o ch = <<>>
    BY DEF Init
  <2>2. (closer = "closed") = FALSE
    BY DEF Init
  <2>3. QED
    BY <2>1, <2>2 DEF Init, S!Init
<1>2. IInv /\ [Next]_vars => [S!Next]_(S!vars)
  BY SinkStep
<1>3. QED
  BY <1>1, <1>2, Invariance, PTL DEF Spec, ImplementsSink, S!Spec
=============================================================================
