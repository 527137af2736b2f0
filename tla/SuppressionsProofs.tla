------------------------- MODULE SuppressionsProofs -------------------------
(***************************************************************************)
(* Theorems about Suppressions, for every set of rules and any number of   *)
(* handlers.                                                               *)
(*                                                                         *)
(* A reload sets what it listed some time ago, so the step that does is     *)
(* right only if what is in flight was the content of the table (InFlight). *)
(***************************************************************************)
EXTENDS Suppressions, TLAPS

\* The table's present content, and every list a reload is about to set, are in
\* the history of the table.
InFlight ==
    /\ db \in held
    /\ reload \in [Reloader -> {Idle, Listing} \cup [step : {"set"}, set : held]]

\* Nothing is in flight at the start.
LEMMA FlightInit == Init => InFlight
  BY DEF Init, InFlight

\* A commit extends the history and touches at most the reload of its handler.
LEMMA CommitStep ==
    ASSUME InFlight, NEW new, Mutate(new),
           \/ \E h \in Handler : reload' = [reload EXCEPT ![h] = Listing]
           \/ UNCHANGED reload
    PROVE  InFlight'
<1>1. held \subseteq held' /\ db' \in held'
  BY DEF Mutate
<1>2. reload' \in [Reloader -> {Idle, Listing} \cup [step : {"set"}, set : held']]
  BY <1>1 DEF InFlight, Reloader
<1>3. QED
  BY <1>1, <1>2 DEF InFlight

\* Every step keeps what is in flight true, and sets nothing else.
LEMMA FlightStep ==
    ASSUME InFlight, [Next]_vars
    PROVE  InFlight' /\ supp' \in held \cup {supp}
<1>1. CASE TickerReload
  BY <1>1 DEF TickerReload, InFlight, Reloader
<1>2. ASSUME NEW p \in Reloader, List(p) PROVE InFlight' /\ supp' = supp
  <2>1. /\ UNCHANGED <<db, supp, held>>
        /\ \/ reload' = [reload EXCEPT ![p] = [step |-> "set", set |-> db]]
           \/ reload' = [reload EXCEPT ![p] = Idle]
    BY <1>2 DEF List
  <2>2. [step |-> "set", set |-> db] \in [step : {"set"}, set : held]
    BY DEF InFlight
  <2>3. QED
    BY <2>1, <2>2 DEF InFlight
<1>3. ASSUME NEW p \in Reloader, SetSuppressions(p) PROVE InFlight' /\ supp' \in held
  <2>1. /\ UNCHANGED <<db, held>> /\ reload' = [reload EXCEPT ![p] = Idle]
        /\ supp' = reload[p].set /\ reload[p].step = "set"
    BY <1>3 DEF SetSuppressions
  <2>2. reload[p] \in [step : {"set"}, set : held]
    BY <2>1 DEF InFlight, Idle, Listing
  <2>3. QED
    BY <2>1, <2>2 DEF InFlight
<1>4. ASSUME NEW h \in Handler, NEW new, Committed(h, new) PROVE InFlight' /\ supp' = supp
  BY <1>4, CommitStep DEF Committed
<1>5. ASSUME NEW new, OtherInstance(new) PROVE InFlight' /\ supp' = supp
  BY <1>5, CommitStep DEF OtherInstance
<1>6. CASE DbFails \/ DbRecovers \/ UNCHANGED vars
  BY <1>6 DEF DbFails, DbRecovers, vars, InFlight
<1>7. QED
  BY <1>1, <1>2, <1>3, <1>4, <1>5, <1>6 DEF Next, Reload, HandleAdd, HandleDelete, TickerReload

\* Whatever order the ticker and any number of handlers list and set in, and
\* whatever fails in between, a set that comes into force is one that the
\* suppressions table held as a whole.
THEOREM SnapshotsOnly == Spec => OnlySnapshots
<1>1. InFlight /\ [Next]_vars => InFlight' /\ [supp' \in held \cup {supp}]_vars
  BY FlightStep
<1>2. QED
  BY <1>1, FlightInit, PTL DEF Spec, OnlySnapshots
=============================================================================
