---------------------------- MODULE Suppressions ----------------------------
(***************************************************************************)
(* Live suppression rules: the handlers of internal/api/api.go, the        *)
(* suppressions table of internal/storage/query.go, and reloadSuppressions *)
(* and suppressionReloader of main.go.                                     *)
(*                                                                         *)
(* A reload lists the table and then calls SetSuppressions.  It is run by  *)
(* the ticker and, after every mutation, by the HTTP handler itself, each  *)
(* in a goroutine of its own, and nothing orders their two steps.  Other   *)
(* instances of KernelWatch change the same table.                         *)
(***************************************************************************)
EXTENDS Integers, FiniteSets

CONSTANTS
    Rule,          \* suppression rules that the API accepts
    Handler,       \* HTTP handlers that run at the same time
    DbMayFail,     \* whether the database can fail
    OthersWrite,   \* whether other instances change the table
    MaxMutations   \* bound of the model: changes of the table

ASSUME SuppressionsAssumption ==
    /\ "ticker" \notin Handler
    /\ DbMayFail \in BOOLEAN /\ OthersWrite \in BOOLEAN /\ MaxMutations \in Nat

VARIABLES
    db,         \* the suppressions table
    dbUp,       \* the database answers
    supp,       \* Detector.supp
    reload,     \* per goroutine: the reload it is running
    mutations,  \* changes of the table so far
    held        \* history: every content the table has had

vars == <<db, dbUp, supp, reload, mutations, held>>

Reloader == Handler \cup {"ticker"}

Idle == [step |-> "idle", set |-> {}]
Listing == [step |-> "list", set |-> {}]

-----------------------------------------------------------------------------
(* reloadSuppressions.                                                     *)

\* The error of a query that broke off is lost, and the rows so far are used.
ListIgnoresError(p) ==
    /\ reload[p].step = "list"
    /\ \/ dbUp /\ reload' = [reload EXCEPT ![p] = [step |-> "set", set |-> db]]
       \/ /\ ~dbUp
          /\ \E rows \in SUBSET db : reload' = [reload EXCEPT ![p] = [step |-> "set", set |-> rows]]
    /\ UNCHANGED <<db, dbUp, supp, mutations, held>>

\* listSuppressions: the whole table, or an error and no reload.
List(p) ==
    /\ reload[p].step = "list"
    /\ \/ dbUp /\ reload' = [reload EXCEPT ![p] = [step |-> "set", set |-> db]]
       \/ ~dbUp /\ reload' = [reload EXCEPT ![p] = Idle]
    /\ UNCHANGED <<db, dbUp, supp, mutations, held>>

SetSuppressions(p) ==
    /\ reload[p].step = "set"
    /\ supp' = reload[p].set
    /\ reload' = [reload EXCEPT ![p] = Idle]
    /\ UNCHANGED <<db, dbUp, mutations, held>>

\* Reloads only while there is nothing loaded.
TickerReloadFirst ==
    /\ reload["ticker"].step = "idle" /\ supp = {}
    /\ reload' = [reload EXCEPT !["ticker"] = Listing]
    /\ UNCHANGED <<db, dbUp, supp, mutations, held>>

\* suppressionReloader: the ticker fired.
TickerReload ==
    /\ reload["ticker"].step = "idle"
    /\ reload' = [reload EXCEPT !["ticker"] = Listing]
    /\ UNCHANGED <<db, dbUp, supp, mutations, held>>

-----------------------------------------------------------------------------
(* The table.                                                              *)

Mutate(new) ==
    /\ mutations < MaxMutations
    /\ db' = new
    /\ mutations' = mutations + 1
    /\ held' = held \cup {new}

\* The statement committed; unless its answer was lost (500), the handler
\* reloads before it responds.
Committed(h, new) ==
    /\ dbUp
    /\ Mutate(new)
    /\ \/ reload' = [reload EXCEPT ![h] = Listing]
       \/ DbMayFail /\ UNCHANGED reload
    /\ UNCHANGED <<dbUp, supp>>

\* Requests that are refused (400, 404, 503) or fail change nothing.
HandleAdd(h, r) ==
    /\ reload[h].step = "idle"
    /\ r \notin db
    /\ Committed(h, db \cup {r})

HandleDelete(h, r) ==
    /\ reload[h].step = "idle"
    /\ r \in db
    /\ Committed(h, db \ {r})

OtherInstance(new) ==
    /\ OthersWrite /\ dbUp
    /\ new # db
    /\ Mutate(new)
    /\ UNCHANGED <<dbUp, supp, reload>>

DbFails == DbMayFail /\ dbUp /\ dbUp' = FALSE /\ UNCHANGED <<db, supp, reload, mutations, held>>

DbRecovers == ~dbUp /\ dbUp' = TRUE /\ UNCHANGED <<db, supp, reload, mutations, held>>

-----------------------------------------------------------------------------
\* main loads once before it starts the goroutines, as well as it can.
Init ==
    /\ db \in SUBSET Rule
    /\ dbUp = TRUE
    /\ supp \in {db} \cup {s \in {{}} : DbMayFail}
    /\ reload = [p \in Reloader |-> Idle]
    /\ mutations = 0
    /\ held = {db}

Reload(p) == List(p) \/ SetSuppressions(p)

Next ==
    \/ TickerReload
    \/ \E p \in Reloader : Reload(p)
    \/ \E h \in Handler, r \in Rule : HandleAdd(h, r) \/ HandleDelete(h, r)
    \/ \E new \in SUBSET Rule : OtherInstance(new)
    \/ DbFails \/ DbRecovers

Spec == Init /\ [][Next]_vars

\* The ticker fires for ever, and a query ends within its five seconds.
FairSpec == Spec /\ WF_vars(TickerReload) /\ \A p \in Reloader : WF_vars(Reload(p))

-----------------------------------------------------------------------------
(* Properties.                                                             *)

\* "A transient DB error just leaves the previous set in place": a set comes
\* into force only if the table held it as a whole at some time.  No failed or
\* overtaken reload clears the rules or mixes two contents of the table.
OnlySnapshots == [][supp' \in held \cup {supp}]_vars

\* A reload may be overtaken by an older one, but not for good: once the table
\* no longer changes and the database answers, the detector ends up with it.
SuppressionsConverge == <>[]dbUp => <>[](supp = db)
=============================================================================
