---------------------------- MODULE RulesReload ----------------------------
(***************************************************************************)
(* Hot reload of the ruleset: rulesReloader and reloadRules of main.go,    *)
(* Load of internal/ruleengine/loader.go and SetRuleset of the detector.   *)
(*                                                                         *)
(* The reloader reads the operator's files one by one while the operator   *)
(* may be editing them, and swaps the ruleset if the result loads.         *)
(***************************************************************************)
EXTENDS Rules

CONSTANTS
    Default,      \* the embedded file
    Contents,     \* what an overlay file can hold, Broken included
    Broken,       \* a file that cannot be read or parsed
    Files,        \* number of overlay files
    MaxEdits      \* bound of the model: edits by the operator

\* What a file that was parsed looks like (schema.go).
ASSUME RulesReloadAssumption ==
    /\ Load(Default, <<>>).ok
    /\ \A f \in {Default} \cup (Contents \ {Broken}) : IsFile(f)
    /\ Files \in Nat /\ MaxEdits \in Nat

\* default.yaml defines its rules and lists, it extends none.
ASSUME DefaultAssumption ==
    /\ \A i \in DOMAIN Default.rules : ~Default.rules[i].append
    /\ DOMAIN Default.appendLists = {}

VARIABLES
    disk,       \* the overlay files
    edits,      \* how often the operator changed one
    reload,     \* rules reloader: the files read so far, or not running
    eng,        \* Detector.eng, the compiled rules
    builtFrom   \* history: the overlays eng was built from

vars == <<disk, edits, reload, eng, builtFrom>>

FileIndex == 1 .. Files

\* What Load makes of every readable disk, as a table that TLC computes once.
LoadTable == {<<files, Load(Default, files)>> : files \in [FileIndex -> Contents \ {Broken}]}

LoadOf(files) == (CHOOSE entry \in LoadTable : entry[1] = files)[2]

NotRunning == [running |-> FALSE, read |-> <<>>]

\* Takes the first file from the last successful reload.
ReloadStartCached ==
    /\ ~reload.running
    /\ reload' = [running |-> TRUE, read |-> SubSeq(builtFrom, 1, IF builtFrom = <<>> THEN 0 ELSE 1)]
    /\ UNCHANGED <<disk, edits, eng, builtFrom>>

ReloadStart ==
    /\ ~reload.running
    /\ reload' = [running |-> TRUE, read |-> <<>>]
    /\ UNCHANGED <<disk, edits, eng, builtFrom>>

\* The next overlay is read; a broken one ends the reload with an error.
ReloadReadFile ==
    /\ reload.running /\ Len(reload.read) < Files
    /\ LET content == disk[Len(reload.read) + 1]
       IN  reload' = IF content = Broken THEN NotRunning
                     ELSE [reload EXCEPT !.read = Append(@, content)]
    /\ UNCHANGED <<disk, edits, eng, builtFrom>>

\* Compiles what was read; an error leaves the ruleset as it is.
ReloadSwap ==
    /\ reload.running /\ Len(reload.read) = Files
    /\ reload' = NotRunning
    /\ LET new == LoadOf(reload.read)
       IN  IF new.ok THEN eng' = new.rules /\ builtFrom' = reload.read
                     ELSE UNCHANGED <<eng, builtFrom>>
    /\ UNCHANGED <<disk, edits>>

EditFile(i, content) ==
    /\ edits < MaxEdits
    /\ content # disk[i]
    /\ edits' = edits + 1
    /\ disk' = [disk EXCEPT ![i] = content]
    /\ UNCHANGED <<reload, eng, builtFrom>>

-----------------------------------------------------------------------------
(* main starts only with a ruleset that Validate accepted; detector.New    *)
(* loads it again and falls back to the embedded rules if that fails.      *)

LoadDisk(d) ==
    IF \E i \in FileIndex : d[i] = Broken THEN Failed ELSE LoadOf(d)

Init ==
    /\ edits = 0
    /\ disk \in [FileIndex -> Contents]
    /\ builtFrom = IF LoadDisk(disk).ok THEN disk ELSE <<>>
    /\ eng = Load(Default, builtFrom).rules
    /\ reload = NotRunning

Reload == ReloadStart \/ ReloadReadFile \/ ReloadSwap

Next == Reload \/ \E i \in FileIndex, content \in Contents : EditFile(i, content)

Spec == Init /\ [][Next]_vars

\* The reloader is driven by a ticker and only reads local files.
FairSpec == Spec /\ WF_vars(Reload)

-----------------------------------------------------------------------------
(* Properties.                                                             *)

\* What the merge of the overlays should amount to, rule by rule: the last
\* definition of an id counts, with the exceptions and the switch that later
\* append entries added to it.  Likewise for lists and macros, whichever file
\* the rule that uses them is in.
Definitions(id, all) == {i \in DOMAIN all : all[i].id = id /\ (all[i].override \/ ~all[i].append)}

Additions(id, all) ==
    {i \in DOMAIN all : all[i].id = id /\ \A d \in Definitions(id, all) : d < i}

ReferenceExceptions(id, all) ==
    UNION {all[i].exceptions : i \in Additions(id, all) \cup {Max(Definitions(id, all))}}

ReferenceEnabled(id, all) ==
    LET switches == {i \in Additions(id, all) \cup {Max(Definitions(id, all))} :
                        all[i].enabled # "unset"}
    IN  switches = {} \/ all[Max(switches)].enabled = "true"

ReferenceList(l, files) ==
    LET last == Max({i \in DOMAIN files : l \in DOMAIN files[i].lists} \cup {0})
    IN  UNION {(IF i = last THEN files[i].lists[l] ELSE {}) \cup At(files[i].appendLists, l) :
                   i \in {j \in DOMAIN files : j >= last}}

ReferenceMacro(m, files) == files[Max({i \in DOMAIN files : m \in DOMAIN files[i].macros})].macros[m]

ReferenceKinds(c, files) ==
    LET all == {c} \cup {ReferenceMacro(m, files) : m \in c.macros}
    IN  UNION {d.kinds \cup UNION {ReferenceList(l, files) : l \in d.lists} : d \in all}

\* A later definition of an id says so.
NoSilentReplacement(all) ==
    \A id \in Ids(all) : \A i \in Definitions(id, all) :
        i = Min(Definitions(id, all)) \/ all[i].override

\* The active ruleset is what the operator's files say, applied to the managed
\* rules: none is lost, replaced or switched off that no overlay names, a list
\* or macro redefined in any file counts in all rules, and a failed or half-read
\* reload never disarms the detector.
EngineIsReference ==
    LET files == <<Default>> \o builtFrom
        all == FlattenSeq([i \in DOMAIN files |-> files[i].rules])
        armed == {id \in Ids(all) : ReferenceEnabled(id, all)}
    IN  /\ NoSilentReplacement(all)
        /\ Ids(eng) = armed
        /\ \A i \in DOMAIN eng :
              LET def == all[Max(Definitions(eng[i].id, all))]
              IN  /\ eng[i].gate = ReferenceKinds(def.gate, files) /\ eng[i].scope = def.scope
                  /\ eng[i].arms = [a \in DOMAIN def.arms |->
                                       [def.arms[a] EXCEPT !.guard = ReferenceKinds(@, files)]]
                  /\ eng[i].exceptions = ReferenceExceptions(eng[i].id, all)

\* When the operator stops editing, the files take effect without a restart,
\* although a reload may have read a mixture of old and new ones; files that do
\* not load leave the last good ruleset in place.
RulesConverge == <>[](LoadDisk(disk).ok => eng = LoadDisk(disk).rules)
=============================================================================
