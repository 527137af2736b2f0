-------------------------- MODULE RulesReloadProofs -------------------------
(***************************************************************************)
(* The rules in use are what the operator's files say, for every embedded  *)
(* file, every number of overlays and everything they may hold.            *)
(*                                                                         *)
(* The reloader's part is short: eng is always the result of one           *)
(* successful Load (LoadedInv).  That Load means what EngineIsReference    *)
(* says of the files is an induction over the entries of a file and then   *)
(* over the files.  Its invariant, MergedFrom, says that every rule of the *)
(* merge stands for the entries read so far that name it: Stands gives the *)
(* condition, scope and arms of the last definition, the exceptions and    *)
(* the switch with what was appended since.  The lists and macros follow   *)
(* in the same way, file by file (ListsFrom, MacrosFrom), and the compiled *)
(* conditions from these.                                                  *)
(***************************************************************************)
EXTENDS RulesReload, FiniteSetTheorems, SequenceTheorems, WellFoundedInduction, TLAPS

-----------------------------------------------------------------------------
(* Numbers and folds.                                                      *)

\* A set of naturals has a least element.
LEMMA Least ==
    ASSUME NEW T, T \subseteq Nat, T # {}
    PROVE  \E m \in T : \A n \in T : m <= n
<1>1. PICK m \in T : \A y \in T : ~(<<y, m>> \in OpToRel(<, Nat))
  BY WFMin, NatLessThanWellFounded
<1>2. \A y \in T : ~(y < m)
  BY <1>1 DEF OpToRel
<1> QED BY <1>2

\* A set that holds 0 and every successor holds every natural.
LEMMA Induct ==
    ASSUME NEW T, T \subseteq Nat, 0 \in T, \A n \in T : n + 1 \in T
    PROVE  T = Nat
<1> SUFFICES ASSUME NEW a \in Nat, a \notin T PROVE FALSE
  OBVIOUS
<1> DEFINE U == Nat \ T
<1>1. U \subseteq Nat /\ U # {}
  OBVIOUS
<1>2. PICK m \in U : \A n \in U : m <= n
  <2> HIDE DEF U
  <2> QED BY <1>1, Least
<1>3. m # 0 /\ m - 1 \in Nat /\ m - 1 \notin U
  BY <1>2
<1>4. (m - 1) + 1 \in T
  BY <1>3
<1> QED BY <1>2, <1>4

\* The least index of a set of indices ...
LEMMA MinOf ==
    ASSUME NEW n \in Nat, NEW S, S \subseteq 1 .. n, S # {}
    PROVE  Min(S) \in S /\ \A y \in S : Min(S) <= y
<1>1. \E x \in S : \A y \in S : x <= y
  <2>1. S \subseteq Nat
    OBVIOUS
  <2> QED BY <2>1, Least
<1> QED BY <1>1 DEF Min

\* ... and the greatest.
LEMMA MaxOf ==
    ASSUME NEW n \in Nat, NEW S, S \subseteq 0 .. n, S # {}
    PROVE  Max(S) \in S /\ \A y \in S : y <= Max(S)
<1> DEFINE U == {n - x : x \in S}
<1>0. \A x \in S : x \in 0 .. n /\ n - x \in Nat
  <2>1. \A x \in 0 .. n : n - x \in Nat
    OBVIOUS
  <2> QED BY <2>1
<1>1. U \subseteq Nat /\ U # {}
  BY <1>0
<1>2. PICK u \in U : \A v \in U : u <= v
  <2> HIDE DEF U
  <2> QED BY <1>1, Least
<1>3. PICK x \in S : u = n - x
  BY <1>2
<1>4. \A y \in S : x >= y
  <2> TAKE y \in S
  <2>1. n - x <= n - y
    BY <1>2, <1>3
  <2> QED BY <2>1
<1>5. \E z \in S : \A y \in S : z >= y
  BY <1>4
<1>6. Max(S) \in S /\ \A y \in S : Max(S) >= y
  BY <1>5 DEF Max
<1> QED BY <1>6

\* The greatest index is what it is said to be.
LEMMA MaxIs ==
    ASSUME NEW n \in Nat, NEW S, S \subseteq 0 .. n, NEW m \in S, \A y \in S : y <= m
    PROVE  Max(S) = m
<1>1. Max(S) \in S /\ \A y \in S : y <= Max(S)
  BY MaxOf
<1>2. Max(S) \in 0 .. n /\ m \in 0 .. n /\ m <= Max(S) /\ Max(S) <= m
  BY <1>1
<1>3. \A x, y \in 0 .. n : x <= y /\ y <= x => x = y
  OBVIOUS
<1> QED BY <1>2, <1>3

\* The three operators that Load folds over a sequence.
Applied(op, acc, x) ==
    CASE op = "rule" -> mergeRule(acc, x)
      [] op = "file" -> mergeOver(acc, x)
      [] OTHER -> skipDisabled(acc, x)

\* g solves the recursion behind FoldLeft for the first n elements of s.
Folds(op, g, base, s, n) ==
    g = [T \in SUBSET (1 .. n) |->
            IF T = {} THEN base ELSE Applied(op, g[T \ {Max(T)}], s[Max(T)])]

\* The recursion has a solution, whichever of the three is folded.
LEMMA FoldExists ==
    ASSUME NEW op, NEW base, NEW s, NEW n \in Nat
    PROVE  \E g : Folds(op, g, base, s, n)
<1> DEFINE N == {k \in Nat : \E g : Folds(op, g, base, s, k)}
<1>1. 0 \in N
  <2> DEFINE g == [T \in {{}} |-> base]
  <2>1. SUBSET (1 .. 0) = {{}}
    OBVIOUS
  <2>2. Folds(op, g, base, s, 0)
    BY <2>1 DEF Folds
  <2> QED BY <2>2
<1>2. \A k \in N : k + 1 \in N
  <2> SUFFICES ASSUME NEW k \in N PROVE \E h : Folds(op, h, base, s, k + 1)
    OBVIOUS
  <2>1. PICK g : Folds(op, g, base, s, k)
    OBVIOUS
  <2> DEFINE h == [T \in SUBSET (1 .. k + 1) |->
                      IF k + 1 \in T THEN Applied(op, g[T \ {k + 1}], s[k + 1]) ELSE g[T]]
  <2>2. k \in Nat
    OBVIOUS
  <2>3. \A T \in SUBSET (1 .. k) : h[T] = g[T]
    <3> TAKE T \in SUBSET (1 .. k)
    <3>1. T \in SUBSET (1 .. k + 1) /\ k + 1 \notin T
      BY <2>2
    <3> QED BY <3>1
  <2>4. \A T \in SUBSET (1 .. k) :
           g[T] = IF T = {} THEN base ELSE Applied(op, g[T \ {Max(T)}], s[Max(T)])
    BY <2>1 DEF Folds
  <2>5. ASSUME NEW T \in SUBSET (1 .. k + 1)
        PROVE  h[T] = IF T = {} THEN base ELSE Applied(op, h[T \ {Max(T)}], s[Max(T)])
    <3>1. CASE k + 1 \in T
      <4>1. Max(T) = k + 1
        <5>1. T \subseteq 0 .. k + 1 /\ (k + 1) \in Nat /\ \A y \in T : y <= k + 1
          BY <2>2
        <5> QED BY <5>1, <3>1, MaxIs
      <4>2. T \ {k + 1} \in SUBSET (1 .. k)
        BY <2>2
      <4>3. h[T \ {k + 1}] = g[T \ {k + 1}]
        BY <4>2, <2>3
      <4>4. h[T] = Applied(op, g[T \ {k + 1}], s[k + 1])
        BY <3>1
      <4> HIDE DEF h
      <4> QED BY <4>1, <4>3, <4>4, <3>1
    <3>2. CASE k + 1 \notin T
      <4>1. T \in SUBSET (1 .. k) /\ T \ {Max(T)} \in SUBSET (1 .. k)
        <5>1. \A x \in 1 .. k + 1 : x # k + 1 => x \in 1 .. k
          BY <2>2
        <5> QED BY <5>1, <3>2
      <4>2. h[T] = g[T] /\ h[T \ {Max(T)}] = g[T \ {Max(T)}]
        BY <4>1, <2>3
      <4> HIDE DEF h
      <4> QED BY <4>1, <4>2, <2>4
    <3> QED BY <3>1, <3>2
  <2>6. h = [T \in SUBSET (1 .. k + 1) |-> h[T]]
    OBVIOUS
  <2>7. Folds(op, h, base, s, k + 1)
    <3> HIDE DEF h
    <3> QED BY <2>5, <2>6 DEF Folds
  <2> QED BY <2>7
<1>3. N = Nat
  <2> HIDE DEF N
  <2>1. N \subseteq Nat
    BY DEF N
  <2> QED BY <2>1, <1>1, <1>2, Induct
<1> QED BY <1>3

\* a is the accumulator of the loop, after each element.
Trace(op, a, base, s, n) ==
    /\ a[0] = base
    /\ \A k \in 0 .. n - 1 : a[k + 1] = Applied(op, a[k], s[k + 1])

\* A solution goes through the sequence from left to right.
LEMMA FoldTrace ==
    ASSUME NEW op, NEW g, NEW base, NEW s, NEW n \in Nat, Folds(op, g, base, s, n)
    PROVE  \E a : Trace(op, a, base, s, n) /\ g[1 .. n] = a[n]
<1> DEFINE a == [k \in 0 .. n |-> g[1 .. k]]
<1>1. \A T \in SUBSET (1 .. n) :
         g[T] = IF T = {} THEN base ELSE Applied(op, g[T \ {Max(T)}], s[Max(T)])
  BY DEF Folds
<1>2. a[0] = base
  <2>1. 1 .. 0 = {} /\ 1 .. 0 \in SUBSET (1 .. n)
    OBVIOUS
  <2>2. g[1 .. 0] = base
    BY <2>1, <1>1
  <2> QED BY <2>2
<1>3. ASSUME NEW k \in 0 .. n - 1 PROVE a[k + 1] = Applied(op, a[k], s[k + 1])
  <2> DEFINE T == 1 .. k + 1
  <2>1. /\ T \in SUBSET (1 .. n) /\ T \subseteq 0 .. n
        /\ k + 1 \in T /\ \A y \in T : y <= k + 1
    <3>1. \A x \in 1 .. k + 1 : x \in 1 .. n /\ x \in 0 .. n /\ x <= k + 1
      OBVIOUS
    <3> QED BY <3>1
  <2>2. T \ {k + 1} = 1 .. k
    OBVIOUS
  <2>3. a[k + 1] = g[T] /\ a[k] = g[1 .. k]
    OBVIOUS
  <2> HIDE DEF T, a
  <2>4. Max(T) = k + 1
    BY <2>1, MaxIs
  <2> QED BY <2>1, <2>2, <2>3, <2>4, <1>1
<1>4. g[1 .. n] = a[n]
  OBVIOUS
<1> HIDE DEF a
<1> QED BY <1>2, <1>3, <1>4 DEF Trace

\* FoldLeft of each of the three is such a loop.
LEMMA FoldOfRules ==
    ASSUME NEW base, NEW s, NEW n \in Nat, DOMAIN s = 1 .. n
    PROVE  \E a : Trace("rule", a, base, s, n) /\ FoldLeft(mergeRule, base, s) = a[n]
<1> DEFINE P(g) == g = [T \in SUBSET (DOMAIN s) |->
                          IF T = {} THEN base ELSE mergeRule(g[T \ {Max(T)}], s[Max(T)])]
<1> DEFINE c == CHOOSE g : P(g)
<1>1. \A g : Folds("rule", g, base, s, n) <=> P(g)
  BY DEF Folds, Applied
<1>2. P(c)
  <2>1. \E g : P(g)
    BY <1>1, FoldExists
  <2> HIDE DEF P
  <2> QED BY <2>1
<1>3. FoldLeft(mergeRule, base, s) = c[DOMAIN s]
  BY DEF FoldLeft, MapThenFoldSet
<1>4. Folds("rule", c, base, s, n)
  <2> HIDE DEF P, c
  <2> QED BY <1>1, <1>2
<1> HIDE DEF c
<1> QED BY <1>3, <1>4, FoldTrace

LEMMA FoldOfFiles ==
    ASSUME NEW base, NEW s, NEW n \in Nat, DOMAIN s = 1 .. n
    PROVE  \E a : Trace("file", a, base, s, n) /\ FoldLeft(mergeOver, base, s) = a[n]
<1> DEFINE P(g) == g = [T \in SUBSET (DOMAIN s) |->
                          IF T = {} THEN base ELSE mergeOver(g[T \ {Max(T)}], s[Max(T)])]
<1> DEFINE c == CHOOSE g : P(g)
<1>1. \A g : Folds("file", g, base, s, n) <=> P(g)
  BY DEF Folds, Applied
<1>2. P(c)
  <2>1. \E g : P(g)
    BY <1>1, FoldExists
  <2> HIDE DEF P
  <2> QED BY <2>1
<1>3. FoldLeft(mergeOver, base, s) = c[DOMAIN s]
  BY DEF FoldLeft, MapThenFoldSet
<1>4. Folds("file", c, base, s, n)
  <2> HIDE DEF P, c
  <2> QED BY <1>1, <1>2
<1> HIDE DEF c
<1> QED BY <1>3, <1>4, FoldTrace

LEMMA FoldOfSkips ==
    ASSUME NEW base, NEW s, NEW n \in Nat, DOMAIN s = 1 .. n
    PROVE  \E a : Trace("skip", a, base, s, n) /\ FoldLeft(skipDisabled, base, s) = a[n]
<1> DEFINE P(g) == g = [T \in SUBSET (DOMAIN s) |->
                          IF T = {} THEN base ELSE skipDisabled(g[T \ {Max(T)}], s[Max(T)])]
<1> DEFINE c == CHOOSE g : P(g)
<1>1. \A g : Folds("skip", g, base, s, n) <=> P(g)
  BY DEF Folds, Applied
<1>2. P(c)
  <2>1. \E g : P(g)
    BY <1>1, FoldExists
  <2> HIDE DEF P
  <2> QED BY <2>1
<1>3. FoldLeft(skipDisabled, base, s) = c[DOMAIN s]
  BY DEF FoldLeft, MapThenFoldSet
<1>4. Folds("skip", c, base, s, n)
  <2> HIDE DEF P, c
  <2> QED BY <1>1, <1>2
<1> HIDE DEF c
<1> QED BY <1>3, <1>4, FoldTrace

-----------------------------------------------------------------------------
(* One entry merged.  The merge so far stands for the entries read so far. *)

IsSequence(s) == \E S : s \in Seq(S)

Defines(r) == r.override \/ ~r.append

\* The definition of an id that counts, and the entries that may switch it.
Latest(id, all) == Max(Definitions(id, all))

Switches(id, all) ==
    {i \in Additions(id, all) \cup {Latest(id, all)} : all[i].enabled # "unset"}

Switch(id, all) ==
    IF Switches(id, all) = {} THEN "unset" ELSE all[Max(Switches(id, all))].enabled

\* r is the rule that the entries make of its id.
Stands(r, all) ==
    /\ IsRule(r)
    /\ r.gate = all[Latest(r.id, all)].gate
    /\ r.scope = all[Latest(r.id, all)].scope
    /\ r.arms = all[Latest(r.id, all)].arms
    /\ r.exceptions = ReferenceExceptions(r.id, all)
    /\ r.enabled = Switch(r.id, all)

Entries(all) ==
    /\ IsSequence(all)
    /\ \A i \in DOMAIN all : IsRule(all[i])
    /\ \A id \in Ids(all) : Definitions(id, all) # {}

Distinct(rules) == \A i, j \in DOMAIN rules : rules[i].id = rules[j].id => i = j

MergedFrom(rules, all) ==
    /\ Entries(all) /\ NoSilentReplacement(all)
    /\ IsSequence(rules) /\ Distinct(rules) /\ Ids(rules) = Ids(all)
    /\ \A i \in DOMAIN rules : Stands(rules[i], all)

\* Appending to a sequence leaves what was there.
LEMMA AppendOf ==
    ASSUME NEW s, IsSequence(s), NEW x
    PROVE  /\ IsSequence(Append(s, x))
           /\ Len(s) \in Nat /\ Len(Append(s, x)) = Len(s) + 1
           /\ DOMAIN s = 1 .. Len(s) /\ DOMAIN Append(s, x) = 1 .. Len(s) + 1
           /\ \A i \in 1 .. Len(s) : Append(s, x)[i] = s[i]
           /\ Append(s, x)[Len(s) + 1] = x
<1>1. PICK S : s \in Seq(S)
  BY DEF IsSequence
<1> DEFINE T == S \cup {x}
<1>2. s \in Seq(T) /\ x \in T
  BY <1>1
<1>3. Append(s, x) \in Seq(T)
  BY <1>2
<1>4. IsSequence(Append(s, x))
  BY <1>3 DEF IsSequence
<1> HIDE DEF T
<1> QED BY <1>2, <1>3, <1>4

\* Replacing an element leaves the others.
LEMMA ReplaceOf ==
    ASSUME NEW s, IsSequence(s), NEW i \in DOMAIN s, NEW x
    PROVE  /\ IsSequence([s EXCEPT ![i] = x])
           /\ DOMAIN [s EXCEPT ![i] = x] = DOMAIN s
           /\ \A j \in DOMAIN s : [s EXCEPT ![i] = x][j] = IF j = i THEN x ELSE s[j]
<1>1. PICK S : s \in Seq(S)
  BY DEF IsSequence
<1> DEFINE T == S \cup {x}
<1>2. s \in Seq(T) /\ x \in T
  BY <1>1
<1>3. [s EXCEPT ![i] = x] \in Seq(T)
  BY <1>2
<1>4. IsSequence([s EXCEPT ![i] = x])
  BY <1>3 DEF IsSequence
<1> QED BY <1>4, <1>2

\* Where a rule is found, and when none is.
LEMMA IdxOf ==
    ASSUME NEW rules, IsSequence(rules), NEW id
    PROVE  \/ idx(rules, id) = 0 /\ id \notin Ids(rules)
           \/ /\ idx(rules, id) \in DOMAIN rules /\ idx(rules, id) # 0
              /\ rules[idx(rules, id)].id = id /\ id \in Ids(rules)
<1> DEFINE I == {i \in 1 .. Len(rules) : rules[i].id = id}
<1>1. idx(rules, id) = IF I # {} THEN Max(I) ELSE 0
  BY DEF idx, SelectLastInSeq
<1>2. Len(rules) \in Nat /\ DOMAIN rules = 1 .. Len(rules)
  BY AppendOf
<1>3. I \subseteq 0 .. Len(rules)
  BY <1>2
<1>4. CASE I # {}
  <2>1. Max(I) \in I
    <3> HIDE DEF I
    <3> QED BY <1>2, <1>3, <1>4, MaxOf
  <2>2. idx(rules, id) \in 1 .. Len(rules) /\ rules[idx(rules, id)].id = id
    BY <2>1, <1>1, <1>4
  <2>3. idx(rules, id) # 0
    BY <2>2, <1>2
  <2> QED BY <2>2, <2>3, <1>2 DEF Ids
<1>5. CASE I = {}
  <2>1. id \notin Ids(rules)
    BY <1>2, <1>5 DEF Ids
  <2> QED BY <2>1, <1>1, <1>5
<1> QED BY <1>4, <1>5

\* What an entry does to the definitions and additions of each id.
LEMMA DefinitionsAppend ==
    ASSUME NEW all, IsSequence(all), NEW r, NEW id
    PROVE  Definitions(id, Append(all, r)) =
              Definitions(id, all) \cup (IF r.id = id /\ Defines(r) THEN {Len(all) + 1} ELSE {})
<1> DEFINE t == Append(all, r)
<1>1. /\ Len(all) \in Nat /\ DOMAIN all = 1 .. Len(all) /\ DOMAIN t = 1 .. Len(all) + 1
      /\ (\A i \in 1 .. Len(all) : t[i] = all[i]) /\ t[Len(all) + 1] = r
  BY AppendOf
<1> HIDE DEF t
<1>2. \A i : i \in 1 .. Len(all) + 1 <=> i \in 1 .. Len(all) \/ i = Len(all) + 1
  BY <1>1
<1>3. Definitions(id, t) =
         Definitions(id, all) \cup (IF r.id = id /\ Defines(r) THEN {Len(all) + 1} ELSE {})
  BY <1>1, <1>2 DEF Definitions, Defines
<1> QED BY <1>3 DEF t

\* Where the definitions and additions of an id are.
LEMMA DefinitionsIn ==
    ASSUME NEW all, IsSequence(all), NEW id
    PROVE  /\ Len(all) \in Nat /\ DOMAIN all = 1 .. Len(all)
           /\ Definitions(id, all) \subseteq 1 .. Len(all)
           /\ Additions(id, all) \subseteq 1 .. Len(all)
           /\ Definitions(id, all) # {} => Latest(id, all) \in Definitions(id, all)
           /\ \A d \in Definitions(id, all) : d <= Latest(id, all)
<1>1. Len(all) \in Nat /\ DOMAIN all = 1 .. Len(all)
  BY AppendOf
<1>2. Definitions(id, all) \subseteq 1 .. Len(all) /\ Additions(id, all) \subseteq 1 .. Len(all)
  BY <1>1 DEF Definitions, Additions
<1>3. Definitions(id, all) \subseteq 0 .. Len(all)
  BY <1>1, <1>2
<1>4. ASSUME Definitions(id, all) # {}
      PROVE  Latest(id, all) \in Definitions(id, all) /\ \A d \in Definitions(id, all) : d <= Latest(id, all)
  BY <1>1, <1>3, <1>4, MaxOf DEF Latest
<1> QED BY <1>1, <1>2, <1>4

\* A definition makes what was appended before it void.
LEMMA AdditionsAppend ==
    ASSUME NEW all, IsSequence(all), NEW r, NEW id
    PROVE  Additions(id, Append(all, r)) =
              IF r.id # id THEN Additions(id, all)
              ELSE IF Defines(r) THEN {} ELSE Additions(id, all) \cup {Len(all) + 1}
<1> DEFINE t == Append(all, r)
<1> DEFINE n == Len(all) + 1
<1>1. /\ Len(all) \in Nat /\ DOMAIN all = 1 .. Len(all) /\ DOMAIN t = 1 .. n
      /\ (\A i \in 1 .. Len(all) : t[i] = all[i]) /\ t[n] = r
  BY AppendOf
<1>2. Definitions(id, all) \subseteq 1 .. Len(all)
  BY DefinitionsIn
<1>3. Definitions(id, t) = Definitions(id, all) \cup (IF r.id = id /\ Defines(r) THEN {n} ELSE {})
  BY DefinitionsAppend
<1> HIDE DEF t
<1>4. /\ \A i : i \in 1 .. n <=> i \in 1 .. Len(all) \/ i = n
      /\ \A i \in 1 .. Len(all) : i < n /\ ~(n < i) /\ i \in Nat
      /\ ~(n < n) /\ n \notin 1 .. Len(all)
  BY <1>1
<1> HIDE DEF n
<1>5. Additions(id, t) = {i \in 1 .. n : t[i].id = id /\ \A d \in Definitions(id, t) : d < i}
  BY <1>1 DEF Additions
<1>6. Additions(id, all) = {i \in 1 .. Len(all) : all[i].id = id /\ \A d \in Definitions(id, all) : d < i}
  BY <1>1 DEF Additions
<1>7. CASE r.id # id
  BY <1>1, <1>3, <1>4, <1>5, <1>6, <1>7 DEF t
<1>8. CASE r.id = id /\ Defines(r)
  <2>1. n \in Definitions(id, t)
    BY <1>3, <1>8
  <2>2. Additions(id, t) = {}
    BY <2>1, <1>4, <1>5
  <2> QED BY <2>2, <1>8 DEF t
<1>9. CASE r.id = id /\ ~Defines(r)
  <2>1. Definitions(id, t) = Definitions(id, all)
    BY <1>3, <1>9
  <2>2. \A i \in 1 .. Len(all) : i \in Additions(id, t) <=> i \in Additions(id, all)
    BY <2>1, <1>1, <1>4, <1>5, <1>6
  <2>3. n \in Additions(id, t)
    BY <2>1, <1>1, <1>2, <1>4, <1>5, <1>9
  <2>4. Additions(id, t) = Additions(id, all) \cup {n}
    BY <2>2, <2>3, <1>4, <1>5, <1>6
  <2> QED BY <2>4, <1>9 DEF t, n
<1> QED BY <1>7, <1>8, <1>9

\* The merged rule of an id depends only on the entries with that id.
LEMMA StandsOther ==
    ASSUME NEW all, IsSequence(all), NEW r, NEW x, x.id # r.id, Definitions(x.id, all) # {}, Stands(x, all)
    PROVE  Stands(x, Append(all, r))
<1> DEFINE t == Append(all, r)
<1> DEFINE id == x.id
<1>1. Definitions(id, t) = Definitions(id, all)
  <2>1. Definitions(id, t) = Definitions(id, all) \cup {}
    BY DefinitionsAppend
  <2> QED BY <2>1
<1>2. Additions(id, t) = Additions(id, all)
  BY AdditionsAppend
<1>3. Latest(id, t) = Latest(id, all)
  BY <1>1 DEF Latest
<1>4. \A i \in 1 .. Len(all) : t[i] = all[i]
  BY AppendOf
<1>5. Latest(id, all) \in 1 .. Len(all) /\ Additions(id, all) \subseteq 1 .. Len(all)
  BY DefinitionsIn
<1> HIDE DEF t, id
<1>6. \A i \in Additions(id, all) \cup {Latest(id, all)} : t[i] = all[i]
  BY <1>4, <1>5
<1>7. Switches(id, t) = Switches(id, all)
  BY <1>2, <1>3, <1>6 DEF Switches
<1>8. Switch(id, t) = Switch(id, all)
  <2>1. CASE Switches(id, all) = {}
    BY <2>1, <1>7 DEF Switch
  <2>2. CASE Switches(id, all) # {}
    <3>1. Switches(id, all) \subseteq Additions(id, all) \cup {Latest(id, all)}
      BY DEF Switches
    <3>2. Len(all) \in Nat /\ Switches(id, all) \subseteq 0 .. Len(all)
      BY <3>1, <1>5, DefinitionsIn
    <3>3. Max(Switches(id, all)) \in Switches(id, all)
      BY <3>2, <2>2, MaxOf
    <3> QED BY <3>1, <3>3, <2>2, <1>6, <1>7 DEF Switch
  <2> QED BY <2>1, <2>2
<1>9. ReferenceExceptions(id, t) = ReferenceExceptions(id, all)
  <2>1. Additions(id, t) \cup {Max(Definitions(id, t))} = Additions(id, all) \cup {Max(Definitions(id, all))}
    BY <1>1, <1>2
  <2>2. \A i \in Additions(id, all) \cup {Max(Definitions(id, all))} : t[i].exceptions = all[i].exceptions
    BY <1>6 DEF Latest
  <2> QED BY <2>1, <2>2 DEF ReferenceExceptions
<1>10. t[Latest(id, t)] = all[Latest(id, all)]
  BY <1>3, <1>6
<1>11. Stands(x, t)
  BY <1>8, <1>9, <1>10 DEF Stands, id
<1> QED BY <1>11 DEF t

\* A definition stands for itself, whatever was there before.
LEMMA StandsDefined ==
    ASSUME NEW all, IsSequence(all), NEW r, IsRule(r), Defines(r)
    PROVE  Stands(r, Append(all, r))
<1> DEFINE t == Append(all, r)
<1> DEFINE id == r.id
<1> DEFINE n == Len(all) + 1
<1>1. Definitions(id, t) = Definitions(id, all) \cup {n}
  BY DefinitionsAppend
<1>2. Additions(id, t) = {}
  BY AdditionsAppend
<1>3. Len(all) \in Nat /\ t[n] = r
  BY AppendOf
<1>4. Definitions(id, all) \subseteq 1 .. Len(all)
  BY DefinitionsIn
<1>5. Max(Definitions(id, t)) = n
  <2>1. /\ Definitions(id, t) \subseteq 0 .. n /\ n \in Nat
        /\ n \in Definitions(id, t) /\ \A y \in Definitions(id, t) : y <= n
    BY <1>1, <1>3, <1>4
  <2> HIDE DEF n, t
  <2> QED BY <2>1, MaxIs
<1> HIDE DEF t, id, n
<1>6. Latest(id, t) = n
  BY <1>5 DEF Latest
<1>7. ReferenceExceptions(id, t) = r.exceptions
  BY <1>2, <1>3, <1>5 DEF ReferenceExceptions
<1>8. Switch(id, t) = r.enabled
  <2>1. Switches(id, t) = IF r.enabled # "unset" THEN {n} ELSE {}
    BY <1>2, <1>3, <1>6 DEF Switches
  <2>2. CASE r.enabled = "unset"
    BY <2>1, <2>2 DEF Switch
  <2>3. CASE r.enabled # "unset"
    <3>1. Max({n}) = n
      BY DEF Max, n
    <3> QED BY <3>1, <2>1, <2>3, <1>3 DEF Switch
  <2> QED BY <2>2, <2>3
<1>9. Stands(r, t)
  BY <1>3, <1>6, <1>7, <1>8 DEF Stands, id
<1> QED BY <1>9 DEF t

\* AppendedTo changes the exceptions and the switch, and nothing else.
LEMMA AppendedToIs ==
    ASSUME NEW x, IsRule(x), NEW r, IsRule(r)
    PROVE  /\ IsRule(AppendedTo(x, r)) /\ AppendedTo(x, r).id = x.id
           /\ AppendedTo(x, r).gate = x.gate /\ AppendedTo(x, r).scope = x.scope
           /\ AppendedTo(x, r).arms = x.arms
           /\ AppendedTo(x, r).exceptions = x.exceptions \cup r.exceptions
           /\ AppendedTo(x, r).enabled = IF r.enabled = "unset" THEN x.enabled ELSE r.enabled
<1> DEFINE on == IF r.enabled = "unset" THEN x.enabled ELSE r.enabled
<1>1. x.enabled \in {"unset", "true", "false"} /\ on \in {"unset", "true", "false"}
  BY DEF IsRule
<1>2. AppendedTo(x, r) =
         [id |-> x.id, override |-> x.override, append |-> x.append, enabled |-> on,
          scope |-> x.scope, gate |-> x.gate, arms |-> x.arms,
          exceptions |-> x.exceptions \cup r.exceptions, compiles |-> x.compiles]
  <2>1. x = [id |-> x.id, override |-> x.override, append |-> x.append, enabled |-> x.enabled,
             scope |-> x.scope, gate |-> x.gate, arms |-> x.arms, exceptions |-> x.exceptions,
             compiles |-> x.compiles]
    BY DEF IsRule
  <2>2. AppendedTo(x, r) = [[x EXCEPT !.exceptions = x.exceptions \cup r.exceptions] EXCEPT !.enabled = on]
    BY <2>1 DEF AppendedTo
  <2> HIDE DEF on
  <2> QED BY <2>1, <2>2
<1> HIDE DEF on
<1>3. IsRule(AppendedTo(x, r))
  BY <1>1, <1>2 DEF IsRule
<1> QED BY <1>2, <1>3 DEF on

\* An addition to a rule that stands for the entries before it.
LEMMA StandsAppended ==
    ASSUME NEW all, IsSequence(all), NEW r, IsRule(r), ~Defines(r),
           NEW x, x.id = r.id, Definitions(r.id, all) # {}, Stands(x, all)
    PROVE  Stands(AppendedTo(x, r), Append(all, r))
<1> DEFINE t == Append(all, r)
<1> DEFINE id == r.id
<1> DEFINE n == Len(all) + 1
<1> DEFINE y == AppendedTo(x, r)
<1>0. IsRule(x)
  BY DEF Stands
<1>1. Definitions(id, t) = Definitions(id, all)
  <2>1. Definitions(id, t) = Definitions(id, all) \cup {}
    BY DefinitionsAppend
  <2> QED BY <2>1
<1>2. Additions(id, t) = Additions(id, all) \cup {n}
  BY AdditionsAppend
<1>3. Len(all) \in Nat /\ t[n] = r /\ \A i \in 1 .. Len(all) : t[i] = all[i]
  BY AppendOf
<1>4. Latest(id, all) \in 1 .. Len(all) /\ Additions(id, all) \subseteq 1 .. Len(all)
  BY DefinitionsIn
<1>5. Latest(id, t) = Latest(id, all)
  BY <1>1 DEF Latest
<1>6. n \notin 1 .. Len(all) /\ n \in Nat /\ \A i \in 1 .. Len(all) : i <= n
  BY <1>3
<1>7. /\ IsRule(y) /\ y.id = x.id /\ y.gate = x.gate /\ y.scope = x.scope /\ y.arms = x.arms
      /\ y.exceptions = x.exceptions \cup r.exceptions
      /\ y.enabled = IF r.enabled = "unset" THEN x.enabled ELSE r.enabled
  BY <1>0, AppendedToIs
<1> HIDE DEF t, id, n, y
<1>8. \A i \in Additions(id, all) \cup {Latest(id, all)} : t[i] = all[i]
  BY <1>3, <1>4
<1>9. ReferenceExceptions(id, t) = ReferenceExceptions(id, all) \cup r.exceptions
  <2>1. Additions(id, t) \cup {Max(Definitions(id, t))}
           = (Additions(id, all) \cup {Max(Definitions(id, all))}) \cup {n}
    BY <1>1, <1>2
  <2>2. \A i \in Additions(id, all) \cup {Max(Definitions(id, all))} : t[i].exceptions = all[i].exceptions
    BY <1>8 DEF Latest
  <2> DEFINE A == Additions(id, all) \cup {Max(Definitions(id, all))}
  <2>3. ReferenceExceptions(id, t) = UNION {t[i].exceptions : i \in A \cup {n}}
    BY <2>1 DEF ReferenceExceptions
  <2>4. ReferenceExceptions(id, all) = UNION {all[i].exceptions : i \in A}
    BY DEF ReferenceExceptions
  <2> HIDE DEF A
  <2>5. UNION {t[i].exceptions : i \in A \cup {n}} = (UNION {t[i].exceptions : i \in A}) \cup t[n].exceptions
    OBVIOUS
  <2>6. {t[i].exceptions : i \in A} = {all[i].exceptions : i \in A}
    BY <2>2 DEF A
  <2> QED BY <2>3, <2>4, <2>5, <2>6, <1>3
<1>10. Switches(id, t) = Switches(id, all) \cup (IF r.enabled # "unset" THEN {n} ELSE {})
  BY <1>2, <1>3, <1>5, <1>8 DEF Switches
<1>11. Switches(id, all) \subseteq Additions(id, all) \cup {Latest(id, all)}
  BY DEF Switches
<1>12. Switches(id, all) \subseteq 0 .. Len(all) /\ Switches(id, all) \subseteq 1 .. Len(all)
  BY <1>3, <1>4, <1>11
<1>13. Switch(id, t) = IF r.enabled = "unset" THEN Switch(id, all) ELSE r.enabled
  <2>1. CASE r.enabled = "unset"
    <3>1. Switches(id, t) = Switches(id, all)
      BY <2>1, <1>10
    <3>2. CASE Switches(id, all) = {}
      BY <3>1, <3>2, <2>1 DEF Switch
    <3>3. CASE Switches(id, all) # {}
      <4>1. Max(Switches(id, all)) \in Switches(id, all)
        BY <3>3, <1>3, <1>12, MaxOf
      <4>2. t[Max(Switches(id, all))] = all[Max(Switches(id, all))]
        BY <4>1, <1>8, <1>11
      <4> QED BY <4>2, <3>1, <3>3, <2>1 DEF Switch
    <3> QED BY <3>2, <3>3
  <2>2. CASE r.enabled # "unset"
    <3>1. Switches(id, t) = Switches(id, all) \cup {n}
      BY <2>2, <1>10
    <3>2. Switches(id, t) \subseteq 0 .. n /\ n \in Switches(id, t) /\ \A i \in Switches(id, t) : i <= n
      BY <3>1, <1>3, <1>6, <1>12 DEF n
    <3>3. Max(Switches(id, t)) = n
      BY <3>2, <1>6, MaxIs
    <3> QED BY <3>2, <3>3, <2>2, <1>3 DEF Switch
  <2> QED BY <2>1, <2>2
<1>14. t[Latest(id, t)] = all[Latest(id, all)]
  BY <1>5, <1>8
<1>15. x.id = id /\ y.id = id
  BY <1>7 DEF id
<1>16. Stands(y, t)
  BY <1>7, <1>9, <1>13, <1>14, <1>15 DEF Stands
<1> QED BY <1>16 DEF t, y

\* Entries that may follow the ones before.
LEMMA EntriesAppend ==
    ASSUME NEW all, Entries(all), NoSilentReplacement(all), NEW r, IsRule(r),
           Defines(r) /\ r.id \in Ids(all) => r.override,
           ~Defines(r) => r.id \in Ids(all)
    PROVE  /\ Entries(Append(all, r)) /\ NoSilentReplacement(Append(all, r))
           /\ Ids(Append(all, r)) = Ids(all) \cup {r.id}
<1> DEFINE t == Append(all, r)
<1> DEFINE n == Len(all) + 1
<1>0. IsSequence(all)
  BY DEF Entries
<1>1. /\ IsSequence(t) /\ Len(all) \in Nat /\ DOMAIN all = 1 .. Len(all) /\ DOMAIN t = 1 .. n
      /\ (\A i \in 1 .. Len(all) : t[i] = all[i]) /\ t[n] = r
  BY <1>0, AppendOf
<1>2. \A id : Definitions(id, t) = Definitions(id, all) \cup (IF r.id = id /\ Defines(r) THEN {n} ELSE {})
  BY <1>0, DefinitionsAppend
<1>3. \A id : Definitions(id, all) \subseteq 1 .. Len(all)
  BY <1>0, DefinitionsIn
<1> HIDE DEF t
<1>4. /\ \A i : i \in 1 .. n <=> i \in 1 .. Len(all) \/ i = n
      /\ n \notin 1 .. Len(all)
      /\ \A i \in 1 .. Len(all) : i <= n
      /\ n \in Nat /\ n \in 1 .. n
  BY <1>1
<1> HIDE DEF n
<1>5. Ids(t) = Ids(all) \cup {r.id}
  BY <1>1, <1>4 DEF Ids
<1>6. \A i \in DOMAIN t : IsRule(t[i])
  BY <1>1, <1>4 DEF Entries
<1>7. \A id \in Ids(t) : Definitions(id, t) # {}
  BY <1>2, <1>5 DEF Entries
<1>8. Entries(t)
  BY <1>1, <1>6, <1>7 DEF Entries
<1>9. NoSilentReplacement(t)
  <2> SUFFICES ASSUME NEW id \in Ids(t), NEW i \in Definitions(id, t)
               PROVE  i = Min(Definitions(id, t)) \/ t[i].override
    BY DEF NoSilentReplacement
  <2>1. CASE i \in Definitions(id, all)
    <3>1. id \in Ids(all) /\ t[i] = all[i]
      BY <2>1, <1>1, <1>3 DEF Definitions, Ids
    <3>2. i = Min(Definitions(id, all)) \/ all[i].override
      BY <3>1, <2>1 DEF NoSilentReplacement
    <3>3. CASE all[i].override
      BY <3>1, <3>3
    <3>4. CASE i = Min(Definitions(id, all))
      <4>1. \A y \in Definitions(id, all) : i <= y
        BY <3>4, <2>1, <1>1, <1>3, MinOf
      <4>2. \A y \in Definitions(id, t) : i <= y
        BY <4>1, <2>1, <1>2, <1>3, <1>4
      <4>3. Definitions(id, t) \subseteq 1 .. n /\ Definitions(id, t) # {}
        BY <1>2, <1>3, <1>4, <2>1
      <4>4. Min(Definitions(id, t)) \in Definitions(id, t) /\ Min(Definitions(id, t)) <= i
        BY <4>3, <1>4, MinOf
      <4>5. \A a, b \in 1 .. n : a <= b /\ b <= a => a = b
        BY <1>4
      <4> QED BY <4>2, <4>3, <4>4, <4>5
    <3> QED BY <3>2, <3>3, <3>4
  <2>2. CASE i \notin Definitions(id, all)
    <3>1. i = n /\ r.id = id /\ Defines(r)
      BY <2>2, <1>2
    <3>2. CASE id \in Ids(all)
      BY <3>1, <3>2, <1>1
    <3>3. CASE id \notin Ids(all)
      <4>1. Definitions(id, all) = {}
        BY <3>3 DEF Definitions, Ids
      <4>2. Definitions(id, t) = {n}
        BY <4>1, <3>1, <1>2
      <4>3. Min({n}) \in {n}
        BY <1>4, MinOf
      <4> QED BY <4>2, <4>3, <3>1
    <3> QED BY <3>2, <3>3
  <2> QED BY <2>1, <2>2
<1> QED BY <1>5, <1>8, <1>9 DEF t

\* The rules of other ids are untouched by an entry.
LEMMA OthersStand ==
    ASSUME NEW rules, NEW all, MergedFrom(rules, all), NEW r
    PROVE  \A j \in DOMAIN rules : rules[j].id # r.id => Stands(rules[j], Append(all, r))
<1> TAKE j \in DOMAIN rules
<1> HAVE rules[j].id # r.id
<1>1. rules[j].id \in Ids(all) /\ Stands(rules[j], all) /\ IsSequence(all)
  BY DEF MergedFrom, Ids, Entries
<1>2. Definitions(rules[j].id, all) # {}
  BY <1>1 DEF MergedFrom, Entries
<1> QED BY <1>1, <1>2, StandsOther

\* x takes the place of the rule with its id.
LEMMA Replaced ==
    ASSUME NEW rules, NEW all, MergedFrom(rules, all), NEW r,
           Entries(Append(all, r)), NoSilentReplacement(Append(all, r)),
           Ids(Append(all, r)) = Ids(all) \cup {r.id},
           NEW i \in DOMAIN rules, rules[i].id = r.id,
           NEW x, x.id = r.id, Stands(x, Append(all, r))
    PROVE  MergedFrom([rules EXCEPT ![i] = x], Append(all, r))
<1> DEFINE t == Append(all, r)
<1> DEFINE new == [rules EXCEPT ![i] = x]
<1>1. IsSequence(rules) /\ Distinct(rules) /\ Ids(rules) = Ids(all)
  BY DEF MergedFrom
<1>2. /\ IsSequence(new) /\ DOMAIN new = DOMAIN rules
      /\ \A j \in DOMAIN rules : new[j] = IF j = i THEN x ELSE rules[j]
  BY <1>1, ReplaceOf
<1>3. \A j \in DOMAIN rules : rules[j].id # r.id => Stands(rules[j], t)
  BY OthersStand
<1> HIDE DEF new, t
<1>4. \A j \in DOMAIN rules : new[j].id = rules[j].id
  BY <1>2
<1>5. Distinct(new)
  BY <1>1, <1>2, <1>4 DEF Distinct
<1>6. Ids(new) = Ids(rules)
  BY <1>2, <1>4 DEF Ids
<1>7. Ids(new) = Ids(t)
  <2>1. r.id \in Ids(rules)
    BY DEF Ids
  <2> QED BY <2>1, <1>1, <1>6 DEF t
<1>8. \A j \in DOMAIN new : Stands(new[j], t)
  <2> TAKE j \in DOMAIN new
  <2>1. CASE j = i
    BY <2>1, <1>2 DEF t
  <2>2. CASE j # i
    <3>1. rules[j].id # r.id
      BY <2>2, <1>1, <1>2 DEF Distinct
    <3> QED BY <3>1, <2>2, <1>2, <1>3
  <2> QED BY <2>1, <2>2
<1>9. MergedFrom(new, t)
  BY <1>2, <1>5, <1>7, <1>8 DEF MergedFrom, t
<1> QED BY <1>9 DEF new, t

\* A rule with a new id comes last.
LEMMA Added ==
    ASSUME NEW rules, NEW all, MergedFrom(rules, all), NEW r, IsRule(r), Defines(r),
           Entries(Append(all, r)), NoSilentReplacement(Append(all, r)),
           Ids(Append(all, r)) = Ids(all) \cup {r.id},
           r.id \notin Ids(rules)
    PROVE  MergedFrom(Append(rules, r), Append(all, r))
<1> DEFINE t == Append(all, r)
<1> DEFINE new == Append(rules, r)
<1> DEFINE m == Len(rules) + 1
<1>1. IsSequence(rules) /\ Distinct(rules) /\ Ids(rules) = Ids(all) /\ IsSequence(all)
  BY DEF MergedFrom, Entries
<1>2. /\ IsSequence(new) /\ Len(rules) \in Nat
      /\ DOMAIN rules = 1 .. Len(rules) /\ DOMAIN new = 1 .. m
      /\ (\A j \in 1 .. Len(rules) : new[j] = rules[j]) /\ new[m] = r
  BY <1>1, AppendOf
<1>3. \A j \in DOMAIN rules : rules[j].id # r.id => Stands(rules[j], t)
  BY OthersStand
<1>4. Stands(r, t)
  BY <1>1, StandsDefined
<1> HIDE DEF new, t
<1>5. \A j : j \in 1 .. m <=> j \in 1 .. Len(rules) \/ j = m
  BY <1>2
<1> HIDE DEF m
<1>6. \A j \in DOMAIN rules : rules[j].id # r.id
  BY DEF Ids
<1>7. Distinct(new)
  BY <1>1, <1>2, <1>5, <1>6 DEF Distinct
<1>8. Ids(new) = Ids(t)
  <2>1. Ids(new) = Ids(rules) \cup {r.id}
    BY <1>2, <1>5 DEF Ids
  <2> QED BY <2>1, <1>1 DEF t
<1>9. \A j \in DOMAIN new : Stands(new[j], t)
  BY <1>2, <1>3, <1>4, <1>5, <1>6
<1>10. MergedFrom(new, t)
  BY <1>2, <1>7, <1>8, <1>9 DEF MergedFrom, t
<1> QED BY <1>10 DEF new, t

\* One entry: mergeRule fails, or its result stands for the entries with it.
LEMMA MergeStep ==
    ASSUME NEW rules, NEW all, MergedFrom(rules, all), NEW r, IsRule(r)
    PROVE  \/ mergeRule(Built(rules), r) = Failed
           \/ \E new : mergeRule(Built(rules), r) = Built(new) /\ MergedFrom(new, Append(all, r))
<1> DEFINE i == idx(rules, r.id)
<1>1. IsSequence(rules) /\ Ids(rules) = Ids(all) /\ Entries(all) /\ NoSilentReplacement(all) /\ IsSequence(all)
  BY DEF MergedFrom, Entries
<1>2. \/ i = 0 /\ r.id \notin Ids(rules)
      \/ i \in DOMAIN rules /\ i # 0 /\ rules[i].id = r.id /\ r.id \in Ids(rules)
  BY <1>1, IdxOf
<1>3. r.override \in BOOLEAN /\ r.append \in BOOLEAN
  BY DEF IsRule
<1>4. Built(rules).ok = TRUE /\ Built(rules).rules = rules
  BY DEF Built
<1>5. CASE r.override /\ i # 0
  <2>1. mergeRule(Built(rules), r) = Built([rules EXCEPT ![i] = r])
    BY <1>3, <1>4, <1>5 DEF mergeRule
  <2>2. Entries(Append(all, r)) /\ NoSilentReplacement(Append(all, r)) /\ Ids(Append(all, r)) = Ids(all) \cup {r.id}
    BY <1>1, <1>2, <1>5, EntriesAppend
  <2>3. Stands(r, Append(all, r))
    BY <1>1, <1>5, StandsDefined DEF Defines
  <2>4. MergedFrom([rules EXCEPT ![i] = r], Append(all, r))
    <3> HIDE DEF i
    <3> QED BY <2>2, <2>3, <1>2, <1>5, Replaced
  <2> QED BY <2>1, <2>4
<1>6. CASE ~r.override /\ r.append /\ i # 0
  <2>1. mergeRule(Built(rules), r) = Built([rules EXCEPT ![i] = AppendedTo(@, r)])
    BY <1>3, <1>4, <1>6 DEF mergeRule
  <2>2. Entries(Append(all, r)) /\ NoSilentReplacement(Append(all, r)) /\ Ids(Append(all, r)) = Ids(all) \cup {r.id}
    BY <1>1, <1>2, <1>6, EntriesAppend DEF Defines
  <2>3. Stands(rules[i], all) /\ Definitions(r.id, all) # {}
    BY <1>1, <1>2, <1>6 DEF MergedFrom, Entries
  <2>4. Stands(AppendedTo(rules[i], r), Append(all, r))
    BY <1>1, <1>2, <1>6, <2>3, StandsAppended DEF Defines
  <2>5. AppendedTo(rules[i], r).id = r.id
    BY <2>3, <1>2, <1>6, AppendedToIs DEF Stands
  <2>6. [rules EXCEPT ![i] = AppendedTo(@, r)] = [rules EXCEPT ![i] = AppendedTo(rules[i], r)]
    <3> HIDE DEF i
    <3> QED BY <1>2, <1>6
  <2>7. MergedFrom([rules EXCEPT ![i] = AppendedTo(rules[i], r)], Append(all, r))
    <3> HIDE DEF i
    <3> QED BY <2>2, <2>4, <2>5, <1>2, <1>6, Replaced
  <2> HIDE DEF i
  <2> QED BY <2>1, <2>6, <2>7
<1>7. CASE Defines(r) /\ i = 0
  <2>1. mergeRule(Built(rules), r) = Built(Append(rules, r))
    BY <1>3, <1>4, <1>7 DEF mergeRule, Defines
  <2>2. Entries(Append(all, r)) /\ NoSilentReplacement(Append(all, r)) /\ Ids(Append(all, r)) = Ids(all) \cup {r.id}
    BY <1>1, <1>2, <1>7, EntriesAppend
  <2>3. MergedFrom(Append(rules, r), Append(all, r))
    BY <2>2, <1>2, <1>7, Added
  <2> QED BY <2>1, <2>3
<1>8. CASE (~r.override /\ ~r.append /\ i # 0) \/ (~Defines(r) /\ i = 0)
  BY <1>3, <1>4, <1>8 DEF mergeRule, Defines
<1> QED BY <1>5, <1>6, <1>7, <1>8 DEF Defines

-----------------------------------------------------------------------------
(* One overlay merged.                                                     *)

\* A prefix grows by the next element.
LEMMA PrefixAppend ==
    ASSUME NEW s, IsSequence(s), NEW k \in 0 .. Len(s) - 1
    PROVE  SubSeq(s, 1, k + 1) = Append(SubSeq(s, 1, k), s[k + 1])
<1>1. PICK U : s \in Seq(U)
  BY DEF IsSequence
<1>2. Len(s) \in Nat /\ k + 1 \in 1 .. Len(s) /\ s[k + 1] \in U
  BY <1>1
<1> DEFINE a == SubSeq(s, 1, k)
<1> DEFINE b == SubSeq(s, 1, k + 1)
<1>3. a \in Seq(U) /\ Len(a) = k /\ \A i \in 1 .. k : a[i] = s[i]
  BY <1>1, <1>2
<1>4. b \in Seq(U) /\ Len(b) = k + 1 /\ \A i \in 1 .. k + 1 : b[i] = s[i]
  BY <1>1, <1>2
<1> HIDE DEF a, b
<1> DEFINE c == Append(a, s[k + 1])
<1>5. c \in Seq(U) /\ Len(c) = k + 1 /\ \A i \in 1 .. k + 1 : c[i] = s[i]
  BY <1>2, <1>3
<1> HIDE DEF c
<1>6. b = c
  BY <1>4, <1>5, SeqEqual
<1> QED BY <1>6 DEF a, b, c

\* The entries of an overlay follow those of the files before it.
LEMMA ConcatAppend ==
    ASSUME NEW all, IsSequence(all), NEW s, IsSequence(s), NEW k \in 0 .. Len(s) - 1
    PROVE  all \o SubSeq(s, 1, k + 1) = Append(all \o SubSeq(s, 1, k), s[k + 1])
<1>1. PICK S : all \in Seq(S)
  BY DEF IsSequence
<1>2. PICK T : s \in Seq(T)
  BY DEF IsSequence
<1> DEFINE U == S \cup T
<1>3. all \in Seq(U) /\ s \in Seq(U) /\ Len(s) \in Nat /\ k + 1 \in 1 .. Len(s)
  BY <1>1, <1>2
<1> HIDE DEF U
<1> DEFINE a == SubSeq(s, 1, k)
<1>4. a \in Seq(U) /\ Len(a) = k /\ s[k + 1] \in U
  BY <1>3
<1>5. SubSeq(s, 1, k + 1) = Append(a, s[k + 1])
  BY PrefixAppend
<1> HIDE DEF a
<1> DEFINE x == all \o Append(a, s[k + 1])
<1> DEFINE y == Append(all \o a, s[k + 1])
<1>6. x \in Seq(U) /\ y \in Seq(U) /\ Len(x) = Len(y)
  BY <1>3, <1>4
<1>7. \A i \in 1 .. Len(x) : x[i] = y[i]
  BY <1>3, <1>4
<1> HIDE DEF x, y
<1>8. x = y
  BY <1>6, <1>7, SeqEqual
<1> QED BY <1>5, <1>8 DEF a, x, y

LEMMA ConcatEmpty ==
    ASSUME NEW all, IsSequence(all), NEW s, IsSequence(s)
    PROVE  all \o SubSeq(s, 1, 0) = all /\ SubSeq(s, 1, Len(s)) = s
<1>1. PICK S : all \in Seq(S)
  BY DEF IsSequence
<1>2. PICK T : s \in Seq(T)
  BY DEF IsSequence
<1>3. SubSeq(s, 1, 0) = <<>>
  BY <1>2
<1>4. all \o <<>> = all
  BY <1>1
<1>5. SubSeq(s, 1, Len(s)) = s
  BY <1>2
<1> QED BY <1>3, <1>4, <1>5

\* The rules of an overlay, one after the other; an error sticks.
LEMMA MergeRules ==
    ASSUME NEW rules, NEW all, MergedFrom(rules, all),
           NEW s, IsSequence(s), \A i \in DOMAIN s : IsRule(s[i])
    PROVE  \/ FoldLeft(mergeRule, Built(rules), s) = Failed
           \/ \E new : FoldLeft(mergeRule, Built(rules), s) = Built(new) /\ MergedFrom(new, all \o s)
<1> DEFINE n == Len(s)
<1>1. n \in Nat /\ DOMAIN s = 1 .. n
  BY AppendOf
<1>2. PICK a : Trace("rule", a, Built(rules), s, n) /\ FoldLeft(mergeRule, Built(rules), s) = a[n]
  <2> HIDE DEF n
  <2> QED BY <1>1, FoldOfRules
<1>3. IsSequence(all)
  BY DEF MergedFrom, Entries
<1> DEFINE Q(k) == \/ a[k] = Failed
                   \/ \E new : a[k] = Built(new) /\ MergedFrom(new, all \o SubSeq(s, 1, k))
<1> DEFINE N == {k \in Nat : k <= n => Q(k)}
<1>4. 0 \in N
  <2>1. a[0] = Built(rules)
    BY <1>2 DEF Trace
  <2>2. all \o SubSeq(s, 1, 0) = all
    BY <1>3, ConcatEmpty
  <2>3. MergedFrom(rules, all \o SubSeq(s, 1, 0))
    BY <2>2
  <2>4. Q(0)
    BY <2>1, <2>3
  <2> HIDE DEF Q, n
  <2> QED BY <2>4
<1>5. \A k \in N : k + 1 \in N
  <2> SUFFICES ASSUME NEW k \in N, k + 1 <= n PROVE Q(k + 1)
    <3> HIDE DEF Q, n
    <3> QED OBVIOUS
  <2>1. k \in 0 .. n - 1 /\ k + 1 \in 1 .. n /\ k \in 0 .. Len(s) - 1
    BY <1>1
  <2>2. Q(k)
    <3> HIDE DEF Q
    <3> QED BY <1>1
  <2>3. a[k + 1] = mergeRule(a[k], s[k + 1])
    BY <2>1, <1>2 DEF Trace, Applied
  <2>4. CASE a[k] = Failed
    <3>1. mergeRule(Failed, s[k + 1]) = Failed
      BY DEF mergeRule, Failed
    <3> QED BY <3>1, <2>3, <2>4
  <2>5. CASE \E new : a[k] = Built(new) /\ MergedFrom(new, all \o SubSeq(s, 1, k))
    <3>1. PICK old : a[k] = Built(old) /\ MergedFrom(old, all \o SubSeq(s, 1, k))
      BY <2>5
    <3>2. IsRule(s[k + 1])
      BY <2>1, <1>1
    <3>3. all \o SubSeq(s, 1, k + 1) = Append(all \o SubSeq(s, 1, k), s[k + 1])
      BY <2>1, <1>3, ConcatAppend
    <3>4. \/ mergeRule(Built(old), s[k + 1]) = Failed
          \/ \E new : /\ mergeRule(Built(old), s[k + 1]) = Built(new)
                      /\ MergedFrom(new, Append(all \o SubSeq(s, 1, k), s[k + 1]))
      BY <3>1, <3>2, MergeStep
    <3> QED BY <3>1, <3>3, <3>4, <2>3
  <2> QED BY <2>2, <2>4, <2>5
<1>6. N = Nat
  <2> HIDE DEF N
  <2>1. N \subseteq Nat
    BY DEF N
  <2> QED BY <2>1, <1>4, <1>5, Induct
<1>7. Q(n)
  <2> HIDE DEF Q
  <2> QED BY <1>1, <1>6
<1>8. SubSeq(s, 1, n) = s
  BY ConcatEmpty
<1> QED BY <1>2, <1>7, <1>8

-----------------------------------------------------------------------------
(* The lists and macros of a merge.                                        *)

ListsFrom(lists, files) == \A l : At(lists, l) = ReferenceList(l, files)

MacrosFrom(macros, files) ==
    \A m \in DOMAIN macros :
        /\ \E i \in DOMAIN files : m \in DOMAIN files[i].macros
        /\ macros[m] = ReferenceMacro(m, files)

\* The last file that defines the list, 0 if there is none.
LastList(l, files) == Max({i \in DOMAIN files : l \in DOMAIN files[i].lists} \cup {0})

\* Where the last definition of a list is.
LEMMA LastListOf ==
    ASSUME NEW files, IsSequence(files), NEW l
    PROVE  /\ Len(files) \in Nat /\ DOMAIN files = 1 .. Len(files)
           /\ LastList(l, files) \in 0 .. Len(files)
           /\ \A i \in DOMAIN files : l \in DOMAIN files[i].lists => i <= LastList(l, files)
           /\ LastList(l, files) # 0 => l \in DOMAIN files[LastList(l, files)].lists
<1> DEFINE S == {i \in DOMAIN files : l \in DOMAIN files[i].lists} \cup {0}
<1>1. Len(files) \in Nat /\ DOMAIN files = 1 .. Len(files)
  BY AppendOf
<1>2. S \subseteq 0 .. Len(files) /\ S # {}
  BY <1>1
<1>3. Max(S) \in S /\ \A y \in S : y <= Max(S)
  <2> HIDE DEF S
  <2> QED BY <1>1, <1>2, MaxOf
<1>4. LastList(l, files) = Max(S)
  BY DEF LastList
<1>5. LastList(l, files) \in S
  BY <1>3, <1>4
<1>6. \A i \in DOMAIN files : l \in DOMAIN files[i].lists => i \in S
  OBVIOUS
<1>7. LastList(l, files) \in 0 .. Len(files)
  <2> HIDE DEF S
  <2> QED BY <1>2, <1>5
<1>8. \A i \in DOMAIN files : l \in DOMAIN files[i].lists => i <= LastList(l, files)
  <2> HIDE DEF S
  <2> QED BY <1>3, <1>4, <1>6
<1> QED BY <1>1, <1>5, <1>7, <1>8

\* A later file with the list is the last one.
LEMMA LastListAppend ==
    ASSUME NEW files, IsSequence(files), NEW o, NEW l
    PROVE  LastList(l, Append(files, o)) =
              IF l \in DOMAIN o.lists THEN Len(files) + 1 ELSE LastList(l, files)
<1> DEFINE t == Append(files, o)
<1> DEFINE n == Len(files) + 1
<1>1. /\ IsSequence(t) /\ Len(files) \in Nat /\ DOMAIN files = 1 .. Len(files) /\ DOMAIN t = 1 .. n
      /\ (\A i \in 1 .. Len(files) : t[i] = files[i]) /\ t[n] = o
  BY AppendOf
<1>2. /\ LastList(l, t) \in 0 .. Len(t)
      /\ \A i \in DOMAIN t : l \in DOMAIN t[i].lists => i <= LastList(l, t)
      /\ LastList(l, t) # 0 => l \in DOMAIN t[LastList(l, t)].lists
  BY <1>1, LastListOf
<1>3. /\ LastList(l, files) \in 0 .. Len(files)
      /\ \A i \in DOMAIN files : l \in DOMAIN files[i].lists => i <= LastList(l, files)
      /\ LastList(l, files) # 0 => l \in DOMAIN files[LastList(l, files)].lists
  BY LastListOf
<1>4. Len(t) = n
  BY AppendOf
<1> HIDE DEF t
<1>5. CASE l \in DOMAIN o.lists
  <2>1. n \in DOMAIN t /\ n <= LastList(l, t) /\ LastList(l, t) \in 0 .. n
    BY <1>1, <1>2, <1>4, <1>5
  <2>2. LastList(l, t) = n
    BY <2>1, <1>1
  <2> QED BY <2>2, <1>5 DEF t
<1>6. CASE l \notin DOMAIN o.lists
  <2>1. LastList(l, t) # n
    BY <1>1, <1>2, <1>6
  <2>2. LastList(l, t) \in 0 .. Len(files)
    BY <2>1, <1>1, <1>2, <1>4
  <2>3. LastList(l, t) <= LastList(l, files)
    <3>1. CASE LastList(l, t) = 0
      BY <3>1, <1>1, <1>3
    <3>2. CASE LastList(l, t) # 0
      <4>1. LastList(l, t) \in 1 .. Len(files)
        BY <3>2, <2>2, <1>1
      <4>2. l \in DOMAIN files[LastList(l, t)].lists
        BY <4>1, <3>2, <1>1, <1>2
      <4> QED BY <4>1, <4>2, <1>1, <1>3
    <3> QED BY <3>1, <3>2
  <2>4. LastList(l, files) <= LastList(l, t)
    <3>1. CASE LastList(l, files) = 0
      BY <3>1, <1>1, <2>2
    <3>2. CASE LastList(l, files) # 0
      <4>1. LastList(l, files) \in 1 .. Len(files)
        BY <3>2, <1>1, <1>3
      <4>2. LastList(l, files) \in DOMAIN t
        BY <4>1, <1>1
      <4>3. l \in DOMAIN t[LastList(l, files)].lists
        BY <4>1, <3>2, <1>1, <1>3
      <4> QED BY <4>2, <4>3, <1>2
    <3> QED BY <3>1, <3>2
  <2>5. \A a, b \in 0 .. Len(files) : a <= b /\ b <= a => a = b
    BY <1>1
  <2>6. LastList(l, t) = LastList(l, files)
    BY <2>2, <2>3, <2>4, <2>5, <1>3
  <2> QED BY <2>6, <1>6 DEF t
<1> QED BY <1>5, <1>6

\* What file i adds to the list.
Part(l, files, i) ==
    (IF i = LastList(l, files) THEN files[i].lists[l] ELSE {}) \cup At(files[i].appendLists, l)

\* ReferenceList, element by element.
LEMMA ListElements ==
    ASSUME NEW files, NEW l
    PROVE  \A z : z \in ReferenceList(l, files)
                    <=> \E i \in DOMAIN files : i >= LastList(l, files) /\ z \in Part(l, files, i)
  BY DEF ReferenceList, LastList, Part

\* mergeLists: a list is replaced, then extended.
LEMMA ListsStep ==
    ASSUME NEW lists, NEW files, IsSequence(files), ListsFrom(lists, files), NEW o
    PROVE  ListsFrom(mergeLists(lists, o), Append(files, o))
<1> SUFFICES ASSUME NEW l PROVE At(mergeLists(lists, o), l) = ReferenceList(l, Append(files, o))
  BY DEF ListsFrom
<1> DEFINE t == Append(files, o)
<1> DEFINE n == Len(files) + 1
<1>1. /\ Len(files) \in Nat /\ DOMAIN files = 1 .. Len(files) /\ DOMAIN t = 1 .. n
      /\ (\A i \in 1 .. Len(files) : t[i] = files[i]) /\ t[n] = o
  BY AppendOf
<1>2. LastList(l, t) = IF l \in DOMAIN o.lists THEN n ELSE LastList(l, files)
  BY LastListAppend
<1>3. LastList(l, files) \in 0 .. Len(files)
  BY LastListOf
<1>4. At(lists, l) = ReferenceList(l, files)
  BY DEF ListsFrom
<1>5. At(mergeLists(lists, o), l) =
         (IF l \in DOMAIN o.lists THEN o.lists[l] ELSE At(lists, l)) \cup At(o.appendLists, l)
  BY DEF mergeLists, At, Over
<1> HIDE DEF t
<1>6. /\ \A i : i \in 1 .. n <=> i \in 1 .. Len(files) \/ i = n
      /\ \A i \in 1 .. Len(files) : ~(i >= n) /\ i # n
      /\ n >= n /\ n \notin 0 .. Len(files) /\ \A i \in 0 .. Len(files) : n >= i
  BY <1>1
<1> HIDE DEF n
<1>7. \A z : z \in ReferenceList(l, t) <=> \E i \in 1 .. n : i >= LastList(l, t) /\ z \in Part(l, t, i)
  BY <1>1, ListElements
<1>8. \A z : z \in ReferenceList(l, files)
               <=> \E i \in 1 .. Len(files) : i >= LastList(l, files) /\ z \in Part(l, files, i)
  BY <1>1, ListElements
<1>9. CASE l \in DOMAIN o.lists
  <2>1. Part(l, t, n) = o.lists[l] \cup At(o.appendLists, l)
    BY <1>1, <1>2, <1>9 DEF Part
  <2>2. \A z : z \in ReferenceList(l, t) <=> z \in Part(l, t, n)
    BY <1>2, <1>6, <1>7, <1>9
  <2>3. At(mergeLists(lists, o), l) = Part(l, t, n)
    BY <2>1, <1>5, <1>9
  <2>4. At(mergeLists(lists, o), l) = o.lists[l] \cup At(o.appendLists, l)
    BY <1>5, <1>9
  <2> QED BY <2>1, <2>2, <2>4 DEF t
<1>10. CASE l \notin DOMAIN o.lists
  <2>1. Part(l, t, n) = At(o.appendLists, l)
    BY <1>1, <1>2, <1>3, <1>6, <1>10 DEF Part
  <2>2. \A i \in 1 .. Len(files) : Part(l, t, i) = Part(l, files, i)
    BY <1>1, <1>2, <1>10 DEF Part
  <2>3. \A z : z \in ReferenceList(l, t) <=> z \in ReferenceList(l, files) \/ z \in At(o.appendLists, l)
    BY <2>1, <2>2, <1>2, <1>3, <1>6, <1>7, <1>8, <1>10
  <2>4. At(mergeLists(lists, o), l) = ReferenceList(l, files) \cup At(o.appendLists, l)
    BY <1>4, <1>5, <1>10
  <2> QED BY <2>3, <2>4 DEF t
<1> QED BY <1>9, <1>10

\* A macro of the overlay replaces one of the same name.
LEMMA MacrosStep ==
    ASSUME NEW macros, NEW files, IsSequence(files), MacrosFrom(macros, files), NEW o
    PROVE  MacrosFrom(Over(o.macros, macros), Append(files, o))
<1> DEFINE t == Append(files, o)
<1> DEFINE n == Len(files) + 1
<1> DEFINE new == Over(o.macros, macros)
<1>1. /\ Len(files) \in Nat /\ DOMAIN files = 1 .. Len(files) /\ DOMAIN t = 1 .. n
      /\ (\A i \in 1 .. Len(files) : t[i] = files[i]) /\ t[n] = o
  BY AppendOf
<1>2. /\ DOMAIN new = DOMAIN o.macros \cup DOMAIN macros
      /\ \A m \in DOMAIN new : new[m] = IF m \in DOMAIN o.macros THEN o.macros[m] ELSE macros[m]
  BY DEF Over
<1> HIDE DEF t, new
<1>3. /\ \A i : i \in 1 .. n <=> i \in 1 .. Len(files) \/ i = n
      /\ \A i \in 1 .. n : i <= n /\ i \in 0 .. n
      /\ n \in 1 .. n /\ n \in Nat
  BY <1>1
<1> HIDE DEF n
<1>4. ASSUME NEW m \in DOMAIN new
      PROVE  (\E i \in DOMAIN t : m \in DOMAIN t[i].macros) /\ new[m] = ReferenceMacro(m, t)
  <2> DEFINE S == {i \in DOMAIN t : m \in DOMAIN t[i].macros}
  <2>1. ReferenceMacro(m, t) = t[Max(S)].macros[m]
    BY DEF ReferenceMacro
  <2>2. CASE m \in DOMAIN o.macros
    <3>1. n \in S /\ S \subseteq 0 .. n /\ \A y \in S : y <= n
      BY <2>2, <1>1, <1>3
    <3>2. Max(S) = n
      <4> HIDE DEF S
      <4> QED BY <3>1, <1>3, MaxIs
    <3>3. n \in DOMAIN t /\ m \in DOMAIN t[n].macros
      BY <3>1
    <3> HIDE DEF S
    <3> QED BY <3>2, <3>3, <2>1, <2>2, <1>1, <1>2
  <2>3. CASE m \notin DOMAIN o.macros
    <3>1. m \in DOMAIN macros /\ new[m] = macros[m]
      BY <2>3, <1>2
    <3>2. PICK i \in DOMAIN files : m \in DOMAIN files[i].macros
      BY <3>1 DEF MacrosFrom
    <3>3. macros[m] = ReferenceMacro(m, files)
      BY <3>1 DEF MacrosFrom
    <3> DEFINE S0 == {j \in DOMAIN files : m \in DOMAIN files[j].macros}
    <3>4. S = S0
      BY <2>3, <1>1, <1>3
    <3>5. S0 \subseteq 0 .. Len(files) /\ S0 # {}
      BY <3>2, <1>1
    <3>6. ReferenceMacro(m, files) = files[Max(S0)].macros[m]
      BY DEF ReferenceMacro
    <3>7. Max(S0) \in S0
      <4> HIDE DEF S0
      <4> QED BY <3>5, <1>1, MaxOf
    <3>8. t[Max(S0)] = files[Max(S0)]
      BY <3>7, <1>1
    <3>9. i \in DOMAIN t /\ t[i] = files[i]
      BY <3>2, <1>1, <1>3
    <3> HIDE DEF S, S0
    <3> QED BY <3>1, <3>2, <3>3, <3>4, <3>6, <3>8, <3>9, <2>1
  <2> QED BY <2>2, <2>3
<1>5. MacrosFrom(new, t)
  BY <1>4 DEF MacrosFrom
<1> QED BY <1>5 DEF new, t

-----------------------------------------------------------------------------
(* The embedded file, before anything is merged over it.                   *)

\* checkUniqueIDs means what it says.
LEMMA UniqueIds ==
    ASSUME NEW rules, IsSequence(rules), checkUniqueIDs(rules)
    PROVE  Distinct(rules)
<1> DEFINE n == Len(rules)
<1> DEFINE f == [i \in 1 .. n |-> rules[i].id]
<1>1. n \in Nat /\ DOMAIN rules = 1 .. n
  BY AppendOf
<1>2. f \in Surjection(1 .. n, Ids(rules))
  BY <1>1 DEF Surjection, Ids
<1>3. IsFiniteSet(1 .. n) /\ Cardinality(1 .. n) = n
  <2>1. IsFiniteSet(1 .. n) /\ Cardinality(1 .. n) = IF 1 > n THEN 0 ELSE n - 1 + 1
    <3> HIDE DEF n
    <3>1. 1 \in Int /\ n \in Int
      BY <1>1
    <3> QED BY <3>1, FS_Interval
  <2> HIDE DEF n
  <2> QED BY <2>1, <1>1
<1>4. Cardinality(1 .. n) = Cardinality(Ids(rules))
  BY <1>3 DEF checkUniqueIDs
<1>5. f \in Injection(1 .. n, Ids(rules))
  <2> HIDE DEF f, n
  <2> QED BY <1>2, <1>3, <1>4, FS_SurjSameCardinalityImpliesInj
<1>6. \A i, j \in 1 .. n : f[i] = f[j] => i = j
  BY <1>5 DEF Injection, IsInjective
<1> QED BY <1>1, <1>6 DEF Distinct

\* Plain definitions with different ids stand for themselves.
LEMMA PlainRules ==
    ASSUME NEW rules, IsSequence(rules), Distinct(rules),
           \A i \in DOMAIN rules : IsRule(rules[i]) /\ ~rules[i].append
    PROVE  MergedFrom(rules, rules)
<1>0. Len(rules) \in Nat /\ DOMAIN rules = 1 .. Len(rules)
  BY AppendOf
<1>1. \A i \in DOMAIN rules : Definitions(rules[i].id, rules) = {i}
  BY DEF Definitions, Distinct
<1>2. \A i \in DOMAIN rules : i \in Nat
  BY <1>0
<1>3. \A i \in DOMAIN rules : Additions(rules[i].id, rules) = {}
  <2> TAKE i \in DOMAIN rules
  <2>1. \A j \in DOMAIN rules : rules[j].id = rules[i].id => j = i /\ ~(i < j)
    BY <1>2 DEF Distinct
  <2> QED BY <2>1, <1>1 DEF Additions
<1>4. \A i \in DOMAIN rules : Max({i}) = i /\ Min({i}) = i
  <2> TAKE i \in DOMAIN rules
  <2>1. {i} \subseteq 0 .. Len(rules) /\ {i} \subseteq 1 .. Len(rules) /\ {i} # {}
    BY <1>0
  <2>2. Max({i}) \in {i}
    BY <2>1, <1>0, MaxOf
  <2>3. Min({i}) \in {i}
    BY <2>1, <1>0, MinOf
  <2> QED BY <2>2, <2>3
<1>5. Entries(rules)
  <2>1. \A id \in Ids(rules) : Definitions(id, rules) # {}
    BY <1>1 DEF Ids
  <2> QED BY <2>1 DEF Entries
<1>6. NoSilentReplacement(rules)
  BY <1>1, <1>4 DEF NoSilentReplacement, Ids
<1>7. ASSUME NEW i \in DOMAIN rules PROVE Stands(rules[i], rules)
  <2> DEFINE id == rules[i].id
  <2>1. Latest(id, rules) = i /\ Additions(id, rules) = {} /\ Max(Definitions(id, rules)) = i
    BY <1>1, <1>3, <1>4 DEF Latest
  <2>2. ReferenceExceptions(id, rules) = rules[i].exceptions
    BY <2>1 DEF ReferenceExceptions
  <2>3. Switches(id, rules) = IF rules[i].enabled # "unset" THEN {i} ELSE {}
    BY <2>1 DEF Switches
  <2>4. Switch(id, rules) = rules[i].enabled
    <3>1. CASE rules[i].enabled = "unset"
      BY <3>1, <2>3 DEF Switch
    <3>2. CASE rules[i].enabled # "unset"
      BY <3>2, <2>3, <1>4 DEF Switch
    <3> QED BY <3>1, <3>2
  <2> QED BY <2>1, <2>2, <2>4 DEF Stands
<1> QED BY <1>5, <1>6, <1>7 DEF MergedFrom

Base == [ok |-> TRUE, rules |-> Default.rules, lists |-> Default.lists, macros |-> Default.macros]

\* The embedded file is a ruleset, and its rules stand for themselves.
LEMMA DefaultMerged == MergedFrom(Default.rules, Default.rules)
<1>1. IsSequence(Default.rules) /\ \A i \in DOMAIN Default.rules : IsRule(Default.rules[i])
  BY RulesReloadAssumption DEF IsFile, IsSequence
<1>2. PICK a : Trace("file", a, Base, <<>>, 0) /\ FoldLeft(mergeOver, Base, <<>>) = a[0]
  <2>1. DOMAIN <<>> = 1 .. 0
    OBVIOUS
  <2> QED BY <2>1, FoldOfFiles
<1>3. FoldLeft(mergeOver, Base, <<>>) = Base
  BY <1>2 DEF Trace
<1>4. checkUniqueIDs(Default.rules)
  <2>1. Load(Default, <<>>).ok
    BY RulesReloadAssumption
  <2>2. Load(Default, <<>>) = IF Base.ok /\ checkUniqueIDs(Base.rules) THEN compileRuleset(Base) ELSE Failed
    BY <1>3 DEF Load, Base
  <2>3. ~Failed.ok
    BY DEF Failed
  <2> QED BY <2>1, <2>2, <2>3 DEF Base
<1>5. Distinct(Default.rules)
  BY <1>1, <1>4, UniqueIds
<1> QED BY <1>1, <1>5, PlainRules, DefaultAssumption

\* The lists and macros of the embedded file are its own.
LEMMA DefaultLists == ListsFrom(Default.lists, <<Default>>)
<1> SUFFICES ASSUME NEW l PROVE At(Default.lists, l) = ReferenceList(l, <<Default>>)
  BY DEF ListsFrom
<1> DEFINE files == <<Default>>
<1>1. IsSequence(files)
  <2>1. files \in Seq({Default})
    OBVIOUS
  <2> QED BY <2>1 DEF IsSequence
<1>2. DOMAIN files = {1} /\ files[1] = Default /\ Len(files) = 1
  OBVIOUS
<1> HIDE DEF files
<1>3. /\ LastList(l, files) \in 0 .. 1
      /\ \A i \in DOMAIN files : l \in DOMAIN files[i].lists => i <= LastList(l, files)
      /\ LastList(l, files) # 0 => l \in DOMAIN files[LastList(l, files)].lists
  BY <1>1, <1>2, LastListOf
<1>4. At(Default.appendLists, l) = {}
  BY DefaultAssumption DEF At
<1>5. \A z : z \in ReferenceList(l, files) <=> 1 >= LastList(l, files) /\ z \in Part(l, files, 1)
  BY <1>2, ListElements
<1>6. CASE l \in DOMAIN Default.lists
  <2>1. LastList(l, files) = 1
    BY <1>2, <1>3, <1>6
  <2>2. Part(l, files, 1) = Default.lists[l]
    BY <2>1, <1>2, <1>4 DEF Part
  <2>3. At(Default.lists, l) = Default.lists[l]
    BY <1>6 DEF At
  <2>4. \A z : z \in ReferenceList(l, files) <=> z \in Default.lists[l]
    BY <2>1, <2>2, <1>5
  <2> QED BY <2>3, <2>4 DEF files
<1>7. CASE l \notin DOMAIN Default.lists
  <2>1. LastList(l, files) = 0
    BY <1>2, <1>3, <1>7
  <2>2. Part(l, files, 1) = {}
    BY <2>1, <1>2, <1>4 DEF Part
  <2>3. At(Default.lists, l) = {}
    BY <1>7 DEF At
  <2> QED BY <2>2, <2>3, <1>5 DEF files
<1> QED BY <1>6, <1>7

LEMMA DefaultMacros == MacrosFrom(Default.macros, <<Default>>)
<1> DEFINE files == <<Default>>
<1>1. DOMAIN files = {1} /\ files[1] = Default
  OBVIOUS
<1> HIDE DEF files
<1>2. ASSUME NEW m \in DOMAIN Default.macros
      PROVE  (\E i \in DOMAIN files : m \in DOMAIN files[i].macros) /\ Default.macros[m] = ReferenceMacro(m, files)
  <2>1. {i \in DOMAIN files : m \in DOMAIN files[i].macros} = {1}
    BY <1>1
  <2>2. Max({1}) = 1
    BY DEF Max
  <2> QED BY <2>1, <2>2, <1>1 DEF ReferenceMacro
<1>3. MacrosFrom(Default.macros, files)
  BY <1>2 DEF MacrosFrom
<1> QED BY <1>3 DEF files

-----------------------------------------------------------------------------
(* All files merged.                                                       *)

\* f solves the recursion behind FlattenSeq.
Flattens(f, seqs, n) == f = [i \in 1 .. n |-> IF i = 1 THEN seqs[i] ELSE f[i - 1] \o seqs[i]]

\* That recursion has a solution.
LEMMA FlattenExists ==
    ASSUME NEW seqs, NEW n \in Nat
    PROVE  \E f : Flattens(f, seqs, n)
<1> DEFINE N == {k \in Nat : \E f : Flattens(f, seqs, k)}
<1>1. 0 \in N
  <2> DEFINE f == [i \in {} |-> 0]
  <2>1. 1 .. 0 = {}
    OBVIOUS
  <2>2. Flattens(f, seqs, 0)
    BY <2>1 DEF Flattens
  <2> QED BY <2>2
<1>2. \A k \in N : k + 1 \in N
  <2> SUFFICES ASSUME NEW k \in N PROVE \E h : Flattens(h, seqs, k + 1)
    OBVIOUS
  <2>1. PICK f : Flattens(f, seqs, k)
    OBVIOUS
  <2> DEFINE h == [i \in 1 .. k + 1 |->
                      IF i = k + 1 THEN (IF i = 1 THEN seqs[i] ELSE f[i - 1] \o seqs[i]) ELSE f[i]]
  <2>2. k \in Nat
    OBVIOUS
  <2>3. \A i \in 1 .. k : h[i] = f[i] /\ f[i] = IF i = 1 THEN seqs[i] ELSE f[i - 1] \o seqs[i]
    <3>1. \A i \in 1 .. k : f[i] = IF i = 1 THEN seqs[i] ELSE f[i - 1] \o seqs[i]
      BY <2>1 DEF Flattens
    <3>2. \A i \in 1 .. k : i \in 1 .. k + 1 /\ i # k + 1
      BY <2>2
    <3> QED BY <3>1, <3>2
  <2>4. h[k + 1] = IF k + 1 = 1 THEN seqs[k + 1] ELSE f[(k + 1) - 1] \o seqs[k + 1]
    BY <2>2
  <2>5. h = [i \in 1 .. k + 1 |-> h[i]]
    OBVIOUS
  <2> HIDE DEF h
  <2>6. ASSUME NEW i \in 1 .. k + 1
        PROVE  h[i] = IF i = 1 THEN seqs[i] ELSE h[i - 1] \o seqs[i]
    <3>1. CASE i = 1
      <4>1. CASE k = 0
        BY <4>1, <3>1, <2>4
      <4>2. CASE k # 0
        BY <4>2, <3>1, <2>2, <2>3
      <4> QED BY <4>1, <4>2
    <3>2. CASE i # 1
      <4>1. i - 1 \in 1 .. k
        BY <3>2, <2>2
      <4>2. h[i - 1] = f[i - 1]
        BY <4>1, <2>3
      <4>3. CASE i = k + 1
        BY <4>2, <4>3, <3>2, <2>4
      <4>4. CASE i # k + 1
        <5>1. i \in 1 .. k
          BY <4>4, <2>2
        <5> QED BY <5>1, <4>2, <3>2, <2>3
      <4> QED BY <4>3, <4>4
    <3> QED BY <3>1, <3>2
  <2>7. Flattens(h, seqs, k + 1)
    BY <2>5, <2>6 DEF Flattens
  <2> QED BY <2>7
<1>3. N = Nat
  <2> HIDE DEF N
  <2>1. N \subseteq Nat
    BY DEF N
  <2> QED BY <2>1, <1>1, <1>2, Induct
<1> QED BY <1>3

\* FlattenSeq concatenates one sequence after the other.
LEMMA FlattenSteps ==
    ASSUME NEW seqs, NEW n \in Nat \ {0}, Len(seqs) = n
    PROVE  \E f : /\ f[1] = seqs[1]
                  /\ \A k \in 1 .. n - 1 : f[k + 1] = f[k] \o seqs[k + 1]
                  /\ FlattenSeq(seqs) = f[n]
<1> DEFINE P(f) == f = [i \in 1 .. Len(seqs) |-> IF i = 1 THEN seqs[i] ELSE f[i - 1] \o seqs[i]]
<1> DEFINE c == CHOOSE f : P(f)
<1>1. P(c)
  <2>1. \E f : P(f)
    BY FlattenExists DEF Flattens
  <2> HIDE DEF P
  <2> QED BY <2>1
<1>2. FlattenSeq(seqs) = c[n]
  BY DEF FlattenSeq
<1> HIDE DEF c
<1>3. \A i \in 1 .. n : c[i] = IF i = 1 THEN seqs[i] ELSE c[i - 1] \o seqs[i]
  BY <1>1
<1>4. c[1] = seqs[1]
  BY <1>3
<1>5. \A k \in 1 .. n - 1 : c[k + 1] = c[k] \o seqs[k + 1]
  <2> TAKE k \in 1 .. n - 1
  <2>1. k + 1 \in 1 .. n /\ k + 1 # 1 /\ (k + 1) - 1 = k
    OBVIOUS
  <2> QED BY <2>1, <1>3
<1> QED BY <1>2, <1>4, <1>5

\* The merge of some files: f is what their rules, lists and macros amount to.
AllMerged(f, all, files) ==
    /\ f.ok
    /\ MergedFrom(f.rules, all)
    /\ ListsFrom(f.lists, files)
    /\ MacrosFrom(f.macros, files)

\* One more overlay.
LEMMA FileStep ==
    ASSUME NEW f, NEW all, NEW files, IsSequence(files), AllMerged(f, all, files),
           NEW o, IsSequence(o.rules), \A i \in DOMAIN o.rules : IsRule(o.rules[i])
    PROVE  \/ mergeOver(f, o) = Failed
           \/ AllMerged(mergeOver(f, o), all \o o.rules, Append(files, o))
<1> DEFINE new == FoldLeft(mergeRule, Built(f.rules), o.rules)
<1>1. mergeOver(f, o) = IF ~f.ok \/ ~new.ok THEN Failed
         ELSE [ok |-> TRUE, rules |-> new.rules, lists |-> mergeLists(f.lists, o),
               macros |-> Over(o.macros, f.macros)]
  BY DEF mergeOver
<1>2. new = Failed \/ \E r : new = Built(r) /\ MergedFrom(r, all \o o.rules)
  BY MergeRules DEF AllMerged
<1>3. ListsFrom(mergeLists(f.lists, o), Append(files, o))
  BY ListsStep DEF AllMerged
<1>4. MacrosFrom(Over(o.macros, f.macros), Append(files, o))
  BY MacrosStep DEF AllMerged
<1> HIDE DEF new
<1>5. CASE new = Failed
  BY <1>1, <1>5 DEF Failed
<1>6. CASE new # Failed
  <2>1. PICK r : new = Built(r) /\ MergedFrom(r, all \o o.rules)
    BY <1>2, <1>6
  <2>2. new.ok = TRUE /\ new.rules = r
    BY <2>1 DEF Built
  <2>3. f.ok
    BY DEF AllMerged
  <2>4. mergeOver(f, o) = [ok |-> TRUE, rules |-> r, lists |-> mergeLists(f.lists, o),
                           macros |-> Over(o.macros, f.macros)]
    BY <1>1, <2>2, <2>3
  <2>5. /\ mergeOver(f, o).ok /\ mergeOver(f, o).rules = r
        /\ mergeOver(f, o).lists = mergeLists(f.lists, o)
        /\ mergeOver(f, o).macros = Over(o.macros, f.macros)
    BY <2>4
  <2> QED BY <2>1, <2>5, <1>3, <1>4 DEF AllMerged
<1> QED BY <1>5, <1>6

\* The files in the order in which Load reads them.
LEMMA FilesOf ==
    ASSUME NEW overlays, IsSequence(overlays)
    PROVE  /\ IsSequence(<<Default>> \o overlays)
           /\ Len(overlays) \in Nat /\ DOMAIN overlays = 1 .. Len(overlays)
           /\ Len(<<Default>> \o overlays) = Len(overlays) + 1
           /\ DOMAIN (<<Default>> \o overlays) = 1 .. Len(overlays) + 1
           /\ (<<Default>> \o overlays)[1] = Default
           /\ \A k \in 1 .. Len(overlays) : (<<Default>> \o overlays)[k + 1] = overlays[k]
           /\ SubSeq(<<Default>> \o overlays, 1, 1) = <<Default>>
<1>1. PICK S : overlays \in Seq(S)
  BY DEF IsSequence
<1> DEFINE U == S \cup {Default}
<1>2. overlays \in Seq(U) /\ <<Default>> \in Seq(U) /\ Len(overlays) \in Nat
  BY <1>1
<1> DEFINE files == <<Default>> \o overlays
<1> HIDE DEF U
<1>3. /\ files \in Seq(U) /\ Len(files) = Len(overlays) + 1
      /\ DOMAIN files = 1 .. Len(overlays) + 1 /\ files[1] = Default
      /\ \A k \in 1 .. Len(overlays) : files[k + 1] = overlays[k]
  BY <1>2
<1> HIDE DEF files
<1>5. IsSequence(files)
  BY <1>3 DEF IsSequence
<1>4. SubSeq(files, 1, 1) = <<Default>>
  <2>1. SubSeq(files, 1, 0 + 1) = Append(SubSeq(files, 1, 0), files[0 + 1])
    <3>1. 0 \in 0 .. Len(files) - 1
      BY <1>2, <1>3
    <3> QED BY <3>1, <1>5, PrefixAppend
  <2>2. SubSeq(files, 1, 0) = <<>>
    BY <1>3
  <2>3. Append(<<>>, Default) = <<Default>>
    OBVIOUS
  <2>4. 0 + 1 = 1
    OBVIOUS
  <2>5. SubSeq(files, 1, 1) = Append(<<>>, Default)
    BY <2>1, <2>2, <2>4, <1>3, Zenon
  <2> QED BY <2>3, <2>5, Zenon
<1> QED BY <1>2, <1>3, <1>4, <1>5 DEF files

EntriesOf(files) == FlattenSeq([i \in DOMAIN files |-> files[i].rules])

\* Load's loop over the overlays.
LEMMA MergeFiles ==
    ASSUME NEW overlays, IsSequence(overlays), \A i \in DOMAIN overlays : IsFile(overlays[i])
    PROVE  \/ FoldLeft(mergeOver, Base, overlays) = Failed
           \/ AllMerged(FoldLeft(mergeOver, Base, overlays),
                        EntriesOf(<<Default>> \o overlays), <<Default>> \o overlays)
<1> DEFINE n == Len(overlays)
<1> DEFINE files == <<Default>> \o overlays
<1>1. /\ IsSequence(files) /\ n \in Nat /\ DOMAIN overlays = 1 .. n
      /\ Len(files) = n + 1 /\ DOMAIN files = 1 .. n + 1 /\ files[1] = Default
      /\ (\A k \in 1 .. n : files[k + 1] = overlays[k])
      /\ SubSeq(files, 1, 1) = <<Default>>
  BY FilesOf
<1> HIDE DEF files, n
<1>2. PICK b : Trace("file", b, Base, overlays, n) /\ FoldLeft(mergeOver, Base, overlays) = b[n]
  BY <1>1, FoldOfFiles
<1> DEFINE seqs == [i \in DOMAIN files |-> files[i].rules]
<1>3. Len(seqs) = n + 1 /\ n + 1 \in Nat \ {0} /\ \A i \in 1 .. n + 1 : seqs[i] = files[i].rules
  BY <1>1
<1>4. EntriesOf(files) = FlattenSeq(seqs)
  BY DEF EntriesOf
<1> HIDE DEF seqs
<1>5. PICK flat : /\ flat[1] = seqs[1]
                  /\ \A k \in 1 .. (n + 1) - 1 : flat[k + 1] = flat[k] \o seqs[k + 1]
                  /\ FlattenSeq(seqs) = flat[n + 1]
  BY <1>3, FlattenSteps
<1> DEFINE Q(k) == b[k] = Failed \/ AllMerged(b[k], flat[k + 1], SubSeq(files, 1, k + 1))
<1> DEFINE N == {k \in Nat : k <= n => Q(k)}
<1>6. 0 \in N
  <2>1. b[0] = Base
    BY <1>2 DEF Trace
  <2>2. flat[0 + 1] = Default.rules
    BY <1>1, <1>3, <1>5
  <2>3. SubSeq(files, 1, 0 + 1) = <<Default>>
    BY <1>1
  <2>4. AllMerged(Base, Default.rules, <<Default>>)
    BY DefaultMerged, DefaultLists, DefaultMacros DEF AllMerged, Base
  <2>5. Q(0)
    BY <2>1, <2>2, <2>3, <2>4
  <2> HIDE DEF Q
  <2> QED BY <2>5
<1>7. \A k \in N : k + 1 \in N
  <2> SUFFICES ASSUME NEW k \in N, k + 1 <= n PROVE Q(k + 1)
    <3> HIDE DEF Q
    <3> QED OBVIOUS
  <2>1. /\ k \in 0 .. n - 1 /\ k + 1 \in 1 .. n /\ k + 1 \in 1 .. (n + 1) - 1
        /\ k + 1 \in 0 .. (n + 1) - 1 /\ (k + 1) + 1 \in 1 .. n + 1
    BY <1>1
  <2>2. Q(k)
    <3> HIDE DEF Q
    <3> QED BY <1>1
  <2> DEFINE o == overlays[k + 1]
  <2>3. b[k + 1] = mergeOver(b[k], o)
    BY <2>1, <1>2 DEF Trace, Applied
  <2>4. IsSequence(o.rules) /\ \A i \in DOMAIN o.rules : IsRule(o.rules[i])
    BY <2>1, <1>1 DEF IsFile, IsSequence
  <2>5. flat[(k + 1) + 1] = flat[k + 1] \o o.rules
    BY <2>1, <1>1, <1>3, <1>5
  <2>6. SubSeq(files, 1, (k + 1) + 1) = Append(SubSeq(files, 1, k + 1), o)
    <3>1. SubSeq(files, 1, (k + 1) + 1) = Append(SubSeq(files, 1, k + 1), files[(k + 1) + 1])
      BY <2>1, <1>1, PrefixAppend
    <3> QED BY <3>1, <2>1, <1>1
  <2>7. IsSequence(SubSeq(files, 1, k + 1))
    <3>1. PICK S : files \in Seq(S)
      BY <1>1 DEF IsSequence
    <3>2. SubSeq(files, 1, k + 1) \in Seq(S)
      BY <3>1, <2>1, <1>1
    <3> QED BY <3>2 DEF IsSequence
  <2> HIDE DEF o
  <2>8. CASE b[k] = Failed
    <3>1. mergeOver(Failed, o) = Failed
      BY DEF mergeOver, Failed
    <3> QED BY <3>1, <2>3, <2>8
  <2>9. CASE AllMerged(b[k], flat[k + 1], SubSeq(files, 1, k + 1))
    <3>1. \/ mergeOver(b[k], o) = Failed
          \/ AllMerged(mergeOver(b[k], o), flat[k + 1] \o o.rules, Append(SubSeq(files, 1, k + 1), o))
      BY <2>4, <2>7, <2>9, FileStep
    <3> QED BY <3>1, <2>3, <2>5, <2>6
  <2> QED BY <2>2, <2>8, <2>9
<1>8. N = Nat
  <2> HIDE DEF N
  <2>1. N \subseteq Nat
    BY DEF N
  <2> QED BY <2>1, <1>6, <1>7, Induct
<1>9. Q(n)
  <2> HIDE DEF Q
  <2> QED BY <1>1, <1>8
<1>10. SubSeq(files, 1, n + 1) = files
  BY <1>1, ConcatEmpty
<1> QED BY <1>2, <1>4, <1>5, <1>9, <1>10 DEF files

-----------------------------------------------------------------------------
(* The compiled ruleset.                                                   *)

\* compileRuleset's loop keeps the rules that are not disabled, and no other.
LEMMA Skips ==
    ASSUME NEW rules, IsSequence(rules), NEW e, e = FoldLeft(skipDisabled, <<>>, rules)
    PROVE  /\ IsSequence(e)
           /\ \A i \in DOMAIN e : \E j \in DOMAIN rules : e[i] = rules[j] /\ rules[j].enabled # "false"
           /\ \A j \in DOMAIN rules : rules[j].enabled # "false" => \E i \in DOMAIN e : e[i] = rules[j]
<1> DEFINE n == Len(rules)
<1>1. n \in Nat /\ DOMAIN rules = 1 .. n
  BY AppendOf
<1> HIDE DEF n
<1>2. PICK a : Trace("skip", a, <<>>, rules, n) /\ e = a[n]
  BY <1>1, FoldOfSkips
<1> DEFINE Q(k) ==
       /\ IsSequence(a[k])
       /\ \A i \in DOMAIN a[k] : \E j \in 1 .. k : a[k][i] = rules[j] /\ rules[j].enabled # "false"
       /\ \A j \in 1 .. k : rules[j].enabled # "false" => \E i \in DOMAIN a[k] : a[k][i] = rules[j]
<1> DEFINE N == {k \in Nat : k <= n => Q(k)}
<1>3. 0 \in N
  <2>1. a[0] = <<>>
    BY <1>2 DEF Trace
  <2>2. <<>> \in Seq({}) /\ DOMAIN <<>> = {} /\ 1 .. 0 = {}
    OBVIOUS
  <2>3. IsSequence(<<>>)
    BY <2>2 DEF IsSequence
  <2>4. Q(0)
    BY <2>1, <2>2, <2>3
  <2> HIDE DEF Q
  <2> QED BY <2>4
<1>4. \A k \in N : k + 1 \in N
  <2> SUFFICES ASSUME NEW k \in N, k + 1 <= n PROVE Q(k + 1)
    <3> HIDE DEF Q
    <3> QED OBVIOUS
  <2>1. Q(k)
    <3> HIDE DEF Q
    <3> QED BY <1>1
  <2>2. k \in 0 .. n - 1 /\ \A j : j \in 1 .. k + 1 <=> j \in 1 .. k \/ j = k + 1
    BY <1>1
  <2>3. a[k + 1] = skipDisabled(a[k], rules[k + 1])
    BY <2>2, <1>2 DEF Trace, Applied
  <2> DEFINE s == a[k]
  <2> DEFINE r == rules[k + 1]
  <2>4. CASE r.enabled = "false"
    <3>1. a[k + 1] = s
      BY <2>3, <2>4 DEF skipDisabled
    <3> QED BY <3>1, <2>1, <2>2, <2>4
  <2>5. CASE r.enabled # "false"
    <3>1. a[k + 1] = Append(s, r)
      BY <2>3, <2>5 DEF skipDisabled
    <3> DEFINE t == a[k + 1]
    <3>2. /\ IsSequence(t) /\ Len(s) \in Nat /\ DOMAIN s = 1 .. Len(s)
          /\ DOMAIN t = 1 .. Len(s) + 1
          /\ (\A i \in 1 .. Len(s) : t[i] = s[i]) /\ t[Len(s) + 1] = r
      BY <3>1, <2>1, AppendOf
    <3>3. \A i : i \in DOMAIN t <=> i \in DOMAIN s \/ i = Len(s) + 1
      BY <3>2
    <3>4. \A i \in DOMAIN s : t[i] = s[i]
      BY <3>2
    <3> QED BY <3>2, <3>3, <3>4, <2>1, <2>2, <2>5
  <2> QED BY <2>4, <2>5
<1>5. N = Nat
  <2> HIDE DEF N
  <2>1. N \subseteq Nat
    BY DEF N
  <2> QED BY <2>1, <1>3, <1>4, Induct
<1>6. Q(n)
  <2> HIDE DEF Q
  <2> QED BY <1>1, <1>5
<1> QED BY <1>1, <1>2, <1>6

\* A condition that resolves holds for the kinds that the files give it.
LEMMA MeaningIs ==
    ASSUME NEW f, NEW files, ListsFrom(f.lists, files), MacrosFrom(f.macros, files),
           NEW c, Resolves(f, c)
    PROVE  Meaning(f, c) = ReferenceKinds(c, files)
<1>1. \A m \in c.macros : f.macros[m] = ReferenceMacro(m, files)
  BY DEF MacrosFrom, Resolves
<1>2. \A l \in ListsOf(f, c) : f.lists[l] = ReferenceList(l, files)
  BY DEF ListsFrom, Resolves, At
<1>3. \A l : l \in ListsOf(f, c)
               <=> l \in c.lists \/ \E m \in c.macros : l \in ReferenceMacro(m, files).lists
  BY <1>1 DEF ListsOf
<1>4. \A z : z \in Meaning(f, c) <=>
               \/ z \in c.kinds
               \/ \E m \in c.macros : z \in f.macros[m].kinds
               \/ \E l \in ListsOf(f, c) : z \in f.lists[l]
  BY DEF Meaning
<1>5. \A z : z \in Meaning(f, c) <=>
               \/ z \in c.kinds
               \/ \E m \in c.macros : z \in ReferenceMacro(m, files).kinds
               \/ \E l \in ListsOf(f, c) : z \in ReferenceList(l, files)
  BY <1>1, <1>2, <1>4
<1>6. \A z : z \in ReferenceKinds(c, files) <=>
               \/ z \in c.kinds \/ \E l \in c.lists : z \in ReferenceList(l, files)
               \/ \E m \in c.macros :
                     \/ z \in ReferenceMacro(m, files).kinds
                     \/ \E l \in ReferenceMacro(m, files).lists : z \in ReferenceList(l, files)
  BY DEF ReferenceKinds
<1>7. \A z : z \in Meaning(f, c) <=> z \in ReferenceKinds(c, files)
  BY <1>3, <1>5, <1>6
<1>8. \A A, B : (\A z : z \in A <=> z \in B) => A = B
  OBVIOUS
<1> QED BY <1>7, <1>8

\* The arms of a definition, with their guards.
ReferenceArms(arms, files) ==
    [a \in DOMAIN arms |-> [arms[a] EXCEPT !.guard = ReferenceKinds(@, files)]]

\* What EngineIsReference says of a ruleset and the files it was built from.
Reference(rules, files) ==
    LET all == EntriesOf(files)
    IN  /\ NoSilentReplacement(all)
        /\ Ids(rules) = {id \in Ids(all) : ReferenceEnabled(id, all)}
        /\ \A i \in DOMAIN rules :
              LET def == all[Latest(rules[i].id, all)]
              IN  /\ rules[i].gate = ReferenceKinds(def.gate, files) /\ rules[i].scope = def.scope
                  /\ rules[i].arms = ReferenceArms(def.arms, files)
                  /\ rules[i].exceptions = ReferenceExceptions(rules[i].id, all)

Accepted(f, r) ==
    /\ r.compiles /\ Resolves(f, r.gate)
    /\ \A i \in DOMAIN r.arms : Resolves(f, r.arms[i].guard)

\* c is the rule r with its conditions worked out, and otherwise the same.
Compiled(c, r, files) ==
    /\ c.id = r.id /\ c.scope = r.scope /\ c.exceptions = r.exceptions
    /\ c.gate = ReferenceKinds(r.gate, files)
    /\ c.arms = ReferenceArms(r.arms, files)

LEMMA CompiledIs ==
    ASSUME NEW f, NEW files, ListsFrom(f.lists, files), MacrosFrom(f.macros, files),
           NEW r, IsRule(r), Accepted(f, r)
    PROVE  Compiled(compileRule(f, r), r, files)
<1> DEFINE gate == Meaning(f, r.gate)
<1> DEFINE arms == [i \in DOMAIN r.arms |-> compileArm(f, r.arms[i])]
<1>1. gate = ReferenceKinds(r.gate, files)
  BY MeaningIs DEF Accepted
<1>2. \A i \in DOMAIN r.arms : Meaning(f, r.arms[i].guard) = ReferenceKinds(r.arms[i].guard, files)
  BY MeaningIs DEF Accepted
<1>3. arms = ReferenceArms(r.arms, files)
  BY <1>2 DEF compileArm, ReferenceArms
<1>4. compileRule(f, r) = [r EXCEPT !.gate = gate, !.arms = arms]
  BY DEF compileRule
<1> HIDE DEF gate, arms
<1>5. r = [id |-> r.id, override |-> r.override, append |-> r.append, enabled |-> r.enabled,
           scope |-> r.scope, gate |-> r.gate, arms |-> r.arms, exceptions |-> r.exceptions,
           compiles |-> r.compiles]
  BY DEF IsRule
<1>6. DOMAIN r = {"id", "override", "append", "enabled", "scope", "gate", "arms", "exceptions", "compiles"}
  BY <1>5
<1>7. /\ compileRule(f, r).id = r.id /\ compileRule(f, r).scope = r.scope
      /\ compileRule(f, r).exceptions = r.exceptions
      /\ compileRule(f, r).gate = gate /\ compileRule(f, r).arms = arms
  BY <1>4, <1>6
<1> QED BY <1>1, <1>3, <1>7 DEF Compiled

\* A rule is armed unless the last entry that switches it says false.
LEMMA SwitchIs ==
    ASSUME NEW all, Entries(all), NEW id \in Ids(all)
    PROVE  ReferenceEnabled(id, all) <=> Switch(id, all) \in {"unset", "true"}
<1> DEFINE S == Switches(id, all)
<1>1. /\ Len(all) \in Nat /\ Definitions(id, all) \subseteq 1 .. Len(all)
      /\ Additions(id, all) \subseteq 1 .. Len(all)
      /\ Latest(id, all) \in Definitions(id, all)
  BY DefinitionsIn DEF Entries
<1>2. S \subseteq 0 .. Len(all)
  BY <1>1 DEF Switches
<1>3. S = {i \in Additions(id, all) \cup {Max(Definitions(id, all))} : all[i].enabled # "unset"}
  BY DEF Switches, Latest
<1>4. ReferenceEnabled(id, all) <=> S = {} \/ all[Max(S)].enabled = "true"
  BY <1>3 DEF ReferenceEnabled
<1>5. S # {} => all[Max(S)].enabled # "unset"
  <2> SUFFICES ASSUME S # {} PROVE all[Max(S)].enabled # "unset"
    OBVIOUS
  <2>1. Max(S) \in S
    <3> HIDE DEF S
    <3> QED BY <1>1, <1>2, MaxOf
  <2> QED BY <2>1, <1>3
<1> QED BY <1>4, <1>5 DEF Switch

\* A ruleset that loads is what the files say.
LEMMA LoadIsReference ==
    ASSUME NEW overlays, IsSequence(overlays), \A i \in DOMAIN overlays : IsFile(overlays[i]),
           Load(Default, overlays).ok
    PROVE  Reference(Load(Default, overlays).rules, <<Default>> \o overlays)
<1> DEFINE f == FoldLeft(mergeOver, Base, overlays)
<1> DEFINE files == <<Default>> \o overlays
<1> DEFINE all == EntriesOf(files)
<1> DEFINE e == FoldLeft(skipDisabled, <<>>, f.rules)
<1> DEFINE eng0 == Load(Default, overlays).rules
<1>1. Load(Default, overlays) =
         IF f.ok /\ checkUniqueIDs(f.rules) THEN compileRuleset(f) ELSE Failed
  BY DEF Load, Base
<1>2. ~Failed.ok
  BY DEF Failed
<1>3. Load(Default, overlays) = compileRuleset(f) /\ f # Failed /\ compileRuleset(f) # Failed
  <2> HIDE DEF f
  <2> QED BY <1>1, <1>2
<1>4. AllMerged(f, all, files)
  <2> HIDE DEF f, all, files
  <2> QED BY <1>3, MergeFiles DEF f, all, files
<1>5. compileRuleset(f) =
         IF \A i \in DOMAIN e : Accepted(f, e[i])
         THEN Built([i \in DOMAIN e |-> compileRule(f, e[i])]) ELSE Failed
  BY DEF compileRuleset, Accepted
<1> HIDE DEF f, all, files, e
<1>6. (\A i \in DOMAIN e : Accepted(f, e[i])) /\ eng0 = [i \in DOMAIN e |-> compileRule(f, e[i])]
  BY <1>3, <1>5 DEF Built
<1>7. /\ Entries(all) /\ NoSilentReplacement(all) /\ IsSequence(f.rules)
      /\ Ids(f.rules) = Ids(all) /\ \A i \in DOMAIN f.rules : Stands(f.rules[i], all)
      /\ ListsFrom(f.lists, files) /\ MacrosFrom(f.macros, files)
  BY <1>4 DEF AllMerged, MergedFrom
<1>8. /\ \A i \in DOMAIN e : \E j \in DOMAIN f.rules : e[i] = f.rules[j] /\ f.rules[j].enabled # "false"
      /\ \A j \in DOMAIN f.rules : f.rules[j].enabled # "false" => \E i \in DOMAIN e : e[i] = f.rules[j]
  BY <1>7, Skips DEF e
<1>9. \A i \in DOMAIN e : Stands(e[i], all) /\ e[i].enabled # "false" /\ IsRule(e[i])
  BY <1>7, <1>8 DEF Stands
<1>10. \A i \in DOMAIN e : Compiled(eng0[i], e[i], files)
  <2> TAKE i \in DOMAIN e
  <2>1. eng0[i] = compileRule(f, e[i])
    BY <1>6
  <2>2. IsRule(e[i]) /\ Accepted(f, e[i])
    BY <1>6, <1>9
  <2> HIDE DEF eng0
  <2> QED BY <2>1, <2>2, <1>7, CompiledIs
<1>11. DOMAIN eng0 = DOMAIN e
  BY <1>6
<1> HIDE DEF eng0
<1>12. ASSUME NEW id PROVE id \in Ids(eng0) <=> id \in Ids(all) /\ ReferenceEnabled(id, all)
  <2>1. ASSUME id \in Ids(eng0) PROVE id \in Ids(all) /\ ReferenceEnabled(id, all)
    <3>0. PICK k \in DOMAIN eng0 : eng0[k].id = id
      BY <2>1 DEF Ids
    <3>1. PICK i \in DOMAIN e : e[i].id = id
      BY <3>0, <1>10, <1>11 DEF Compiled
    <3>2. id \in Ids(all)
      BY <3>1, <1>7, <1>8 DEF Ids
    <3>3. Switch(id, all) = e[i].enabled /\ e[i].enabled \in {"unset", "true"}
      BY <3>1, <1>9 DEF Stands, IsRule
    <3> QED BY <3>2, <3>3, <1>7, SwitchIs
  <2>2. ASSUME id \in Ids(all), ReferenceEnabled(id, all) PROVE id \in Ids(eng0)
    <3>1. PICK j \in DOMAIN f.rules : f.rules[j].id = id
      BY <2>2, <1>7 DEF Ids
    <3>2. Switch(id, all) \in {"unset", "true"}
      BY <2>2, <1>7, SwitchIs
    <3>3. f.rules[j].enabled # "false"
      BY <3>1, <3>2, <1>7 DEF Stands
    <3>4. PICK i \in DOMAIN e : e[i] = f.rules[j]
      BY <3>3, <1>8
    <3> QED BY <3>1, <3>4, <1>10, <1>11 DEF Ids, Compiled
  <2> QED BY <2>1, <2>2
<1>13. Ids(eng0) = {id \in Ids(all) : ReferenceEnabled(id, all)}
  BY <1>12
<1>14. ASSUME NEW i \in DOMAIN eng0
       PROVE  LET def == all[Latest(eng0[i].id, all)]
              IN  /\ eng0[i].gate = ReferenceKinds(def.gate, files) /\ eng0[i].scope = def.scope
                  /\ eng0[i].arms = ReferenceArms(def.arms, files)
                  /\ eng0[i].exceptions = ReferenceExceptions(eng0[i].id, all)
  <2> DEFINE def == all[Latest(e[i].id, all)]
  <2>1. /\ e[i].gate = def.gate /\ e[i].scope = def.scope /\ e[i].arms = def.arms
        /\ e[i].exceptions = ReferenceExceptions(e[i].id, all)
    BY <1>9, <1>11 DEF Stands
  <2>2. all[Latest(eng0[i].id, all)] = def
    BY <1>10, <1>11 DEF Compiled
  <2> HIDE DEF def
  <2> QED BY <2>1, <2>2, <1>10, <1>11 DEF Compiled
<1>15. Reference(eng0, files)
  BY <1>7, <1>13, <1>14 DEF Reference, all
<1> QED BY <1>15 DEF eng0, files

-----------------------------------------------------------------------------
(* The reloader.                                                           *)

Readable == Contents \ {Broken}

\* The inductive invariant: the ruleset in use is the result of one successful
\* Load, of no overlay or of all of them.
LoadedInv ==
    /\ disk \in [FileIndex -> Contents]
    /\ reload \in [running : BOOLEAN, read : Seq(Readable)]
    /\ builtFrom \in Seq(Readable)
    /\ Len(builtFrom) \in {0, Files}
    /\ Load(Default, builtFrom).ok
    /\ eng = Load(Default, builtFrom).rules

\* The table of rulesets holds what Load returns.
LEMMA LoadOfIs ==
    ASSUME NEW files \in [FileIndex -> Readable]
    PROVE  LoadOf(files) = Load(Default, files)
<1> DEFINE P(entry) == entry \in LoadTable /\ entry[1] = files
<1> DEFINE c == CHOOSE entry \in LoadTable : entry[1] = files
<1>1. <<files, Load(Default, files)>> \in LoadTable
  BY DEF LoadTable, Readable
<1>2. c \in LoadTable /\ c[1] = files
  BY <1>1
<1>3. \A entry \in LoadTable : entry[2] = Load(Default, entry[1])
  BY DEF LoadTable
<1>4. LoadOf(files) = c[2]
  BY DEF LoadOf
<1> HIDE DEF c
<1> QED BY <1>2, <1>3, <1>4

\* A complete set of overlays is a sequence, and conversely.
LEMMA WholeDisk ==
    /\ \A d \in [FileIndex -> Readable] : d \in Seq(Readable) /\ Len(d) = Files
    /\ \A s \in Seq(Readable) : Len(s) = Files => s \in [FileIndex -> Readable]
  BY RulesReloadAssumption DEF FileIndex

\* detector.New starts with a ruleset that loads.
LEMMA LoadedInit == Init => LoadedInv
<1> SUFFICES ASSUME Init PROVE LoadedInv
  OBVIOUS
<1>1. /\ disk \in [FileIndex -> Contents] /\ reload = NotRunning
      /\ builtFrom = IF LoadDisk(disk).ok THEN disk ELSE <<>>
      /\ eng = Load(Default, builtFrom).rules
  BY DEF Init
<1>2. reload \in [running : BOOLEAN, read : Seq(Readable)]
  BY <1>1 DEF NotRunning
<1>3. CASE LoadDisk(disk).ok
  <2>1. \A i \in FileIndex : disk[i] # Broken
    BY <1>3 DEF LoadDisk, Failed
  <2>2. disk \in [FileIndex -> Readable]
    BY <2>1, <1>1 DEF Readable
  <2>3. LoadDisk(disk) = Load(Default, disk)
    BY <2>1, <2>2, LoadOfIs DEF LoadDisk
  <2>4. disk \in Seq(Readable) /\ Len(disk) = Files
    BY <2>2, WholeDisk
  <2>5. builtFrom = disk
    BY <1>1, <1>3
  <2> QED BY <2>3, <2>4, <2>5, <1>1, <1>2, <1>3 DEF LoadedInv
<1>4. CASE ~LoadDisk(disk).ok
  <2>1. builtFrom = <<>>
    BY <1>1, <1>4
  <2>2. <<>> \in Seq(Readable) /\ Len(<<>>) = 0
    OBVIOUS
  <2>3. Load(Default, <<>>).ok
    BY RulesReloadAssumption
  <2> QED BY <2>1, <2>2, <2>3, <1>1, <1>2 DEF LoadedInv
<1> QED BY <1>3, <1>4

\* Only a reload that read every file, and loads, replaces the ruleset.
LEMMA LoadedStep == LoadedInv /\ [Next]_vars => LoadedInv'
<1> SUFFICES ASSUME LoadedInv, [Next]_vars PROVE LoadedInv'
  OBVIOUS
<1>0. /\ disk \in [FileIndex -> Contents]
      /\ reload \in [running : BOOLEAN, read : Seq(Readable)]
      /\ builtFrom \in Seq(Readable) /\ Len(builtFrom) \in {0, Files}
      /\ Load(Default, builtFrom).ok /\ eng = Load(Default, builtFrom).rules
  BY DEF LoadedInv
<1>1. CASE ReloadStart
  <2>1. reload' \in [running : BOOLEAN, read : Seq(Readable)]
    BY <1>1 DEF ReloadStart
  <2>2. disk' = disk /\ eng' = eng /\ builtFrom' = builtFrom
    BY <1>1 DEF ReloadStart
  <2> QED BY <2>1, <2>2, <1>0 DEF LoadedInv, FileIndex
<1>2. CASE ReloadReadFile
  <2> DEFINE content == disk[Len(reload.read) + 1]
  <2>1. reload.read \in Seq(Readable) /\ Len(reload.read) \in Nat /\ Len(reload.read) < Files
    BY <1>2, <1>0 DEF ReloadReadFile
  <2>2. content \in Contents
    <3>1. Len(reload.read) + 1 \in FileIndex
      BY <2>1, RulesReloadAssumption DEF FileIndex
    <3> QED BY <3>1, <1>0
  <2>3. reload' = IF content = Broken THEN NotRunning ELSE [reload EXCEPT !.read = Append(@, content)]
    BY <1>2 DEF ReloadReadFile
  <2> HIDE DEF content
  <2>4. reload' \in [running : BOOLEAN, read : Seq(Readable)]
    <3>1. CASE content = Broken
      BY <3>1, <2>3 DEF NotRunning
    <3>2. CASE content # Broken
      <4>1. Append(reload.read, content) \in Seq(Readable)
        BY <3>2, <2>1, <2>2 DEF Readable
      <4> QED BY <4>1, <3>2, <2>3, <1>0
    <3> QED BY <3>1, <3>2
  <2>5. disk' = disk /\ eng' = eng /\ builtFrom' = builtFrom
    BY <1>2 DEF ReloadReadFile
  <2> QED BY <2>4, <2>5, <1>0 DEF LoadedInv, FileIndex
<1>3. CASE ReloadSwap
  <2>1. reload' \in [running : BOOLEAN, read : Seq(Readable)] /\ disk' = disk
    BY <1>3 DEF ReloadSwap, NotRunning
  <2>2. reload.read \in Seq(Readable) /\ Len(reload.read) = Files
    BY <1>3, <1>0 DEF ReloadSwap
  <2>3. LoadOf(reload.read) = Load(Default, reload.read)
    BY <2>2, WholeDisk, LoadOfIs
  <2>4. CASE Load(Default, reload.read).ok
    <3>1. eng' = Load(Default, reload.read).rules /\ builtFrom' = reload.read
      BY <1>3, <2>3, <2>4 DEF ReloadSwap
    <3> QED BY <3>1, <2>1, <2>2, <2>4, <1>0 DEF LoadedInv, FileIndex
  <2>5. CASE ~Load(Default, reload.read).ok
    <3>1. eng' = eng /\ builtFrom' = builtFrom
      BY <1>3, <2>3, <2>5 DEF ReloadSwap
    <3> QED BY <3>1, <2>1, <1>0 DEF LoadedInv, FileIndex
  <2> QED BY <2>4, <2>5
<1>4. CASE \E i \in FileIndex, content \in Contents : EditFile(i, content)
  <2>1. PICK i \in FileIndex, content \in Contents : EditFile(i, content)
    BY <1>4
  <2>2. disk' = [disk EXCEPT ![i] = content] /\ reload' = reload /\ eng' = eng /\ builtFrom' = builtFrom
    BY <2>1 DEF EditFile
  <2>3. disk' \in [FileIndex -> Contents]
    BY <2>2, <1>0
  <2> QED BY <2>2, <2>3, <1>0 DEF LoadedInv, FileIndex
<1>5. CASE UNCHANGED vars
  BY <1>5, <1>0 DEF LoadedInv, vars, FileIndex
<1> QED BY <1>1, <1>2, <1>3, <1>4, <1>5 DEF Next, Reload

\* The ruleset in use is always the result of one successful Load of the embedded
\* rules and of all overlays or none: a reload that fails, or that is half way
\* through the files, has no effect (reloadRules in main.go).
THEOREM LoadedWhole == Spec => []LoadedInv
  BY LoadedInit, LoadedStep, PTL DEF Spec

\* The ruleset of a successful Load is what the files say.
LEMMA LoadedReference == LoadedInv => EngineIsReference
<1> SUFFICES ASSUME LoadedInv PROVE EngineIsReference
  OBVIOUS
<1>1. /\ builtFrom \in Seq(Readable) /\ Load(Default, builtFrom).ok
      /\ eng = Load(Default, builtFrom).rules
  BY DEF LoadedInv
<1>2. IsSequence(builtFrom) /\ \A i \in DOMAIN builtFrom : IsFile(builtFrom[i])
  <2>1. \A i \in DOMAIN builtFrom : builtFrom[i] \in Readable
    BY <1>1
  <2> QED BY <2>1, <1>1, RulesReloadAssumption DEF IsSequence, Readable
<1>3. Reference(eng, <<Default>> \o builtFrom)
  BY <1>1, <1>2, LoadIsReference
<1> QED BY <1>3 DEF EngineIsReference, Reference, ReferenceArms, Latest, EntriesOf

\* Whatever the operator's files hold, however they are edited while they are
\* being read, the ruleset in use is what the definition-by-definition reading of
\* the files it was built from says (loader.go mergeOver, compile.go
\* compileRuleset, main.go reloadRules).
THEOREM EngineFollowsFiles == Spec => []EngineIsReference
  BY LoadedWhole, LoadedReference, PTL

=============================================================================
