---------------------------- MODULE TailerProofs ----------------------------
(***************************************************************************)
(* What the auth-log tailer guarantees for any number of addresses, lines, *)
(* renames and truncations, any threshold and any window.                  *)
(*                                                                         *)
(* InSync places descriptor, buffer and offset against each other.  That a *)
(* line is handled once needs all of the files: which lines are in them, in *)
(* which order, and which the tailer has passed.  The tracker's list is a  *)
(* suffix of the failures since the last alert, and no burst is cut off.   *)
(***************************************************************************)
EXTENDS Tailer, TLAPS, WellFoundedInduction, NaturalsInduction, SequenceTheorems

HalfLine == [line : Nat, ip : Ip \cup {NoIp}, end : BOOLEAN]

Handled == [line : Nat, alert : Ip \cup {NoIp}]

\* The types of the model's variables.
TypeOK ==
    /\ content \in [Inode -> Seq(HalfLine)]
    /\ path \in Inode \cup {0} /\ logger \in Inode
    /\ lines \in Nat /\ rotations \in 0 .. MaxRotations /\ truncations \in Nat /\ clock \in Nat
    /\ pc \in {"wait", "stat", "reopen", "read", "done"}
    /\ fd \in [ino : Inode \cup {0}, pos : Nat] /\ offset \in Nat
    /\ buf \in Seq(HalfLine)
    /\ hit \in [Ip -> Seq(Nat)] /\ fails \in [Ip -> Seq(Nat)]
    /\ handled \in Seq(Handled) /\ skipped \subseteq Nat

\* Where Run is decides what it has open and what it has buffered, and the
\* offset is the descriptor's position less the buffered half lines.
InSync ==
    /\ fd.ino = 0 => fd = Closed
    /\ pc \in {"stat", "reopen", "read"} => fd.ino # 0
    /\ pc # "read" => buf = <<>>
    /\ fd.ino # 0 => offset + Len(buf) = fd.pos

-----------------------------------------------------------------------------
(* Which lines are where.  Only the half that ends a line counts.          *)

\* The path always names the newest inode, the logger never writes to one
\* that was not at the path, and no file has been read that is not older.
Newest ==
    /\ path # 0 => path = rotations + 1
    /\ logger <= rotations + 1 /\ fd.ino <= rotations + 1
    /\ path = 0 => fd.ino <= rotations
    /\ \A j \in Inode : j > logger => content[j] = <<>>

\* A line in the making is the last one begun ...
Making == Pending => Last(content[logger]).line = lines

\* ... and no complete line, in a file, in the buffer, handled or skipped, is
\* later than it.
Complete(l) == l <= lines /\ (Pending => l < lines)

CompleteLines ==
    /\ \A j \in Inode : \A i \in DOMAIN content[j] : content[j][i].end => Complete(content[j][i].line)
    /\ \A i \in DOMAIN buf : buf[i].end => Complete(buf[i].line)
    /\ \A i \in DOMAIN handled : Complete(handled[i].line)
    /\ \A l \in skipped : Complete(l)

\* The lines of s end in the order in which they were begun.
Ordered(s) == \A i, j \in DOMAIN s : i < j /\ s[i].end /\ s[j].end => s[i].line < s[j].line

FilesOrdered ==
    /\ Ordered(buf)
    /\ \A j \in Inode : Ordered(content[j])
    /\ \A j, k \in Inode : j < k =>
          \A a \in DOMAIN content[j], b \in DOMAIN content[k] :
             content[j][a].end /\ content[k][b].end => content[j][a].line < content[k][b].line

\* The file shrank under the descriptor, or is about to be opened again.
Shrunk ==
    /\ fd.ino # 0
    /\ Len(content[fd.ino]) < fd.pos \/ (pc = "reopen" /\ path = fd.ino)

\* The newest inode of which anything may have been handled or skipped.
Base == IF fd.ino = 0 THEN rotations ELSE fd.ino

\* Half line i of inode j can still be read.
Ahead(j, i) == j > Base \/ (fd.ino # 0 /\ j = fd.ino /\ (i > offset \/ Shrunk))

\* A line that neither was handled nor skipped, nor lies before one that was.
New(l) == l \notin skipped /\ \A n \in DOMAIN handled : handled[n].line < l

\* The line is later than what the buffer holds before position i of inode j.
PastBuffer(l, j, i) ==
    \A k \in DOMAIN buf : buf[k].end /\ (j > Base \/ Shrunk \/ i > offset + k) => buf[k].line < l

\* What is still to be read has not been handled, and follows the buffer.
AheadIsNew ==
    /\ \A k \in DOMAIN buf : buf[k].end => New(buf[k].line)
    /\ \A j \in Inode : \A i \in DOMAIN content[j] :
          content[j][i].end /\ Ahead(j, i)
             => New(content[j][i].line) /\ PastBuffer(content[j][i].line, j, i)

-----------------------------------------------------------------------------
(* The tracker.                                                            *)

NonDecreasing(s) == \A i, j \in DOMAIN s : i < j => s[i] <= s[j]

\* h is what is left of f once the times of Window ago are dropped.
FreshPart(h, f, now) ==
    \E m \in 0 .. Len(f) :
       /\ h = SubSeq(f, m + 1, Len(f))
       /\ \A i \in 1 .. m : f[i] <= now - Window

\* The tracker keeps of the failures since the last alert exactly a latest
\* part, and what it dropped is older than the window.
Tracked ==
    \A ip \in Ip :
       /\ NonDecreasing(fails[ip])
       /\ \A i \in DOMAIN fails[ip] : fails[ip][i] <= clock
       /\ FreshPart(hit[ip], fails[ip], clock)

-----------------------------------------------------------------------------
(* Induction over the naturals, for sets.                                  *)

\* A set of naturals has a least element.
LEMMA Least ==
    ASSUME NEW T, T \subseteq Nat, T # {}
    PROVE  \E m \in T : \A n \in T : m <= n
<1>1. PICK m \in T : \A y \in T : ~(<<y, m>> \in OpToRel(<, Nat))
  BY WFMin, NatLessThanWellFounded
<1>2. \A y \in T : ~(y < m)
  BY <1>1 DEF OpToRel
<1> QED BY <1>2

\* A set that holds 0 and every successor holds every natural.
LEMMA Induct ==
    ASSUME NEW T, T \subseteq Nat, 0 \in T, \A n \in T : n + 1 \in T
    PROVE  T = Nat
<1> SUFFICES ASSUME NEW a \in Nat, a \notin T PROVE FALSE
  OBVIOUS
<1>1. PICK m \in Nat \ T : \A n \in Nat \ T : m <= n
  <2> DEFINE U == Nat \ T
  <2>1. U \subseteq Nat /\ U # {}
    OBVIOUS
  <2> HIDE DEF U
  <2>2. \E m \in U : \A n \in U : m <= n
    BY <2>1, Least
  <2> QED BY <2>2 DEF U
<1>2. m # 0 /\ m - 1 \in Nat
  BY <1>1
<1>3. m - 1 \in T
  BY <1>1, <1>2
<1> QED BY <1>1, <1>2, <1>3

-----------------------------------------------------------------------------
(* The operators of the model.                                             *)

\* ReadString stops at a half line that ends one.
LEMMA LineEndIn ==
    ASSUME NEW S, buf \in Seq(S)
    PROVE  LineEnd = 0 \/ (LineEnd \in 1 .. Len(buf) /\ buf[LineEnd].end)
<1> DEFINE I == {i \in 1 .. Len(buf) : buf[i].end}
<1>1. LineEnd = IF I # {} THEN Min(I) ELSE 0
  BY DEF LineEnd, SelectInSeq
<1>2. CASE I # {}
  <2>1. I \subseteq Nat
    OBVIOUS
  <2> HIDE DEF I
  <2>2. \E m \in I : \A n \in I : m <= n
    BY <1>2, <2>1, Least
  <2>3. Min(I) \in I
    BY <2>2 DEF Min
  <2> QED BY <1>1, <1>2, <2>3 DEF I
<1> QED BY <1>1, <1>2

\* The run of the loop of tracker.add over the first n times.
KeptBy(f, ts, cutoff, n) ==
    f = [i \in 0 .. n |->
          IF i = 0 THEN <<>>
          ELSE IF ts[i] > cutoff THEN Append(f[i - 1], ts[i]) ELSE f[i - 1]]

LEMMA KeptExists ==
    ASSUME NEW ts \in Seq(Nat), NEW cutoff \in Int
    PROVE  \A n \in Nat : n <= Len(ts) => \E f : KeptBy(f, ts, cutoff, n)
<1> DEFINE T == {n \in Nat : n <= Len(ts) => \E f : KeptBy(f, ts, cutoff, n)}
<1>1. 0 \in T
  <2>1. KeptBy([i \in 0 .. 0 |-> <<>>], ts, cutoff, 0)
    BY DEF KeptBy
  <2> QED BY <2>1
<1>2. \A n \in T : n + 1 \in T
  <2> SUFFICES ASSUME NEW n \in T, n + 1 <= Len(ts)
               PROVE  \E f : KeptBy(f, ts, cutoff, n + 1)
    OBVIOUS
  <2>1. PICK f : KeptBy(f, ts, cutoff, n)
    OBVIOUS
  <2> DEFINE g == [i \in 0 .. n + 1 |-> IF i <= n THEN f[i]
                      ELSE IF ts[n + 1] > cutoff THEN Append(f[n], ts[n + 1]) ELSE f[n]]
  <2>2. n \in Nat
    OBVIOUS
  <2>3. \A i \in 0 .. n : f[i] = IF i = 0 THEN <<>>
           ELSE IF ts[i] > cutoff THEN Append(f[i - 1], ts[i]) ELSE f[i - 1]
    BY <2>1 DEF KeptBy
  <2>4. \A i \in 0 .. n : g[i] = f[i]
    BY <2>2
  <2>5. g[n + 1] = IF ts[n + 1] > cutoff THEN Append(f[n], ts[n + 1]) ELSE f[n]
    BY <2>2
  <2>6. g = [i \in 0 .. n + 1 |-> g[i]]
    OBVIOUS
  <2> HIDE DEF g
  <2>7. \A i \in 0 .. n + 1 : g[i] = IF i = 0 THEN <<>>
           ELSE IF ts[i] > cutoff THEN Append(g[i - 1], ts[i]) ELSE g[i - 1]
    <3> TAKE i \in 0 .. n + 1
    <3>1. CASE i = n + 1
      BY <3>1, <2>2, <2>4, <2>5
    <3>2. CASE i = 0
      BY <3>2, <2>2, <2>3, <2>4
    <3>3. CASE i \in 1 .. n
      <4>1. i - 1 \in 0 .. n /\ i \in 0 .. n /\ i # 0
        BY <3>3, <2>2
      <4>2. g[i] = f[i] /\ g[i - 1] = f[i - 1]
        BY <4>1, <2>4
      <4> QED BY <4>1, <4>2, <2>3
    <3> QED BY <3>1, <3>2, <3>3, <2>2
  <2>8. KeptBy(g, ts, cutoff, n + 1)
    BY <2>6, <2>7 DEF KeptBy
  <2> QED BY <2>8
<1>3. T = Nat
  <2> HIDE DEF T
  <2>1. T \subseteq Nat
    BY DEF T
  <2> QED BY <1>1, <1>2, <2>1, Induct
<1> QED BY <1>3

LEMMA AfterIsKept ==
    ASSUME NEW ts \in Seq(Nat), NEW cutoff \in Int
    PROVE  \E f : KeptBy(f, ts, cutoff, Len(ts)) /\ After(ts, cutoff) = f[Len(ts)]
<1>1. \E f : KeptBy(f, ts, cutoff, Len(ts))
  BY KeptExists
<1> DEFINE k == CHOOSE f : KeptBy(f, ts, cutoff, Len(ts))
<1>2. KeptBy(k, ts, cutoff, Len(ts))
  BY <1>1
<1>3. After(ts, cutoff) = k[Len(ts)]
  BY DEF After, KeptBy
<1> QED BY <1>2, <1>3

LEMMA AppendToSubSeq ==
    ASSUME NEW S, NEW s \in Seq(S), NEW n \in Nat, n + 1 <= Len(s), NEW m \in 0 .. n
    PROVE  Append(SubSeq(s, m + 1, n), s[n + 1]) = SubSeq(s, m + 1, n + 1)
<1> DEFINE a == SubSeq(s, m + 1, n)
<1> DEFINE b == SubSeq(s, m + 1, n + 1)
<1>1. a \in Seq(S) /\ Len(a) = n - m /\ \A i \in 1 .. n - m : a[i] = s[m + i]
  OBVIOUS
<1>2. b \in Seq(S) /\ Len(b) = n + 1 - m /\ \A i \in 1 .. n + 1 - m : b[i] = s[m + i]
  OBVIOUS
<1>3. s[n + 1] \in S
  OBVIOUS
<1> HIDE DEF a, b
<1>4. Append(a, s[n + 1]) \in Seq(S) /\ Len(Append(a, s[n + 1])) = Len(b)
  BY <1>1, <1>2, <1>3
<1>5. \A i \in 1 .. Len(b) : Append(a, s[n + 1])[i] = b[i]
  BY <1>1, <1>2, <1>3
<1>6. Append(a, s[n + 1]) = b
  BY <1>2, <1>4, <1>5, SeqEqual
<1> QED BY <1>6 DEF a, b

\* m splits the first n of the times into those up to the cutoff and those after.
Splits(ts, cutoff, m, n) ==
    /\ \A i \in 1 .. m : ts[i] <= cutoff
    /\ \A i \in m + 1 .. n : ts[i] > cutoff

\* Times in order, the loop keeps exactly the latest ones.
LEMMA AfterIsSuffix ==
    ASSUME NEW ts \in Seq(Nat), NEW cutoff \in Int, NonDecreasing(ts)
    PROVE  \E m \in 0 .. Len(ts) :
              After(ts, cutoff) = SubSeq(ts, m + 1, Len(ts)) /\ Splits(ts, cutoff, m, Len(ts))
<1>1. PICK f : KeptBy(f, ts, cutoff, Len(ts)) /\ After(ts, cutoff) = f[Len(ts)]
  BY AfterIsKept
<1> DEFINE Q(n) == \E m \in 0 .. n : f[n] = SubSeq(ts, m + 1, n) /\ Splits(ts, cutoff, m, n)
<1> DEFINE T == {n \in Nat : n <= Len(ts) => Q(n)}
<1>2. \A i \in 0 .. Len(ts) : f[i] = IF i = 0 THEN <<>>
         ELSE IF ts[i] > cutoff THEN Append(f[i - 1], ts[i]) ELSE f[i - 1]
  BY <1>1 DEF KeptBy
<1>3. 0 \in T
  <2>1. 0 \in 0 .. Len(ts)
    OBVIOUS
  <2>2. f[0] = <<>>
    BY <1>2, <2>1
  <2>3. SubSeq(ts, 0 + 1, 0) = <<>>
    OBVIOUS
  <2>4. Splits(ts, cutoff, 0, 0)
    BY DEF Splits
  <2>5. Q(0)
    <3> WITNESS 0 \in 0 .. 0
    <3> QED BY <2>2, <2>3, <2>4
  <2> HIDE DEF Q
  <2> QED BY <2>5
<1>4. \A n \in T : n + 1 \in T
  <2> SUFFICES ASSUME NEW n \in T, n + 1 <= Len(ts)
               PROVE  Q(n + 1)
    <3> HIDE DEF Q
    <3> QED OBVIOUS
  <2>1. n \in Nat /\ n <= Len(ts) /\ n + 1 \in 0 .. Len(ts) /\ n + 1 # 0 /\ (n + 1) - 1 = n
    OBVIOUS
  <2>2. PICK m \in 0 .. n : f[n] = SubSeq(ts, m + 1, n) /\ Splits(ts, cutoff, m, n)
    BY <2>1
  <2>3. f[n + 1] = IF ts[n + 1] > cutoff THEN Append(f[n], ts[n + 1]) ELSE f[n]
    BY <2>1, <1>2
  <2>4. CASE ts[n + 1] > cutoff
    <3>1. f[n + 1] = SubSeq(ts, m + 1, n + 1)
      <4>1. Append(SubSeq(ts, m + 1, n), ts[n + 1]) = SubSeq(ts, m + 1, n + 1)
        BY <2>1, AppendToSubSeq
      <4> QED BY <4>1, <2>2, <2>3, <2>4
    <3>2. Splits(ts, cutoff, m, n + 1)
      BY <2>1, <2>2, <2>4 DEF Splits
    <3> QED BY <3>1, <3>2, <2>1
  <2>5. CASE ~(ts[n + 1] > cutoff)
    <3>1. \A i \in 1 .. n : ts[i] <= ts[n + 1]
      BY <2>1 DEF NonDecreasing
    <3>2. ts[n + 1] <= cutoff /\ \A i \in 1 .. n : ts[i] <= cutoff
      BY <2>1, <2>5, <3>1
    <3>3. m = n
      BY <3>2, <2>1, <2>2 DEF Splits
    <3>4. f[n + 1] = <<>> /\ SubSeq(ts, n + 2, n + 1) = <<>>
      BY <3>3, <2>1, <2>2, <2>3, <2>5
    <3>5. Splits(ts, cutoff, n + 1, n + 1)
      BY <3>2, <2>1 DEF Splits
    <3>6. n + 1 \in 0 .. n + 1 /\ (n + 1) + 1 = n + 2
      BY <2>1
    <3> QED BY <3>4, <3>5, <3>6
  <2> QED BY <2>4, <2>5
<1>5. T = Nat
  <2> HIDE DEF T
  <2>1. T \subseteq Nat
    BY DEF T
  <2> QED BY <1>3, <1>4, <2>1, Induct
<1>6. Q(Len(ts))
  BY <1>5
<1> QED BY <1>1, <1>6

-----------------------------------------------------------------------------
(* Types, and the offset.                                                  *)

SyncInv == TypeOK /\ InSync

FileStep == Write \/ WriteRest \/ RenameAway \/ Create \/ ReopenLogger \/ Truncate

LEMMA SyncInit == Init => SyncInv
<1> SUFFICES ASSUME Init PROVE SyncInv
  OBVIOUS
<1> USE TailerAssumption
<1>1. OldLine \in HalfLine
  BY DEF OldLine, HalfLine
<1>2. 1 \in Inode
  BY DEF Inode
<1>3. content \in [Inode -> Seq(HalfLine)]
  <2>1. <<OldLine>> \in Seq(HalfLine) /\ <<>> \in Seq(HalfLine)
    BY <1>1
  <2> QED BY <2>1 DEF Init
<1>4. Closed \in [ino : Inode \cup {0}, pos : Nat] /\ Closed.ino = 0
  BY DEF Closed
<1>5. handled \in Seq(Handled) /\ buf \in Seq(HalfLine)
  BY DEF Init
<1>6. hit \in [Ip -> Seq(Nat)] /\ fails \in [Ip -> Seq(Nat)]
  BY DEF Init
<1> QED BY <1>2, <1>3, <1>4, <1>5, <1>6 DEF Init, SyncInv, TypeOK, InSync

LEMMA HalvesTyped ==
    ASSUME TypeOK, NEW halves \in Seq(HalfLine), AppendHalves(halves), lines' \in Nat
    PROVE  TypeOK'
<1>1. content[logger] \in Seq(HalfLine)
  BY DEF TypeOK
<1>2. content[logger] \o halves \in Seq(HalfLine)
  BY <1>1
<1>3. content' \in [Inode -> Seq(HalfLine)]
  BY <1>2 DEF TypeOK, AppendHalves
<1> QED BY <1>3 DEF TypeOK, AppendHalves, tailVars, trackVars

LEMMA FileStepTyped ==
    ASSUME TypeOK, FileStep
    PROVE  TypeOK'
<1> USE TailerAssumption
<1>1. ASSUME NEW ip \in Ip \cup {NoIp}, WriteHalf(ip) PROVE TypeOK'
  <2>1. lines' \in Nat
    BY <1>1 DEF WriteHalf, TypeOK
  <2>2. Half(ip, FALSE) \in HalfLine
    BY <2>1 DEF Half, HalfLine
  <2> DEFINE h == Half(ip, FALSE)
  <2> HIDE DEF h
  <2>a. h \in HalfLine
    BY <2>2 DEF h
  <2>b. <<h>> \in Seq(HalfLine)
    BY <2>a
  <2>3. <<Half(ip, FALSE)>> \in Seq(HalfLine)
    BY <2>b DEF h
  <2> QED BY <1>1, <2>1, <2>3, HalvesTyped DEF WriteHalf
<1>2. CASE WriteRest
  <2>1. content[logger] \in Seq(HalfLine) /\ content[logger] # <<>>
    BY <1>2 DEF WriteRest, Pending, TypeOK
  <2>2. Last(content[logger]) \in HalfLine
    BY <2>1 DEF Last
  <2>3. [Last(content[logger]) EXCEPT !.end = TRUE] \in HalfLine
    BY <2>2 DEF HalfLine
  <2>4. <<[Last(content[logger]) EXCEPT !.end = TRUE]>> \in Seq(HalfLine)
    BY <2>3
  <2>5. lines' \in Nat
    BY <1>2 DEF WriteRest, TypeOK
  <2> QED BY <1>2, <2>4, <2>5, HalvesTyped DEF WriteRest
<1>3. CASE RenameAway
  BY <1>3 DEF RenameAway, TypeOK, tailVars, trackVars
<1>4. CASE Create
  BY <1>4 DEF Create, TypeOK, tailVars, trackVars, Inode
<1>5. CASE ReopenLogger
  BY <1>5 DEF ReopenLogger, TypeOK, tailVars, trackVars, Inode
<1>6. CASE Truncate
  <2>1. content' \in [Inode -> Seq(HalfLine)] /\ truncations' \in Nat
    BY <1>6 DEF Truncate, TypeOK
  <2> QED BY <1>6, <2>1 DEF Truncate, TypeOK, tailVars, trackVars
<1> QED BY <1>1, <1>2, <1>3, <1>4, <1>5, <1>6 DEF FileStep, Write

\* The loop keeps times, whatever the cutoff.
LEMMA AfterTyped ==
    ASSUME NEW ts \in Seq(Nat), NEW cutoff \in Int
    PROVE  After(ts, cutoff) \in Seq(Nat)
<1>1. PICK f : KeptBy(f, ts, cutoff, Len(ts)) /\ After(ts, cutoff) = f[Len(ts)]
  BY AfterIsKept
<1> DEFINE T == {n \in Nat : n <= Len(ts) => f[n] \in Seq(Nat)}
<1>2. \A i \in 0 .. Len(ts) : f[i] = IF i = 0 THEN <<>>
         ELSE IF ts[i] > cutoff THEN Append(f[i - 1], ts[i]) ELSE f[i - 1]
  BY <1>1 DEF KeptBy
<1>3. 0 \in T
  <2>1. 0 \in 0 .. Len(ts)
    OBVIOUS
  <2>2. f[0] = <<>>
    BY <1>2, <2>1
  <2>3. f[0] \in Seq(Nat)
    BY <2>2
  <2> QED BY <2>3
<1>4. \A n \in T : n + 1 \in T
  <2> SUFFICES ASSUME NEW n \in T, n + 1 <= Len(ts)
               PROVE  f[n + 1] \in Seq(Nat)
    OBVIOUS
  <2>1. n + 1 \in 0 .. Len(ts) /\ n + 1 # 0 /\ (n + 1) - 1 = n /\ n + 1 \in 1 .. Len(ts)
    OBVIOUS
  <2>2. f[n + 1] = IF ts[n + 1] > cutoff THEN Append(f[n], ts[n + 1]) ELSE f[n]
    BY <2>1, <1>2
  <2>3. f[n] \in Seq(Nat) /\ ts[n + 1] \in Nat
    BY <2>1
  <2> QED BY <2>2, <2>3
<1>5. T = Nat
  <2> HIDE DEF T
  <2>1. T \subseteq Nat
    BY DEF T
  <2> QED BY <1>3, <1>4, <2>1, Induct
<1> QED BY <1>1, <1>5

LEMMA AddTyped ==
    ASSUME TypeOK, NEW ip \in Ip, add(ip)
    PROVE  hit' \in [Ip -> Seq(Nat)] /\ fails' \in [Ip -> Seq(Nat)]
<1>1. hit[ip] \in Seq(Nat) /\ fails[ip] \in Seq(Nat) /\ clock \in Nat /\ clock - Window \in Int
  BY TailerAssumption DEF TypeOK
<1>2. fresh(ip) \in Seq(Nat)
  BY <1>1, AfterTyped DEF fresh
<1>3. Append(fresh(ip), clock) \in Seq(Nat) /\ Append(fails[ip], clock) \in Seq(Nat) /\ <<>> \in Seq(Nat)
  BY <1>1, <1>2
<1> QED BY <1>3 DEF add, TypeOK

LEMMA MatchedTyped ==
    ASSUME TypeOK, LineEnd # 0, NEW ip \in FailedAuthIP
    PROVE  ip \in Ip \cup {NoIp}
<1>1. buf \in Seq(HalfLine) /\ LineEnd \in 1 .. Len(buf)
  BY LineEndIn DEF TypeOK
<1>2. Line \in Seq(HalfLine) /\ Len(Line) = LineEnd
  BY <1>1 DEF Line
<1>3. \A i \in DOMAIN Line : Line[i].ip \in Ip \cup {NoIp}
  <2> TAKE i \in DOMAIN Line
  <2>1. Line[i] \in HalfLine
    BY <1>2
  <2> QED BY <2>1 DEF HalfLine
<1>4. 1 \in DOMAIN Line
  BY <1>1, <1>2
<1> QED BY <1>3, <1>4 DEF FailedAuthIP

\* What handleLine records of the line it was given.
LEMMA LastOfLine ==
    ASSUME TypeOK, LineEnd # 0
    PROVE  /\ LineEnd \in 1 .. Len(buf) /\ buf[LineEnd].end
           /\ Last(Line) = buf[LineEnd] /\ buf[LineEnd].line \in Nat
<1>1. buf \in Seq(HalfLine) /\ LineEnd \in 1 .. Len(buf) /\ buf[LineEnd].end
  BY LineEndIn DEF TypeOK
<1>2. Line \in Seq(HalfLine) /\ Len(Line) = LineEnd /\ Line[LineEnd] = buf[LineEnd]
  BY <1>1 DEF Line
<1>3. buf[LineEnd] \in HalfLine
  BY <1>1
<1> QED BY <1>1, <1>2, <1>3 DEF Last, HalfLine

LEMMA HandleLineTyped ==
    ASSUME TypeOK, HandleLine
    PROVE  TypeOK'
<1>1. LineEnd # 0 /\ LineEnd \in 1 .. Len(buf) /\ Last(Line).line \in Nat /\ buf \in Seq(HalfLine)
  BY LastOfLine DEF HandleLine, TypeOK
<1>2. offset' \in Nat /\ buf' \in Seq(HalfLine)
  BY <1>1 DEF HandleLine, TypeOK
<1>3. PICK ip \in FailedAuthIP :
         /\ handled' = Append(handled, [line |-> Last(Line).line, alert |-> AlertFor(ip)])
         /\ IF ip = NoIp THEN UNCHANGED <<hit, fails>> ELSE add(ip)
  BY DEF HandleLine
<1>4. ip \in Ip \cup {NoIp}
  BY <1>1, MatchedTyped
<1>5. AlertFor(ip) \in Ip \cup {NoIp}
  BY <1>4 DEF AlertFor
<1>6. [line |-> Last(Line).line, alert |-> AlertFor(ip)] \in Handled
  BY <1>1, <1>5 DEF Handled
<1>7. handled' \in Seq(Handled)
  BY <1>3, <1>6 DEF TypeOK
<1>8. hit' \in [Ip -> Seq(Nat)] /\ fails' \in [Ip -> Seq(Nat)]
  BY <1>3, <1>4, AddTyped DEF TypeOK
<1> QED BY <1>2, <1>7, <1>8 DEF TypeOK, HandleLine, TailStep, fileVars

LEMMA RunTyped ==
    ASSUME SyncInv, Run
    PROVE  TypeOK'
<1> USE DEF SyncInv
<1>1. CASE PollOpen
  <2>1. path \in Inode /\ content[path] \in Seq(HalfLine)
    BY <1>1 DEF PollOpen, TypeOK
  <2>2. Size(path) \in Nat
    BY <2>1 DEF Size
  <2>3. \A i \in 1 .. Size(path) : content[path][i].line \in Nat
    <3> TAKE i \in 1 .. Size(path)
    <3>1. content[path][i] \in HalfLine
      BY <2>1 DEF Size
    <3> QED BY <3>1 DEF HalfLine
  <2>4. skipped' \subseteq Nat
    BY <1>1, <2>3 DEF PollOpen, TypeOK
  <2>5. buf' \in Seq(HalfLine)
    BY <1>1 DEF PollOpen
  <2> QED BY <1>1, <2>1, <2>2, <2>4, <2>5 DEF PollOpen, TypeOK, TailStep, fileVars, trackVars
<1>2. CASE Poll
  BY <1>2 DEF Poll, TypeOK, TailStep, fileVars, trackVars
<1>3. CASE Stat
  BY <1>3 DEF Stat, TypeOK, TailStep, fileVars, trackVars
<1>4. CASE Reopen
  <2>1. fd' \in [ino : Inode \cup {0}, pos : Nat]
    BY <1>4 DEF Reopen, TypeOK, Closed
  <2>2. buf' \in Seq(HalfLine) /\ offset' \in Nat /\ pc' \in {"wait", "stat", "reopen", "read", "done"}
    <3>1. <<>> \in Seq(HalfLine)
      OBVIOUS
    <3>2. buf' = buf \/ buf' = <<>>
      BY <1>4 DEF Reopen
    <3>3. buf' \in Seq(HalfLine)
      BY <3>1, <3>2 DEF TypeOK
    <3> QED BY <1>4, <3>3 DEF Reopen, TypeOK
  <2> QED BY <1>4, <2>1, <2>2 DEF Reopen, TypeOK, TailStep, fileVars, trackVars
<1>5. CASE ReadMore
  <2>1. fd.ino \in Inode /\ content[fd.ino] \in Seq(HalfLine) /\ fd.pos \in Nat
    BY <1>5 DEF ReadMore, TypeOK, InSync
  <2>2. Size(fd.ino) \in Nat /\ fd.pos < Size(fd.ino)
    BY <1>5, <2>1 DEF Size, ReadMore
  <2>3. SubSeq(content[fd.ino], fd.pos + 1, Size(fd.ino)) \in Seq(HalfLine)
    BY <2>1, <2>2 DEF Size
  <2>4. buf' \in Seq(HalfLine)
    BY <1>5, <2>3 DEF ReadMore, TypeOK
  <2>5. fd' \in [ino : Inode \cup {0}, pos : Nat]
    BY <1>5, <2>1, <2>2 DEF ReadMore, TypeOK
  <2> QED BY <1>5, <2>4, <2>5 DEF ReadMore, TypeOK, TailStep, fileVars, trackVars
<1>6. CASE EndOfFile
  <2>1. fd' \in [ino : Inode \cup {0}, pos : Nat]
    BY <1>6 DEF EndOfFile, TypeOK
  <2>2. buf' \in Seq(HalfLine)
    BY <1>6 DEF EndOfFile
  <2> QED BY <1>6, <2>1, <2>2 DEF EndOfFile, TypeOK, TailStep, fileVars, trackVars
<1>7. CASE HandleLine
  BY <1>7, HandleLineTyped
<1> QED BY <1>1, <1>2, <1>3, <1>4, <1>5, <1>6, <1>7 DEF Run

LEMMA StepTyped ==
    ASSUME SyncInv, [Next]_vars
    PROVE  TypeOK'
<1> USE DEF SyncInv
<1>1. CASE Run
  BY <1>1, RunTyped
<1>2. CASE Cancel
  BY <1>2 DEF Cancel, TypeOK, fileVars, trackVars
<1>3. CASE Tick
  BY <1>3 DEF Tick, TypeOK, fileVars, tailVars, trackVars
<1>4. CASE FileStep
  BY <1>4, FileStepTyped
<1>5. CASE UNCHANGED vars
  BY <1>5 DEF vars, TypeOK, fileVars, tailVars, trackVars
<1> QED BY <1>1, <1>2, <1>3, <1>4, <1>5 DEF Next, FileStep

LEMMA StepInSync ==
    ASSUME SyncInv, [Next]_vars
    PROVE  InSync'
<1> USE DEF SyncInv
<1>1. CASE PollOpen
  <2>1. content[path] \in Seq(HalfLine) /\ path # 0
    BY <1>1 DEF PollOpen, TypeOK
  <2>2. Size(path) \in Nat
    BY <2>1 DEF Size
  <2>3. fd'.ino # 0 /\ fd'.pos = offset' /\ buf' = <<>> /\ pc' = "stat" /\ offset' \in Nat
    BY <1>1, <2>1, <2>2 DEF PollOpen
  <2>4. Len(buf') = 0
    BY <2>3
  <2>5. \A n, z \in Nat : z = 0 => n + z = n
    OBVIOUS
  <2>6. offset' + Len(buf') = offset'
    BY <2>3, <2>4, <2>5
  <2> QED BY <2>3, <2>6, Zenon DEF InSync
<1>2. CASE Poll
  BY <1>2 DEF Poll, InSync
<1>3. CASE Stat
  BY <1>3 DEF Stat, InSync
<1>4. CASE Reopen
  BY <1>4 DEF Reopen, InSync, Closed
<1>5. CASE ReadMore
  <2>1. fd.ino # 0 /\ fd' = [fd EXCEPT !.pos = Size(fd.ino)] /\ pc' = "read" /\ offset' = offset
    BY <1>5 DEF ReadMore, InSync
  <2>2. fd'.ino # 0 /\ fd'.pos = Size(fd.ino)
    BY <2>1 DEF TypeOK
  <2>3. Len(buf') = Len(buf) + (Size(fd.ino) - fd.pos)
    <3>1. content[fd.ino] \in Seq(HalfLine) /\ fd.pos \in Nat /\ buf \in Seq(HalfLine)
      BY <2>1 DEF TypeOK
    <3>2. Size(fd.ino) = Len(content[fd.ino]) /\ fd.pos < Size(fd.ino)
      BY <1>5 DEF Size, ReadMore
    <3> DEFINE more == SubSeq(content[fd.ino], fd.pos + 1, Size(fd.ino))
    <3>3. more \in Seq(HalfLine) /\ Len(more) = Size(fd.ino) - fd.pos
      BY <3>1, <3>2
    <3> HIDE DEF more
    <3>4. Len(buf \o more) = Len(buf) + Len(more)
      BY <3>1, <3>3
    <3> QED BY <1>5, <3>3, <3>4 DEF ReadMore, more
  <2>4. offset + Len(buf) = fd.pos
    BY <2>1 DEF InSync
  <2>5. offset' + Len(buf') = fd'.pos
    <3>1. offset \in Nat /\ Len(buf) \in Nat /\ Size(fd.ino) \in Nat
      BY <2>1 DEF TypeOK, Size
    <3> QED BY <2>1, <2>2, <2>3, <2>4, <3>1
  <2> QED BY <2>1, <2>2, <2>5 DEF InSync
<1>6. CASE EndOfFile
  BY <1>6 DEF EndOfFile, InSync, TypeOK
<1>7. CASE HandleLine
  <2>1. LineEnd \in 1 .. Len(buf) /\ buf \in Seq(HalfLine)
    BY <1>7, LastOfLine DEF HandleLine, TypeOK
  <2>2. Len(buf') = Len(buf) - LineEnd
    BY <1>7, <2>1 DEF HandleLine
  <2>3. offset' = offset + LineEnd
    BY <1>7 DEF HandleLine
  <2>4. offset' + Len(buf') = offset + Len(buf)
    <3>1. offset \in Nat /\ Len(buf) \in Nat /\ LineEnd \in Nat
      BY <2>1 DEF TypeOK
    <3> QED BY <2>2, <2>3, <3>1
  <2> QED BY <1>7, <2>4 DEF HandleLine, InSync
<1>8. CASE Cancel
  BY <1>8 DEF Cancel, InSync
<1>9. CASE Tick \/ FileStep \/ UNCHANGED vars
  <2>1. UNCHANGED tailVars
    BY <1>9 DEF Tick, FileStep, Write, WriteHalf, WriteRest, AppendHalves, RenameAway, Create,
                ReopenLogger, Truncate, vars
  <2> QED BY <2>1 DEF tailVars, InSync
<1> QED BY <1>1, <1>2, <1>3, <1>4, <1>5, <1>6, <1>7, <1>8, <1>9 DEF Next, Run, FileStep

\* The model's types, and where Run is against what it has open.
THEOREM TailerTypes == Spec => []SyncInv
<1>1. SyncInv /\ [Next]_vars => SyncInv'
  BY StepTyped, StepInSync DEF SyncInv
<1> QED BY SyncInit, <1>1, PTL DEF Spec

\* The offset is always the position of the first byte not handled, through
\* partial lines, re-opened files and files that shrink under the descriptor.
THEOREM OffsetStaysInSync == Spec => []OffsetInSync
<1>1. SyncInv => OffsetInSync
  BY DEF SyncInv, InSync, OffsetInSync, Closed
<1> QED BY TailerTypes, <1>1, PTL

-----------------------------------------------------------------------------
(* No line is handled twice, out of order, or although it was skipped.     *)

\* The parts of the invariant that say which lines are where.
WhereInv == Newest /\ Making /\ CompleteLines /\ FilesOrdered /\ AheadIsNew /\ HandledOnce

LEMMA LinesTyped ==
    ASSUME TypeOK
    PROVE  /\ \A j \in Inode : \A i \in DOMAIN content[j] :
                 content[j][i].line \in Nat /\ content[j][i].end \in BOOLEAN
           /\ \A i \in DOMAIN buf : buf[i].line \in Nat /\ buf[i].end \in BOOLEAN
           /\ \A i \in DOMAIN handled : handled[i].line \in Nat
           /\ \A l \in skipped : l \in Nat
<1>1. \A j \in Inode : \A i \in DOMAIN content[j] :
         content[j][i].line \in Nat /\ content[j][i].end \in BOOLEAN
  <2> TAKE j \in Inode
  <2>1. content[j] \in Seq(HalfLine)
    BY DEF TypeOK
  <2> TAKE i \in DOMAIN content[j]
  <2>2. content[j][i] \in HalfLine
    BY <2>1
  <2> QED BY <2>2 DEF HalfLine
<1>2. \A i \in DOMAIN buf : buf[i].line \in Nat /\ buf[i].end \in BOOLEAN
  <2> TAKE i \in DOMAIN buf
  <2>1. buf[i] \in HalfLine
    BY DEF TypeOK
  <2> QED BY <2>1 DEF HalfLine
<1>3. \A i \in DOMAIN handled : handled[i].line \in Nat
  <2> TAKE i \in DOMAIN handled
  <2>1. handled[i] \in Handled
    BY DEF TypeOK
  <2> QED BY <2>1 DEF Handled
<1> QED BY <1>1, <1>2, <1>3 DEF TypeOK

LEMMA WhereInit == Init => WhereInv
<1> SUFFICES ASSUME Init PROVE WhereInv
  OBVIOUS
<1> USE TailerAssumption
<1>1. \A j \in Inode : content[j] = IF j = path THEN <<OldLine>> ELSE <<>>
  BY DEF Init
<1>2. \A j \in Inode : \A i \in DOMAIN content[j] :
         j = path /\ i = 1 /\ content[j][i] = OldLine /\ OldLine.line = 0 /\ OldLine.end
  <2>1. OldLine.line = 0 /\ OldLine.end
    BY DEF OldLine
  <2>2. DOMAIN <<OldLine>> = {1} /\ <<OldLine>>[1] = OldLine
    OBVIOUS
  <2>3. ASSUME NEW j \in Inode, NEW i \in DOMAIN content[j]
        PROVE  j = path /\ i = 1 /\ content[j][i] = OldLine
    <3>1. CASE j = path
      BY <3>1, <2>2, <2>3, <1>1
    <3>2. CASE j # path
      BY <3>2, <2>3, <1>1
    <3> QED BY <3>1, <3>2
  <2> QED BY <2>1, <2>3
<1>3. logger = 1 /\ 1 \in Inode
  BY DEF Init, Inode
<1>4. ~Pending
  <2>1. CASE path = 1
    <3>1. content[logger] = <<OldLine>> /\ Last(<<OldLine>>) = OldLine
      BY <2>1, <1>1, <1>3 DEF Last
    <3> QED BY <3>1 DEF Pending, OldLine
  <2>2. CASE path # 1
    BY <2>2, <1>1, <1>3 DEF Pending
  <2> QED BY <2>1, <2>2
<1>5. Closed.ino = 0
  BY DEF Closed
<1>6. Newest
  BY <1>1, <1>3, <1>5 DEF Init, Newest, Inode
<1>7. Making /\ CompleteLines
  BY <1>2, <1>4 DEF Init, Making, CompleteLines, Complete
<1>8. FilesOrdered
  BY <1>2 DEF Init, FilesOrdered, Ordered
<1>9. AheadIsNew /\ HandledOnce
  BY DEF Init, AheadIsNew, HandledOnce, New, PastBuffer
<1> QED BY <1>6, <1>7, <1>8, <1>9 DEF WhereInv

\* A step that moves no line and opens no way back to one keeps what is ahead.
LEMMA AheadStays ==
    ASSUME AheadIsNew, UNCHANGED <<content, offset, handled, skipped>>,
           buf' = buf \/ buf' = <<>>, Base' >= Base, Base \in Int, Base' \in Int, Inode \subseteq Int,
           fd'.ino # 0 => fd'.ino = fd.ino,
           Shrunk' => Shrunk
    PROVE  AheadIsNew'
<1>1. \A l : New(l)' <=> New(l)
  BY DEF New
<1>2. \A k \in DOMAIN buf' : k \in DOMAIN buf /\ buf'[k] = buf[k]
  OBVIOUS
<1>3. \A k \in DOMAIN buf' : (buf[k].end => New(buf[k].line))'
  BY <1>1, <1>2 DEF AheadIsNew
<1>4. ASSUME NEW j \in Inode, NEW i \in DOMAIN content[j], content[j][i].end, Ahead(j, i)'
      PROVE  New(content[j][i].line) /\ PastBuffer(content[j][i].line, j, i)'
  <2>1. j > Base' => j > Base
    OBVIOUS
  <2>2. Ahead(j, i)
    BY <1>4, <2>1 DEF Ahead
  <2>3. New(content[j][i].line) /\ PastBuffer(content[j][i].line, j, i)
    BY <1>4, <2>2 DEF AheadIsNew
  <2>4. PastBuffer(content[j][i].line, j, i)'
    BY <1>2, <2>1, <2>3 DEF PastBuffer
  <2> QED BY <2>3, <2>4
<1> QED BY <1>1, <1>3, <1>4 DEF AheadIsNew

LEMMA BaseTyped ==
    ASSUME TypeOK
    PROVE  Base \in Int /\ Inode \subseteq Int
  BY TailerAssumption DEF TypeOK, Base, Inode

\* A step that moves no line, and may at most drop the buffer.
LEMMA LinesStay ==
    ASSUME Making, CompleteLines, FilesOrdered, HandledOnce,
           UNCHANGED <<content, lines, handled, skipped>>,
           buf' = buf \/ buf' = <<>>,
           Pending' => Pending /\ logger' = logger
    PROVE  Making' /\ CompleteLines' /\ FilesOrdered' /\ HandledOnce'
<1>1. \A k \in DOMAIN buf' : k \in DOMAIN buf /\ buf'[k] = buf[k]
  OBVIOUS
<1>2. Making'
  BY DEF Making
<1>3. \A l : Complete(l) => Complete(l)'
  BY DEF Complete
<1>4. CompleteLines'
  BY <1>1, <1>3 DEF CompleteLines
<1>5. FilesOrdered'
  BY <1>1 DEF FilesOrdered, Ordered
<1>6. HandledOnce'
  BY DEF HandledOnce
<1> QED BY <1>2, <1>4, <1>5, <1>6

LEMMA SizesTyped ==
    ASSUME TypeOK
    PROVE  /\ \A j \in Inode : content[j] \in Seq(HalfLine) /\ Len(content[j]) \in Nat
           /\ Len(buf) \in Nat /\ offset \in Nat /\ fd.pos \in Nat
           /\ fd.ino \in Inode \cup {0} /\ path \in Inode \cup {0}
<1>1. \A j \in Inode : content[j] \in Seq(HalfLine)
  BY DEF TypeOK
<1>2. \A j \in Inode : Len(content[j]) \in Nat
  BY <1>1
<1>3. Len(buf) \in Nat
  BY DEF TypeOK
<1> QED BY <1>1, <1>2, <1>3 DEF TypeOK

LEMMA QuietStep ==
    ASSUME SyncInv, TypeOK', WhereInv,
           Poll \/ Stat \/ Cancel \/ Tick \/ RenameAway \/ Create \/ ReopenLogger \/ EndOfFile
           \/ UNCHANGED vars
    PROVE  WhereInv'
<1> USE DEF SyncInv
<1>1. UNCHANGED <<content, lines, handled, skipped, offset>> /\ (buf' = buf \/ buf' = <<>>)
  BY DEF Poll, Stat, Cancel, Tick, RenameAway, Create, ReopenLogger, EndOfFile, TailStep,
         vars, fileVars, tailVars, trackVars
<1>2. fd'.ino = fd.ino
  BY DEF Poll, Stat, Cancel, Tick, RenameAway, Create, ReopenLogger, EndOfFile, TailStep,
         vars, fileVars, tailVars, trackVars, TypeOK
<1>3. rotations' >= rotations
  <2>1. rotations' = rotations + 1 \/ rotations' = rotations
    BY DEF Poll, Stat, Cancel, Tick, RenameAway, Create, ReopenLogger, EndOfFile, TailStep,
           vars, fileVars
  <2>2. rotations \in Int
    BY TailerAssumption DEF TypeOK
  <2> QED BY <2>1, <2>2
<1>4. Newest'
  <2>1. CASE RenameAway
    BY <2>1, <1>1 DEF RenameAway, Newest, WhereInv, TypeOK, Inode, tailVars
  <2>2. CASE Create
    BY <2>2, <1>1 DEF Create, Newest, WhereInv, TypeOK, Inode, tailVars
  <2>3. CASE ReopenLogger
    <3>1. logger' = path /\ path = rotations + 1 /\ logger <= rotations + 1
      BY <2>3 DEF ReopenLogger, Newest, WhereInv
    <3> QED BY <2>3, <3>1, <1>1 DEF ReopenLogger, Newest, WhereInv, TypeOK, Inode, tailVars
  <2>4. CASE UNCHANGED <<path, logger, rotations>>
    BY <2>4, <1>1, <1>2 DEF Newest, WhereInv
  <2> QED BY <2>1, <2>2, <2>3, <2>4 DEF Poll, Stat, Cancel, Tick, EndOfFile, TailStep, vars, fileVars
<1>5. Pending' => Pending /\ logger' = logger
  <2>1. CASE ReopenLogger
    <3>1. path \in Inode /\ path > logger
      BY <2>1 DEF ReopenLogger, Newest, WhereInv, TypeOK, Inode
    <3>2. content'[logger'] = <<>>
      BY <2>1, <3>1, <1>1 DEF ReopenLogger, Newest, WhereInv
    <3> QED BY <3>2 DEF Pending
  <2>2. CASE logger' = logger
    BY <2>2, <1>1 DEF Pending
  <2> QED BY <2>1, <2>2 DEF Poll, Stat, Cancel, Tick, RenameAway, Create, EndOfFile, TailStep,
                            vars, fileVars
<1>6. Making' /\ CompleteLines' /\ FilesOrdered' /\ HandledOnce'
  BY <1>1, <1>5, LinesStay DEF WhereInv
<1>7. Shrunk' => Shrunk
  <2>1. CASE Stat
    <3>1. ASSUME pc' = "reopen", path = fd.ino PROVE Len(content[fd.ino]) < fd.pos
      <4>1. Size(path) < offset /\ path # 0
        BY <2>1, <3>1 DEF Stat
      <4>2. offset + Len(buf) = fd.pos
        BY <3>1, <4>1 DEF InSync
      <4>3. Len(buf) \in Nat /\ offset \in Nat /\ Len(content[path]) \in Nat
        BY <4>1, SizesTyped
      <4> QED BY <3>1, <4>1, <4>2, <4>3 DEF Size
    <3> QED BY <2>1, <3>1, <1>1 DEF Stat, TailStep, fileVars, Shrunk
  <2>2. CASE EndOfFile
    <3>1. pc' = "wait" /\ (fd' = fd \/ fd'.pos = offset)
      BY <2>2 DEF EndOfFile, TypeOK
    <3>2. ASSUME fd.ino # 0, Len(content[fd.ino]) < fd'.pos PROVE Len(content[fd.ino]) < fd.pos
      <4>1. offset + Len(buf) = fd.pos
        BY <3>2 DEF InSync
      <4>2. Len(buf) \in Nat /\ offset \in Nat /\ Len(content[fd.ino]) \in Nat
        BY <3>2, SizesTyped
      <4> QED BY <3>1, <3>2, <4>1, <4>2
    <3> QED BY <3>1, <3>2, <1>1, <1>2 DEF Shrunk
  <2>3. CASE Create
    <3>1. path' = rotations + 1 /\ fd.ino <= rotations /\ fd' = fd /\ pc' = pc
      BY <2>3 DEF Create, Newest, WhereInv, tailVars
    <3>2. path' # fd'.ino
      BY <3>1 DEF TypeOK, Inode
    <3> QED BY <3>1, <3>2, <1>1 DEF Shrunk
  <2>4. CASE RenameAway
    BY <2>4, <1>1 DEF RenameAway, Shrunk, tailVars
  <2>5. CASE UNCHANGED <<fd, path>> /\ (pc' = pc \/ pc' # "reopen")
    BY <2>5, <1>1 DEF Shrunk
  <2> QED BY <2>1, <2>2, <2>3, <2>4, <2>5
          DEF Poll, Cancel, Tick, ReopenLogger, TailStep, vars, fileVars, tailVars
<1>8. Base \in Int /\ Base' \in Int /\ Inode \subseteq Int /\ Base' >= Base
  BY <1>2, <1>3, BaseTyped, TailerAssumption DEF Base, TypeOK, Inode
<1>9. AheadIsNew'
  BY <1>1, <1>2, <1>7, <1>8, AheadStays DEF WhereInv
<1> QED BY <1>4, <1>6, <1>9 DEF WhereInv

\* The file that is opened at its end is newer than anything handled, so what
\* is skipped was not handled.
LEMMA PollOpenStep ==
    ASSUME SyncInv, TypeOK', WhereInv, PollOpen
    PROVE  WhereInv'
<1> USE DEF SyncInv
<1> DEFINE New0 == {content[path][i].line : i \in {j \in 1 .. Size(path) : content[path][j].end}}
<1>1. /\ UNCHANGED <<fileVars, clock, trackVars>>
      /\ fd.ino = 0 /\ path # 0 /\ path \in Inode /\ path = rotations + 1 /\ rotations \in Int
      /\ fd' = [ino |-> path, pos |-> Size(path)] /\ offset' = Size(path) /\ buf' = <<>>
      /\ pc' = "stat" /\ skipped' = skipped \cup New0
  BY DEF PollOpen, TailStep, WhereInv, Newest, TypeOK, Closed
<1>2. UNCHANGED <<content, lines, handled, path, logger, rotations>>
  BY <1>1 DEF fileVars, trackVars
<1>3. Base = rotations /\ Base' = path /\ fd'.ino = path /\ fd'.pos = Size(path)
  BY <1>1 DEF Base
<1>4. DOMAIN content[path] = 1 .. Size(path) /\ Size(path) = Len(content[path]) /\ Size(path) \in Nat
  BY <1>1, SizesTyped DEF Size
<1>5. \A i \in 1 .. Size(path) : content[path][i].end => New(content[path][i].line)
  <2> SUFFICES ASSUME NEW i \in 1 .. Size(path), content[path][i].end
               PROVE  New(content[path][i].line)
    OBVIOUS
  <2>1. Ahead(path, i)
    BY <1>1, <1>3 DEF Ahead
  <2> QED BY <2>1, <1>1, <1>4 DEF WhereInv, AheadIsNew
<1>6. \A l \in New0 : New(l)
  BY <1>5
<1>7. Newest'
  BY <1>1, <1>2, <1>3 DEF WhereInv, Newest
<1>8. Pending' <=> Pending
  BY <1>2 DEF Pending
<1>9. Making' /\ FilesOrdered'
  BY <1>1, <1>2, <1>8 DEF WhereInv, Making, FilesOrdered, Ordered
<1>10. CompleteLines'
  <2>1. \A l : Complete(l)' <=> Complete(l)
    BY <1>2, <1>8 DEF Complete
  <2>2. \A l \in New0 : Complete(l)
    BY <1>1, <1>4 DEF WhereInv, CompleteLines
  <2> HIDE DEF New0
  <2> QED BY <1>1, <1>2, <2>1, <2>2 DEF WhereInv, CompleteLines
<1>11. HandledOnce'
  <2>1. \A l \in New0 : \A n \in DOMAIN handled : handled[n].line # l
    <3> SUFFICES ASSUME NEW l \in New0, NEW n \in DOMAIN handled
                 PROVE  handled[n].line # l
      OBVIOUS
    <3>1. handled[n].line < l /\ handled[n].line \in Nat
      BY <1>6, LinesTyped DEF New
    <3> HIDE DEF New0
    <3> QED BY <3>1
  <2> HIDE DEF New0
  <2> QED BY <1>1, <1>2, <2>1 DEF WhereInv, HandledOnce
<1>12. AheadIsNew'
  <2>1. ~Shrunk'
    BY <1>1, <1>2, <1>3, <1>4 DEF Shrunk
  <2>2. ASSUME NEW j \in Inode, NEW i \in DOMAIN content[j], content[j][i].end, Ahead(j, i)'
        PROVE  New(content[j][i].line)'
    <3>1. j > path
      BY <2>1, <2>2, <1>1, <1>3, <1>4 DEF Ahead
    <3>2. Ahead(j, i)
      BY <3>1, <1>1, <1>3, TailerAssumption DEF Ahead, Inode
    <3>3. New(content[j][i].line)
      BY <3>2, <2>2 DEF WhereInv, AheadIsNew
    <3>4. \A l \in New0 : l < content[j][i].line /\ l \in Nat
      BY <3>1, <2>2, <1>1, <1>4, LinesTyped DEF WhereInv, FilesOrdered
    <3>5. content[j][i].line \in Nat
      BY <2>2, LinesTyped
    <3> HIDE DEF New0
    <3>6. content[j][i].line \notin New0
      BY <3>4, <3>5
    <3> QED BY <1>1, <1>2, <3>3, <3>6 DEF New
  <2>3. \A l, j, i : PastBuffer(l, j, i)'
    BY <1>1 DEF PastBuffer
  <2> QED BY <1>1, <1>2, <2>2, <2>3 DEF AheadIsNew
<1> QED BY <1>7, <1>9, <1>10, <1>11, <1>12 DEF WhereInv

\* A file that is opened again from its start is a newer one, or shrank.
LEMMA ReopenStep ==
    ASSUME SyncInv, TypeOK', WhereInv, Reopen
    PROVE  WhereInv'
<1> USE DEF SyncInv
<1>1. /\ UNCHANGED <<content, path, logger, lines, rotations, handled, skipped>>
      /\ pc = "reopen" /\ buf = <<>> /\ fd.ino # 0 /\ fd.ino \in Inode
      /\ buf' = <<>> /\ rotations \in Int
  BY DEF Reopen, TailStep, fileVars, trackVars, InSync, TypeOK
<1>2. Pending' => Pending /\ logger' = logger
  BY <1>1 DEF Pending
<1>3. Making' /\ CompleteLines' /\ FilesOrdered' /\ HandledOnce'
  BY <1>1, <1>2, LinesStay DEF WhereInv
<1>4. \A l : New(l)' <=> New(l)
  BY <1>1 DEF New
<1>5. CASE path = 0
  <2>1. fd'.ino = 0 /\ Base' = rotations /\ Base = fd.ino /\ fd.ino <= rotations
    BY <1>1, <1>5 DEF Reopen, Closed, Base, WhereInv, Newest
  <2>2. \A j \in Inode : \A i : Ahead(j, i)' => Ahead(j, i)
    BY <2>1, <1>1, TailerAssumption DEF Ahead, Inode
  <2>3. AheadIsNew'
    BY <1>1, <1>4, <2>2 DEF WhereInv, AheadIsNew, PastBuffer
  <2>4. Newest'
    BY <1>1, <1>5, <2>1, TailerAssumption DEF WhereInv, Newest, Inode
  <2> QED BY <1>3, <2>3, <2>4 DEF WhereInv
<1>6. CASE path # 0
  <2>1. fd'.ino = path /\ Base' = path /\ Base = fd.ino /\ fd.ino <= path /\ path = rotations + 1
    BY <1>1, <1>6 DEF Reopen, Base, WhereInv, Newest
  <2>2. path = fd.ino => Shrunk
    BY <1>1 DEF Shrunk
  <2>3. \A j \in Inode : \A i : Ahead(j, i)' => Ahead(j, i)
    BY <2>1, <2>2, <1>1, TailerAssumption DEF Ahead, Inode
  <2>4. AheadIsNew'
    BY <1>1, <1>4, <2>3 DEF WhereInv, AheadIsNew, PastBuffer
  <2>5. Newest'
    BY <1>1, <1>6, <2>1, TailerAssumption DEF WhereInv, Newest, Inode
  <2> QED BY <1>3, <2>4, <2>5 DEF WhereInv
<1> QED BY <1>5, <1>6

\* A step of the file system leaves Run alone.
LEMMA FilesOnly ==
    ASSUME FileStep
    PROVE  UNCHANGED <<pc, fd, buf, offset, skipped, handled>>
  BY DEF FileStep, Write, WriteHalf, WriteRest, AppendHalves, RenameAway, Create, ReopenLogger,
         Truncate, tailVars, trackVars

\* A truncated file holds no line, the other files are as they were.
LEMMA TruncateStep ==
    ASSUME SyncInv, TypeOK', WhereInv, Truncate
    PROVE  WhereInv'
<1> USE DEF SyncInv
<1>1. /\ UNCHANGED <<path, logger, lines, rotations, pc, fd, buf, offset, skipped, handled>>
      /\ path \in Inode /\ logger \in Inode
      /\ content' = [content EXCEPT ![path] = <<>>]
  BY FilesOnly DEF Truncate, FileStep, TypeOK
<1>2. \A j \in Inode : content'[j] = IF j = path THEN <<>> ELSE content[j]
  BY <1>1 DEF TypeOK
<1>3. \A j \in Inode : \A i \in DOMAIN content'[j] :
         j # path /\ content'[j] = content[j] /\ i \in DOMAIN content[j] /\ content'[j][i] = content[j][i]
  BY <1>2
<1>4. Newest'
  BY <1>1, <1>2 DEF WhereInv, Newest
<1>5. Pending' => Pending /\ content'[logger] = content[logger]
  BY <1>1, <1>2 DEF Pending
<1>6. \A l : Complete(l) => Complete(l)'
  BY <1>1, <1>5 DEF Complete
<1>7. Making'
  BY <1>1, <1>5 DEF WhereInv, Making
<1>8. CompleteLines'
  BY <1>1, <1>3, <1>6 DEF WhereInv, CompleteLines
<1>9. FilesOrdered'
  <2>1. Ordered(buf)'
    BY <1>1 DEF WhereInv, FilesOrdered, Ordered
  <2>2. \A j \in Inode : Ordered(content'[j])
    BY <1>3 DEF WhereInv, FilesOrdered, Ordered
  <2>3. \A j, k \in Inode : j < k =>
           \A a \in DOMAIN content'[j], b \in DOMAIN content'[k] :
              content'[j][a].end /\ content'[k][b].end => content'[j][a].line < content'[k][b].line
    BY <1>3 DEF WhereInv, FilesOrdered
  <2> QED BY <2>1, <2>2, <2>3 DEF FilesOrdered, Ordered
<1>10. HandledOnce'
  BY <1>1 DEF WhereInv, HandledOnce
<1>11. AheadIsNew'
  <2>1. Base' = Base
    BY <1>1 DEF Base
  <2>2. \A l : New(l)' <=> New(l)
    BY <1>1 DEF New
  <2>3. \A j \in Inode : j # path /\ fd.ino = j => (Shrunk' => Shrunk)
    BY <1>1, <1>2 DEF Shrunk
  <2>4. ASSUME NEW j \in Inode, NEW i \in DOMAIN content'[j], content'[j][i].end, Ahead(j, i)'
        PROVE  New(content'[j][i].line) /\ PastBuffer(content[j][i].line, j, i)'
    <3>1. j # path /\ content'[j][i] = content[j][i] /\ i \in DOMAIN content[j]
      BY <2>4, <1>3
    <3>2. Ahead(j, i)
      BY <2>1, <2>3, <2>4, <3>1, <1>1 DEF Ahead
    <3>3. New(content[j][i].line) /\ PastBuffer(content[j][i].line, j, i)
      BY <2>4, <3>1, <3>2 DEF WhereInv, AheadIsNew
    <3>4. j > Base \/ (j = fd.ino /\ (Shrunk' => Shrunk))
      BY <2>3, <3>1, <3>2 DEF Ahead
    <3>5. PastBuffer(content[j][i].line, j, i)'
      BY <3>1, <3>3, <3>4, <1>1, <2>1 DEF PastBuffer
    <3> QED BY <3>1, <3>3, <3>5
  <2> QED BY <1>1, <2>2, <2>4 DEF WhereInv, AheadIsNew
<1> QED BY <1>4, <1>7, <1>8, <1>9, <1>10, <1>11 DEF WhereInv

\* A half line that is appended ends no line, or ends the one in the making.
LEMMA AppendStep ==
    ASSUME SyncInv, TypeOK', WhereInv, NEW h \in HalfLine, AppendHalves(<<h>>),
           \/ h.end /\ Pending /\ h.line = lines /\ lines' = lines
           \/ ~h.end /\ ~Pending /\ h.line = lines + 1 /\ lines' = lines + 1
    PROVE  WhereInv'
<1> USE DEF SyncInv
<1>1. /\ UNCHANGED <<path, logger, rotations, pc, fd, buf, offset, skipped, handled>>
      /\ logger \in Inode /\ lines \in Nat /\ content[logger] \in Seq(HalfLine)
      /\ content' = [content EXCEPT ![logger] = content[logger] \o <<h>>]
  BY DEF AppendHalves, tailVars, trackVars, TypeOK
<1> DEFINE n == Len(content[logger])
<1>2. n \in Nat
  BY <1>1
<1>3. \A j \in Inode : j # logger => content'[j] = content[j]
  BY <1>1 DEF TypeOK
<1>4. content'[logger] = content[logger] \o <<h>>
  BY <1>1 DEF TypeOK
<1>5. /\ DOMAIN content'[logger] = 1 .. n + 1 /\ Len(content'[logger]) = n + 1
      /\ DOMAIN content[logger] = 1 .. n
      /\ content'[logger][n + 1] = h /\ Last(content'[logger]) = h
      /\ \A i \in 1 .. n : content'[logger][i] = content[logger][i]
  BY <1>1, <1>4 DEF Last
<1> HIDE DEF n
\* Every half line is an old one or the appended one.
<1>6. \A j \in Inode : \A i \in DOMAIN content'[j] :
         \/ i \in DOMAIN content[j] /\ content'[j][i] = content[j][i]
         \/ j = logger /\ i = n + 1 /\ content'[j][i] = h
  BY <1>2, <1>3, <1>5
<1>7. \A j \in Inode : Len(content'[j]) >= Len(content[j])
  BY <1>2, <1>3, <1>5, SizesTyped DEF n
<1>8. Pending' <=> ~h.end
  <2>1. content'[logger] # <<>>
    BY <1>2, <1>5
  <2> QED BY <1>1, <1>5, <2>1 DEF Pending
<1>9. Newest'
  BY <1>1, <1>3, <1>5, TailerAssumption DEF WhereInv, Newest, Inode
<1>10. Making'
  BY <1>1, <1>5, <1>8 DEF Making
<1>11. \A l \in Nat : Complete(l) => Complete(l)'
  BY <1>1, <1>8 DEF Complete
<1>12. h.end => \A l \in Nat : Complete(l) => l < h.line
  BY <1>1 DEF Complete
<1>13. CompleteLines'
  <2>1. h.end => Complete(h.line)'
    BY <1>1, <1>8 DEF Complete
  <2>2. \A j \in Inode : \A i \in DOMAIN content'[j] : (content[j][i].end => Complete(content[j][i].line))'
    <3> SUFFICES ASSUME NEW j \in Inode, NEW i \in DOMAIN content'[j]
                 PROVE  (content[j][i].end => Complete(content[j][i].line))'
      OBVIOUS
    <3>1. CASE i \in DOMAIN content[j] /\ content'[j][i] = content[j][i]
      BY <3>1, <1>11, LinesTyped DEF WhereInv, CompleteLines
    <3>2. CASE content'[j][i] = h
      BY <3>2, <2>1
    <3> QED BY <3>1, <3>2, <1>6
  <2>3. \A i \in DOMAIN buf : buf[i].end => Complete(buf[i].line)'
    BY <1>1, <1>11, LinesTyped DEF WhereInv, CompleteLines
  <2>4. \A i \in DOMAIN handled : Complete(handled[i].line)'
    BY <1>1, <1>11, LinesTyped DEF WhereInv, CompleteLines
  <2>5. \A l \in skipped : Complete(l)'
    BY <1>11, LinesTyped DEF WhereInv, CompleteLines
  <2> QED BY <1>1, <2>2, <2>3, <2>4, <2>5 DEF CompleteLines
<1>14. FilesOrdered'
  <2>1. \A j \in Inode : \A i \in DOMAIN content[j] : content[j][i].end /\ h.end => content[j][i].line < h.line
    BY <1>12, LinesTyped DEF WhereInv, CompleteLines
  <2>2. Ordered(buf)'
    BY <1>1 DEF WhereInv, FilesOrdered, Ordered
  <2>3. \A j \in Inode : Ordered(content'[j])
    <3> SUFFICES ASSUME NEW j \in Inode, NEW a \in DOMAIN content'[j], NEW b \in DOMAIN content'[j],
                        a < b, content'[j][a].end, content'[j][b].end
                 PROVE  content'[j][a].line < content'[j][b].line
      BY DEF Ordered
    <3>1. CASE b \in DOMAIN content[j] /\ content'[j][b] = content[j][b]
      <4>1. a \in DOMAIN content[j] /\ content'[j][a] = content[j][a]
        <5>1. CASE j # logger
          BY <5>1, <1>3
        <5>2. CASE j = logger
          BY <5>2, <3>1, <1>2, <1>5
        <5> QED BY <5>1, <5>2
      <4> QED BY <3>1, <4>1 DEF WhereInv, FilesOrdered, Ordered
    <3>2. CASE j = logger /\ b = n + 1 /\ content'[j][b] = h
      <4>1. a \in DOMAIN content[j] /\ content'[j][a] = content[j][a]
        BY <3>2, <1>2, <1>5
      <4> QED BY <3>2, <4>1, <2>1
    <3> QED BY <3>1, <3>2, <1>6
  <2>4. ASSUME NEW j \in Inode, NEW k \in Inode, j < k,
               NEW a \in DOMAIN content'[j], NEW b \in DOMAIN content'[k],
               content'[j][a].end, content'[k][b].end
        PROVE  content'[j][a].line < content'[k][b].line
    <3>1. j # logger
      <4> SUFFICES ASSUME j = logger PROVE FALSE
        OBVIOUS
      <4>1. content[k] = <<>> /\ content'[k] = content[k]
        BY <2>4, <1>3, TailerAssumption DEF WhereInv, Newest, Inode
      <4> QED BY <4>1, <2>4
    <3>2. a \in DOMAIN content[j] /\ content'[j][a] = content[j][a]
      BY <2>4, <3>1, <1>3
    <3>3. CASE b \in DOMAIN content[k] /\ content'[k][b] = content[k][b]
      BY <2>4, <3>2, <3>3 DEF WhereInv, FilesOrdered
    <3>4. CASE content'[k][b] = h
      BY <2>4, <3>2, <3>4, <2>1
    <3> QED BY <2>4, <3>3, <3>4, <1>6
  <2> QED BY <2>2, <2>3, <2>4 DEF FilesOrdered, Ordered
<1>15. HandledOnce'
  BY <1>1 DEF WhereInv, HandledOnce
<1>16. AheadIsNew'
  <2>1. Base' = Base
    BY <1>1 DEF Base
  <2>2. \A l : New(l)' <=> New(l)
    BY <1>1 DEF New
  <2>3. Shrunk' => Shrunk
    <3>1. ASSUME fd.ino # 0, Len(content'[fd.ino]) < fd.pos PROVE Len(content[fd.ino]) < fd.pos
      <4>1. fd.ino \in Inode
        BY <3>1 DEF TypeOK
      <4>2. Len(content[fd.ino]) \in Nat /\ fd.pos \in Nat
        BY <4>1, SizesTyped
      <4>3. Len(content'[fd.ino]) \in Nat
        BY <4>1, <1>2, <1>3, <1>5, SizesTyped
      <4> QED BY <3>1, <4>1, <4>2, <4>3, <1>7
    <3> QED BY <3>1, <1>1 DEF Shrunk
  <2>4. h.end => New(h.line) /\ \A k \in DOMAIN buf : buf[k].end => buf[k].line < h.line
    <3> SUFFICES ASSUME h.end PROVE New(h.line) /\ \A k \in DOMAIN buf : buf[k].end => buf[k].line < h.line
      OBVIOUS
    <3>1. \A l \in skipped : l < h.line /\ l \in Nat
      BY <1>12, LinesTyped DEF WhereInv, CompleteLines
    <3>2. h.line \notin skipped
      BY <3>1
    <3>3. \A i \in DOMAIN handled : handled[i].line < h.line
      BY <1>12, LinesTyped DEF WhereInv, CompleteLines
    <3>4. \A k \in DOMAIN buf : buf[k].end => buf[k].line < h.line
      BY <1>12, LinesTyped DEF WhereInv, CompleteLines
    <3> QED BY <3>2, <3>3, <3>4 DEF New
  <2>5. ASSUME NEW j \in Inode, NEW i \in DOMAIN content'[j], content'[j][i].end, Ahead(j, i)'
        PROVE  New(content'[j][i].line) /\ PastBuffer(content[j][i].line, j, i)'
    <3>1. CASE i \in DOMAIN content[j] /\ content'[j][i] = content[j][i]
      <4>1. Ahead(j, i)
        BY <2>1, <2>3, <2>5, <1>1 DEF Ahead
      <4>2. New(content[j][i].line) /\ PastBuffer(content[j][i].line, j, i)
        BY <2>5, <3>1, <4>1 DEF WhereInv, AheadIsNew
      <4>3. PastBuffer(content[j][i].line, j, i)'
        BY <3>1, <4>2, <1>1, <2>1, <2>3 DEF PastBuffer
      <4> QED BY <3>1, <4>2, <4>3
    <3>2. CASE content'[j][i] = h
      BY <2>4, <2>5, <3>2, <1>1 DEF PastBuffer
    <3> QED BY <3>1, <3>2, <1>6
  <2> QED BY <1>1, <2>2, <2>5 DEF WhereInv, AheadIsNew
<1> QED BY <1>9, <1>10, <1>13, <1>14, <1>15, <1>16 DEF WhereInv

LEMMA WriteStep ==
    ASSUME SyncInv, TypeOK', WhereInv, Write \/ WriteRest
    PROVE  WhereInv'
<1> USE DEF SyncInv
<1>1. ASSUME NEW ip \in Ip \cup {NoIp}, WriteHalf(ip) PROVE WhereInv'
  <2>1. lines' = lines + 1 /\ lines' \in Nat /\ ~Pending
    BY <1>1 DEF WriteHalf, TypeOK
  <2> DEFINE h == Half(ip, FALSE)
  <2>2. h \in HalfLine /\ ~h.end /\ h.line = lines + 1
    BY <2>1 DEF Half, HalfLine
  <2>3. AppendHalves(<<h>>)
    BY <1>1 DEF WriteHalf
  <2> HIDE DEF h
  <2> QED BY <2>1, <2>2, <2>3, AppendStep
<1>2. CASE WriteRest
  <2> DEFINE h == [Last(content[logger]) EXCEPT !.end = TRUE]
  <2>1. Last(content[logger]) \in HalfLine
    <3>1. content[logger] \in Seq(HalfLine) /\ content[logger] # <<>>
      BY <1>2 DEF WriteRest, Pending, TypeOK
    <3> QED BY <3>1 DEF Last
  <2>2. h \in HalfLine /\ h.end /\ h.line = Last(content[logger]).line
    BY <2>1 DEF HalfLine
  <2>3. Pending /\ lines' = lines /\ AppendHalves(<<h>>)
    BY <1>2 DEF WriteRest
  <2>4. h.line = lines
    BY <2>2, <2>3 DEF WhereInv, Making
  <2> HIDE DEF h
  <2> QED BY <2>2, <2>3, <2>4, AppendStep
<1> QED BY <1>1, <1>2 DEF Write

\* The rest of a sequence, by its elements.
LEMMA RestOfSeq ==
    ASSUME NEW S, NEW s \in Seq(S), NEW p \in Nat, p <= Len(s)
    PROVE  /\ SubSeq(s, p + 1, Len(s)) \in Seq(S) /\ Len(SubSeq(s, p + 1, Len(s))) = Len(s) - p
           /\ \A i \in 1 .. Len(s) - p : SubSeq(s, p + 1, Len(s))[i] = s[p + i]
  OBVIOUS

\* What is read on is the file from the position of the descriptor.
LEMMA ReadMoreStep ==
    ASSUME SyncInv, TypeOK', WhereInv, ReadMore
    PROVE  WhereInv'
<1> USE DEF SyncInv
<1> DEFINE file == content[fd.ino]
<1> DEFINE n == Len(buf)
<1>1. /\ UNCHANGED <<content, path, logger, lines, rotations, handled, skipped, pc, offset>>
      /\ pc = "read" /\ fd.ino # 0 /\ fd.ino \in Inode
  BY DEF ReadMore, TailStep, fileVars, trackVars, InSync, TypeOK
<1>2. /\ fd.pos \in Nat /\ n \in Nat /\ offset \in Nat /\ Len(file) \in Nat
      /\ file \in Seq(HalfLine) /\ buf \in Seq(HalfLine)
  BY <1>1, SizesTyped DEF TypeOK
<1>3. fd.pos < Len(file) /\ fd' = [fd EXCEPT !.pos = Len(file)]
      /\ buf' = buf \o SubSeq(file, fd.pos + 1, Len(file))
  BY DEF ReadMore, Size
<1>4. fd.pos = offset + n
  BY <1>1 DEF InSync
<1>5. fd'.ino = fd.ino /\ fd'.pos = Len(file)
  BY <1>3 DEF TypeOK
<1> DEFINE more == SubSeq(file, fd.pos + 1, Len(file))
<1>6. /\ more \in Seq(HalfLine) /\ Len(more) = Len(file) - fd.pos
      /\ \A i \in 1 .. Len(file) - fd.pos : more[i] = file[fd.pos + i]
  <2>1. fd.pos <= Len(file)
    BY <1>2, <1>3
  <2> HIDE DEF file
  <2> QED BY <1>2, <2>1, RestOfSeq
<1>7. buf' = buf \o more
  BY <1>3
<1>8. DOMAIN file = 1 .. Len(file) /\ DOMAIN buf = 1 .. n
  BY <1>2
<1> HIDE DEF more, file, n
<1>9. /\ DOMAIN buf' = 1 .. n + Len(more)
      /\ \A k \in 1 .. n : buf'[k] = buf[k]
      /\ \A k \in n + 1 .. n + Len(more) : buf'[k] = more[k - n]
  BY <1>2, <1>6, <1>7 DEF n
\* Every buffered half line was there, or is the one of the file.
<1>10. \A k \in DOMAIN buf' :
          \/ k \in DOMAIN buf /\ buf'[k] = buf[k]
          \/ k > n /\ offset + k \in DOMAIN file /\ buf'[k] = file[offset + k]
  <2> SUFFICES ASSUME NEW k \in 1 .. n + Len(more), k > n
               PROVE  offset + k \in DOMAIN file /\ buf'[k] = file[offset + k]
    BY <1>2, <1>8, <1>9
  <2>1. k - n \in 1 .. Len(file) - fd.pos /\ fd.pos + (k - n) = offset + k
    BY <1>2, <1>4, <1>6
  <2>2. offset + k \in DOMAIN file
    BY <2>1, <1>2, <1>8
  <2> QED BY <2>1, <2>2, <1>2, <1>6, <1>9
<1>11. DOMAIN buf' \subseteq Nat /\ DOMAIN buf \subseteq Nat
  BY <1>2, <1>6, <1>8, <1>9
<1>12. ~Shrunk /\ ~Shrunk'
  <2>1. ~(Len(file) < fd.pos) /\ ~(Len(file) < fd'.pos)
    BY <1>2, <1>3, <1>5
  <2> QED BY <2>1, <1>1, <1>5 DEF Shrunk, file
<1>13. Base' = Base /\ Base = fd.ino
  BY <1>1, <1>5 DEF Base
<1>14. \A i \in DOMAIN file : i > offset /\ file[i].end
          => New(file[i].line) /\ PastBuffer(file[i].line, fd.ino, i)
  BY <1>1 DEF WhereInv, AheadIsNew, Ahead, file
<1>15. Newest'
  BY <1>1, <1>5 DEF WhereInv, Newest
<1>16. Pending' <=> Pending
  BY <1>1 DEF Pending
<1>17. Making' /\ HandledOnce'
  BY <1>1, <1>16 DEF WhereInv, Making, HandledOnce
<1>18. CompleteLines'
  <2>1. \A l : Complete(l)' <=> Complete(l)
    BY <1>1, <1>16 DEF Complete
  <2>2. \A i \in DOMAIN file : file[i].end => Complete(file[i].line)
    BY <1>1 DEF WhereInv, CompleteLines, file
  <2>3. \A k \in DOMAIN buf' : buf'[k].end => Complete(buf'[k].line)
    BY <2>2, <1>10 DEF WhereInv, CompleteLines
  <2> QED BY <1>1, <2>1, <2>3 DEF WhereInv, CompleteLines
<1>19. FilesOrdered'
  <2>1. Ordered(file) /\ Ordered(buf)
    BY <1>1 DEF WhereInv, FilesOrdered, file
  <2>2. ASSUME NEW a \in DOMAIN buf', NEW b \in DOMAIN buf', a < b, buf'[a].end, buf'[b].end
        PROVE  buf'[a].line < buf'[b].line
    <3>1. CASE b \in DOMAIN buf /\ buf'[b] = buf[b]
      <4>1. a \in DOMAIN buf /\ buf'[a] = buf[a]
        BY <2>2, <3>1, <1>2, <1>8, <1>9, <1>11
      <4> QED BY <2>1, <2>2, <3>1, <4>1 DEF Ordered
    <3>2. CASE b > n /\ offset + b \in DOMAIN file /\ buf'[b] = file[offset + b]
      <4>1. CASE a \in DOMAIN buf /\ buf'[a] = buf[a]
        <5>1. offset + b > offset /\ offset + b > offset + a
          BY <2>2, <3>2, <4>1, <1>2, <1>11
        <5>2. PastBuffer(file[offset + b].line, fd.ino, offset + b)
          BY <2>2, <3>2, <5>1, <1>14
        <5> QED BY <2>2, <3>2, <4>1, <5>1, <5>2 DEF PastBuffer
      <4>2. CASE a > n /\ offset + a \in DOMAIN file /\ buf'[a] = file[offset + a]
        <5>1. offset + a < offset + b
          BY <2>2, <1>2, <1>11
        <5> QED BY <2>1, <2>2, <3>2, <4>2, <5>1 DEF Ordered
      <4> QED BY <2>2, <4>1, <4>2, <1>10
    <3> QED BY <2>2, <3>1, <3>2, <1>10
  <2> QED BY <1>1, <2>2 DEF WhereInv, FilesOrdered, Ordered
<1>20. AheadIsNew'
  <2>1. \A l : New(l)' <=> New(l)
    BY <1>1 DEF New
  <2>2. \A k \in DOMAIN buf' : buf'[k].end => New(buf'[k].line)
    <3> SUFFICES ASSUME NEW k \in DOMAIN buf', buf'[k].end PROVE New(buf'[k].line)
      OBVIOUS
    <3>1. CASE k \in DOMAIN buf /\ buf'[k] = buf[k]
      BY <3>1 DEF WhereInv, AheadIsNew
    <3>2. CASE k > n /\ offset + k \in DOMAIN file /\ buf'[k] = file[offset + k]
      <4>1. offset + k > offset
        BY <3>2, <1>2, <1>11
      <4> QED BY <3>2, <4>1, <1>14
    <3> QED BY <3>1, <3>2, <1>10
  <2>3. ASSUME NEW j \in Inode, NEW i \in DOMAIN content[j], content[j][i].end, Ahead(j, i)'
        PROVE  New(content[j][i].line) /\ PastBuffer(content[j][i].line, j, i)'
    <3>1. Ahead(j, i)
      BY <2>3, <1>1, <1>5, <1>12, <1>13 DEF Ahead
    <3>2. New(content[j][i].line) /\ PastBuffer(content[j][i].line, j, i)
      BY <2>3, <3>1 DEF WhereInv, AheadIsNew
    <3>3. ASSUME NEW k \in DOMAIN buf', buf'[k].end, j > Base \/ i > offset + k
          PROVE  buf'[k].line < content[j][i].line
      <4>1. CASE k \in DOMAIN buf /\ buf'[k] = buf[k]
        BY <3>2, <3>3, <4>1 DEF PastBuffer
      <4>2. CASE k > n /\ offset + k \in DOMAIN file /\ buf'[k] = file[offset + k]
        <5>1. CASE j > Base
          <6>1. fd.ino < j
            BY <5>1, <1>1, <1>13, TailerAssumption DEF Inode
          <6> QED BY <2>3, <3>3, <4>2, <6>1, <1>1 DEF WhereInv, FilesOrdered, file
        <5>2. CASE ~(j > Base)
          <6>1. j = fd.ino /\ i > offset + k
            BY <3>1, <3>3, <5>2 DEF Ahead
          <6>2. i \in Nat /\ offset + k \in Nat /\ i \in DOMAIN file
            BY <2>3, <6>1, <1>2, <1>8, <1>11 DEF file
          <6>3. offset + k < i
            BY <6>1, <6>2
          <6> QED BY <2>3, <3>3, <4>2, <6>1, <6>2, <6>3, <1>1 DEF WhereInv, FilesOrdered, Ordered, file
        <5> QED BY <5>1, <5>2
      <4> QED BY <3>3, <4>1, <4>2, <1>10
    <3>4. PastBuffer(content[j][i].line, j, i)'
      BY <3>3, <1>1, <1>12, <1>13 DEF PastBuffer
    <3> QED BY <3>2, <3>4
  <2> QED BY <1>1, <2>1, <2>2, <2>3 DEF AheadIsNew
<1> QED BY <1>15, <1>17, <1>18, <1>19, <1>20 DEF WhereInv

\* The line that is handled is new, and what stays in the buffer and what lies
\* ahead in the files come after it.
LEMMA HandleLineStep ==
    ASSUME SyncInv, TypeOK', WhereInv, HandleLine
    PROVE  WhereInv'
<1> USE DEF SyncInv
<1> DEFINE e == LineEnd
<1> DEFINE b == buf[e].line
<1>1. /\ UNCHANGED <<content, path, logger, lines, rotations, skipped, pc, fd>>
      /\ pc = "read" /\ offset' = offset + e /\ buf' = SubSeq(buf, e + 1, Len(buf))
  BY DEF HandleLine, TailStep, fileVars
<1>2. e \in 1 .. Len(buf) /\ buf[e].end /\ Last(Line) = buf[e] /\ b \in Nat
  BY LastOfLine DEF HandleLine
<1>3. buf \in Seq(HalfLine) /\ Len(buf) \in Nat /\ offset \in Nat /\ DOMAIN buf = 1 .. Len(buf)
  BY DEF TypeOK
<1>4. \E a : handled' = Append(handled, [line |-> b, alert |-> a])
  BY <1>2 DEF HandleLine
<1> HIDE DEF e
<1>5. /\ DOMAIN buf' = 1 .. Len(buf) - e
      /\ \A k \in 1 .. Len(buf) - e : buf'[k] = buf[e + k]
  BY <1>1, <1>2, <1>3, RestOfSeq
<1>6. \A k \in DOMAIN buf' : e + k \in DOMAIN buf /\ e + k > e /\ buf'[k] = buf[e + k] /\ k \in Nat
  BY <1>2, <1>3, <1>5
<1>7. /\ DOMAIN handled = 1 .. Len(handled) /\ Len(handled) \in Nat
      /\ DOMAIN handled' = 1 .. Len(handled) + 1
      /\ \A i \in 1 .. Len(handled) : handled'[i] = handled[i]
      /\ handled'[Len(handled) + 1].line = b
  <2>1. PICK a : handled' = Append(handled, [line |-> b, alert |-> a])
    BY <1>4
  <2> DEFINE h == [line |-> b, alert |-> a]
  <2>2. h.line = b
    OBVIOUS
  <2> HIDE DEF h
  <2>3. handled \in Seq(Handled) /\ handled' = Append(handled, h)
    BY <2>1 DEF TypeOK, h
  <2> QED BY <2>2, <2>3
<1>8. \A i \in DOMAIN handled' : (i \in DOMAIN handled /\ handled'[i] = handled[i]) \/ handled'[i].line = b
  BY <1>7
<1>9. New(b)
  BY <1>2, <1>3 DEF WhereInv, AheadIsNew
<1> HIDE DEF b
<1>10. \A l \in Nat : New(l) /\ b < l => New(l)'
  BY <1>1, <1>8 DEF New
<1>11. Newest'
  BY <1>1 DEF WhereInv, Newest
<1>12. Pending' <=> Pending
  BY <1>1 DEF Pending
<1>13. Making'
  BY <1>1, <1>12 DEF WhereInv, Making
<1>14. CompleteLines'
  <2>1. \A l : Complete(l)' <=> Complete(l)
    BY <1>1, <1>12 DEF Complete
  <2>2. Complete(b)
    BY <1>2, <1>3 DEF WhereInv, CompleteLines, b
  <2>3. \A k \in DOMAIN buf' : buf'[k].end => Complete(buf'[k].line)
    BY <1>6 DEF WhereInv, CompleteLines
  <2>4. \A i \in DOMAIN handled' : Complete(handled'[i].line)
    BY <1>8, <2>2 DEF WhereInv, CompleteLines
  <2> QED BY <1>1, <2>1, <2>3, <2>4 DEF WhereInv, CompleteLines
<1>15. FilesOrdered'
  <2>1. ASSUME NEW i \in DOMAIN buf', NEW j \in DOMAIN buf', i < j, buf'[i].end, buf'[j].end
        PROVE  buf'[i].line < buf'[j].line
    <3>1. e + i < e + j
      BY <2>1, <1>2, <1>6
    <3> QED BY <2>1, <3>1, <1>6 DEF WhereInv, FilesOrdered, Ordered
  <2> QED BY <1>1, <2>1 DEF WhereInv, FilesOrdered, Ordered
<1>16. HandledOnce'
  <2>1. \A i \in DOMAIN handled : handled[i].line < b
    BY <1>9 DEF New
  <2>2. b \notin skipped
    BY <1>9 DEF New
  <2>3. ASSUME NEW i \in DOMAIN handled', NEW j \in DOMAIN handled', i < j
        PROVE  handled'[i].line < handled'[j].line
    <3>1. i \in DOMAIN handled /\ handled'[i] = handled[i]
      BY <2>3, <1>7
    <3>2. CASE j \in DOMAIN handled
      BY <2>3, <3>1, <3>2, <1>7 DEF WhereInv, HandledOnce
    <3>3. CASE j \notin DOMAIN handled
      <4>1. j = Len(handled) + 1
        BY <3>3, <1>7
      <4> QED BY <4>1, <3>1, <2>1, <1>7
    <3> QED BY <3>2, <3>3
  <2>4. \A i \in DOMAIN handled' : handled'[i].line \notin skipped
    BY <2>2, <1>8 DEF WhereInv, HandledOnce
  <2> QED BY <2>3, <2>4, <1>1 DEF HandledOnce
<1>17. AheadIsNew'
  <2>1. Base' = Base
    BY <1>1 DEF Base
  <2>2. Shrunk' <=> Shrunk
    BY <1>1 DEF Shrunk
  <2>3. ASSUME NEW k \in DOMAIN buf', buf'[k].end PROVE New(buf[k].line)'
    <3>1. New(buf[e + k].line) /\ buf[e + k].line \in Nat
      BY <2>3, <1>6, LinesTyped DEF WhereInv, AheadIsNew
    <3>2. b < buf[e + k].line
      <4>1. e < e + k /\ e \in DOMAIN buf
        BY <1>2, <1>3, <1>6
      <4> QED BY <2>3, <4>1, <1>2, <1>6 DEF WhereInv, FilesOrdered, Ordered, b
    <3>3. \A l \in Nat : New(l) /\ b < l => /\ l \notin skipped'
                                           /\ \A i \in DOMAIN handled' : handled'[i].line < l
      BY <1>10 DEF New
    <3>4. buf'[k].line = buf[e + k].line
      BY <1>6
    <3> QED BY <3>1, <3>2, <3>3, <3>4 DEF New
  <2>4. ASSUME NEW j \in Inode, NEW i \in DOMAIN content[j], content[j][i].end, Ahead(j, i)'
        PROVE  New(content[j][i].line)' /\ PastBuffer(content[j][i].line, j, i)'
    <3> DEFINE l == content[j][i].line
    <3>1. l \in Nat /\ i \in Nat /\ e \in Nat
      <4>1. content[j] \in Seq(HalfLine)
        BY SizesTyped
      <4> QED BY <2>4, <4>1, <1>2, LinesTyped
    <3>2. j > Base \/ Shrunk \/ i > offset + e
      BY <2>1, <2>2, <2>4, <1>1 DEF Ahead
    <3>3. Ahead(j, i)
      <4>1. i > offset + e => i > offset
        BY <3>1, <1>3
      <4> QED BY <4>1, <2>1, <2>2, <2>4, <1>1 DEF Ahead
    <3>4. New(l) /\ PastBuffer(l, j, i)
      BY <2>4, <3>3 DEF WhereInv, AheadIsNew
    <3>5. b < l
      BY <3>2, <3>4, <1>2, <1>3 DEF PastBuffer, b
    <3>6. ASSUME NEW k \in DOMAIN buf', buf'[k].end, j > Base \/ Shrunk \/ i > offset' + k
          PROVE  buf'[k].line < l
      <4>1. i > offset' + k => i > offset + (e + k)
        BY <3>1, <1>1, <1>3, <1>6
      <4>2. e + k \in DOMAIN buf /\ buf'[k] = buf[e + k]
        BY <1>6
      <4> QED BY <3>4, <3>6, <4>1, <4>2 DEF PastBuffer
    <3>7. PastBuffer(content[j][i].line, j, i)'
      BY <3>6, <2>1, <2>2, <1>1 DEF PastBuffer
    <3>8. New(content[j][i].line)'
      <4>1. content'[j][i].line = l
        BY <1>1
      <4>2. l \notin skipped' /\ \A n \in DOMAIN handled' : handled'[n].line < l
        BY <3>1, <3>4, <3>5, <1>10 DEF New
      <4> QED BY <4>1, <4>2 DEF New
    <3> QED BY <3>7, <3>8
  <2> QED BY <1>1, <2>3, <2>4 DEF AheadIsNew
<1> QED BY <1>11, <1>13, <1>14, <1>15, <1>16, <1>17 DEF WhereInv

LEMMA WhereStep ==
    ASSUME SyncInv, WhereInv, [Next]_vars
    PROVE  WhereInv'
<1>1. TypeOK'
  BY StepTyped
<1> QED BY <1>1, QuietStep, PollOpenStep, ReopenStep, TruncateStep, WriteStep, ReadMoreStep, HandleLineStep
        DEF Next, Run

\* Every line is handled at most once and in the order in which the lines were
\* begun, and none that openAtEnd skipped: for any sequence of appends, partial
\* lines, renames and truncations, at any point of the poll.
THEOREM LinesHandledOnce == Spec => []HandledOnce
<1>1. Init => SyncInv /\ WhereInv
  BY SyncInit, WhereInit
<1>2. SyncInv /\ WhereInv /\ [Next]_vars => WhereInv'
  BY WhereStep
<1>3. WhereInv => HandledOnce
  BY DEF WhereInv
<1> QED BY TailerTypes, <1>1, <1>2, <1>3, PTL DEF Spec

-----------------------------------------------------------------------------
(* The tracker: every burst is reported, and no failure counts twice.      *)

\* What tracker.add finds fresh is the latest part of the failures since the
\* last alert: those within the window, and no other.
LEMMA FreshIsLatest ==
    ASSUME TypeOK, Tracked, NEW ip \in Ip
    PROVE  \E m \in 0 .. Len(fails[ip]) :
              /\ fresh(ip) = SubSeq(fails[ip], m + 1, Len(fails[ip]))
              /\ Splits(fails[ip], clock - Window, m, Len(fails[ip]))
<1> DEFINE f == fails[ip]
<1> DEFINE h == hit[ip]
<1> DEFINE cutoff == clock - Window
<1>1. f \in Seq(Nat) /\ h \in Seq(Nat) /\ cutoff \in Int /\ Len(f) \in Nat /\ NonDecreasing(f)
  BY TailerAssumption DEF TypeOK, Tracked
<1>2. PICK p \in 0 .. Len(f) : h = SubSeq(f, p + 1, Len(f)) /\ \A i \in 1 .. p : f[i] <= cutoff
  BY DEF Tracked, FreshPart
<1>3. fresh(ip) = After(h, cutoff)
  BY DEF fresh
<1> HIDE DEF f, h, cutoff
<1>4. Len(h) = Len(f) - p /\ \A i \in 1 .. Len(h) : h[i] = f[p + i]
  BY <1>1, <1>2, RestOfSeq
<1>5. NonDecreasing(h)
  <2> SUFFICES ASSUME NEW i \in DOMAIN h, NEW j \in DOMAIN h, i < j
               PROVE  h[i] <= h[j]
    BY DEF NonDecreasing
  <2>1. i \in 1 .. Len(h) /\ j \in 1 .. Len(h)
    BY <1>1
  <2>2. p + i \in 1 .. Len(f) /\ p + j \in 1 .. Len(f) /\ p + i < p + j
    <3>1. \A n, k, a, c : n \in Nat /\ k \in 0 .. n /\ a \in 1 .. n - k /\ c \in 1 .. n - k /\ a < c
             => k + a \in 1 .. n /\ k + c \in 1 .. n /\ k + a < k + c
      OBVIOUS
    <3>2. i \in 1 .. Len(f) - p /\ j \in 1 .. Len(f) - p
      BY <2>1, <1>4
    <3>3. Len(f) \in Nat
      BY <1>1
    <3> QED BY <3>1, <3>2, <3>3
  <2>3. DOMAIN f = 1 .. Len(f)
    BY <1>1
  <2> QED BY <2>1, <2>2, <2>3, <1>1, <1>4 DEF NonDecreasing
<1>6. PICK q \in 0 .. Len(h) : After(h, cutoff) = SubSeq(h, q + 1, Len(h)) /\ Splits(h, cutoff, q, Len(h))
  BY <1>1, <1>5, AfterIsSuffix
<1> DEFINE r == p + q
<1>7. r \in 0 .. Len(f) /\ r \in Nat /\ p \in Nat /\ q \in Nat /\ r = p + q
  BY <1>1, <1>4
<1> HIDE DEF r
<1>8. SubSeq(h, q + 1, Len(h)) = SubSeq(f, r + 1, Len(f))
  <2> DEFINE u == SubSeq(h, q + 1, Len(h))
  <2> DEFINE v == SubSeq(f, r + 1, Len(f))
  <2>1. u \in Seq(Nat) /\ Len(u) = Len(h) - q /\ \A i \in 1 .. Len(h) - q : u[i] = h[q + i]
    BY <1>1, <1>6, RestOfSeq
  <2>2. v \in Seq(Nat) /\ Len(v) = Len(f) - r /\ \A i \in 1 .. Len(f) - r : v[i] = f[r + i]
    BY <1>1, <1>7, RestOfSeq
  <2> HIDE DEF u, v
  <2>3. Len(u) = Len(v)
    BY <2>1, <2>2, <1>1, <1>4, <1>7
  <2>4. \A i \in 1 .. Len(u) : u[i] = v[i]
    <3> SUFFICES ASSUME NEW i \in 1 .. Len(u) PROVE u[i] = v[i]
      OBVIOUS
    <3>1. q + i \in 1 .. Len(h) /\ p + (q + i) = r + i /\ i \in 1 .. Len(h) - q
      BY <2>1, <1>1, <1>4, <1>7
    <3>2. i \in 1 .. Len(f) - r
      BY <2>2, <2>3
    <3>3. u[i] = h[q + i] /\ h[q + i] = f[p + (q + i)] /\ v[i] = f[r + i]
      BY <3>1, <3>2, <2>1, <2>2, <1>4
    <3> QED BY <3>1, <3>3
  <2> QED BY <2>1, <2>2, <2>3, <2>4, SeqEqual DEF u, v
<1>9. Splits(f, cutoff, r, Len(f))
  <2>1. ASSUME NEW i \in 1 .. r PROVE f[i] <= cutoff
    <3>1. CASE i <= p
      BY <3>1, <2>1, <1>1, <1>2, <1>7
    <3>2. CASE i > p
      <4>1. i - p \in 1 .. q /\ i - p \in 1 .. Len(h) /\ p + (i - p) = i
        BY <3>2, <2>1, <1>1, <1>4, <1>7
      <4> QED BY <4>1, <1>4, <1>6 DEF Splits
    <3> QED BY <3>1, <3>2, <2>1, <1>7
  <2>2. ASSUME NEW i \in r + 1 .. Len(f) PROVE f[i] > cutoff
    <3>1. i - p \in q + 1 .. Len(h) /\ i - p \in 1 .. Len(h) /\ p + (i - p) = i
      BY <2>2, <1>1, <1>4, <1>7
    <3> QED BY <3>1, <1>4, <1>6 DEF Splits
  <2> QED BY <2>1, <2>2 DEF Splits
<1>10. After(h, cutoff) = SubSeq(f, r + 1, Len(f))
  BY <1>6, <1>8
<1> QED BY <1>3, <1>7, <1>9, <1>10 DEF f, h, cutoff

\* Threshold failures in a row, the first and the last of them less than Window
\* apart.
Burst(f, i) ==
    LET last == i + Threshold - 1
    IN  last \in DOMAIN f /\ ~(f[last] - f[i] >= Window)

LEMMA BurstsAreNone ==
    ASSUME TypeOK
    PROVE  BurstsReported <=> \A ip \in Ip : \A i \in DOMAIN fails[ip] : ~Burst(fails[ip], i)
  BY DEF BurstsReported, Burst

TrackParts(f, h, now) ==
    /\ NonDecreasing(f)
    /\ \A i \in DOMAIN f : f[i] <= now
    /\ FreshPart(h, f, now)
    /\ \A i \in DOMAIN f : ~Burst(f, i)

\* An address after its alert.
LEMMA TrackEmpty ==
    ASSUME NEW now \in Nat
    PROVE  TrackParts(<<>>, <<>>, now)
<1>1. FreshPart(<<>>, <<>>, now)
  <2>1. 0 \in 0 .. Len(<<>>) /\ <<>> = SubSeq(<<>>, 0 + 1, Len(<<>>)) /\ \A i \in 1 .. 0 : FALSE
    OBVIOUS
  <2> QED BY <2>1 DEF FreshPart
<1> QED BY <1>1 DEF TrackParts, NonDecreasing

\* A failure that does not reach the threshold makes no burst.
LEMMA TrackAppend ==
    ASSUME TypeOK, Tracked, NEW ip \in Ip, \A i \in DOMAIN fails[ip] : ~Burst(fails[ip], i), ~Fires(ip)
    PROVE  TrackParts(Append(fails[ip], clock), Append(fresh(ip), clock), clock)
<1> DEFINE f == fails[ip]
<1> DEFINE g == Append(f, clock)
<1>1. f \in Seq(Nat) /\ clock \in Nat /\ Len(f) \in Nat /\ Window \in Nat /\ Threshold \in Nat \ {0}
  BY TailerAssumption DEF TypeOK
<1>2. PICK m \in 0 .. Len(f) :
         fresh(ip) = SubSeq(f, m + 1, Len(f)) /\ Splits(f, clock - Window, m, Len(f))
  BY FreshIsLatest
<1>3. NonDecreasing(f) /\ (\A i \in DOMAIN f : f[i] <= clock) /\ (\A i \in DOMAIN f : ~Burst(f, i))
  BY DEF Tracked
<1>4. Len(fresh(ip)) + 1 < Threshold
  <2>1. Len(fresh(ip)) \in Nat
    <3> HIDE DEF f
    <3>1. fresh(ip) \in Seq(Nat)
      BY <1>1, <1>2, RestOfSeq
    <3> QED BY <3>1
  <2> QED BY <2>1, <1>1 DEF Fires
<1> HIDE DEF f
<1>5. Len(fresh(ip)) = Len(f) - m
  BY <1>1, <1>2, RestOfSeq
<1>6. /\ g \in Seq(Nat) /\ Len(g) = Len(f) + 1 /\ DOMAIN g = 1 .. Len(f) + 1 /\ DOMAIN f = 1 .. Len(f)
      /\ \A i \in 1 .. Len(f) : g[i] = f[i]
      /\ g[Len(f) + 1] = clock
  BY <1>1
<1>7. NonDecreasing(g)
  BY <1>1, <1>3, <1>6 DEF NonDecreasing
<1>8. \A i \in DOMAIN g : g[i] <= clock
  BY <1>1, <1>3, <1>6
<1>9. FreshPart(Append(fresh(ip), clock), g, clock)
  <2> HIDE DEF g
  <2> DEFINE n == Len(f)
  <2>a. n \in Nat /\ m \in 0 .. n
    BY <1>1
  <2>b. Len(g) = n + 1
    BY <1>6
  <2> HIDE DEF n
  <2>c. m \in Nat /\ m <= Len(g) /\ m \in 0 .. Len(g)
    BY <2>a, <2>b
  <2>1. Append(SubSeq(f, m + 1, Len(f)), clock) = SubSeq(g, m + 1, Len(g))
    <3> DEFINE u == SubSeq(f, m + 1, Len(f))
    <3> DEFINE v == SubSeq(g, m + 1, Len(g))
    <3>1. u \in Seq(Nat) /\ Len(u) = Len(f) - m /\ \A i \in 1 .. Len(f) - m : u[i] = f[m + i]
      BY <1>1, RestOfSeq
    <3>2. v \in Seq(Nat) /\ Len(v) = Len(g) - m /\ \A i \in 1 .. Len(g) - m : v[i] = g[m + i]
      <4>1. g \in Seq(Nat)
        BY <1>6
      <4> QED BY <4>1, <2>c, RestOfSeq
    <3> HIDE DEF u, v
    <3>a. u \in Seq(Nat) /\ Len(u) = n - m /\ v \in Seq(Nat) /\ Len(v) = n + 1 - m
      BY <3>1, <3>2, <2>b DEF n
    <3>3. Append(u, clock) \in Seq(Nat) /\ Len(Append(u, clock)) = Len(v)
      <4>1. Append(u, clock) \in Seq(Nat) /\ Len(Append(u, clock)) = Len(u) + 1
        BY <3>a, <1>1
      <4> QED BY <4>1, <3>a, <2>a
    <3>4. \A i \in 1 .. Len(v) : Append(u, clock)[i] = v[i]
      <4> SUFFICES ASSUME NEW i \in 1 .. Len(v) PROVE Append(u, clock)[i] = v[i]
        OBVIOUS
      <4>1. CASE i = Len(u) + 1
        <5>1. Append(u, clock)[i] = clock
          BY <4>1, <3>1
        <5>2. m + i = n + 1 /\ i \in 1 .. Len(g) - m
          BY <4>1, <3>a, <2>a, <2>b
        <5>3. v[i] = g[m + i]
          BY <5>2, <3>2
        <5> QED BY <5>1, <5>2, <5>3, <1>6 DEF n
      <4>2. CASE i \in 1 .. Len(u)
        <5>1. Append(u, clock)[i] = u[i]
          BY <4>2, <3>1
        <5>2. i \in 1 .. n - m /\ i \in 1 .. Len(g) - m /\ m + i \in 1 .. n
          BY <4>2, <3>a, <2>a, <2>b
        <5>3. v[i] = g[m + i] /\ u[i] = f[m + i]
          BY <5>2, <3>1, <3>2 DEF n
        <5>4. g[m + i] = f[m + i]
          BY <5>2, <1>6 DEF n
        <5> QED BY <5>1, <5>3, <5>4
      <4> QED BY <4>1, <4>2, <3>a, <2>a
    <3>5. Append(u, clock) = v
      BY <3>2, <3>3, <3>4, SeqEqual
    <3> QED BY <3>5 DEF u, v
  <2>2. Append(fresh(ip), clock) = SubSeq(g, m + 1, Len(g))
    BY <2>1, <1>2
  <2>3. \A i \in 1 .. m : g[i] <= clock - Window
    BY <1>1, <1>2, <1>6 DEF Splits
  <2> QED BY <2>2, <2>3, <2>c DEF FreshPart
<1>10. ASSUME NEW i \in DOMAIN g, Burst(g, i) PROVE FALSE
  <2> HIDE DEF g
  <2> DEFINE last == i + Threshold - 1
  <2>1. last \in 1 .. Len(f) + 1 /\ i \in 1 .. Len(f) + 1 /\ last >= i /\ last \in Nat /\ i \in Nat
        /\ ~(g[last] - g[i] >= Window)
    BY <1>10, <1>1, <1>6 DEF Burst
  <2>2. CASE last = Len(f) + 1
    <3>1. i <= m
      BY <2>1, <2>2, <1>1, <1>4, <1>5
    <3>2. f[i] <= clock - Window /\ g[i] = f[i] /\ g[last] = clock /\ f[i] \in Nat
      BY <3>1, <2>1, <2>2, <1>1, <1>2, <1>6 DEF Splits
    <3> HIDE DEF last
    <3> QED BY <3>2, <2>1, <1>1
  <2>3. CASE last # Len(f) + 1
    <3>1. last \in 1 .. Len(f) /\ i \in 1 .. Len(f)
      BY <2>1, <2>3, <1>1
    <3>2. Burst(f, i)
      BY <3>1, <2>1, <1>6 DEF Burst
    <3> QED BY <3>1, <3>2, <1>3, <1>6
  <2> QED BY <2>2, <2>3
<1> HIDE DEF g
<1>11. TrackParts(g, Append(fresh(ip), clock), clock)
  BY <1>7, <1>8, <1>9, <1>10 DEF TrackParts
<1> QED BY <1>11 DEF f, g

\* The tracker's part of the invariant, address by address.
TrackInv == \A ip \in Ip : TrackParts(fails[ip], hit[ip], clock)

LEMMA TrackInvMeans ==
    ASSUME TypeOK
    PROVE  TrackInv <=> Tracked /\ BurstsReported
  BY BurstsAreNone DEF TrackInv, TrackParts, Tracked

\* Time only makes what was dropped older.
LEMMA TrackLater ==
    ASSUME NEW f \in Seq(Nat), NEW h, NEW now \in Nat, NEW later \in Nat, now <= later,
           TrackParts(f, h, now)
    PROVE  TrackParts(f, h, later)
<1>1. \A i \in DOMAIN f : f[i] \in Nat
  OBVIOUS
<1>2. \A i \in DOMAIN f : f[i] <= later
  BY <1>1 DEF TrackParts
<1>3. FreshPart(h, f, later)
  <2>1. PICK m \in 0 .. Len(f) : h = SubSeq(f, m + 1, Len(f)) /\ \A i \in 1 .. m : f[i] <= now - Window
    BY DEF TrackParts, FreshPart
  <2>2. Len(f) \in Nat /\ DOMAIN f = 1 .. Len(f) /\ Window \in Nat
    BY TailerAssumption
  <2>3. \A i \in 1 .. m : f[i] <= later - Window
    BY <2>1, <2>2, <1>1
  <2> QED BY <2>1, <2>3 DEF FreshPart
<1> QED BY <1>2, <1>3 DEF TrackParts

LEMMA TrackAdd ==
    ASSUME TypeOK, TrackInv, NEW ip \in Ip, add(ip), clock' = clock
    PROVE  TrackInv'
<1>1. Tracked /\ \A i \in DOMAIN fails[ip] : ~Burst(fails[ip], i)
  BY TrackInvMeans DEF TrackInv, TrackParts
<1>2. \A x \in Ip \ {ip} : fails'[x] = fails[x] /\ hit'[x] = hit[x]
  BY DEF add, TypeOK
<1>3. CASE Fires(ip)
  <2>1. fails'[ip] = <<>> /\ hit'[ip] = <<>> /\ clock \in Nat
    BY <1>3 DEF add, TypeOK
  <2>2. TrackParts(fails'[ip], hit'[ip], clock)
    BY <2>1, TrackEmpty
  <2> QED BY <1>2, <2>2 DEF TrackInv
<1>4. CASE ~Fires(ip)
  <2>1. fails'[ip] = Append(fails[ip], clock) /\ hit'[ip] = Append(fresh(ip), clock)
    BY <1>4 DEF add, TypeOK
  <2>2. TrackParts(fails'[ip], hit'[ip], clock)
    BY <2>1, <1>1, <1>4, TrackAppend
  <2> QED BY <1>2, <2>2 DEF TrackInv
<1> QED BY <1>3, <1>4

LEMMA TrackStep ==
    ASSUME TypeOK, TrackInv, [Next]_vars
    PROVE  TrackInv'
<1>1. CASE HandleLine
  <2>1. PICK ip \in FailedAuthIP : IF ip = NoIp THEN UNCHANGED <<hit, fails>> ELSE add(ip)
    BY <1>1 DEF HandleLine
  <2>2. ip \in Ip \cup {NoIp} /\ clock' = clock
    BY <1>1, MatchedTyped DEF HandleLine, TailStep
  <2>3. CASE ip = NoIp
    BY <2>1, <2>2, <2>3 DEF TrackInv
  <2>4. CASE ip # NoIp
    BY <2>1, <2>2, <2>4, TrackAdd
  <2> QED BY <2>3, <2>4
<1>2. CASE Tick
  <2>1. UNCHANGED <<hit, fails>> /\ clock' = clock + 1 /\ clock \in Nat
    BY <1>2 DEF Tick, trackVars, TypeOK
  <2>2. clock' \in Nat /\ clock <= clock'
    BY <2>1
  <2>3. \A ip \in Ip : fails[ip] \in Seq(Nat)
    BY DEF TypeOK
  <2>4. \A ip \in Ip : TrackParts(fails[ip], hit[ip], clock')
    BY <2>1, <2>2, <2>3, TrackLater DEF TrackInv
  <2> QED BY <2>1, <2>4 DEF TrackInv
<1>3. CASE UNCHANGED <<hit, fails, clock>>
  BY <1>3 DEF TrackInv
<1> QED BY <1>1, <1>2, <1>3 DEF Next, Run, Cancel, Write, WriteHalf, WriteRest, AppendHalves,
           RenameAway, Create, ReopenLogger, Truncate, PollOpen, Poll, Stat, Reopen, ReadMore,
           EndOfFile, TailStep, vars, fileVars, tailVars, trackVars

LEMMA TrackInit == Init => TrackInv
<1> SUFFICES ASSUME Init PROVE TrackInv
  OBVIOUS
<1>1. \A ip \in Ip : fails[ip] = <<>> /\ hit[ip] = <<>>
  BY DEF Init
<1>2. clock \in Nat
  BY DEF Init
<1> QED BY <1>1, <1>2, TrackEmpty DEF TrackInv

LEMMA TrackHolds == Spec => []TrackInv
<1>1. SyncInv => TypeOK
  BY DEF SyncInv
<1>2. TypeOK /\ TrackInv /\ [Next]_vars => TrackInv'
  BY TrackStep
<1> QED BY TrackInit, TailerTypes, <1>1, <1>2, PTL DEF Spec

\* For any threshold, any window and any rate of failures, the tracker's pruned
\* list never hides a burst: Threshold failures of one address within Window are
\* always reported.
THEOREM EveryBurstReported == Spec => []BurstsReported
<1>1. SyncInv /\ TrackInv => BurstsReported
  BY TrackInvMeans DEF SyncInv
<1> QED BY TrackHolds, TailerTypes, <1>1, PTL

\* Every alert stands for Threshold failures of its own within the window: the
\* reset leaves none of them to the next alert.
THEOREM EveryAlertJustified == Spec => AlertsJustified
<1> DEFINE A == handled' # handled =>
          \A ip \in Ip : Last(handled').alert = ip =>
             /\ Len(fails[ip]) + 1 >= Threshold
             /\ Threshold > 1 => clock - fails[ip][Len(fails[ip]) - Threshold + 2] < Window
<1>1. ASSUME SyncInv, TrackInv, [Next]_vars PROVE [A]_vars
  <2> SUFFICES ASSUME HandleLine, NEW ip \in Ip, Last(handled').alert = ip
               PROVE  /\ Len(fails[ip]) + 1 >= Threshold
                      /\ Threshold > 1 => clock - fails[ip][Len(fails[ip]) - Threshold + 2] < Window
    BY <1>1 DEF Next, Run, Cancel, Tick, Write, WriteHalf, WriteRest, AppendHalves,
           RenameAway, Create, ReopenLogger, Truncate, PollOpen, Poll, Stat, Reopen, ReadMore,
           EndOfFile, TailStep, vars, fileVars, tailVars, trackVars
  <2>1. TypeOK /\ Tracked
    BY <1>1, TrackInvMeans DEF SyncInv
  <2>2. Fires(ip)
    <3>1. PICK x \in FailedAuthIP :
             handled' = Append(handled, [line |-> Last(Line).line, alert |-> AlertFor(x)])
      BY DEF HandleLine
    <3> DEFINE e == [line |-> Last(Line).line, alert |-> AlertFor(x)]
    <3>2. e.alert = AlertFor(x)
      OBVIOUS
    <3>3. handled \in Seq(Handled) /\ handled' = Append(handled, e)
      BY <2>1, <3>1 DEF TypeOK
    <3> HIDE DEF e
    <3>4. Last(handled') = e
      BY <3>3 DEF Last
    <3>5. AlertFor(x) = ip
      BY <3>2, <3>4
    <3> QED BY <3>5, TailerAssumption DEF AlertFor
  <2> DEFINE f == fails[ip]
  <2>3. f \in Seq(Nat) /\ Len(f) \in Nat /\ clock \in Nat /\ Threshold \in Nat \ {0} /\ Window \in Nat
    BY <2>1, TailerAssumption DEF TypeOK
  <2>4. PICK m \in 0 .. Len(f) :
           fresh(ip) = SubSeq(f, m + 1, Len(f)) /\ Splits(f, clock - Window, m, Len(f))
    BY <2>1, FreshIsLatest
  <2> HIDE DEF f
  <2>5. Len(fresh(ip)) = Len(f) - m
    BY <2>3, <2>4, RestOfSeq
  <2>6. Len(f) - m + 1 >= Threshold
    BY <2>2, <2>5 DEF Fires
  <2>7. Len(f) + 1 >= Threshold
    BY <2>3, <2>6
  <2>8. ASSUME Threshold > 1 PROVE clock - f[Len(f) - Threshold + 2] < Window
    <3> DEFINE i == Len(f) - Threshold + 2
    <3>1. i \in m + 1 .. Len(f) /\ i \in 1 .. Len(f)
      BY <2>3, <2>6, <2>8
    <3> HIDE DEF i
    <3>2. f[i] > clock - Window /\ f[i] \in Nat
      BY <3>1, <2>3, <2>4 DEF Splits
    <3>3. clock - f[i] < Window
      BY <3>2, <2>3
    <3> QED BY <3>3 DEF i
  <2> QED BY <2>7, <2>8 DEF f
<1> QED BY <1>1, TailerTypes, TrackHolds, PTL DEF Spec, AlertsJustified

=============================================================================
