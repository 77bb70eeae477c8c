--------------------------- MODULE SessionProofs ---------------------------
(***************************************************************************)
(* Proofs about Session: what a session tells of its state is true after   *)
(* every call, however the call ended, for every context length, chunk     *)
(* size, draft length and backend.  The lemmas about the key-value state   *)
(* come first: what a row, a batch of rows, a rewind and a shift do to it. *)
(***************************************************************************)
EXTENDS Session, SequenceTheorems, WellFoundedInduction, TLAPS

----------------------------------------------------------------------------
(* Sequences: beginnings and ends.                                         *)
LEMMA FirstOf ==
    ASSUME NEW S, NEW s \in Seq(S), NEW n \in 0 .. Len(s)
    PROVE  /\ First(s, n) \in Seq(S) /\ Len(First(s, n)) = n
           /\ \A i \in 1 .. n : First(s, n)[i] = s[i]
BY SubSeqProperties DEF First

LEMMA FirstAll ==
    ASSUME NEW S, NEW s \in Seq(S)
    PROVE  First(s, Len(s)) = s
<1>1. /\ First(s, Len(s)) \in Seq(S) /\ Len(First(s, Len(s))) = Len(s)
      /\ \A i \in 1 .. Len(s) : First(s, Len(s))[i] = s[i]
  BY FirstOf
<1>2. QED
  BY <1>1, SeqEqual

LEMMA FirstFirst ==
    ASSUME NEW S, NEW s \in Seq(S), NEW n \in 0 .. Len(s), NEW m \in 0 .. n
    PROVE  First(First(s, n), m) = First(s, m)
<1>1. /\ First(s, n) \in Seq(S) /\ Len(First(s, n)) = n
      /\ \A i \in 1 .. n : First(s, n)[i] = s[i]
  BY FirstOf
<1>2. /\ First(s, m) \in Seq(S) /\ Len(First(s, m)) = m
      /\ \A i \in 1 .. m : First(s, m)[i] = s[i]
  BY FirstOf
<1>3. /\ First(First(s, n), m) \in Seq(S) /\ Len(First(First(s, n), m)) = m
      /\ \A i \in 1 .. m : First(First(s, n), m)[i] = First(s, n)[i]
  BY <1>1, FirstOf
<1>4. QED
  BY <1>1, <1>2, <1>3, SeqEqual

LEMMA FirstAgree ==
    ASSUME NEW S, NEW s \in Seq(S), NEW t \in Seq(S),
           NEW n \in Nat, n <= Len(s), n <= Len(t), \A i \in 1 .. n : t[i] = s[i]
    PROVE  First(t, n) = First(s, n)
<1>1. /\ First(s, n) \in Seq(S) /\ Len(First(s, n)) = n
      /\ \A i \in 1 .. n : First(s, n)[i] = s[i]
  BY FirstOf
<1>2. /\ First(t, n) \in Seq(S) /\ Len(First(t, n)) = n
      /\ \A i \in 1 .. n : First(t, n)[i] = t[i]
  BY FirstOf
<1>3. QED
  BY <1>1, <1>2, SeqEqual

LEMMA FirstAppend ==
    ASSUME NEW S, NEW s \in Seq(S), NEW x \in S, NEW n \in 0 .. Len(s)
    PROVE  First(Append(s, x), n) = First(s, n)
<1> DEFINE t == Append(s, x)
<1>1. t \in Seq(S) /\ Len(t) = Len(s) + 1 /\ \A i \in 1 .. Len(s) : t[i] = s[i]
  BY AppendProperties
<1> HIDE DEF t
<1>2. First(t, n) = First(s, n)
  BY <1>1, FirstAgree
<1>3. QED
  BY <1>2 DEF t

LEMMA FirstConcat ==
    ASSUME NEW S, NEW s \in Seq(S), NEW r \in Seq(S), NEW n \in 0 .. Len(s)
    PROVE  First(s \o r, n) = First(s, n)
<1> DEFINE t == s \o r
<1>1. t \in Seq(S) /\ Len(t) = Len(s) + Len(r) /\ \A i \in 1 .. Len(s) : t[i] = s[i]
  BY ConcatProperties
<1> HIDE DEF t
<1>2. Len(s) \in Nat /\ Len(r) \in Nat
  BY LenProperties
<1>3. n \in Nat /\ n <= Len(s) /\ n <= Len(t)
  BY <1>1, <1>2
<1>4. \A i \in 1 .. n : t[i] = s[i]
  BY <1>1, <1>2
<1>5. First(t, n) = First(s, n)
  BY <1>1, <1>3, <1>4, FirstAgree
<1>6. QED
  BY <1>5 DEF t

(* What has gone in of r after s, and one more.                            *)
LEMMA FirstNext ==
    ASSUME NEW S, NEW s \in Seq(S), NEW r \in Seq(S), NEW m \in 0 .. Len(r) - 1
    PROVE  Append(s \o First(r, m), r[m + 1]) = s \o First(r, m + 1)
<1> DEFINE f == First(r, m)
           g == First(r, m + 1)
           y == r[m + 1]
<1>1. Len(r) \in Nat /\ m \in 0 .. Len(r) /\ m + 1 \in 1 .. Len(r) /\ 1 \in 1 .. Len(r)
      /\ m + 1 \in 1 .. Len(r) /\ (m + 1) - 1 = m
  BY LenProperties
<1>2. f \in Seq(S) /\ y \in S
  BY <1>1, FirstOf, ElementOfSeq
<1>3. g = f \o <<y>>
  <2> DEFINE k == m + 1
  <2>1. k \in 1 .. Len(r) /\ 1 \in 1 .. Len(r) /\ k - 1 = m
    BY <1>1
  <2> HIDE DEF k
  <2>2. SubSeq(r, 1, k) = SubSeq(r, 1, k - 1) \o <<r[k]>>
    BY <2>1, SubSeqRecursiveSecond
  <2>3. QED
    BY <2>1, <2>2 DEF First, k
<1> HIDE DEF f, g, y
<1>4. s \o f \in Seq(S) /\ <<y>> \in Seq(S)
  BY <1>2, ConcatProperties
<1>5. Append(s \o f, y) = (s \o f) \o <<y>>
  <2> DEFINE q == s \o f
  <2>1. q \in Seq(S)
    BY <1>4
  <2> HIDE DEF q
  <2>2. Append(q, y) = q \o <<y>>
    BY <1>2, <2>1, AppendIsConcat
  <2>3. QED
    BY <2>2 DEF q
<1>6. (s \o f) \o <<y>> = s \o (f \o <<y>>)
  <2> DEFINE w == <<y>>
  <2>1. w \in Seq(S)
    BY <1>4
  <2> HIDE DEF w
  <2>2. (s \o f) \o w = s \o (f \o w)
    BY SMTT(40), <1>2, <2>1, ConcatAssociative
  <2>3. QED
    BY <2>2 DEF w
<1>7. QED
  BY <1>3, <1>5, <1>6 DEF f, g, y

LEMMA NewestOf ==
    ASSUME NEW S, NEW s \in Seq(S), NEW n \in Nat
    PROVE  /\ Newest(s, n) \in Seq(S)
           /\ Len(Newest(s, n)) = IF Len(s) <= n THEN Len(s) ELSE n
           /\ \A i \in 1 .. Len(Newest(s, n)) :
                 Newest(s, n)[i] = s[i + Len(s) - Len(Newest(s, n))]
<1>1. CASE Len(s) <= n
  BY <1>1 DEF Newest
<1>2. CASE Len(s) > n
  <2>1. Newest(s, n) = SubSeq(s, Len(s) - n + 1, Len(s))
    BY <1>2 DEF Newest
  <2>2. /\ SubSeq(s, Len(s) - n + 1, Len(s)) \in Seq(S)
        /\ Len(SubSeq(s, Len(s) - n + 1, Len(s))) = n
        /\ \A i \in 1 .. n : SubSeq(s, Len(s) - n + 1, Len(s))[i] = s[Len(s) - n + 1 + i - 1]
    BY <1>2, SubSeqProperties
  <2>3. QED
    BY <1>2, <2>1, <2>2
<1>3. QED
  BY <1>1, <1>2

LEMMA NewestAppend ==
    ASSUME NEW S, NEW s \in Seq(S), NEW x \in S, NEW n \in Nat \ {0}
    PROVE  Newest(Append(Newest(s, n), x), n) = Newest(Append(s, x), n)
<1> DEFINE t == Newest(s, n)
           tx == Append(t, x)
           sx == Append(s, x)
           u == Newest(tx, n)
           v == Newest(sx, n)
<1>1. /\ t \in Seq(S) /\ Len(t) = (IF Len(s) <= n THEN Len(s) ELSE n)
      /\ \A i \in 1 .. Len(t) : t[i] = s[i + Len(s) - Len(t)]
  BY NewestOf
<1> HIDE DEF t
<1>2. /\ tx \in Seq(S) /\ Len(tx) = Len(t) + 1
      /\ \A i \in 1 .. Len(t) : tx[i] = t[i]
      /\ tx[Len(t) + 1] = x
  BY <1>1, AppendProperties
<1>3. /\ sx \in Seq(S) /\ Len(sx) = Len(s) + 1
      /\ \A i \in 1 .. Len(s) : sx[i] = s[i]
      /\ sx[Len(s) + 1] = x
  BY AppendProperties
<1> HIDE DEF tx, sx
<1>4. /\ u \in Seq(S) /\ Len(u) = (IF Len(tx) <= n THEN Len(tx) ELSE n)
      /\ \A i \in 1 .. Len(u) : u[i] = tx[i + Len(tx) - Len(u)]
  BY <1>2, NewestOf
<1>5. /\ v \in Seq(S) /\ Len(v) = (IF Len(sx) <= n THEN Len(sx) ELSE n)
      /\ \A i \in 1 .. Len(v) : v[i] = sx[i + Len(sx) - Len(v)]
  BY <1>3, NewestOf
<1> HIDE DEF u, v
<1>0. {Len(s), Len(t), Len(u), Len(v)} \subseteq Nat
  BY <1>1, <1>4, <1>5, LenProperties
<1>6. Len(u) = Len(v)
  BY <1>0, <1>1, <1>2, <1>3, <1>4, <1>5
<1>7. ASSUME NEW i \in 1 .. Len(u) PROVE u[i] = v[i]
  <2> DEFINE j == i + Len(tx) - Len(u)
             k == i + Len(sx) - Len(v)
  <2>1. u[i] = tx[j] /\ v[i] = sx[k]
    BY <1>4, <1>5, <1>6
  <2>2. i \in Nat /\ 1 <= i /\ i <= Len(u)
    BY <1>0
  <2>3. CASE i = Len(u)
    <3>1. j = Len(t) + 1 /\ k = Len(s) + 1
      BY <2>3, <1>0, <1>2, <1>3, <1>6
    <3>2. QED
      BY <3>1, <2>1, <1>2, <1>3
  <2>4. CASE i < Len(u)
    <3>0. /\ Len(tx) = Len(t) + 1 /\ Len(sx) = Len(s) + 1
          /\ Len(u) <= Len(tx) /\ Len(v) <= Len(sx)
      BY <1>0, <1>2, <1>3, <1>4, <1>5
    <3>1. j \in 1 .. Len(t) /\ k \in 1 .. Len(s) /\ k = j + Len(s) - Len(t)
      BY <3>0, <2>2, <2>4, <1>0, <1>6
    <3> HIDE DEF j, k
    <3>2. tx[j] = t[j] /\ sx[k] = s[k] /\ t[j] = s[j + Len(s) - Len(t)]
      BY <3>1, <1>1, <1>2, <1>3
    <3>3. QED
      BY <3>1, <3>2, <2>1
  <2>5. QED
    BY <2>2, <2>3, <2>4, <1>0
<1>8. u = v
  BY <1>4, <1>5, <1>6, <1>7, SeqEqual
<1>9. QED
  BY <1>8 DEF u, v, t, tx, sx

(* With one element more at most the oldest is dropped.                    *)
IsNewest(u, s, n) == u = Newest(s, n)

LEMMA NewestSplit ==
    ASSUME NEW S, NEW s \in Seq(S), NEW x \in S, NEW n \in Nat \ {0}, Len(s) <= n,
           NEW u, IsNewest(u, Append(s, x), n)
    PROVE  /\ u \in Seq(S) /\ Len(u) \in 1 .. n /\ u[Len(u)] = x
           /\ \E d \in {0, 1} : /\ Len(u) = Len(s) + 1 - d
                                /\ \A i \in 1 .. Len(s) - d : u[i] = s[i + d]
<1> DEFINE sx == Append(s, x)
<1>1. /\ sx \in Seq(S) /\ Len(sx) = Len(s) + 1
      /\ \A i \in 1 .. Len(s) : sx[i] = s[i]
      /\ sx[Len(s) + 1] = x
  BY AppendProperties
<1> HIDE DEF sx
<1>2. /\ u \in Seq(S) /\ Len(u) = (IF Len(sx) <= n THEN Len(sx) ELSE n)
      /\ \A i \in 1 .. Len(u) : u[i] = sx[i + Len(sx) - Len(u)]
  <2>1. u = Newest(sx, n)
    BY DEF sx, IsNewest
  <2>2. QED
    BY <1>1, <2>1, NewestOf
<1>0. Len(s) \in Nat /\ Len(u) \in Nat
  BY <1>2, LenProperties
<1>9. Len(u) \in 1 .. n
  BY <1>0, <1>1, <1>2
<1>7. Len(u) + Len(sx) - Len(u) = Len(s) + 1 /\ Len(u) \in 1 .. Len(u)
  BY <1>0, <1>9, <1>1
<1>8. u[Len(u)] = sx[Len(u) + Len(sx) - Len(u)]
  BY <1>7, <1>2
<1>3. u[Len(u)] = x /\ Len(u) \in 1 .. n
  BY <1>7, <1>8, <1>9, <1>1
<1>4. CASE Len(s) + 1 <= n
  <2>1. Len(u) = Len(s) + 1 - 0 /\ \A i \in 1 .. Len(s) - 0 : u[i] = s[i + 0]
    BY <1>0, <1>1, <1>2, <1>4
  <2>2. QED
    BY <2>1, <1>2, <1>3
<1>5. CASE Len(s) + 1 > n
  <2>0. Len(u) = Len(s) + 1 - 1 /\ Len(sx) = Len(u) + 1
    BY <1>0, <1>1, <1>2, <1>5
  <2>1. Len(u) = Len(s) + 1 - 1 /\ \A i \in 1 .. Len(s) - 1 : u[i] = s[i + 1]
    <3> SUFFICES ASSUME NEW i \in 1 .. Len(s) - 1 PROVE u[i] = s[i + 1]
      BY <2>0
    <3>1. i \in 1 .. Len(u) /\ i + Len(sx) - Len(u) = i + 1 /\ i + 1 \in 1 .. Len(s)
      BY <1>0, <2>0
    <3>2. u[i] = sx[i + Len(sx) - Len(u)]
      BY <3>1, <1>2
    <3>3. sx[i + 1] = s[i + 1]
      BY <3>1, <1>1
    <3>4. QED
      BY <3>1, <3>2, <3>3
  <2>2. QED
    BY <2>1, <1>2, <1>3
<1>6. QED
  BY <1>4, <1>5

----------------------------------------------------------------------------
(* The key-value state.  Opened is what a row of position at is computed   *)
(* over: on the accelerator the rows before it.                            *)
AnyKv == Kvs(AnyRow)
AnyCell == [row : AnyRow, clean : BOOLEAN]
Snapshots == [at : Nat, conv : Seq(AnyRow)]

Opened(k, at) ==
    IF ~OnDevice(k) THEN k
    ELSE [k EXCEPT !.cells = First(@, at), !.conv = IF at = 0 THEN <<>> ELSE @]

Bounded(k) == k \in AnyKv /\ Len(k.ring) <= Window

LEMMA KvFields ==
    ASSUME NEW k \in AnyKv
    PROVE  /\ k.backend \in Backends /\ k.cells \in Seq(AnyCell)
           /\ k.conv \in Seq(AnyRow) /\ k.ring \in Seq(Snapshots)
           /\ k.torn \in BOOLEAN /\ k.dropped \in BOOLEAN
           /\ Len(k.cells) \in Nat /\ Len(k.ring) \in Nat /\ Len(k.conv) \in Nat
BY LenProperties DEF AnyKv, Kvs, AnyCell, Snapshots

LEMMA OpenedIs ==
    ASSUME NEW k \in AnyKv, NEW at \in Nat, OnDevice(k) => at <= Len(k.cells)
    PROVE  LET o == Opened(k, at) IN
           /\ o \in AnyKv
           /\ o.backend = k.backend /\ o.ring = k.ring
           /\ o.torn = k.torn /\ o.dropped = k.dropped
           /\ Len(o.cells) = IF OnDevice(k) THEN at ELSE Len(k.cells)
           /\ o.cells = First(k.cells, Len(o.cells))
           /\ Len(k.cells) = at => o.cells = k.cells
           /\ at # 0 \/ ~OnDevice(k) => o.conv = k.conv
           /\ at = 0 /\ OnDevice(k) => o.conv = <<>>
<1>1. /\ k.cells \in Seq(AnyCell) /\ Len(k.cells) \in Nat /\ k.conv \in Seq(AnyRow)
      /\ First(k.cells, Len(k.cells)) = k.cells
  BY KvFields, FirstAll
<1>2. CASE ~OnDevice(k)
  BY <1>1, <1>2 DEF Opened
<1>3. CASE OnDevice(k)
  <2>1. First(k.cells, at) \in Seq(AnyCell) /\ Len(First(k.cells, at)) = at
    BY <1>1, <1>3, FirstOf
  <2>2. <<>> \in Seq(AnyRow)
    OBVIOUS
  <2>3. Opened(k, at) = [k EXCEPT !.cells = First(k.cells, at),
                                  !.conv = IF at = 0 THEN <<>> ELSE k.conv]
    BY <1>3 DEF Opened
  <2>4. /\ Opened(k, at) \in AnyKv
        /\ Opened(k, at).backend = k.backend /\ Opened(k, at).ring = k.ring
        /\ Opened(k, at).torn = k.torn /\ Opened(k, at).dropped = k.dropped
        /\ Opened(k, at).cells = First(k.cells, at)
        /\ Opened(k, at).conv = IF at = 0 THEN <<>> ELSE k.conv
    BY <2>1, <2>2, <2>3, <1>1 DEF AnyKv, Kvs, AnyCell
  <2>5. QED
    BY <2>1, <2>4, <1>1, <1>3
<1>4. QED
  BY <1>2, <1>3

LEMMA InTuneIsBoolean == ASSUME NEW k PROVE InTune(k) \in BOOLEAN
BY DEF InTune

LEMMA FeedRowIs ==
    ASSUME NEW k, Bounded(k), NEW row \in AnyRow, NEW at \in Nat,
           OnDevice(k) => at <= Len(k.cells)
    PROVE  LET o == Opened(k, at)
               n == FeedRow(k, row, at)
           IN  /\ Bounded(n) /\ n.backend = k.backend
               /\ n.torn = k.torn /\ n.dropped = k.dropped
               /\ n.cells = Append(o.cells, [row |-> row, clean |-> InTune(o)])
               /\ n.conv = Newest(Append(o.conv, row), Taps)
               /\ n.ring = IF OnDevice(k) THEN k.ring
                           ELSE Newest(Append(k.ring, [at |-> at + 1, conv |-> n.conv]), Window)
<1> DEFINE o == Opened(k, at)
           n == FeedRow(k, row, at)
           cell == [row |-> row, clean |-> InTune(o)]
           conv == Newest(Append(o.conv, row), Taps)
           snapshot == [at |-> at + 1, conv |-> conv]
           ring == IF OnDevice(k) THEN o.ring ELSE Newest(Append(o.ring, snapshot), Window)
<1>1. /\ o \in AnyKv /\ o.backend = k.backend /\ o.ring = k.ring
      /\ o.torn = k.torn /\ o.dropped = k.dropped
  BY OpenedIs DEF Bounded
<1>2. n = [o EXCEPT !.cells = Append(o.cells, cell), !.conv = conv, !.ring = ring]
  BY DEF FeedRow, Opened
<1>3. /\ o.cells \in Seq(AnyCell) /\ o.conv \in Seq(AnyRow) /\ k.ring \in Seq(Snapshots)
      /\ k.ring = o.ring /\ Len(k.ring) <= Window /\ o.ring \in Seq(Snapshots)
  BY <1>1, KvFields DEF Bounded
<1> HIDE DEF o
<1>4. cell \in AnyCell
  BY InTuneIsBoolean DEF AnyCell
<1>5. Append(o.cells, cell) \in Seq(AnyCell) /\ Append(o.conv, row) \in Seq(AnyRow)
  BY <1>3, <1>4, AppendProperties
<1>6. conv \in Seq(AnyRow)
  BY <1>5, NewestOf, KvAssumption
<1>7. snapshot \in Snapshots
  BY <1>6 DEF Snapshots
<1>8. ring \in Seq(Snapshots) /\ Len(ring) <= Window
  <2>1. Append(o.ring, snapshot) \in Seq(Snapshots)
    BY <1>3, <1>7, AppendProperties
  <2> DEFINE nr == Newest(Append(o.ring, snapshot), Window)
  <2>2. /\ nr \in Seq(Snapshots)
        /\ Len(nr) = (IF Len(Append(o.ring, snapshot)) <= Window
                      THEN Len(Append(o.ring, snapshot)) ELSE Window)
    BY <2>1, NewestOf, KvAssumption
  <2>3. Len(Append(o.ring, snapshot)) \in Nat /\ Window \in Nat
    BY <2>1, LenProperties, KvAssumption
  <2>4. Len(nr) <= Window
    BY <2>2, <2>3
  <2>5. QED
    BY <2>2, <2>4, <1>3
<1> HIDE DEF cell, conv, snapshot, ring
<1>9. n \in AnyKv /\ n.backend = o.backend /\ n.torn = o.torn /\ n.dropped = o.dropped
      /\ n.cells = Append(o.cells, cell) /\ n.conv = conv /\ n.ring = ring
  BY <1>1, <1>2, <1>5, <1>6, <1>8 DEF AnyKv, Kvs, AnyCell, Snapshots
<1>10. Bounded(n)
  BY <1>8, <1>9 DEF Bounded
<1>11. QED
  BY <1>1, <1>3, <1>9, <1>10 DEF o, cell, conv, ring, snapshot


(* A non-empty set of naturals has a least element.                        *)
LEMMA Least ==
    ASSUME NEW S \in SUBSET Nat, S # {}
    PROVE  \E n \in S : \A m \in S : n <= m
<1>1. \E n \in S : \A m \in S : ~(<<m, n>> \in OpToRel(<, Nat))
  BY WFMin, NatLessThanWellFounded, Zenon
<1>2. PICK n \in S : \A m \in S : ~(<<m, n>> \in OpToRel(<, Nat))
  BY <1>1
<1>3. \A m \in S : ~(m < n)
  BY <1>2, Zenon DEF OpToRel
<1>4. QED
  BY <1>3

(* Feed(k, rows, at) goes through its rows one by one.                     *)
IsRun(f, k, rows, at) ==
    /\ f[0] = k
    /\ \A i \in 1 .. Len(rows) : f[i] = FeedRow(f[i - 1], rows[i], at + i - 1)
    /\ f[Len(rows)] = Feed(k, rows, at)

LEMMA FeedRuns ==
    ASSUME NEW k, NEW rows, NEW at \in Nat, Len(rows) \in Nat
    PROVE  \E f : IsRun(f, k, rows, at)
<1> DEFINE Run(n, f) ==
             f = [i \in 0 .. n |-> IF i = 0 THEN k ELSE FeedRow(f[i - 1], rows[i], at + i - 1)]
           Bad == {n \in Nat : n <= Len(rows) /\ ~ \E f : Run(n, f)}
<1>1. Bad = {}
  <2> SUFFICES ASSUME Bad # {} PROVE FALSE
    OBVIOUS
  <2>1. PICK n \in Bad : \A m \in Bad : n <= m
    <3>1. Bad \in SUBSET Nat
      OBVIOUS
    <3>2. QED
      BY <3>1, Least
  <2>2. n \in Nat /\ n <= Len(rows) /\ ~ \E f : Run(n, f)
    BY <2>1
  <2>3. n # 0
    <3>1. Run(0, [i \in 0 .. 0 |-> k])
      OBVIOUS
    <3>2. QED
      BY <3>1, <2>2
  <2>4. n - 1 \in Nat /\ n - 1 <= Len(rows) /\ ~(n <= n - 1)
    BY <2>2, <2>3
  <2>5. PICK g : Run(n - 1, g)
    BY <2>1, <2>4
  <2> DEFINE h == [i \in 0 .. n |->
                     IF i = 0 THEN k
                     ELSE FeedRow(g[i - 1], rows[i], at + i - 1)]
  <2>6. ASSUME NEW i \in 0 .. n, i # 0 PROVE h[i - 1] = g[i - 1]
    <3>1. i - 1 \in 0 .. n - 1 /\ i - 1 \in 0 .. n
      BY <2>2, <2>6
    <3> HIDE DEF h
    <3>2. g[i - 1] = IF i - 1 = 0 THEN k ELSE FeedRow(g[i - 1 - 1], rows[i - 1], at + (i - 1) - 1)
      BY <3>1, <2>5
    <3>3. h[i - 1] = IF i - 1 = 0 THEN k ELSE FeedRow(g[i - 1 - 1], rows[i - 1], at + (i - 1) - 1)
      BY <3>1 DEF h
    <3>4. QED
      BY <3>2, <3>3
  <2>7. Run(n, h)
    BY <2>6
  <2>8. QED
    BY <2>2, <2>7
<1>2. \E f : Run(Len(rows), f)
  BY <1>1
<1> DEFINE fed == CHOOSE f : Run(Len(rows), f)
<1>3. Run(Len(rows), fed)
  BY <1>2
<1>4. Feed(k, rows, at) = fed[Len(rows)]
  BY DEF Feed
<1> HIDE DEF fed
<1>5. /\ fed[0] = k
      /\ \A i \in 1 .. Len(rows) : fed[i] = FeedRow(fed[i - 1], rows[i], at + i - 1)
  BY <1>3
<1>6. IsRun(fed, k, rows, at)
  BY <1>4, <1>5 DEF IsRun
<1>7. QED
  BY <1>6

(* What every row keeps, a batch keeps.  The property is given by the set  *)
(* of the pairs that have it: a state, and the rows that have gone in.     *)
KeptByRows(G, rows, at) ==
    \A m \in 0 .. Len(rows) - 1 : \A j :
        <<j, m>> \in G => <<FeedRow(j, rows[m + 1], at + m), m + 1>> \in G

LEMMA FeedKeeps ==
    ASSUME NEW k, NEW rows, NEW at \in Nat, Len(rows) \in Nat, NEW G,
           <<k, 0>> \in G, KeptByRows(G, rows, at)
    PROVE  <<Feed(k, rows, at), Len(rows)>> \in G
<1>0. PICK f : IsRun(f, k, rows, at)
  BY FeedRuns
<1>1. /\ f[0] = k
      /\ \A i \in 1 .. Len(rows) : f[i] = FeedRow(f[i - 1], rows[i], at + i - 1)
      /\ f[Len(rows)] = Feed(k, rows, at)
  BY <1>0 DEF IsRun
<1> DEFINE Bad == {n \in Nat : n <= Len(rows) /\ <<f[n], n>> \notin G}
<1>2. Bad = {}
  <2> SUFFICES ASSUME Bad # {} PROVE FALSE
    OBVIOUS
  <2>1. PICK n \in Bad : \A m \in Bad : n <= m
    <3>1. Bad \in SUBSET Nat
      OBVIOUS
    <3>2. QED
      BY <3>1, Least
  <2>2. n \in Nat /\ n <= Len(rows) /\ <<f[n], n>> \notin G
    BY <2>1
  <2>3. n # 0
    BY <2>2, <1>1
  <2>4. n - 1 \in Nat /\ n - 1 <= Len(rows) /\ ~(n <= n - 1) /\ n - 1 \in 0 .. Len(rows) - 1
    BY <2>2, <2>3
  <2>5. <<f[n - 1], n - 1>> \in G
    BY <2>1, <2>4
  <2>6. <<FeedRow(f[n - 1], rows[(n - 1) + 1], at + (n - 1)), (n - 1) + 1>> \in G
    BY <2>4, <2>5 DEF KeptByRows
  <2>7. (n - 1) + 1 = n /\ at + (n - 1) = at + n - 1
    BY <2>2
  <2>8. n \in 1 .. Len(rows) /\ f[n] = FeedRow(f[n - 1], rows[n], at + n - 1)
    BY <1>1, <2>2, <2>3
  <2>9. QED
    BY <2>2, <2>6, <2>7, <2>8
<1>3. QED
  BY <1>1, <1>2


----------------------------------------------------------------------------
(* One row, and then a batch of rows.  Base is what stays of the cache.    *)
Base(k, at) == IF OnDevice(k) THEN at ELSE Len(k.cells)

SameMakeOf(n, k) == n.backend = k.backend /\ n.torn = k.torn /\ n.dropped = k.dropped

TopIs(k, at) ==
    k.ring # <<>> /\ k.ring[Len(k.ring)] = [at |-> at, conv |-> k.conv]

LEMMA FeedRowGrows ==
    ASSUME NEW k, Bounded(k), NEW row \in AnyRow, NEW at \in Nat,
           OnDevice(k) => at <= Len(k.cells)
    PROVE  LET n == FeedRow(k, row, at) IN
           /\ Bounded(n) /\ SameMakeOf(n, k)
           /\ Base(k, at) \in 0 .. Len(k.cells)
           /\ Len(n.cells) = Base(k, at) + 1
           /\ First(n.cells, Base(k, at)) = First(k.cells, Base(k, at))
           /\ n.cells[Base(k, at) + 1].row = row
           /\ ~OnDevice(k) => TopIs(n, at + 1)
<1> DEFINE o == Opened(k, at)
           n == FeedRow(k, row, at)
           cell == [row |-> row, clean |-> InTune(o)]
           b == Base(k, at)
<1>1. /\ Bounded(n) /\ SameMakeOf(n, k)
      /\ n.cells = Append(o.cells, cell)
      /\ n.conv = Newest(Append(o.conv, row), Taps)
      /\ n.ring = IF OnDevice(k) THEN k.ring
                  ELSE Newest(Append(k.ring, [at |-> at + 1, conv |-> n.conv]), Window)
  BY FeedRowIs DEF SameMakeOf
<1>2. /\ k.cells \in Seq(AnyCell) /\ k.ring \in Seq(Snapshots) /\ Len(k.cells) \in Nat
      /\ Len(k.ring) <= Window
  BY KvFields DEF Bounded
<1>3. o \in AnyKv /\ Len(o.cells) = b /\ o.cells = First(k.cells, b)
  BY OpenedIs DEF Bounded, Base
<1>4. b \in 0 .. Len(k.cells)
  BY <1>2 DEF Base
<1>5. o.cells \in Seq(AnyCell) /\ cell \in AnyCell
  BY <1>3, KvFields, InTuneIsBoolean DEF AnyCell
<1> HIDE DEF o, cell
<1>6. Len(n.cells) = b + 1 /\ n.cells[b + 1] = cell
  BY <1>1, <1>3, <1>5, AppendProperties
<1>7. First(n.cells, b) = First(k.cells, b)
  <2>1. First(Append(o.cells, cell), b) = First(o.cells, b)
    BY <1>3, <1>4, <1>5, FirstAppend
  <2>2. First(o.cells, b) = o.cells
    BY <1>3, <1>5, FirstAll
  <2>3. QED
    BY <2>1, <2>2, <1>1, <1>3
<1>8. ASSUME ~OnDevice(k) PROVE TopIs(n, at + 1)
  <2> DEFINE snap == [at |-> at + 1, conv |-> n.conv]
             ring == k.ring
             u == Newest(Append(ring, snap), Window)
  <2>1. snap \in Snapshots
    BY <1>1, KvFields DEF Bounded, Snapshots
  <2>2. u \in Seq(Snapshots) /\ Len(u) \in 1 .. Window /\ u[Len(u)] = snap
    <3>1. ring \in Seq(Snapshots) /\ Len(ring) <= Window
      BY <1>2
    <3> HIDE DEF snap, ring
    <3>2. IsNewest(u, Append(ring, snap), Window)
      BY DEF IsNewest
    <3>3. QED
      BY <3>1, <3>2, <2>1, NewestSplit, KvAssumption
  <2>3. n.ring = u
    BY <1>1, <1>8
  <2>4. n.ring # <<>>
    BY <2>2, <2>3, EmptySeq
  <2>5. QED
    BY <2>2, <2>3, <2>4 DEF TopIs
<1>9. n.cells[b + 1].row = row
  BY <1>6 DEF cell
<1>10. QED
  BY <1>1, <1>4, <1>6, <1>7, <1>8, <1>9

LEMMA FeedGrows ==
    ASSUME NEW k, Bounded(k), NEW rows \in Seq(AnyRow), NEW at \in Nat,
           OnDevice(k) => at <= Len(k.cells)
    PROVE  LET n == Feed(k, rows, at) IN
           /\ Bounded(n) /\ SameMakeOf(n, k)
           /\ Base(k, at) \in 0 .. Len(k.cells)
           /\ rows = <<>> => n = k
           /\ rows # <<>> => /\ Len(n.cells) = Base(k, at) + Len(rows)
                             /\ ~OnDevice(k) => TopIs(n, at + Len(rows))
           /\ First(n.cells, Base(k, at)) = First(k.cells, Base(k, at))
<1> DEFINE b == Base(k, at)
           Has(j, m) ==
             /\ Bounded(j) /\ SameMakeOf(j, k)
             /\ m = 0 => j = k
             /\ m # 0 => /\ Len(j.cells) = b + m
                         /\ ~OnDevice(k) => TopIs(j, at + m)
             /\ First(j.cells, b) = First(k.cells, b)
           G == {p \in AnyKv \X Nat : Has(p[1], p[2])}
<1>0. Len(rows) \in Nat /\ Len(k.cells) \in Nat /\ b \in 0 .. Len(k.cells) /\ b \in Nat
  BY LenProperties, KvFields DEF Bounded, Base
<1>1. <<k, 0>> \in G
  BY DEF Bounded, SameMakeOf
<1>2. KeptByRows(G, rows, at)
  <2> SUFFICES ASSUME NEW m \in 0 .. Len(rows) - 1, NEW j, <<j, m>> \in G
               PROVE  <<FeedRow(j, rows[m + 1], at + m), m + 1>> \in G
    BY DEF KeptByRows
  <2>1. j \in AnyKv /\ Has(j, m) /\ m \in Nat
    OBVIOUS
  <2>2. rows[m + 1] \in AnyRow
    BY <1>0, ElementOfSeq
  <2>3. OnDevice(j) <=> OnDevice(k)
    BY <2>1 DEF OnDevice, SameMakeOf
  <2>4. Len(j.cells) \in Nat /\ at + m \in Nat
    BY <2>1, KvFields
  <2>5. /\ OnDevice(j) => at + m <= Len(j.cells)
        /\ Base(j, at + m) = b + m
    BY <2>1, <2>3, <2>4, <1>0 DEF Base
  <2> DEFINE n == FeedRow(j, rows[m + 1], at + m)
  <2>6. /\ Bounded(n) /\ SameMakeOf(n, j)
        /\ Base(j, at + m) \in 0 .. Len(j.cells)
        /\ Len(n.cells) = Base(j, at + m) + 1
        /\ First(n.cells, Base(j, at + m)) = First(j.cells, Base(j, at + m))
        /\ ~OnDevice(j) => TopIs(n, (at + m) + 1)
    BY <2>1, <2>2, <2>4, <2>5, FeedRowGrows
  <2>7. First(n.cells, b) = First(k.cells, b)
    <3>1. n.cells \in Seq(AnyCell) /\ j.cells \in Seq(AnyCell)
      BY <2>1, <2>6, KvFields DEF Bounded
    <3>2. b + m \in 0 .. Len(n.cells) /\ b + m \in 0 .. Len(j.cells) /\ b \in 0 .. b + m
      BY <2>4, <2>5, <2>6, <1>0
    <3>3. First(First(n.cells, b + m), b) = First(n.cells, b)
      BY <3>1, <3>2, FirstFirst
    <3>4. First(First(j.cells, b + m), b) = First(j.cells, b)
      BY <3>1, <3>2, FirstFirst
    <3>5. QED
      BY <3>3, <3>4, <2>1, <2>5, <2>6
  <2>8. Len(n.cells) = b + (m + 1) /\ (at + m) + 1 = at + (m + 1) /\ m + 1 # 0 /\ m + 1 \in Nat
    BY <2>5, <2>6, <1>0
  <2>9. n \in AnyKv /\ SameMakeOf(n, k)
    BY <2>1, <2>6 DEF Bounded, SameMakeOf
  <2> HIDE DEF n, b
  <2>10. Has(n, m + 1)
    BY <2>3, <2>6, <2>7, <2>8, <2>9
  <2>11. QED
    BY <2>8, <2>9, <2>10 DEF n
<1>3. <<Feed(k, rows, at), Len(rows)>> \in G
  BY <1>0, <1>1, <1>2, FeedKeeps
<1>4. Has(Feed(k, rows, at), Len(rows))
  BY <1>3
<1>5. rows = <<>> <=> Len(rows) = 0
  BY EmptySeq
<1>6. QED
  BY <1>0, <1>4, <1>5


(* The rows of the cache, as cells are added and taken away.               *)
LEMMA CellRows ==
    ASSUME NEW cells \in Seq(AnyCell)
    PROVE  /\ Len(cells) \in Nat /\ DOMAIN cells = 1 .. Len(cells)
           /\ \A i \in 1 .. Len(cells) : cells[i].row \in AnyRow
           /\ RowsOf(cells) \in Seq(AnyRow) /\ Len(RowsOf(cells)) = Len(cells)
           /\ \A i \in 1 .. Len(cells) : RowsOf(cells)[i] = cells[i].row
<1>1. /\ Len(cells) \in Nat /\ DOMAIN cells = 1 .. Len(cells)
      /\ \A i \in 1 .. Len(cells) : cells[i] \in AnyCell
  OBVIOUS
<1>2. \A i \in 1 .. Len(cells) : cells[i].row \in AnyRow
  BY <1>1 DEF AnyCell
<1>3. QED
  BY <1>1, <1>2 DEF RowsOf

LEMMA RowsOfAppend ==
    ASSUME NEW cells \in Seq(AnyCell), NEW c \in AnyCell
    PROVE  /\ RowsOf(cells) \in Seq(AnyRow) /\ Len(RowsOf(cells)) = Len(cells)
           /\ RowsOf(Append(cells, c)) = Append(RowsOf(cells), c.row)
<1>1. Len(cells) \in Nat /\ \A i \in 1 .. Len(cells) : cells[i].row \in AnyRow
  BY CellRows
<1>2. RowsOf(cells) \in Seq(AnyRow) /\ Len(RowsOf(cells)) = Len(cells)
  BY CellRows
<1> DEFINE t == Append(cells, c)
           r == Append(RowsOf(cells), c.row)
<1>3. /\ t \in Seq(AnyCell) /\ Len(t) = Len(cells) + 1 /\ t[Len(cells) + 1] = c
      /\ \A i \in 1 .. Len(cells) : t[i] = cells[i]
  BY AppendProperties
<1>4. /\ r \in Seq(AnyRow) /\ Len(r) = Len(cells) + 1 /\ r[Len(cells) + 1] = c.row
      /\ \A i \in 1 .. Len(cells) : r[i] = cells[i].row
  <2>1. c.row \in AnyRow /\ \A i \in 1 .. Len(cells) : RowsOf(cells)[i] = cells[i].row
    BY CellRows DEF AnyCell
  <2> DEFINE q == RowsOf(cells)
             y == c.row
  <2> HIDE DEF q, y
  <2>2. /\ Append(q, y) \in Seq(AnyRow) /\ Len(Append(q, y)) = Len(q) + 1
        /\ Append(q, y)[Len(q) + 1] = y
        /\ \A i \in 1 .. Len(q) : Append(q, y)[i] = q[i]
    BY <1>2, <2>1, AppendProperties DEF q, y
  <2>3. QED
    BY <1>1, <1>2, <2>1, <2>2 DEF q, y
<1> HIDE DEF t, r
<1>5. /\ RowsOf(t) \in Seq(AnyRow) /\ Len(RowsOf(t)) = Len(t)
      /\ \A i \in 1 .. Len(t) : RowsOf(t)[i] = t[i].row
  BY <1>3, CellRows
<1>6. \A i \in 1 .. Len(t) : RowsOf(t)[i] = r[i]
  BY <1>1, <1>3, <1>4, <1>5
<1>7. RowsOf(t) = r
  BY <1>3, <1>4, <1>5, <1>6, SeqEqual
<1>8. QED
  BY <1>2, <1>7 DEF t, r

LEMMA RowsOfFirst ==
    ASSUME NEW cells \in Seq(AnyCell), NEW n \in 0 .. Len(cells)
    PROVE  RowsOf(First(cells, n)) = First(RowsOf(cells), n)
<1>1. Len(cells) \in Nat
  BY CellRows
<1>2. /\ RowsOf(cells) \in Seq(AnyRow) /\ Len(RowsOf(cells)) = Len(cells)
      /\ \A i \in 1 .. Len(cells) : RowsOf(cells)[i] = cells[i].row
  BY CellRows
<1> DEFINE f == First(cells, n)
           g == First(RowsOf(cells), n)
<1>3. f \in Seq(AnyCell) /\ Len(f) = n /\ \A i \in 1 .. n : f[i] = cells[i]
  BY FirstOf
<1>4. g \in Seq(AnyRow) /\ Len(g) = n /\ \A i \in 1 .. n : g[i] = RowsOf(cells)[i]
  BY <1>2, FirstOf
<1> HIDE DEF f, g
<1>5. /\ RowsOf(f) \in Seq(AnyRow) /\ Len(RowsOf(f)) = n
      /\ \A i \in 1 .. n : RowsOf(f)[i] = f[i].row
  BY <1>3, CellRows
<1>6. \A i \in 1 .. n : RowsOf(f)[i] = g[i]
  BY <1>1, <1>2, <1>3, <1>4, <1>5
<1>7. RowsOf(f) = g
  BY <1>4, <1>5, <1>6, SeqEqual
<1>8. QED
  BY <1>7 DEF f, g

(* Rows that go in at the end of the cache are added to its rows.          *)
AtEnd(k, at) == Len(k.cells) = at

LEMMA FeedAddsRows ==
    ASSUME NEW k, Bounded(k), NEW rows \in Seq(AnyRow), NEW at \in Nat, AtEnd(k, at)
    PROVE  RowsOf(Feed(k, rows, at).cells) = RowsOf(k.cells) \o rows
<1> DEFINE Has(j, m) ==
             /\ Bounded(j) /\ Len(j.cells) = at + m
             /\ RowsOf(j.cells) = RowsOf(k.cells) \o First(rows, m)
           G == {p \in AnyKv \X Nat : Has(p[1], p[2])}
<1>0. /\ Len(rows) \in Nat /\ k.cells \in Seq(AnyCell)
      /\ RowsOf(k.cells) \in Seq(AnyRow)
  BY LenProperties, KvFields, CellRows DEF Bounded
<1>1. <<k, 0>> \in G
  <2> DEFINE q == RowsOf(k.cells)
  <2>1. First(rows, 0) = <<>>
    BY <1>0, FirstOf, EmptySeq
  <2>2. q \o <<>> = q
    BY <1>0, ConcatEmptySeq
  <2> HIDE DEF q
  <2>3. q = q \o First(rows, 0)
    BY <2>1, <2>2
  <2>4. Len(k.cells) = at + 0
    BY DEF AtEnd
  <2>5. Has(k, 0)
    BY <2>3, <2>4 DEF q
  <2> HIDE DEF Has
  <2>6. QED
    BY <2>5 DEF Bounded
<1>2. KeptByRows(G, rows, at)
  <2> SUFFICES ASSUME NEW m \in 0 .. Len(rows) - 1, NEW j, <<j, m>> \in G
               PROVE  <<FeedRow(j, rows[m + 1], at + m), m + 1>> \in G
    BY DEF KeptByRows
  <2>1. j \in AnyKv /\ Has(j, m) /\ m \in Nat /\ at + m = Len(j.cells) /\ at + m \in Nat
    OBVIOUS
  <2>2. rows[m + 1] \in AnyRow
    BY <1>0, ElementOfSeq
  <2> DEFINE a == at + m
             row == rows[m + 1]
             n == FeedRow(j, row, a)
             o == Opened(j, a)
             cell == [row |-> row, clean |-> InTune(o)]
  <2>3. Bounded(j) /\ a \in Nat /\ row \in AnyRow /\ a = Len(j.cells) /\ (OnDevice(j) => a <= Len(j.cells))
    BY <2>1, <2>2
  <2> HIDE DEF a, row
  <2>4. Bounded(n) /\ n.cells = Append(o.cells, cell)
    BY <2>3, FeedRowIs
  <2>5. o.cells = j.cells
    BY <2>1, <2>3, OpenedIs
  <2>6. cell \in AnyCell /\ j.cells \in Seq(AnyCell) /\ cell.row = row
    BY <2>1, <2>3, InTuneIsBoolean, KvFields DEF AnyCell
  <2> DEFINE cells == j.cells
  <2> HIDE DEF cell, o, n, cells
  <2>7. RowsOf(Append(cells, cell)) = Append(RowsOf(cells), cell.row) /\ Len(Append(cells, cell)) = Len(cells) + 1
    BY <2>6, RowsOfAppend, AppendProperties DEF cells
  <2>8. Append(RowsOf(k.cells) \o First(rows, m), rows[m + 1]) = RowsOf(k.cells) \o First(rows, m + 1)
    BY <1>0, FirstNext
  <2>9. RowsOf(n.cells) = RowsOf(k.cells) \o First(rows, m + 1)
    BY <2>1, <2>4, <2>5, <2>6, <2>7, <2>8 DEF cells, row
  <2>10. Len(n.cells) = at + (m + 1)
    <3>1. Len(n.cells) = Len(cells) + 1 /\ Len(cells) = at + m
      BY <2>1, <2>4, <2>5, <2>7 DEF cells
    <3>2. QED
      BY <3>1, <2>1
  <2>11. Has(n, m + 1) /\ m + 1 \in Nat /\ n \in AnyKv
    BY <2>1, <2>4, <2>9, <2>10 DEF Bounded
  <2> HIDE DEF Has
  <2>12. QED
    BY <2>11 DEF n, a, row
<1>3. <<Feed(k, rows, at), Len(rows)>> \in G
  BY <1>0, <1>1, <1>2, FeedKeeps
<1>4. First(rows, Len(rows)) = rows
  BY FirstAll
<1>5. QED
  BY <1>3, <1>4

(* Every element of the grown ring is the new one or was in it, in order.  *)
LEMMA RingSplit ==
    ASSUME NEW ring \in Seq(Snapshots), Len(ring) <= Window, NEW x \in Snapshots,
           NEW u, IsNewest(u, Append(ring, x), Window)
    PROVE  /\ u \in Seq(Snapshots) /\ Len(u) \in Nat \ {0} /\ u[Len(u)] = x
           /\ DOMAIN u = 1 .. Len(u) /\ DOMAIN ring = 1 .. Len(ring)
           /\ \E d \in {0, 1} :
                 /\ Len(u) = Len(ring) + 1 - d
                 /\ \A i \in 1 .. Len(u) - 1 : i + d \in 1 .. Len(ring) /\ u[i] = ring[i + d]
<1>1. /\ u \in Seq(Snapshots) /\ Len(u) \in 1 .. Window /\ u[Len(u)] = x
      /\ \E d \in {0, 1} : /\ Len(u) = Len(ring) + 1 - d
                           /\ \A i \in 1 .. Len(ring) - d : u[i] = ring[i + d]
  BY NewestSplit, KvAssumption
<1>2. Len(ring) \in Nat /\ Len(u) \in Nat \ {0}
      /\ DOMAIN u = 1 .. Len(u) /\ DOMAIN ring = 1 .. Len(ring)
  BY <1>1, LenProperties, KvAssumption
<1>3. PICK d \in {0, 1} : /\ Len(u) = Len(ring) + 1 - d
                           /\ \A i \in 1 .. Len(ring) - d : u[i] = ring[i + d]
  BY <1>1
<1>4. ASSUME NEW i \in 1 .. Len(u) - 1 PROVE i + d \in 1 .. Len(ring) /\ u[i] = ring[i + d]
  BY <1>2, <1>3
<1>5. QED
  BY <1>1, <1>2, <1>3, <1>4

LEMMA FeedRowFaithful ==
    ASSUME NEW k, Bounded(k), NEW row \in AnyRow, NEW at \in Nat, Faithful(k, at)
    PROVE  Faithful(FeedRow(k, row, at), at + 1)
<1> DEFINE o == Opened(k, at)
           n == FeedRow(k, row, at)
           cell == [row |-> row, clean |-> InTune(o)]
<1>1. Len(k.cells) = at /\ (OnDevice(k) => at <= Len(k.cells)) /\ k \in AnyKv
  BY DEF Faithful, Bounded
<1>2. /\ Bounded(n) /\ n.torn = k.torn /\ n.dropped = k.dropped
      /\ n.cells = Append(o.cells, cell)
      /\ n.conv = Newest(Append(o.conv, row), Taps)
      /\ n.ring = IF OnDevice(k) THEN k.ring
                  ELSE Newest(Append(k.ring, [at |-> at + 1, conv |-> n.conv]), Window)
  BY <1>1, FeedRowIs
<1>3. /\ o \in AnyKv /\ o.torn = k.torn /\ o.cells = k.cells
      /\ at # 0 \/ ~OnDevice(k) => o.conv = k.conv
      /\ at = 0 /\ OnDevice(k) => o.conv = <<>>
  BY <1>1, OpenedIs
<1>4. /\ k.cells \in Seq(AnyCell) /\ k.ring \in Seq(Snapshots) /\ Len(k.ring) <= Window
      /\ o.conv \in Seq(AnyRow)
  BY <1>1, <1>3, KvFields DEF Bounded
<1>5. cell \in AnyCell /\ cell.row = row /\ cell.clean = InTune(o)
  BY InTuneIsBoolean DEF AnyCell
<1> DEFINE cells == k.cells
<1> HIDE DEF o, n, cell, cells
<1>6. /\ RowsOf(Append(cells, cell)) = Append(RowsOf(cells), row)
      /\ RowsOf(cells) \in Seq(AnyRow)
      /\ Append(cells, cell) \in Seq(AnyCell) /\ Len(Append(cells, cell)) = at + 1
      /\ Append(cells, cell)[at + 1] = cell
      /\ \A i \in 1 .. at : Append(cells, cell)[i] = cells[i]
      /\ DOMAIN Append(cells, cell) = 1 .. at + 1
      /\ DOMAIN cells = 1 .. at
  <2>1. cells \in Seq(AnyCell) /\ Len(cells) = at
    BY <1>1, <1>4 DEF cells
  <2>2. /\ Append(cells, cell) \in Seq(AnyCell) /\ Len(Append(cells, cell)) = at + 1
        /\ Append(cells, cell)[at + 1] = cell
        /\ \A i \in 1 .. at : Append(cells, cell)[i] = cells[i]
    BY <1>5, <2>1, AppendProperties
  <2>3. RowsOf(Append(cells, cell)) = Append(RowsOf(cells), row) /\ RowsOf(cells) \in Seq(AnyRow)
    BY <1>5, <2>1, RowsOfAppend
  <2>4. QED
    BY <2>1, <2>2, <2>3, LenProperties
<1>7. Len(n.cells) = at + 1 /\ n.cells = Append(cells, cell)
  BY <1>2, <1>3, <1>6 DEF cells
<1>8. ASSUME ~k.dropped PROVE Sound(n) /\ RingTrue(n)
  <2>1. Sound(k) /\ RingTrue(k)
    BY <1>8 DEF Faithful
  <2>2. InTune(o)
    <3>1. ~k.torn /\ k.conv = Newest(RowsOf(k.cells), Taps)
      BY <2>1 DEF Sound, InTune
    <3>2. CASE at # 0 \/ ~OnDevice(k)
      BY <3>1, <3>2, <1>3 DEF InTune
    <3>3. CASE at = 0 /\ OnDevice(k)
      <4>1. RowsOf(cells) = <<>>
        BY <1>1, <1>4, <3>3, CellRows, EmptySeq DEF cells
      <4>2. Newest(<<>>, Taps) = <<>>
        BY KvAssumption DEF Newest
      <4>3. QED
        BY <3>1, <3>3, <4>1, <4>2, <1>3 DEF InTune, cells
    <3>4. QED
      BY <3>2, <3>3
  <2>3. InTune(n)
    <3> DEFINE r == RowsOf(cells)
    <3> HIDE DEF r
    <3>1. o.conv = Newest(r, Taps) /\ ~o.torn
      BY <2>2, <1>3 DEF InTune, cells, r
    <3>2. Newest(Append(Newest(r, Taps), row), Taps) = Newest(Append(r, row), Taps)
      BY <1>6, NewestAppend, KvAssumption DEF r
    <3>3. RowsOf(n.cells) = Append(r, row)
      BY <1>6, <1>7 DEF r
    <3>4. QED
      BY <3>1, <3>2, <3>3, <1>2, <1>3 DEF InTune
  <2>4. Sound(n)
    <3>1. \A i \in 1 .. at : cells[i].clean
      BY <2>1, <1>6 DEF Sound, cells
    <3>2. \A i \in 1 .. at + 1 : n.cells[i].clean
      <4>1. n.cells[at + 1].clean /\ \A i \in 1 .. at : n.cells[i].clean
        BY <3>1, <2>2, <1>5, <1>6, <1>7
      <4>2. \A i \in 1 .. at + 1 : i \in 1 .. at \/ i = at + 1
        OBVIOUS
      <4>3. QED
        BY <4>1, <4>2
    <3>3. QED
      BY <3>2, <2>3, <1>6, <1>7 DEF Sound
  <2>5. ASSUME NEW a \in 0 .. at
        PROVE  First(n.cells, a) = First(k.cells, a)
    <3>1. cells \in Seq(AnyCell) /\ a \in 0 .. Len(cells)
      BY <1>1, <1>4 DEF cells
    <3>2. First(Append(cells, cell), a) = First(cells, a)
      BY <3>1, <1>5, FirstAppend
    <3>3. QED
      BY <3>2, <1>7 DEF cells
  <2>6. /\ DOMAIN k.ring = 1 .. Len(k.ring)
        /\ \A i \in 1 .. Len(k.ring) : k.ring[i].at \in Nat
    <3>1. \A i \in 1 .. Len(k.ring) : k.ring[i] \in Snapshots
      BY <1>4
    <3>2. QED
      BY <3>1, <1>4, LenProperties DEF Snapshots
  <2>7. /\ \A i \in 1 .. Len(k.ring) :
              /\ k.ring[i].at <= at
              /\ k.ring[i].conv = Newest(RowsOf(First(n.cells, k.ring[i].at)), Taps)
        /\ \A i, j \in 1 .. Len(k.ring) : i < j => k.ring[i].at < k.ring[j].at
    BY SMTT(40), <2>1, <2>5, <2>6, <1>1 DEF RingTrue
  <2>8. CASE OnDevice(k)
    <3>1. n.ring = k.ring
      BY <2>8, <1>2
    <3>2. \A i \in 1 .. Len(k.ring) : k.ring[i].at <= at + 1
      BY <2>6, <2>7
    <3>3. QED
      BY <3>1, <3>2, <2>4, <2>6, <2>7, <1>7 DEF RingTrue
  <2>9. CASE ~OnDevice(k)
    <3> DEFINE x == [at |-> at + 1, conv |-> n.conv]
               ring == k.ring
               u == n.ring
    <3>1. x \in Snapshots /\ x.at = at + 1 /\ x.conv = n.conv
      BY <1>2, KvFields DEF Snapshots, Bounded
    <3>2. ring \in Seq(Snapshots) /\ Len(ring) <= Window /\ u = Newest(Append(ring, x), Window)
      BY <2>9, <1>2, <1>4
    <3>9. IsNewest(u, Append(ring, x), Window)
      BY <3>2 DEF IsNewest
    <3> HIDE DEF x, ring, u
    <3>3. /\ u \in Seq(Snapshots) /\ Len(u) \in Nat \ {0} /\ u[Len(u)] = x
          /\ DOMAIN u = 1 .. Len(u) /\ DOMAIN ring = 1 .. Len(ring)
          /\ \E d \in {0, 1} :
                /\ Len(u) = Len(ring) + 1 - d
                /\ \A i \in 1 .. Len(u) - 1 : i + d \in 1 .. Len(ring) /\ u[i] = ring[i + d]
      BY SMTT(40), <3>1, <3>2, <3>9, RingSplit
    <3>4. PICK d \in {0, 1} :
                /\ Len(u) = Len(ring) + 1 - d
                /\ \A i \in 1 .. Len(u) - 1 : i + d \in 1 .. Len(ring) /\ u[i] = ring[i + d]
      BY <3>3
    <3>5. x.conv = Newest(RowsOf(First(n.cells, x.at)), Taps)
      <4>1. First(n.cells, at + 1) = n.cells
        BY <1>6, <1>7, FirstAll
      <4>2. QED
        BY <4>1, <3>1, <2>3 DEF InTune
    <3>6. ASSUME NEW i \in 1 .. Len(u)
          PROVE  u[i].at <= at + 1 /\ u[i].conv = Newest(RowsOf(First(n.cells, u[i].at)), Taps)
      <4>1. CASE i = Len(u)
        BY <4>1, <3>1, <3>3, <3>5
      <4>2. CASE i # Len(u)
        <5>1. i \in 1 .. Len(u) - 1
          BY <4>2, <3>3
        <5>2. i + d \in 1 .. Len(ring) /\ u[i] = ring[i + d]
          BY <5>1, <3>4
        <5>3. /\ ring[i + d].at \in Nat /\ ring[i + d].at <= at
              /\ ring[i + d].conv = Newest(RowsOf(First(n.cells, ring[i + d].at)), Taps)
          BY <5>2, <2>6, <2>7 DEF ring
        <5>4. QED
          BY <5>2, <5>3
      <4>3. QED
        BY <4>1, <4>2
    <3>7. ASSUME NEW i \in 1 .. Len(u), NEW j \in 1 .. Len(u), i < j
          PROVE  u[i].at < u[j].at
      <4>1. i \in 1 .. Len(u) - 1
        BY <3>3, <3>7
      <4>2. i + d \in 1 .. Len(ring) /\ u[i] = ring[i + d] /\ ring[i + d].at \in Nat /\ ring[i + d].at <= at
        BY <4>1, <3>4, <2>6, <2>7 DEF ring
      <4>3. CASE j = Len(u)
        BY <4>2, <4>3, <3>1, <3>3
      <4>4. CASE j # Len(u)
        <5>1. j \in 1 .. Len(u) - 1
          BY <4>4, <3>3
        <5>2. j + d \in 1 .. Len(ring) /\ u[j] = ring[j + d]
          BY <5>1, <3>4
        <5>3. i + d < j + d
          BY <3>7
        <5>4. ring[i + d].at < ring[j + d].at
          BY <5>2, <5>3, <4>2, <2>7 DEF ring
        <5>5. QED
          BY <4>2, <5>2, <5>4
      <4>5. QED
        BY <4>3, <4>4
    <3>8. /\ \A i \in DOMAIN u : /\ u[i].at <= Len(n.cells)
                                  /\ u[i].conv = Newest(RowsOf(First(n.cells, u[i].at)), Taps)
          /\ \A i, j \in DOMAIN u : i < j => u[i].at < u[j].at
      BY <3>3, <3>6, <3>7, <1>7
    <3>10. QED
      BY <3>8, <2>4 DEF RingTrue, u
  <2>10. QED
    BY <2>4, <2>8, <2>9
<1>9. CASE k.dropped
  BY <1>2, <1>7, <1>9 DEF Faithful, n
<1>10. QED
  BY <1>2, <1>7, <1>8, <1>9 DEF Faithful, n

LEMMA FeedFaithful ==
    ASSUME NEW k, Bounded(k), NEW rows \in Seq(AnyRow), NEW at \in Nat, Faithful(k, at)
    PROVE  Faithful(Feed(k, rows, at), at + Len(rows))
<1> DEFINE Has(j, m) == Bounded(j) /\ Faithful(j, at + m)
           G == {p \in AnyKv \X Nat : Has(p[1], p[2])}
<1>0. Len(rows) \in Nat
  BY LenProperties
<1>1. <<k, 0>> \in G
  BY DEF Bounded
<1>2. KeptByRows(G, rows, at)
  <2> SUFFICES ASSUME NEW m \in 0 .. Len(rows) - 1, NEW j, <<j, m>> \in G
               PROVE  <<FeedRow(j, rows[m + 1], at + m), m + 1>> \in G
    BY DEF KeptByRows
  <2> DEFINE a == at + m
             row == rows[m + 1]
             n == FeedRow(j, row, a)
  <2>1. Bounded(j) /\ Faithful(j, a) /\ a \in Nat /\ m + 1 \in Nat
    OBVIOUS
  <2>2. row \in AnyRow
    BY <1>0, ElementOfSeq
  <2>3. OnDevice(j) => a <= Len(j.cells)
    BY <2>1 DEF Faithful
  <2>4. a + 1 = at + (m + 1)
    OBVIOUS
  <2> HIDE DEF a, row
  <2>5. Bounded(n) /\ Faithful(n, a + 1)
    BY <2>1, <2>2, <2>3, FeedRowIs, FeedRowFaithful
  <2>6. Has(n, m + 1) /\ n \in AnyKv
    BY <2>4, <2>5 DEF Bounded
  <2> HIDE DEF Has
  <2>7. QED
    BY <2>1, <2>6 DEF a, row
<1>3. <<Feed(k, rows, at), Len(rows)>> \in G
  BY <1>0, <1>1, <1>2, FeedKeeps
<1>4. QED
  BY <1>3

(* Rows of later positions do not hide a snapshot of an earlier one.       *)
LEMMA FeedRowTop ==
    ASSUME NEW k, Bounded(k), NEW row \in AnyRow, NEW at \in Nat,
           OnDevice(k) => at <= Len(k.cells),
           NEW b \in 0 .. at, NEW c, ~OnDevice(k), TopAt(k, b, c)
    PROVE  TopAt(FeedRow(k, row, at), b, c)
<1> DEFINE n == FeedRow(k, row, at)
           x == [at |-> at + 1, conv |-> n.conv]
           ring == k.ring
           u == n.ring
<1>1. Bounded(n) /\ u = Newest(Append(ring, x), Window)
  BY FeedRowIs
<1>2. x \in Snapshots /\ x.at = at + 1
  BY <1>1, KvFields DEF Snapshots, Bounded
<1>3. ring \in Seq(Snapshots) /\ Len(ring) <= Window /\ IsNewest(u, Append(ring, x), Window)
  BY <1>1, KvFields DEF Bounded, IsNewest
<1>4. TopAt(k, b, c)
  OBVIOUS
<1> HIDE DEF x, ring, u
<1>5. /\ u \in Seq(Snapshots) /\ Len(u) \in Nat \ {0} /\ u[Len(u)] = x
      /\ DOMAIN u = 1 .. Len(u) /\ DOMAIN ring = 1 .. Len(ring)
      /\ \E d \in {0, 1} :
            /\ Len(u) = Len(ring) + 1 - d
            /\ \A i \in 1 .. Len(u) - 1 : i + d \in 1 .. Len(ring) /\ u[i] = ring[i + d]
  BY <1>2, <1>3, RingSplit
<1>6. PICK d \in {0, 1} :
            /\ Len(u) = Len(ring) + 1 - d
            /\ \A i \in 1 .. Len(u) - 1 : i + d \in 1 .. Len(ring) /\ u[i] = ring[i + d]
  BY <1>5
<1>7. ASSUME NEW i \in DOMAIN u, u[i].at = b, \A j \in DOMAIN u : u[j].at = b => j <= i
      PROVE  u[i].conv = c
  <2>1. i # Len(u) /\ i \in 1 .. Len(u) - 1
    BY <1>2, <1>5, <1>7
  <2>2. i + d \in 1 .. Len(ring) /\ u[i] = ring[i + d]
    BY <2>1, <1>6
  <2>3. ASSUME NEW j \in 1 .. Len(ring), ring[j].at = b PROVE j <= i + d
    <3>1. CASE j - d \in 1 .. Len(u) - 1
      <4>1. u[j - d] = ring[(j - d) + d] /\ (j - d) + d = j /\ j - d \in DOMAIN u
        BY <3>1, <1>5, <1>6
      <4>2. j - d <= i
        BY <4>1, <2>3, <1>7
      <4>3. QED
        BY <4>2, <2>1
    <3>2. CASE j - d \notin 1 .. Len(u) - 1
      <4>1. j <= d
        BY <3>2, <1>3, <1>5, <1>6, LenProperties
      <4>2. QED
        BY <4>1, <2>1
    <3>3. QED
      BY <3>1, <3>2
  <2>4. QED
    BY <2>2, <2>3, <1>4, <1>5, <1>7 DEF TopAt, ring
<1>8. QED
  BY <1>7 DEF TopAt, u

LEMMA FeedTop ==
    ASSUME NEW k, Bounded(k), NEW rows \in Seq(AnyRow), NEW at \in Nat,
           OnDevice(k) => at <= Len(k.cells),
           NEW b \in 0 .. at, NEW c, ~OnDevice(k), TopAt(k, b, c)
    PROVE  TopAt(Feed(k, rows, at), b, c)
<1> DEFINE Has(j, m) == Bounded(j) /\ ~OnDevice(j) /\ TopAt(j, b, c)
           G == {p \in AnyKv \X Nat : Has(p[1], p[2])}
<1>0. Len(rows) \in Nat
  BY LenProperties
<1>1. <<k, 0>> \in G
  BY DEF Bounded
<1>2. KeptByRows(G, rows, at)
  <2> SUFFICES ASSUME NEW m \in 0 .. Len(rows) - 1, NEW j, <<j, m>> \in G
               PROVE  <<FeedRow(j, rows[m + 1], at + m), m + 1>> \in G
    BY DEF KeptByRows
  <2> DEFINE a == at + m
             row == rows[m + 1]
             n == FeedRow(j, row, a)
  <2>1. Bounded(j) /\ ~OnDevice(j) /\ TopAt(j, b, c) /\ a \in Nat /\ m + 1 \in Nat /\ b \in 0 .. a
    OBVIOUS
  <2>2. row \in AnyRow
    BY <1>0, ElementOfSeq
  <2> HIDE DEF a, row
  <2>3. Bounded(n) /\ n.backend = j.backend
    BY <2>1, <2>2, FeedRowIs
  <2>4. TopAt(n, b, c)
    BY <2>1, <2>2, FeedRowTop
  <2>5. Has(n, m + 1) /\ n \in AnyKv
    BY <2>1, <2>3, <2>4 DEF Bounded, OnDevice
  <2> HIDE DEF Has
  <2>6. QED
    BY <2>1, <2>5 DEF a, row
<1>3. <<Feed(k, rows, at), Len(rows)>> \in G
  BY <1>0, <1>1, <1>2, FeedKeeps
<1>4. QED
  BY <1>3

----------------------------------------------------------------------------
(* Going back.  The newest snapshot of a position is found.                *)
IsLastAt(ring, len, i) ==
    /\ i \in DOMAIN ring /\ ring[i].at = len
    /\ \A j \in DOMAIN ring : ring[j].at = len => j <= i

LEMMA LastAt ==
    ASSUME NEW ring \in Seq(Snapshots), NEW len \in Nat,
           \E i \in DOMAIN ring : ring[i].at = len
    PROVE  \E i \in 1 .. Len(ring) : IsLastAt(ring, len, i)
<1> DEFINE l == Len(ring)
           At == {i \in 1 .. l : ring[i].at = len}
           S == {n \in Nat : l - n \in At}
<1>1. l \in Nat /\ DOMAIN ring = 1 .. l
  BY LenProperties
<1>2. PICK k \in 1 .. l : ring[k].at = len
  BY <1>1
<1> HIDE DEF l
<1>3. At \subseteq 1 .. l /\ k \in At
  BY <1>2
<1>4. \E i \in At : \A j \in At : j <= i
  <2> HIDE DEF At
  <2>1. S \in SUBSET Nat /\ S # {}
    <3>1. l - k \in Nat /\ l - (l - k) = k
      BY <1>1, <1>3
    <3>2. l - k \in S
      BY <3>1, <1>3
    <3>3. QED
      BY <3>2
  <2> HIDE DEF S
  <2>2. PICK n \in S : \A m \in S : n <= m
    BY <2>1, Least
  <2> USE DEF S
  <2>3. ASSUME NEW j \in At PROVE j <= l - n
    <3>1. l - j \in Nat /\ l - (l - j) = j
      BY <1>1, <1>3
    <3>2. n <= l - j
      BY <3>1, <2>2
    <3>3. QED
      BY <3>1, <3>2, <1>1, <1>3
  <2>4. QED
    BY <2>2, <2>3
<1>5. PICK i \in At : \A j \in At : j <= i
  BY <1>4
<1>6. i \in 1 .. l /\ IsLastAt(ring, len, i)
  BY <1>1, <1>5 DEF IsLastAt
<1>7. QED
  BY <1>6 DEF l

LEMMA RolledBackIs ==
    ASSUME NEW k, Bounded(k), NEW len \in 1 .. Len(k.cells), HasPos(k, len)
    PROVE  LET n == RolledBack(k, len) IN
           /\ Bounded(n) /\ SameMakeOf(n, k)
           /\ n.cells = First(k.cells, len) /\ Len(n.cells) = len
           /\ TopIs(n, len)
           /\ IsLastAt(k.ring, len, Len(n.ring))
           /\ n.ring = First(k.ring, Len(n.ring))
<1> DEFINE i == CHOOSE i \in DOMAIN k.ring :
                   /\ k.ring[i].at = len
                   /\ \A j \in DOMAIN k.ring : k.ring[j].at = len => j <= i
           n == RolledBack(k, len)
<1>1. /\ k \in AnyKv /\ k.cells \in Seq(AnyCell) /\ k.ring \in Seq(Snapshots)
      /\ Len(k.ring) <= Window /\ Len(k.ring) \in Nat /\ Len(k.cells) \in Nat
      /\ DOMAIN k.ring = 1 .. Len(k.ring)
  BY KvFields, LenProperties DEF Bounded
<1>2. len \in Nat /\ \E j \in DOMAIN k.ring : k.ring[j].at = len
  BY <1>1 DEF HasPos
<1>3. IsLastAt(k.ring, len, i) /\ i \in 1 .. Len(k.ring)
  <2>1. \E j \in 1 .. Len(k.ring) : IsLastAt(k.ring, len, j)
    <3> DEFINE ring == k.ring
    <3>1. ring \in Seq(Snapshots) /\ \E j \in DOMAIN ring : ring[j].at = len
      BY <1>1, <1>2
    <3> HIDE DEF ring
    <3>2. \E j \in 1 .. Len(ring) : IsLastAt(ring, len, j)
      BY <1>2, <3>1, LastAt
    <3>3. QED
      BY <3>2 DEF ring
  <2>2. QED
    BY <2>1, <1>1 DEF IsLastAt
<1> HIDE DEF i
<1>4. n = [k EXCEPT !.cells = First(k.cells, len), !.conv = k.ring[i].conv,
                    !.ring = First(k.ring, i)]
  BY DEF RolledBack, i
<1>5. First(k.cells, len) \in Seq(AnyCell) /\ Len(First(k.cells, len)) = len
  BY <1>1, FirstOf
<1>6. /\ First(k.ring, i) \in Seq(Snapshots) /\ Len(First(k.ring, i)) = i
      /\ First(k.ring, i)[i] = k.ring[i]
  <2> DEFINE ring == k.ring
  <2>1. ring \in Seq(Snapshots) /\ i \in 0 .. Len(ring) /\ i \in 1 .. i
    BY <1>1, <1>3
  <2> HIDE DEF ring
  <2>2. /\ First(ring, i) \in Seq(Snapshots) /\ Len(First(ring, i)) = i
        /\ First(ring, i)[i] = ring[i]
    BY <2>1, FirstOf
  <2>3. QED
    BY <2>2 DEF ring
<1>7. k.ring[i] \in Snapshots /\ k.ring[i].at = len
  BY <1>1, <1>3 DEF IsLastAt
<1>8. k.ring[i].conv \in Seq(AnyRow) /\ k.ring[i] = [at |-> len, conv |-> k.ring[i].conv]
  BY <1>7 DEF Snapshots
<1>9. /\ n \in AnyKv /\ SameMakeOf(n, k) /\ n.cells = First(k.cells, len)
      /\ n.conv = k.ring[i].conv /\ n.ring = First(k.ring, i)
  BY <1>1, <1>4, <1>5, <1>6, <1>8 DEF AnyKv, Kvs, AnyCell, Snapshots, SameMakeOf
<1> HIDE DEF n
<1>10. Len(n.ring) = i /\ n.ring[i] = [at |-> len, conv |-> n.conv] /\ n.ring # <<>>
  BY <1>3, <1>6, <1>8, <1>9, EmptySeq
<1>11. Bounded(n) /\ TopIs(n, len)
  <2>1. Len(n.ring) <= Window
    BY <1>1, <1>3, <1>10, KvAssumption
  <2>2. QED
    BY <2>1, <1>9, <1>10 DEF Bounded, TopIs
<1>12. QED
  BY <1>3, <1>5, <1>9, <1>10, <1>11 DEF n

LEMMA RolledBackFaithful ==
    ASSUME NEW k, Bounded(k), NEW len \in 1 .. Len(k.cells), HasPos(k, len),
           Faithful(k, Len(k.cells))
    PROVE  Faithful(RolledBack(k, len), len)
<1> DEFINE n == RolledBack(k, len)
           cells == k.cells
           ring == k.ring
           i == Len(n.ring)
<1>1. /\ Bounded(n) /\ SameMakeOf(n, k)
      /\ n.cells = First(cells, len) /\ Len(n.cells) = len /\ TopIs(n, len)
      /\ IsLastAt(ring, len, i) /\ n.ring = First(ring, i)
  BY RolledBackIs
<1>2. /\ cells \in Seq(AnyCell) /\ ring \in Seq(Snapshots)
      /\ Len(ring) \in Nat /\ Len(cells) \in Nat /\ Len(n.ring) \in Nat
      /\ DOMAIN ring = 1 .. Len(ring) /\ n.ring \in Seq(Snapshots)
      /\ DOMAIN cells = 1 .. Len(cells) /\ DOMAIN n.cells = 1 .. len
      /\ DOMAIN n.ring = 1 .. i
  BY <1>1, KvFields, LenProperties DEF Bounded
<1>3. CASE k.dropped
  BY <1>1, <1>3 DEF Faithful, SameMakeOf
<1>4. CASE ~k.dropped
  <2>1. Sound(k) /\ RingTrue(k)
    BY <1>4 DEF Faithful
  <2> HIDE DEF n, i
  <2>2. i \in 1 .. Len(ring)
    BY <1>1, <1>2 DEF IsLastAt
  <2>3. /\ Len(n.ring) = i
        /\ \A j \in 1 .. i : n.ring[j] = ring[j]
        /\ \A j \in 1 .. len : n.cells[j] = cells[j]
    <3> HIDE DEF ring, cells
    <3>1. i \in 0 .. Len(ring) /\ len \in 0 .. Len(cells)
      BY <2>2, <1>2 DEF cells
    <3>2. QED
      BY <3>1, <1>1, <1>2, FirstOf DEF i
  <2>4. ring[i].at = len /\ n.ring[i] = [at |-> len, conv |-> n.conv]
    BY <1>1, <2>3 DEF TopIs, IsLastAt
  <2>5. \A j \in 1 .. i : ring[j].at <= len /\ ring[j].at \in Nat
    <3>1. \A j \in 1 .. i : ring[j].at \in Nat
      <4>1. \A j \in 1 .. Len(ring) : ring[j] \in Snapshots
        BY <1>2
      <4>2. \A j \in 1 .. i : j \in 1 .. Len(ring)
        BY <2>2, <1>2
      <4>3. QED
        BY <4>1, <4>2 DEF Snapshots
    <3>2. \A j \in 1 .. i : j < i => ring[j].at < ring[i].at
      BY SMTT(40), <2>1, <2>2, <1>2 DEF RingTrue, ring
    <3>3. \A j \in 1 .. i : j < i \/ j = i
      BY <1>2, <2>2
    <3>4. QED
      BY <3>1, <3>2, <3>3, <2>4
  <2>6. \A a \in 0 .. len : First(n.cells, a) = First(cells, a)
    <3> HIDE DEF cells
    <3>1. len \in 0 .. Len(cells)
      BY DEF cells
    <3>2. QED
      BY <3>1, <1>1, <1>2, FirstFirst
  <2>7. RingTrue(n)
    <3>1. ASSUME NEW j \in 1 .. i
          PROVE  /\ n.ring[j].at <= Len(n.cells)
                 /\ n.ring[j].conv = Newest(RowsOf(First(n.cells, n.ring[j].at)), Taps)
      <4>1. ring[j].conv = Newest(RowsOf(First(cells, ring[j].at)), Taps)
        BY <2>1, <2>2, <1>2 DEF RingTrue, ring, cells
      <4>2. ring[j].at \in 0 .. len
        BY <2>5
      <4>3. QED
        BY <4>1, <4>2, <2>3, <2>5, <2>6, <1>1
    <3>2. ASSUME NEW a \in 1 .. i, NEW c \in 1 .. i, a < c
          PROVE  n.ring[a].at < n.ring[c].at
      <4>1. ring[a].at < ring[c].at
        BY <2>1, <2>2, <3>2, <1>2 DEF RingTrue, ring
      <4>2. QED
        BY <4>1, <2>3
    <3>3. QED
      BY <3>1, <3>2, <1>2 DEF RingTrue
  <2>8. Sound(n)
    <3>1. ~n.torn
      BY <2>1, <1>1 DEF Sound, InTune, SameMakeOf
    <3>2. n.conv = Newest(RowsOf(n.cells), Taps)
      <4>1. i \in 1 .. i /\ i \in 1 .. Len(ring)
        BY <2>2, <1>2
      <4>2. ring[i].conv = Newest(RowsOf(First(cells, len)), Taps)
        BY <4>1, <2>1, <2>4, <1>2 DEF RingTrue, ring, cells
      <4>3. ring[i].conv = n.conv
        BY <4>1, <2>3, <2>4
      <4>4. QED
        BY <4>2, <4>3, <1>1
    <3>3. \A j \in 1 .. len : n.cells[j].clean
      <4>1. \A j \in 1 .. Len(cells) : cells[j].clean
        BY <2>1, <1>2 DEF Sound, cells
      <4>2. \A j \in 1 .. len : j \in 1 .. Len(cells)
        BY DEF cells
      <4>3. QED
        BY <4>1, <4>2, <2>3
    <3>4. QED
      BY <3>1, <3>2, <3>3, <1>2 DEF Sound, InTune
  <2>9. QED
    BY <2>7, <2>8, <1>1 DEF Faithful, n
<1>5. QED
  BY <1>3, <1>4

LEMMA PristineIs ==
    ASSUME NEW b \in Backends
    PROVE  LET n == Pristine(b) IN
           /\ Bounded(n) /\ Marked(n) /\ n.backend = b /\ ~n.torn /\ ~n.dropped
           /\ n.cells = <<>> /\ Len(n.cells) = 0 /\ n.conv = <<>> /\ n.ring = <<>>
           /\ Faithful(n, 0) /\ RingTop(n, 0)
<1> DEFINE n == Pristine(b)
<1>1. /\ n.backend = b /\ n.torn = FALSE /\ n.dropped = FALSE
      /\ n.cells = <<>> /\ n.conv = <<>> /\ n.ring = <<>>
      /\ n = [backend |-> b, cells |-> <<>>, conv |-> <<>>, ring |-> <<>>,
              torn |-> FALSE, dropped |-> FALSE]
  BY DEF Pristine
<1>2. <<>> \in Seq(AnyCell) /\ <<>> \in Seq(AnyRow) /\ <<>> \in Seq(Snapshots)
  OBVIOUS
<1>3. n \in AnyKv
  BY <1>1, <1>2 DEF AnyKv, Kvs, AnyCell, Snapshots
<1> HIDE DEF n
<1>4. Bounded(n) /\ Len(n.cells) = 0
  BY <1>1, <1>3, KvAssumption DEF Bounded
<1>5. Newest(RowsOf(<<>>), Taps) = <<>>
  BY KvAssumption DEF Newest, RowsOf
<1>6. Sound(n) /\ RingTrue(n)
  BY <1>1, <1>5 DEF Sound, InTune, RingTrue
<1>7. QED
  BY <1>1, <1>4, <1>6 DEF Faithful, RingTop, Marked, n

(* What is left of a state after a rewind: what was there up to the        *)
(* position, or nothing.                                                   *)
LEMMA TruncateRingIs ==
    ASSUME NEW k, Bounded(k), Marked(k), ~OnDevice(k),
           NEW len \in 0 .. Len(k.cells), RingTop(k, len)
    PROVE  LET n == Truncate(k, len) IN
           /\ Bounded(n) /\ Marked(n) /\ n.backend = k.backend
           /\ Len(n.cells) <= len /\ RingTop(n, len)
           /\ len = Len(k.cells) => n = k
           /\ len # Len(k.cells) /\ len > 0 /\ HasPos(k, len) => n = RolledBack(k, len)
           /\ len # Len(k.cells) /\ (len = 0 \/ ~HasPos(k, len)) => n = Pristine(k.backend)
<1> DEFINE n == Truncate(k, len)
<1>1. /\ k \in AnyKv /\ k.backend \in Backends /\ Len(k.cells) \in Nat
      /\ k.ring \in Seq(Snapshots) /\ len \in Nat
  BY KvFields DEF Bounded
<1>2. n = TruncateRing(k, len)
  BY DEF Truncate
<1>3. CASE len = Len(k.cells)
  <2>1. n = k
    BY <1>2, <1>3 DEF TruncateRing
  <2>2. QED
    BY <2>1, <1>3
<1>4. CASE len # Len(k.cells) /\ len > 0 /\ HasPos(k, len)
  <2>1. n = RolledBack(k, len)
    BY <1>2, <1>4 DEF TruncateRing
  <2>2. len \in 1 .. Len(k.cells)
    BY <1>1, <1>4
  <2>3. Bounded(n) /\ SameMakeOf(n, k) /\ Len(n.cells) = len /\ TopIs(n, len)
    BY <2>1, <2>2, <1>4, RolledBackIs
  <2>4. n.cells # <<>>
    BY <2>3, <1>4
  <2>5. Marked(n) /\ RingTop(n, len)
    BY <2>3, <2>4 DEF Marked, RingTop, TopIs, SameMakeOf, OnDevice
  <2>6. QED
    BY <2>1, <2>3, <2>5, <1>1, <1>4 DEF SameMakeOf
<1>5. CASE len # Len(k.cells) /\ (len = 0 \/ ~HasPos(k, len))
  <2>1. n = Pristine(k.backend)
    BY <1>1, <1>2, <1>5 DEF TruncateRing
  <2>2. /\ Bounded(n) /\ Marked(n) /\ n.backend = k.backend /\ Len(n.cells) = 0
        /\ n.cells = <<>> /\ n.conv = <<>> /\ n.ring = <<>>
    BY <2>1, <1>1, PristineIs
  <2>3. RingTop(n, len)
    BY <2>2 DEF RingTop
  <2>4. QED
    BY <2>1, <2>2, <2>3, <1>1, <1>5
<1>6. QED
  BY <1>1, <1>3, <1>4, <1>5

LEMMA TruncateDeviceIs ==
    ASSUME NEW k, Bounded(k), Marked(k), OnDevice(k), NEW len \in 0 .. Len(k.cells)
    PROVE  LET n == Truncate(k, len) IN
           /\ Bounded(n) /\ Marked(n) /\ n.backend = k.backend
           /\ Len(n.cells) = len
           /\ len = 0 => n = Pristine(k.backend)
           /\ len # 0 => n.torn = k.torn
           /\ len # 0 /\ len = Len(k.cells) => n = k
<1> DEFINE n == Truncate(k, len)
<1>1. /\ k \in AnyKv /\ k.backend \in Backends /\ Len(k.cells) \in Nat /\ k.cells \in Seq(AnyCell)
  BY KvFields DEF Bounded
<1>2. n = TruncateDevice(k, len)
  BY DEF Truncate
<1>3. CASE len = 0
  <2>1. n = Pristine(k.backend)
    BY <1>2, <1>3 DEF TruncateDevice
  <2>2. QED
    BY <2>1, <1>1, <1>3, PristineIs
<1>4. CASE len # 0
  <2>1. n = [k EXCEPT !.cells = First(k.cells, len)]
    BY <1>2, <1>4 DEF TruncateDevice
  <2>2. First(k.cells, len) \in Seq(AnyCell) /\ Len(First(k.cells, len)) = len
    BY <1>1, FirstOf
  <2>3. /\ n \in AnyKv /\ SameMakeOf(n, k) /\ n.cells = First(k.cells, len) /\ n.ring = k.ring
    BY <2>1, <2>2, <1>1 DEF AnyKv, Kvs, AnyCell, SameMakeOf
  <2>4. ASSUME len = Len(k.cells) PROVE n = k
    <3>1. First(k.cells, len) = k.cells
      BY <2>4, <1>1, FirstAll
    <3>2. QED
      BY <2>1, <3>1, <1>1 DEF AnyKv, Kvs
  <2>5. Bounded(n) /\ Marked(n)
    BY <2>3 DEF Bounded, Marked, SameMakeOf, OnDevice
  <2>6. QED
    BY <1>4, <2>2, <2>3, <2>4, <2>5 DEF SameMakeOf
<1>5. QED
  BY <1>3, <1>4

(* A rewind that check_kv_rewind allows leaves the state true.             *)
LEMMA RewindFaithful ==
    ASSUME NEW k, Bounded(k), Marked(k), NEW len \in Nat, CheckRewind(k, len),
           Faithful(k, Len(k.cells)), ~OnDevice(k) => RingTop(k, len)
    PROVE  LET n == Truncate(k, len) IN Faithful(n, len) /\ Len(n.cells) = len
<1> DEFINE n == Truncate(k, len)
<1>1. /\ k.backend \in Backends /\ Len(k.cells) \in Nat /\ len \in 0 .. Len(k.cells)
      /\ len <= Len(k.cells)
  BY KvFields DEF Bounded, CheckRewind
<1>2. ASSUME len = 0, n = Pristine(k.backend) PROVE Faithful(n, len)
  BY <1>1, <1>2, PristineIs
<1>3. CASE OnDevice(k)
  <2>1. len = 0 \/ len = Len(k.cells)
    BY <1>3 DEF CheckRewind, OnDevice
  <2>2. /\ len = 0 => n = Pristine(k.backend)
        /\ len # 0 /\ len = Len(k.cells) => n = k
    BY <1>1, <1>3, TruncateDeviceIs
  <2>3. Faithful(n, len)
    BY <2>1, <2>2, <1>2
  <2>4. QED
    BY <2>3 DEF Faithful
<1>4. CASE ~OnDevice(k)
  <2>1. len = Len(k.cells) \/ HasPos(k, len)
    BY <1>4 DEF CheckRewind, OnDevice
  <2>2. /\ len = Len(k.cells) => n = k
        /\ len # Len(k.cells) /\ len > 0 /\ HasPos(k, len) => n = RolledBack(k, len)
        /\ len # Len(k.cells) /\ (len = 0 \/ ~HasPos(k, len)) => n = Pristine(k.backend)
    BY <1>1, <1>4, TruncateRingIs
  <2>3. CASE len # Len(k.cells) /\ len > 0
    <3>1. len \in 1 .. Len(k.cells)
      BY <1>1, <2>3
    <3>2. Faithful(RolledBack(k, len), len)
      BY <2>1, <2>3, <3>1, RolledBackFaithful
    <3>3. QED
      BY <3>2, <2>1, <2>2, <2>3 DEF Faithful
  <2>4. CASE len = Len(k.cells)
    BY <2>2, <2>4 DEF Faithful
  <2>5. CASE len # Len(k.cells) /\ len = 0
    BY <2>2, <2>5, <1>2 DEF Faithful
  <2>6. QED
    BY <1>1, <2>3, <2>4, <2>5
<1>5. QED
  BY <1>3, <1>4

(* Rows fed at the frontier, from a state that may lag behind it.          *)
CanTake(k, at) == /\ Bounded(k) /\ Marked(k)
                  /\ OnDevice(k) => at <= Len(k.cells)
                  /\ ~OnDevice(k) => Len(k.cells) <= at

LEMMA FeedReaches ==
    ASSUME NEW at \in Nat, NEW k, CanTake(k, at),
           NEW rows \in Seq(AnyRow), rows # <<>>
    PROVE  LET n == Feed(k, rows, at)
               to == at + Len(rows)
           IN  /\ Bounded(n) /\ Marked(n) /\ SameMakeOf(n, k) /\ CanTake(n, to)
               /\ n.cells # <<>> /\ Len(n.cells) \in Nat /\ Len(n.cells) <= to
               /\ OnDevice(k) => Len(n.cells) = to
               /\ Reaches(n, to)
               /\ Faithful(k, at) => Faithful(n, to)
<1> DEFINE n == Feed(k, rows, at)
           l == Len(rows)
           c == Len(k.cells)
<1>1. /\ Bounded(k) /\ Marked(k) /\ (OnDevice(k) => at <= Len(k.cells))
      /\ (~OnDevice(k) => Len(k.cells) <= at) /\ l \in Nat /\ c \in Nat /\ l # 0
  BY LenProperties, EmptySeq, KvFields DEF CanTake, Bounded
<1>2. /\ Bounded(n) /\ SameMakeOf(n, k) /\ Len(n.cells) = Base(k, at) + l
      /\ ~OnDevice(k) => TopIs(n, at + l)
      /\ Base(k, at) \in 0 .. c
  BY <1>1, FeedGrows
<1>3. Base(k, at) \in 0 .. at
  BY <1>1 DEF Base
<1>4. Faithful(k, at) => Faithful(n, at + l)
  BY <1>1, FeedFaithful
<1> HIDE DEF n, l, c
<1>5. Len(n.cells) \in Nat /\ Len(n.cells) # 0 /\ Len(n.cells) <= at + l
  BY <1>1, <1>2, <1>3
<1>6. n.cells # <<>>
  BY <1>5, EmptySeq
<1>7. OnDevice(k) => Len(n.cells) = at + l
  BY <1>2 DEF Base
<1>8. OnDevice(n) <=> OnDevice(k)
  BY <1>2 DEF SameMakeOf, OnDevice
<1>9. Marked(n)
  BY <1>1, <1>2, <1>6, <1>8 DEF Marked, SameMakeOf
<1>10. Reaches(n, at + l)
  BY <1>1, <1>2, <1>5, <1>7, <1>8 DEF Reaches, RingTop, TopIs
<1>11. CanTake(n, at + l)
  BY <1>1, <1>2, <1>5, <1>7, <1>8, <1>9 DEF CanTake
<1>12. QED
  BY <1>2, <1>4, <1>5, <1>6, <1>7, <1>9, <1>10, <1>11 DEF n, l

(* Context shift.                                                          *)
LEMMA ShiftIs ==
    ASSUME NEW k, Bounded(k), Marked(k), NEW keep \in Nat \ {0}, NEW n \in Nat,
           k.backend = "cpu", HasToDrop(k, keep, n)
    PROVE  LET s == Shift(k, keep, n) IN
           /\ Bounded(s) /\ Marked(s) /\ s.backend = k.backend /\ s.dropped
           /\ s.torn = k.torn
           /\ Len(s.cells) = Len(k.cells) - n
<1> DEFINE s == Shift(k, keep, n)
           a == First(k.cells, keep)
           l == Len(k.cells)
           b == SubSeq(k.cells, keep + n + 1, l)
<1>1. /\ k \in AnyKv /\ k.cells \in Seq(AnyCell) /\ l \in Nat
  BY KvFields DEF Bounded
<1>2. keep + n <= l
  BY DEF HasToDrop
<1>3. a \in Seq(AnyCell) /\ Len(a) = keep
  BY SMTT(40), <1>1, <1>2, FirstOf
<1>4. b \in Seq(AnyCell) /\ Len(b) = l - keep - n
  <2> DEFINE cells == k.cells
             m == keep + n + 1
             u == Len(cells)
  <2>1. /\ cells \in Seq(AnyCell) /\ m \in 1 .. u + 1 /\ u \in m - 1 .. u
        /\ u - m + 1 = l - keep - n /\ m \in Nat /\ u \in Nat
    BY <1>1, <1>2
  <2> HIDE DEF m, cells
  <2>2. /\ SubSeq(cells, m, u) \in Seq(AnyCell)
        /\ Len(SubSeq(cells, m, u)) = IF m <= u THEN u - m + 1 ELSE 0
    BY <2>1, SubSeqProperties
  <2>3. (IF m <= u THEN u - m + 1 ELSE 0) = u - m + 1
    BY <2>1
  <2>4. QED
    BY <2>1, <2>2, <2>3 DEF m, cells
<1>5. s = [k EXCEPT !.cells = a \o b, !.dropped = TRUE]
  BY DEF Shift
<1> HIDE DEF a, b, s
<1>6. a \o b \in Seq(AnyCell) /\ Len(a \o b) = Len(a) + Len(b)
  BY <1>3, <1>4, ConcatProperties
<1>7. /\ s \in AnyKv /\ s.backend = k.backend /\ s.dropped = TRUE /\ s.torn = k.torn
      /\ s.cells = a \o b /\ s.ring = k.ring
  BY <1>1, <1>5, <1>6 DEF AnyKv, Kvs, AnyCell
<1>8. Len(s.cells) = l - n /\ Len(s.cells) # 0
  BY <1>1, <1>2, <1>3, <1>4, <1>6, <1>7
<1>9. s.cells # <<>>
  BY <1>8, EmptySeq
<1>10. Bounded(s) /\ Marked(s)
  BY <1>7, <1>9 DEF Bounded, Marked, OnDevice
<1>11. QED
  BY <1>7, <1>8, <1>10 DEF s

(* A pass that fails on the accelerator.                                   *)
LEMMA FaultedIs ==
    ASSUME NEW at \in Nat, NEW k, CanTake(k, at),
           NEW rows \in Seq(AnyRow), NEW n \in FaultedFeeds(k, rows, at)
    PROVE  /\ OnDevice(k) /\ Bounded(n) /\ Marked(n)
           /\ n.backend = k.backend /\ n.dropped = k.dropped
           /\ Len(n.cells) \in Nat /\ Len(n.cells) >= at
           /\ Len(n.cells) <= Len(k.cells) \/ Len(n.cells) < at + Len(rows)
           /\ First(n.cells, at) = First(k.cells, at)
           /\ n = k \/ n.torn \/ Len(n.cells) > at
<1>1. /\ OnDevice(k) /\ Bounded(k) /\ Marked(k) /\ at <= Len(k.cells) /\ k \in AnyKv
      /\ Len(rows) \in Nat /\ Len(k.cells) \in Nat
  BY LenProperties, KvFields DEF FaultedFeeds, CanTake, Bounded
<1>2. CASE k.torn
  <2>1. n = k
    BY <1>1, <1>2 DEF FaultedFeeds
  <2>2. QED
    BY <2>1, <1>1
<1>3. CASE ~k.torn
  <2>1. PICK m \in 0 .. Len(rows) - 1 :
          \/ n = Feed(k, First(rows, m), at)
          \/ n = [Feed(k, First(rows, m), at) EXCEPT !.torn = TRUE, !.conv = <<Junk>>]
    BY <1>1, <1>3 DEF FaultedFeeds
  <2> DEFINE done == First(rows, m)
             j == Feed(k, done, at)
  <2>2. done \in Seq(AnyRow) /\ Len(done) = m /\ m \in Nat /\ m < Len(rows)
    BY <1>1, FirstOf
  <2> HIDE DEF done
  <2>3. /\ Bounded(j) /\ SameMakeOf(j, k)
        /\ done = <<>> => j = k
        /\ done # <<>> => Len(j.cells) = at + Len(done)
        /\ First(j.cells, at) = First(k.cells, at)
    <3>1. Base(k, at) = at /\ (OnDevice(k) => at <= Len(k.cells))
      BY <1>1 DEF Base
    <3>2. QED
      BY <3>1, <2>2, <1>1, FeedGrows
  <2> HIDE DEF j
  <2>4. m = 0 <=> done = <<>>
    BY <2>2, EmptySeq
  <2>5. /\ Len(j.cells) \in Nat /\ Len(j.cells) >= at
        /\ Len(j.cells) <= Len(k.cells) \/ Len(j.cells) < at + Len(rows)
        /\ j = k \/ Len(j.cells) > at
    <3>1. CASE m = 0
      BY <3>1, <2>3, <2>4, <1>1
    <3>2. CASE m # 0
      <4>1. Len(j.cells) = at + m
        BY <3>2, <2>2, <2>3, <2>4
      <4>2. QED
        BY <3>2, <4>1, <2>2
    <3>3. QED
      BY <3>1, <3>2
  <2>6. OnDevice(j) /\ ~j.dropped /\ j.dropped = k.dropped /\ j \in AnyKv /\ Marked(j)
    BY <1>1, <2>3 DEF Marked, SameMakeOf, OnDevice, Bounded
  <2>7. CASE n = j
    BY <2>7, <2>3, <2>5, <2>6, <1>1 DEF SameMakeOf
  <2>8. CASE n = [j EXCEPT !.torn = TRUE, !.conv = <<Junk>>]
    <3>1. <<Junk>> \in Seq(AnyRow)
      BY DEF AnyRow
    <3>2. /\ n \in AnyKv /\ n.torn = TRUE /\ n.cells = j.cells /\ n.ring = j.ring
          /\ n.backend = j.backend /\ n.dropped = j.dropped
      BY <2>6, <2>8, <3>1 DEF AnyKv, Kvs
    <3>3. Bounded(n) /\ Marked(n)
      BY <3>2, <2>3, <2>6 DEF Bounded, Marked, OnDevice
    <3>4. QED
      BY <3>2, <3>3, <2>3, <2>5, <2>6, <1>1 DEF SameMakeOf
  <2>9. QED
    BY <2>1, <2>7, <2>8 DEF j, done
<1>4. QED
  BY <1>2, <1>3

LEMMA WreckedIs ==
    ASSUME NEW k, Bounded(k), Marked(k)
    PROVE  LET n == Wrecked(k) IN
           Bounded(n) /\ Marked(n) /\ Len(n.cells) = Len(k.cells) + 1
<1> DEFINE n == Wrecked(k)
           cell == [row |-> Junk, clean |-> FALSE]
           t == Append(k.cells, cell)
<1>1. k \in AnyKv /\ k.cells \in Seq(AnyCell) /\ Len(k.cells) \in Nat
  BY KvFields DEF Bounded
<1>2. cell \in AnyCell /\ <<Junk>> \in Seq(AnyRow)
  BY DEF AnyCell, AnyRow
<1>3. n = [k EXCEPT !.cells = t, !.conv = <<Junk>>, !.torn = OnDevice(k)]
  BY DEF Wrecked
<1> HIDE DEF cell
<1>4. t \in Seq(AnyCell) /\ Len(t) = Len(k.cells) + 1
  BY <1>1, <1>2, AppendProperties
<1>5. OnDevice(k) \in BOOLEAN
  BY DEF OnDevice
<1> HIDE DEF t, n
<1>6. /\ n \in AnyKv /\ n.cells = t /\ n.torn = OnDevice(k) /\ n.backend = k.backend
      /\ n.dropped = k.dropped /\ n.ring = k.ring
  BY <1>1, <1>2, <1>3, <1>4, <1>5 DEF AnyKv, Kvs, AnyCell
<1>7. t # <<>>
  BY <1>1, <1>4, EmptySeq
<1>8. Bounded(n) /\ Marked(n)
  BY <1>6, <1>7 DEF Bounded, Marked, OnDevice
<1>9. QED
  BY <1>4, <1>6, <1>8 DEF n

LEMMA UnansweredIs ==
    ASSUME NEW k, Bounded(k), Marked(k)
    PROVE  LET n == Unanswered(k) IN
           Bounded(n) /\ Marked(n) /\ n.cells = k.cells
<1>1. k \in AnyKv
  BY DEF Bounded
<1>2. CASE OnDevice(k)
  BY <1>1, <1>2 DEF Unanswered, Bounded, Marked, OnDevice, AnyKv, Kvs
<1>3. CASE ~OnDevice(k)
  BY <1>3 DEF Unanswered
<1>4. QED
  BY <1>2, <1>3

(* A checkpoint, and the state that comes of it.                           *)
LEMMA RestoredIs ==
    ASSUME NEW k, Bounded(k), Marked(k), ~OnDevice(k), NEW at \in Nat
    PROVE  LET n == RestoredFrom(Snapshot(k)) IN
           /\ Bounded(n) /\ Marked(n) /\ SameMakeOf(n, k)
           /\ n.cells = k.cells /\ n.conv = k.conv
           /\ RingTop(n, at)
           /\ Faithful(k, at) => Faithful(n, at)
<1> DEFINE n == RestoredFrom(Snapshot(k))
           x == [at |-> Len(k.cells), conv |-> k.conv]
<1>1. /\ k \in AnyKv /\ ~k.torn /\ Len(k.cells) \in Nat /\ k.cells \in Seq(AnyCell)
      /\ k.conv \in Seq(AnyRow)
  BY KvFields DEF Marked, Bounded
<1>2. x \in Snapshots /\ <<x>> \in Seq(Snapshots) /\ Len(<<x>>) = 1 /\ <<x>>[1] = x /\ <<x>> # <<>>
  BY <1>1 DEF Snapshots
<1>3. n = [backend |-> k.backend, cells |-> k.cells, conv |-> k.conv,
           ring |-> <<x>>, torn |-> FALSE, dropped |-> k.dropped]
  BY DEF RestoredFrom, Snapshot
<1> HIDE DEF n
<1>4. /\ n \in AnyKv /\ SameMakeOf(n, k) /\ n.cells = k.cells /\ n.conv = k.conv
      /\ n.ring = <<x>>
  BY <1>1, <1>2, <1>3 DEF AnyKv, Kvs, Snapshots, SameMakeOf
<1>5. Bounded(n)
  BY <1>2, <1>4, KvAssumption DEF Bounded
<1>6. Marked(n)
  BY <1>1, <1>4 DEF Marked, SameMakeOf, OnDevice
<1>7. RingTop(n, at)
  BY <1>2, <1>4 DEF RingTop
<1>8. ASSUME Faithful(k, at) PROVE Faithful(n, at)
  <2>1. CASE k.dropped
    BY <1>4, <1>8, <2>1 DEF Faithful, SameMakeOf
  <2>2. CASE ~k.dropped
    <3>1. Sound(k)
      BY <1>8, <2>2 DEF Faithful
    <3>2. Sound(n)
      BY <3>1, <1>1, <1>4 DEF Sound, InTune, SameMakeOf
    <3>3. n.conv = Newest(RowsOf(First(n.cells, Len(n.cells))), Taps)
      <4>1. First(k.cells, Len(k.cells)) = k.cells
        BY <1>1, FirstAll
      <4>2. QED
        BY <4>1, <3>1, <1>4 DEF Sound, InTune
    <3>4. DOMAIN n.ring = {1} /\ n.ring[1].at = Len(n.cells) /\ n.ring[1].conv = n.conv
      BY <1>2, <1>4
    <3>5. RingTrue(n)
      BY <3>3, <3>4, <1>1, <1>4 DEF RingTrue
    <3>6. QED
      BY <3>2, <3>5, <1>4, <1>8 DEF Faithful
  <2>3. QED
    BY <2>1, <2>2
<1>9. QED
  BY <1>4, <1>5, <1>6, <1>7, <1>8 DEF n

LEMMA TextOfTyped ==
    ASSUME NEW rows \in Seq(AnyRow)
    PROVE  TextOf(rows) \in Seq(AnyRow)
<1> DEFINE Run(n, f) ==
             f = [i \in 0 .. n |->
                    IF i = 0 THEN <<>>
                    ELSE IF rows[i] \in Tokens THEN Append(f[i - 1], rows[i]) ELSE f[i - 1]]
           Good(n) == \E f : Run(n, f) /\ f[n] \in Seq(AnyRow)
           Bad == {n \in Nat : n <= Len(rows) /\ ~Good(n)}
<1>0. Len(rows) \in Nat /\ \A i \in 1 .. Len(rows) : rows[i] \in AnyRow
  BY LenProperties, ElementOfSeq
<1>1. Bad = {}
  <2> SUFFICES ASSUME Bad # {} PROVE FALSE
    OBVIOUS
  <2>1. PICK n \in Bad : \A m \in Bad : n <= m
    <3>1. Bad \in SUBSET Nat
      OBVIOUS
    <3> HIDE DEF Bad
    <3>2. QED
      BY <3>1, Least
  <2>2. n \in Nat /\ n <= Len(rows) /\ ~Good(n)
    BY <2>1
  <2>3. n # 0
    <3> DEFINE h == [i \in 0 .. 0 |-> <<>>]
    <3>1. Run(0, h) /\ h[0] \in Seq(AnyRow)
      OBVIOUS
    <3>2. QED
      BY <3>1, <2>2
  <2>4. n - 1 \in Nat /\ n - 1 <= Len(rows) /\ ~(n <= n - 1)
    BY <2>2, <2>3
  <2>5. PICK g : Run(n - 1, g) /\ g[n - 1] \in Seq(AnyRow)
    BY <2>1, <2>4
  <2> DEFINE h == [i \in 0 .. n |->
                     IF i = 0 THEN <<>>
                     ELSE IF rows[i] \in Tokens THEN Append(g[i - 1], rows[i]) ELSE g[i - 1]]
  <2>6. ASSUME NEW i \in 0 .. n, i # 0 PROVE h[i - 1] = g[i - 1]
    <3>1. i - 1 \in 0 .. n - 1 /\ i - 1 \in 0 .. n
      BY <2>2, <2>6
    <3> DEFINE j == i - 1
    <3> HIDE DEF h, j
    <3>2. g[j] = IF j = 0 THEN <<>>
                 ELSE IF rows[j] \in Tokens THEN Append(g[j - 1], rows[j]) ELSE g[j - 1]
      BY <3>1, <2>5 DEF j
    <3>3. h[j] = IF j = 0 THEN <<>>
                 ELSE IF rows[j] \in Tokens THEN Append(g[j - 1], rows[j]) ELSE g[j - 1]
      BY <3>1 DEF h, j
    <3>4. QED
      BY <3>2, <3>3 DEF j
  <2>7. Run(n, h)
    BY <2>6
  <2>8. h[n] \in Seq(AnyRow)
    <3>1. n \in 0 .. n /\ n \in 1 .. Len(rows)
      BY <2>2, <2>3, <1>0
    <3>2. h[n] = IF rows[n] \in Tokens THEN Append(g[n - 1], rows[n]) ELSE g[n - 1]
      BY <3>1, <2>3
    <3>3. rows[n] \in AnyRow
      BY <3>1, <1>0
    <3> HIDE DEF h
    <3>4. Append(g[n - 1], rows[n]) \in Seq(AnyRow)
      BY <3>3, <2>5, AppendProperties
    <3>5. QED
      BY <3>2, <3>4, <2>5
  <2>9. QED
    BY <2>2, <2>7, <2>8
<1>2. Good(Len(rows))
  <2> DEFINE l == Len(rows)
  <2>1. l \in Nat /\ l <= l
    BY <1>0
  <2> HIDE DEF Good
  <2>2. Good(l)
    BY <2>1, <1>1
  <2>3. QED
    BY <2>2 DEF l
<1> DEFINE text == CHOOSE f : Run(Len(rows), f)
<1>3. PICK f : Run(Len(rows), f) /\ f[Len(rows)] \in Seq(AnyRow)
  BY <1>2
<1>4. Run(Len(rows), text)
  BY <1>3
<1>5. \A n \in Nat : n <= Len(rows) => text[n] = f[n]
  <2> DEFINE Off == {n \in Nat : n <= Len(rows) /\ text[n] # f[n]}
  <2> SUFFICES ASSUME Off # {} PROVE FALSE
    OBVIOUS
  <2>1. PICK n \in Off : \A m \in Off : n <= m
    <3>1. Off \in SUBSET Nat
      OBVIOUS
    <3> HIDE DEF Off
    <3>2. QED
      BY <3>1, Least
  <2>2. n \in 0 .. Len(rows) /\ text[n] # f[n] /\ n \in Nat
    BY <2>1, <1>0
  <2> HIDE DEF text
  <2>3. /\ text[n] = IF n = 0 THEN <<>>
                     ELSE IF rows[n] \in Tokens THEN Append(text[n - 1], rows[n]) ELSE text[n - 1]
        /\ f[n] = IF n = 0 THEN <<>>
                  ELSE IF rows[n] \in Tokens THEN Append(f[n - 1], rows[n]) ELSE f[n - 1]
    BY <2>2, <1>3, <1>4
  <2>4. n # 0
    BY <2>2, <2>3
  <2>5. n - 1 \in Nat /\ n - 1 <= Len(rows) /\ ~(n <= n - 1)
    BY <2>2, <2>4, <1>0
  <2>6. text[n - 1] = f[n - 1]
    BY <2>1, <2>5
  <2>7. QED
    BY <2>2, <2>3, <2>6
<1>6. TextOf(rows) = text[Len(rows)]
  BY DEF TextOf
<1> HIDE DEF text, Run
<1>7. text[Len(rows)] = f[Len(rows)]
  <2> DEFINE l == Len(rows)
  <2>1. l \in Nat /\ l <= l
    BY <1>0
  <2>2. text[l] = f[l]
    BY <2>1, <1>5
  <2>3. QED
    BY <2>2 DEF l
<1>8. QED
  BY <1>3, <1>6, <1>7

----------------------------------------------------------------------------
(* The rows of a segment, and the next chunk of them.                      *)
LEMMA SegmentRows ==
    ASSUME NEW seg \in Segments
    PROVE  seg.rows \in Seq(AnyRow) /\ seg.rows # <<>> /\ seg.soft \in BOOLEAN
<1>1. IsSegment(seg)
  <2>1. CASE seg \in Prompts
    BY <2>1, SessionAssumption
  <2>2. CASE seg \in UNION {{m[i] : i \in DOMAIN m} : m \in Messages}
    <3>1. PICK m \in Messages : seg \in {m[i] : i \in DOMAIN m}
      BY <2>2
    <3>2. \A i \in DOMAIN m : IsSegment(m[i])
      BY SessionAssumption
    <3>3. QED
      BY <3>1, <3>2
  <2>3. QED
    BY <2>1, <2>2 DEF Segments
<1> DEFINE R == {seg.rows[i] : i \in DOMAIN seg.rows}
<1>2. seg.rows \in Seq(R) /\ seg.rows # <<>> /\ seg.soft \in BOOLEAN
  BY <1>1 DEF IsSegment
<1>3. R \subseteq AnyRow
  BY DEF AnyRow
<1> HIDE DEF R
<1>4. QED
  BY <1>2, <1>3, SeqMonotonic

LEMMA MessageSegments ==
    ASSUME NEW m \in Messages
    PROVE  m \in Seq(Segments) /\ m # <<>>
<1> DEFINE R == {m[i] : i \in DOMAIN m}
<1>1. m \in Seq(R) /\ m # <<>>
  BY SessionAssumption
<1>2. R \subseteq Segments
  BY DEF Segments
<1> HIDE DEF R
<1>3. QED
  BY <1>1, <1>2, SeqMonotonic

LEMMA AppendIs ==
    ASSUME IsAppend(call)
    PROVE  /\ Rows \in Seq(AnyRow) /\ Rows # <<>> /\ Len(Rows) \in Nat \ {0} /\ Soft \in BOOLEAN
           /\ call.fed \in Nat
<1>1. call.todo \in Seq(Segments) /\ call.todo # <<>> /\ call.fed \in Nat
  BY DEF IsAppend
<1>2. Head(call.todo) \in Segments
  <2> DEFINE todo == call.todo
  <2>1. todo \in Seq(Segments) /\ todo # <<>>
    BY <1>1
  <2> HIDE DEF todo
  <2>2. Head(todo) \in Segments
    BY <2>1, HeadTailProperties
  <2>3. QED
    BY <2>2 DEF todo
<1>3. Rows \in Seq(AnyRow) /\ Rows # <<>> /\ Soft \in BOOLEAN
  BY <1>2, SegmentRows DEF Rows, Soft
<1>4. Len(Rows) \in Nat \ {0}
  BY <1>3, EmptySeq, LenProperties
<1>5. QED
  BY <1>1, <1>3, <1>4

LEMMA ChunkIs ==
    ASSUME IsAppend(call), call.fed < Len(Rows)
    PROVE  /\ Chunk \in Seq(AnyRow) /\ Chunk # <<>> /\ Len(Chunk) \in Nat \ {0}
           /\ FedAfter = call.fed + Len(Chunk) /\ FedAfter \in 1 .. Len(Rows)
           /\ First(Rows, call.fed) \o Chunk = First(Rows, FedAfter)
           /\ First(Rows, FedAfter) \in Seq(AnyRow)
<1> DEFINE r == Rows
           f == call.fed
           l == Len(Rows)
           to == IF f + Ubatch < l THEN f + Ubatch ELSE l
           ch == SubSeq(r, f + 1, to)
<1>1. r \in Seq(AnyRow) /\ l \in Nat /\ l = Len(r) /\ f \in Nat /\ f < l
  BY AppendIs
<1>2. Ubatch \in Nat /\ Ubatch > 0
  BY SessionAssumption
<1>3. Chunk = ch
  BY DEF Chunk
<1> HIDE DEF r, f, l
<1>4. to \in f + 1 .. l /\ to \in Nat
  BY <1>1, <1>2
<1> HIDE DEF to
<1>5. ch \in Seq(AnyRow) /\ Len(ch) = to - f
  <2> DEFINE a == f + 1
  <2>1. a \in Int /\ to \in Int /\ \A i \in a .. to : r[i] \in AnyRow
    BY <1>1, <1>4, ElementOfSeq
  <2>2. a <= to /\ to - a + 1 = to - f
    BY <1>1, <1>4
  <2> HIDE DEF a
  <2>3. SubSeq(r, a, to) \in Seq(AnyRow) /\ Len(SubSeq(r, a, to)) = to - a + 1
    BY <2>1, <2>2, SubSeqProperties
  <2>4. QED
    BY <2>2, <2>3 DEF a
<1>6. First(r, f) \o ch = First(r, to)
  BY <1>1, <1>4, ConcatAdjacentSubSeq DEF First
<1> HIDE DEF ch
<1>7. Len(ch) \in Nat \ {0} /\ ch # <<>> /\ f + Len(ch) = to
  BY <1>1, <1>4, <1>5, EmptySeq
<1>8. FedAfter = to /\ to \in 1 .. l
  <2>1. FedAfter = f + Len(ch)
    BY <1>3 DEF FedAfter, f
  <2>2. QED
    BY <2>1, <1>7, <1>1, <1>4
<1>9. First(r, to) \in Seq(AnyRow)
  BY <1>1, <1>4, FirstOf
<1>10. QED
  <2>1. FedAfter = call.fed + Len(Chunk)
    BY DEF FedAfter
  <2>2. QED
    BY <2>1, <1>3, <1>5, <1>6, <1>7, <1>8, <1>9 DEF r, f, l

----------------------------------------------------------------------------
(* Where a call ends the invariant asks little: of a usable session, that  *)
(* its cache reaches its position and its logits are those of its state.   *)
RestsWell ==
    usable => /\ Len(kv.cells) <= MaxSeqLen /\ Reaches(kv, pos) /\ published = pos
              /\ ~hole => Faithful(kv, pos)
              /\ IsSeed(logits, kv, pos)

LEMMA Landing ==
    ASSUME StateTyped', StoredInv', call' = Rest, RestsWell'
    PROVE  SessionInv'
<1>1. call'.op = "rest" /\ ~Appends'
  BY DEF Rest, Appends
<1>2. CallTyped'
  BY <1>1 DEF CallTyped
<1>3. RoomInv'
  BY <1>1 DEF RoomInv, RestsWell
<1>4. EdgeInv'
  BY <1>1 DEF EdgeInv, RestsWell, Edge, Reaches
<1>5. SeedInv'
  BY <1>1 DEF SeedInv, RestsWell, AtRest
<1>6. GuardInv' /\ SegmentInv'
  BY <1>1 DEF GuardInv, SegmentInv
<1>7. QED
  BY <1>2, <1>3, <1>4, <1>5, <1>6 DEF SessionInv

LEMMA Crash ==
    ASSUME StateTyped', StoredInv', call' = Aborted, usable' => Len(kv'.cells) <= MaxSeqLen
    PROVE  SessionInv'
<1>1. call'.op = "aborted" /\ ~Appends'
  BY DEF Aborted, Appends
<1>2. CallTyped' /\ RoomInv' /\ EdgeInv' /\ SeedInv'
  BY <1>1 DEF CallTyped, RoomInv, EdgeInv, SeedInv, AtRest
<1>3. GuardInv' /\ SegmentInv'
  BY <1>1 DEF GuardInv, SegmentInv
<1>4. QED
  BY <1>2, <1>3 DEF SessionInv

(* What the invariant says of a session at rest.                           *)
LEMMA Resting ==
    ASSUME SessionInv, AtRest
    PROVE  call = Rest /\ RestsWell
<1>1. call = Rest /\ ~Appends
  BY DEF SessionInv, CallTyped, AtRest, Appends, Rest, Aborted
<1>2. Edge = pos /\ ~Shifted /\ call.op = "rest"
  BY <1>1 DEF Edge, Shifted, Rest
<1>3. usable => Len(kv.cells) <= MaxSeqLen /\ Reaches(kv, pos) /\ published = pos
  BY <1>2 DEF SessionInv, RoomInv, EdgeInv
<1>4. usable /\ ~hole => Faithful(kv, pos)
  BY <1>2 DEF SessionInv, EdgeInv
<1>5. usable => IsSeed(logits, kv, pos)
  BY DEF SessionInv, SeedInv
<1>6. QED
  BY <1>1, <1>3, <1>4, <1>5 DEF RestsWell

(* Only the cancel flag and the report are touched.                        *)
LEMMA FlagsInv ==
    ASSUME SessionInv, cancel' \in BOOLEAN,
           UNCHANGED <<kv, pos, published, history, logits, usable, report, stored, call, hole>>
    PROVE  SessionInv'
<1>1. StateTyped' /\ CallTyped'
  BY DEF SessionInv, StateTyped, CallTyped, Appends
<1>2. Rows' = Rows /\ Soft' = Soft /\ Frontier' = Frontier /\ Edge' = Edge
  BY DEF Rows, Soft, Frontier, Edge
<1>3. RoomInv'
  BY <1>2 DEF SessionInv, RoomInv
<1>4. EdgeInv'
  BY <1>2 DEF SessionInv, EdgeInv, Shifted
<1>5. SeedInv'
  BY <1>2 DEF SessionInv, SeedInv, AtRest
<1>6. GuardInv'
  BY <1>2 DEF SessionInv, GuardInv, Appends, IsBefore
<1>7. SegmentInv' /\ StoredInv'
  BY <1>2 DEF SessionInv, SegmentInv, StoredInv
<1>8. QED
  BY <1>1, <1>3, <1>4, <1>5, <1>6, <1>7 DEF SessionInv

LEMMA InitInv == Init => SessionInv
<1> SUFFICES ASSUME Init PROVE SessionInv
  OBVIOUS
<1>1. PICK b \in Backends : kv = Pristine(b)
  BY DEF Init
<1>2. /\ Bounded(kv) /\ Marked(kv) /\ Len(kv.cells) = 0 /\ kv.cells = <<>> /\ kv.ring = <<>>
      /\ Faithful(kv, 0) /\ RingTop(kv, 0)
  BY <1>1, PristineIs
<1>3. MaxSeqLen \in Nat
  BY SessionAssumption
<1>4. StateTyped
  <2>1. <<>> \in Seq(AnyRow)
    OBVIOUS
  <2>2. Len(kv.cells) <= MaxSeqLen + 1
    BY <1>2, <1>3
  <2>3. pos \in 0 .. MaxSeqLen /\ published \in 0 .. MaxSeqLen
    BY <1>3 DEF Init
  <2>4. QED
    BY <1>2, <2>1, <2>2, <2>3 DEF StateTyped, Init, Bounded, AnyKv
<1>5. StoredInv
  BY DEF StoredInv, Init
<1>6. Reaches(kv, 0) /\ Len(kv.cells) <= MaxSeqLen
  BY <1>2, <1>3 DEF Reaches
<1>7. call.op = "rest" /\ ~Appends
  BY DEF Init, Rest, Appends
<1>8. CallTyped /\ RoomInv
  BY <1>6, <1>7 DEF CallTyped, RoomInv, Init
<1>9. EdgeInv
  BY <1>2, <1>6, <1>7 DEF EdgeInv, Edge, Init, Reaches
<1>10. SeedInv
  BY <1>7 DEF SeedInv, IsSeed, Init
<1>11. GuardInv /\ SegmentInv
  BY <1>7 DEF GuardInv, SegmentInv
<1>12. QED
  BY <1>4, <1>5, <1>8, <1>9, <1>10, <1>11 DEF SessionInv

LEMMA CheckpointInv ==
    ASSUME SessionInv, Checkpoint
    PROVE  SessionInv'
<1>1. call = Rest /\ RestsWell /\ usable
  BY Resting DEF Checkpoint
<1>2. /\ UNCHANGED <<kv, pos, published, history, logits, usable, cancel, report, call, hole>>
      /\ ~OnDevice(kv)
  BY DEF Checkpoint
<1>3. StateTyped' /\ RestsWell' /\ call' = Rest
  BY <1>1, <1>2 DEF SessionInv, StateTyped, RestsWell
<1>4. Bounded(kv) /\ Marked(kv) /\ pos \in 0 .. MaxSeqLen /\ hole \in BOOLEAN /\ history \in Seq(AnyRow)
  BY DEF SessionInv, StateTyped, Bounded, AnyKv
<1>5. pos \in Nat
  BY <1>4, SessionAssumption
<1> DEFINE snap == Snapshot(kv)
           k == RestoredFrom(snap)
<1>6. /\ Bounded(k) /\ Marked(k) /\ SameMakeOf(k, kv)
      /\ k.cells = kv.cells /\ k.conv = kv.conv
      /\ Faithful(kv, pos) => Faithful(k, pos)
  BY <1>2, <1>4, <1>5, RestoredIs
<1>7. /\ stored'.pos = pos /\ stored'.history = history /\ stored'.logits = logits
      /\ stored'.kv = snap /\ stored'.hole = hole
  BY DEF Checkpoint
<1> HIDE DEF snap
<1>8. ~OnDevice(k) /\ Context(k) = Context(kv)
  BY <1>2, <1>6 DEF OnDevice, SameMakeOf, Context
<1>9. IsSeed(logits, k, pos)
  BY <1>1, <1>8 DEF IsSeed, RestsWell
<1>10. ~hole => Faithful(k, pos)
  BY <1>1, <1>6 DEF RestsWell
<1>11. StoredInv'
  BY <1>4, <1>6, <1>7, <1>8, <1>9, <1>10 DEF StoredInv, Bounded, AnyKv
<1>12. QED
  BY <1>3, <1>11, Landing

LEMMA RestoreInv ==
    ASSUME SessionInv, Restore
    PROVE  SessionInv'
<1> DEFINE k == RestoredFrom(stored.kv)
<1>1. call = Rest
  BY Resting DEF Restore
<1>2. /\ stored.pos <= MaxSeqLen /\ stored.pos = Len(stored.kv.cells)
      /\ kv' = k /\ pos' = stored.pos /\ published' = stored.pos
      /\ history' = stored.history /\ logits' = stored.logits /\ usable' = TRUE
      /\ cancel' = FALSE /\ report' = None /\ hole' = stored.hole
      /\ stored' = stored /\ call' = Rest /\ stored # None
  BY <1>1 DEF Restore
<1>3. /\ stored.pos \in 0 .. MaxSeqLen /\ stored.hole \in BOOLEAN
      /\ stored.history \in Seq(AnyRow)
      /\ k \in Kvs(AnyRow) /\ Marked(k) /\ ~OnDevice(k)
      /\ IsSeed(stored.logits, k, stored.pos)
      /\ ~stored.hole => Faithful(k, stored.pos)
  BY <1>2 DEF SessionInv, StoredInv
<1>4. /\ k.cells = stored.kv.cells
      /\ k.ring = <<[at |-> Len(stored.kv.cells), conv |-> stored.kv.conv]>>
      /\ k.conv = stored.kv.conv
  BY DEF RestoredFrom
<1> HIDE DEF k
<1>5. Len(k.cells) = stored.pos /\ MaxSeqLen \in Nat /\ Window \in Nat \ {0} /\ Len(k.ring) = 1
  BY <1>2, <1>4, SessionAssumption, KvAssumption
<1>6. Len(k.cells) <= MaxSeqLen /\ Len(k.cells) <= MaxSeqLen + 1 /\ Len(k.ring) <= Window
  BY <1>3, <1>5
<1>7. k.ring # <<>> /\ k.ring[Len(k.ring)] = [at |-> stored.pos, conv |-> k.conv]
  BY <1>2, <1>4, <1>5
<1>8. Reaches(k, stored.pos)
  BY <1>3, <1>5, <1>7 DEF Reaches, RingTop
<1>9. StateTyped'
  BY <1>2, <1>3, <1>6 DEF SessionInv, StateTyped
<1>10. RestsWell'
  BY <1>2, <1>3, <1>6, <1>8 DEF RestsWell
<1>11. StoredInv'
  BY <1>2 DEF SessionInv, StoredInv
<1>12. QED
  BY <1>2, <1>9, <1>10, <1>11, Landing

(* A cleared session.                                                      *)
LEMMA ClearedInv ==
    ASSUME SessionInv, Cleared, call' = Rest, stored' = stored, usable' = TRUE,
           cancel' \in BOOLEAN, report' \in Outcomes \cup {None}
    PROVE  SessionInv'
<1>1. kv.backend \in Backends /\ MaxSeqLen \in Nat
  BY SessionAssumption, KvFields DEF SessionInv, StateTyped, AnyKv
<1>2. /\ Bounded(kv') /\ Marked(kv') /\ Len(kv'.cells) = 0 /\ kv'.ring = <<>>
      /\ Faithful(kv', 0) /\ RingTop(kv', 0)
  BY <1>1, PristineIs DEF Cleared
<1>3. pos' = 0 /\ published' = 0 /\ history' = <<>> /\ logits' = None /\ hole' = FALSE
  BY DEF Cleared
<1>4. <<>> \in Seq(AnyRow) /\ Len(kv'.cells) <= MaxSeqLen /\ Len(kv'.cells) <= MaxSeqLen + 1
      /\ 0 \in 0 .. MaxSeqLen
  BY <1>1, <1>2
<1>5. StateTyped'
  BY <1>2, <1>3, <1>4 DEF StateTyped, Bounded, AnyKv
<1>6. RestsWell'
  BY <1>2, <1>3, <1>4 DEF RestsWell, Reaches, IsSeed
<1>7. StoredInv'
  BY DEF SessionInv, StoredInv
<1>8. QED
  BY <1>5, <1>6, <1>7, Landing

(* A condemned session.                                                    *)
LEMMA CondemnedInv ==
    ASSUME SessionInv, usable' = FALSE, call' = Rest, Bounded(kv'), Marked(kv'),
           Len(kv'.cells) <= MaxSeqLen + 1, report' \in Outcomes \cup {None},
           cancel' \in BOOLEAN, UNCHANGED <<pos, published, history, stored, hole>>
    PROVE  SessionInv'
<1>1. StateTyped'
  BY DEF SessionInv, StateTyped, Bounded, AnyKv
<1>2. StoredInv'
  BY DEF SessionInv, StoredInv
<1>3. RestsWell'
  BY DEF RestsWell
<1>4. QED
  BY <1>1, <1>2, <1>3, Landing

----------------------------------------------------------------------------
(* An append in progress.                                                  *)
LEMMA Appended ==
    ASSUME SessionInv, call.op = "append"
    PROVE  /\ IsAppend(call) /\ usable /\ usable \in BOOLEAN /\ Appends
           /\ Rows \in Seq(AnyRow) /\ Rows # <<>> /\ Len(Rows) \in Nat \ {0} /\ Soft \in BOOLEAN
           /\ call.fed \in Nat /\ call.fed < Len(Rows) /\ call.guarded \in BOOLEAN
           /\ Edge = Frontier /\ Frontier \in Nat /\ Frontier <= MaxSeqLen /\ Frontier >= pos
           /\ MaxSeqLen \in Nat /\ pos \in Nat /\ pos <= MaxSeqLen /\ published = pos
           /\ CanTake(kv, Frontier) /\ Len(kv.cells) <= MaxSeqLen /\ Len(kv.cells) \in Nat
           /\ Shifted \/ Reaches(kv, Frontier)
           /\ ~hole => Faithful(kv, Frontier)
           /\ ~call.begun => /\ call.fed = 0 /\ Frontier = pos /\ Reaches(kv, pos)
                             /\ IsSeed(logits, kv, pos)
           /\ call.begun => /\ Frontier + Len(Rows) - call.fed <= MaxSeqLen
                            /\ call.mutation # "none"
<1>1. Appends /\ Edge = Frontier
  BY DEF Appends, Edge
<1>2. IsAppend(call) /\ usable
  BY <1>1 DEF SessionInv, CallTyped
<1>3. /\ Rows \in Seq(AnyRow) /\ Rows # <<>> /\ Len(Rows) \in Nat \ {0} /\ Soft \in BOOLEAN
      /\ call.fed \in Nat
  BY <1>2, AppendIs
<1>4. MaxSeqLen \in Nat /\ pos \in Nat /\ pos <= MaxSeqLen
  BY SessionAssumption DEF SessionInv, StateTyped
<1>5. Frontier \in Nat /\ Frontier >= pos
  BY <1>3, <1>4 DEF Frontier
<1>6. /\ call.fed < Len(Rows)
      /\ call.begun => Frontier + Len(Rows) - call.fed <= MaxSeqLen /\ call.mutation # "none"
      /\ ~call.begun => call.fed = 0
      /\ Len(kv.cells) <= MaxSeqLen
  BY <1>2 DEF SessionInv, RoomInv
<1>7. ~call.begun => Frontier = pos
  BY <1>4, <1>6 DEF Frontier
<1>8. Frontier <= MaxSeqLen
  <2>1. CASE call.begun
    BY <2>1, <1>3, <1>4, <1>5, <1>6
  <2>2. CASE ~call.begun
    BY <2>2, <1>4, <1>7
  <2>3. QED
    BY <2>1, <2>2
<1>9. /\ Shifted \/ Reaches(kv, Frontier)
      /\ OnDevice(kv) => Len(kv.cells) >= Frontier
      /\ ~OnDevice(kv) => Len(kv.cells) <= Frontier
      /\ published = pos
      /\ ~hole => Faithful(kv, Frontier)
  BY <1>1, <1>2 DEF SessionInv, EdgeInv
<1>10. Bounded(kv) /\ Marked(kv) /\ Len(kv.cells) \in Nat
  BY KvFields DEF SessionInv, StateTyped, Bounded, AnyKv
<1>11. CanTake(kv, Frontier)
  BY <1>5, <1>9, <1>10 DEF CanTake
<1>12. ~call.begun => Reaches(kv, pos) /\ IsSeed(logits, kv, pos)
  BY <1>2, <1>7, <1>9 DEF Shifted, SessionInv, SeedInv
<1>13. QED
  BY <1>1, <1>2, <1>3, <1>4, <1>5, <1>6, <1>7, <1>8, <1>9, <1>10, <1>11, <1>12 DEF IsAppend, SessionInv, StateTyped

(* What a guarded ingestion may rely on, in a form that names its state.   *)
Grown(k, h, b) ==
    /\ Len(h) >= Len(b.history) /\ First(h, Len(b.history)) = b.history
    /\ k.backend = b.kv.backend /\ k.dropped = b.kv.dropped
    /\ b.rewindable /\ Len(b.kv.cells) = b.pos => Extends(k, b)

LEMMA GuardIs ==
    ASSUME GuardInv, Appends, call.guarded
    PROVE  /\ IsBefore(call.before)
           /\ call.mutation = "none" =>
                 /\ kv = call.before.kv /\ pos = call.before.pos
                 /\ history = call.before.history /\ logits = call.before.logits
           /\ call.mutation = "tail" =>
                 /\ Grown(kv, history, call.before)
                 /\ call.op = "append" => Edge >= call.before.pos
BY DEF GuardInv, Grown

LEMMA BeforeKept ==
    ASSUME IsBefore(call.before), call'.before = call.before, hole' = hole
    PROVE  IsBefore(call.before)'
BY DEF IsBefore

LEMMA FedGrown ==
    ASSUME NEW at \in Nat, NEW k, CanTake(k, at), NEW rows \in Seq(AnyRow), rows # <<>>,
           NEW h \in Seq(AnyRow), NEW x \in Seq(AnyRow),
           NEW b, b.pos \in Nat, b.pos <= at, b.history \in Seq(AnyRow), Grown(k, h, b)
    PROVE  LET n == Feed(k, rows, at) IN Grown(n, h, b) /\ Grown(n, h \o x, b)
<1> DEFINE n == Feed(k, rows, at)
           bh == b.history
           bp == b.pos
           c == b.kv.conv
<1>1. /\ Len(bh) \in Nat /\ Len(bh) <= Len(h) /\ First(h, Len(bh)) = bh /\ Len(h) \in Nat
      /\ Len(x) \in Nat
  BY LenProperties DEF Grown
<1>2. Len(h \o x) >= Len(bh) /\ First(h \o x, Len(bh)) = bh
  <2>1. Len(h \o x) = Len(h) + Len(x)
    BY ConcatProperties
  <2>2. Len(bh) \in 0 .. Len(h)
    BY <1>1
  <2>3. First(h \o x, Len(bh)) = First(h, Len(bh))
    BY <2>2, FirstConcat
  <2>4. QED
    BY <1>1, <2>1, <2>3
<1>3. Bounded(k) /\ (OnDevice(k) => at <= Len(k.cells)) /\ (~OnDevice(k) => Len(k.cells) <= at)
  BY DEF CanTake
<1>4. /\ Bounded(n) /\ SameMakeOf(n, k) /\ Base(k, at) \in 0 .. Len(k.cells)
      /\ Len(n.cells) = Base(k, at) + Len(rows)
      /\ First(n.cells, Base(k, at)) = First(k.cells, Base(k, at))
  BY <1>3, FeedGrows
<1>5. Len(rows) \in Nat /\ Len(rows) # 0
  BY LenProperties, EmptySeq
<1>6. n.cells \in Seq(AnyCell) /\ k.cells \in Seq(AnyCell) /\ Len(k.cells) \in Nat
  BY <1>3, <1>4, KvFields DEF Bounded
<1>7. ASSUME b.rewindable, Len(b.kv.cells) = bp PROVE Extends(n, b)
  <2>1. Extends(k, b)
    BY <1>7 DEF Grown
  <2>2. bp \in Nat /\ bp <= at /\ Len(k.cells) >= bp /\ First(k.cells, bp) = b.kv.cells
    BY <2>1 DEF Extends
  <2>3. bp <= Base(k, at)
    BY <2>2 DEF Base
  <2> DEFINE base == Base(k, at)
             nc == n.cells
             kc == k.cells
  <2>4. base \in 0 .. Len(kc) /\ base \in 0 .. Len(nc) /\ bp \in 0 .. base
    BY <1>4, <1>5, <1>6, <2>2, <2>3
  <2>5. First(nc, bp) = First(kc, bp)
    <3> HIDE DEF base, nc, kc, bp
    <3>1. nc \in Seq(AnyCell) /\ kc \in Seq(AnyCell) /\ First(nc, base) = First(kc, base)
      BY <1>4, <1>6 DEF nc, kc, base
    <3>2. First(First(nc, base), bp) = First(nc, bp)
      BY <2>4, <3>1, FirstFirst
    <3>3. First(First(kc, base), bp) = First(kc, bp)
      BY <2>4, <3>1, FirstFirst
    <3>4. QED
      BY <3>1, <3>2, <3>3
  <2>6. Len(nc) > bp /\ Len(nc) >= bp
    BY <1>4, <1>5, <2>2, <2>4
  <2>7. ~OnDevice(n) => TopAt(n, bp, c)
    <3>1. SUFFICES ASSUME ~OnDevice(n) PROVE TopAt(n, bp, c)
      OBVIOUS
    <3>2. ~OnDevice(k) /\ TopAt(k, bp, c)
      BY <3>1, <2>1, <1>4 DEF Extends, OnDevice, SameMakeOf
    <3>3. bp \in 0 .. at
      BY <2>2
    <3> HIDE DEF bp, c
    <3>4. QED
      BY <3>2, <3>3, <1>3, FeedTop
  <2>8. QED
    BY <2>2, <2>5, <2>6, <2>7 DEF Extends
<1>8. n.backend = b.kv.backend /\ n.dropped = b.kv.dropped
  BY <1>4 DEF Grown, SameMakeOf
<1>9. QED
  BY <1>1, <1>2, <1>7, <1>8 DEF Grown

(* A call that gives up: a raw one is over, an ingestion undoes itself.    *)
Undone ==
    /\ Len(kv.cells) <= MaxSeqLen /\ published = pos
    /\ ~OnDevice(kv) => /\ Len(kv.cells) <= pos /\ RingTop(kv, pos)
                        /\ ~hole => Faithful(kv, pos)

LEMMA RecoveringIs ==
    ASSUME IsAppend(call), call' = [call EXCEPT !.op = "recovering"]
    PROVE  /\ IsAppend(call') /\ call'.op = "recovering"
           /\ call'.guarded = call.guarded /\ call'.begun = call.begun
           /\ call'.mutation = call.mutation /\ call'.before = call.before
           /\ call'.todo = call.todo /\ call'.fed = call.fed
BY DEF IsAppend

LEMMA FailingInv ==
    ASSUME SessionInv, call.op = "append", Fails, StateTyped', UNCHANGED <<usable, stored>>,
           ~call.guarded => RestsWell',
           call.guarded => Undone' /\ hole' = hole
                           /\ (call.mutation = "none" => UNCHANGED <<kv, pos, history, logits>>)
                           /\ (call.mutation = "tail" => Grown(kv', history', call.before))
    PROVE  SessionInv'
<1>1. IsAppend(call) /\ usable /\ Appends
  BY Appended
<1>2. StoredInv'
  BY DEF SessionInv, StoredInv
<1>3. CASE ~call.guarded
  BY <1>2, <1>3, Landing DEF Fails
<1>4. CASE call.guarded
  <2>1. call' = [call EXCEPT !.op = "recovering"]
    BY <1>4 DEF Fails
  <2>2. /\ IsAppend(call') /\ call'.op = "recovering"
        /\ call'.guarded = call.guarded /\ call'.mutation = call.mutation
        /\ call'.before = call.before
    BY <1>1, <2>1, RecoveringIs
  <2>3. Appends' /\ CallTyped'
    BY <1>1, <1>4, <2>2 DEF CallTyped, Appends
  <2>4. RoomInv'
    BY <1>4, <2>2 DEF RoomInv, Undone
  <2>5. EdgeInv'
    BY <1>4, <2>2 DEF EdgeInv, Undone
  <2>6. SeedInv' /\ SegmentInv'
    BY <2>2 DEF SeedInv, SegmentInv, AtRest
  <2>7. GuardInv'
    <3>1. /\ IsBefore(call.before)
          /\ call.mutation = "none" =>
                 /\ kv = call.before.kv /\ pos = call.before.pos
                 /\ history = call.before.history /\ logits = call.before.logits
      BY <1>1, <1>4, GuardIs DEF SessionInv
    <3>2. IsBefore(call.before)'
      BY <3>1, <1>4, <2>2, BeforeKept
    <3>3. CASE call.mutation = "none"
      BY <3>1, <3>2, <3>3, <1>4, <2>2 DEF GuardInv
    <3>4. CASE call.mutation = "tail"
      <4>1. Grown(kv', history', call'.before)
        BY <1>4, <2>2, <3>4
      <4>2. QED
        BY <3>2, <3>4, <4>1, <2>2 DEF GuardInv, Grown
    <3>5. CASE call.mutation \notin {"none", "tail"}
      BY <3>2, <3>5, <2>2 DEF GuardInv
    <3>6. QED
      BY <3>3, <3>4, <3>5
  <2>8. QED
    BY <1>2, <2>3, <2>4, <2>5, <2>6, <2>7 DEF SessionInv
<1>5. QED
  BY <1>1, <1>3, <1>4 DEF IsAppend

LEMMA RefuseInv ==
    ASSUME SessionInv, RefuseSegment
    PROVE  SessionInv'
<1>1. /\ call.op = "append" /\ ~call.begun /\ Fails
      /\ UNCHANGED <<kv, pos, published, history, logits, usable, cancel, report, stored, hole>>
  BY DEF RefuseSegment
<1>2. /\ usable /\ Len(kv.cells) <= MaxSeqLen /\ published = pos /\ Frontier = pos
      /\ Reaches(kv, pos) /\ IsSeed(logits, kv, pos) /\ Appends
      /\ ~hole => Faithful(kv, pos)
  BY <1>1, Appended
<1>3. StateTyped'
  BY <1>1 DEF SessionInv, StateTyped
<1>4. RestsWell'
  BY <1>1, <1>2 DEF RestsWell
<1>5. Undone'
  BY <1>1, <1>2 DEF Undone, Reaches
<1>6. call.guarded /\ call.mutation = "tail" => Grown(kv', history', call.before)
  BY <1>1, <1>2, GuardIs DEF SessionInv
<1>7. QED
  BY <1>1, <1>3, <1>4, <1>5, <1>6, FailingInv

(* An append begins.                                                       *)
LEMMA AppendingIs ==
    ASSUME NEW guarded \in BOOLEAN, NEW todo \in Seq(Segments), todo # <<>>
    PROVE  LET c == Appending(guarded, todo) IN
           /\ IsAppend(c) /\ c.op = "append" /\ c.guarded = guarded /\ c.todo = todo
           /\ ~c.begun /\ c.fed = 0 /\ c.mutation = "none"
           /\ guarded => c.before = Before
BY DEF Appending, IsAppend

LEMMA OpensInv ==
    ASSUME StateTyped', StoredInv', RestsWell', usable',
           NEW guarded \in BOOLEAN, NEW todo \in Seq(Segments), todo # <<>>,
           IsAppend(call'), call'.op = "append", call'.guarded = guarded, call'.todo = todo,
           ~call'.begun, call'.fed = 0, call'.mutation = "none",
           NEW b, guarded => call'.before = b,
           b.pos = pos', b.history = history', b.logits = logits', b.kv = kv',
           b.rewindable = CheckRewind(kv', pos')
    PROVE  SessionInv'
<1>2. /\ usable' /\ Len(kv'.cells) <= MaxSeqLen /\ Reaches(kv', pos') /\ published' = pos'
      /\ ~hole' => Faithful(kv', pos')
      /\ IsSeed(logits', kv', pos')
  BY DEF RestsWell
<1>4. CallTyped' /\ Appends'
  BY DEF CallTyped, Appends
<1>5. Len(Rows') \in Nat \ {0} /\ Soft' \in BOOLEAN
  <2>1. Head(todo) \in Segments
    BY HeadTailProperties
  <2>2. Head(todo).rows \in Seq(AnyRow) /\ Head(todo).rows # <<>> /\ Head(todo).soft \in BOOLEAN
    BY <2>1, SegmentRows
  <2> DEFINE r == Head(todo).rows
  <2>3. Rows' = r /\ Soft' = Head(todo).soft
    BY DEF Rows, Soft
  <2> HIDE DEF r
  <2>4. Len(r) \in Nat \ {0}
    BY <2>2, LenProperties, EmptySeq DEF r
  <2>5. QED
    BY <2>2, <2>3, <2>4
<1>6. pos' \in Nat
  BY SessionAssumption DEF StateTyped
<1>7. Frontier' = pos' /\ Edge' = pos'
  BY <1>5, <1>6 DEF Frontier, Edge
<1>8. RoomInv'
  BY <1>2, <1>5 DEF RoomInv
<1>9. EdgeInv'
  BY <1>2, <1>7 DEF EdgeInv, Reaches
<1>10. SeedInv'
  BY <1>2 DEF SeedInv, AtRest
<1>11. GuardInv'
  <2> SUFFICES ASSUME guarded PROVE GuardInv'
    BY DEF GuardInv
  <2>1. call'.before = b
    OBVIOUS
  <2>2. IsBefore(call.before)'
    BY <1>2, <2>1 DEF IsBefore, StateTyped
  <2>3. QED
    BY <2>1, <2>2 DEF GuardInv
<1>12. SegmentInv'
  BY DEF SegmentInv
<1>13. QED
  BY <1>4, <1>8, <1>9, <1>10, <1>11, <1>12 DEF SessionInv

LEMMA StartsInv ==
    ASSUME SessionInv, AtRest, usable,
           NEW guarded \in BOOLEAN, NEW todo \in Seq(Segments), todo # <<>>,
           call' = Appending(guarded, todo),
           UNCHANGED <<kv, pos, published, history, logits, usable, cancel, report, stored, hole>>
    PROVE  SessionInv'
<1>1. /\ IsAppend(call') /\ call'.op = "append" /\ call'.guarded = guarded
      /\ call'.todo = todo
      /\ ~call'.begun /\ call'.fed = 0 /\ call'.mutation = "none"
      /\ guarded => call'.before = Before
  BY AppendingIs
<1>2. RestsWell'
  BY Resting DEF RestsWell, IsSeed, Reaches, RingTop, Faithful
<1>3. StateTyped' /\ StoredInv'
  BY DEF SessionInv, StateTyped, StoredInv
<1>4. /\ Before.pos = pos' /\ Before.history = history' /\ Before.logits = logits'
      /\ Before.rewindable = CheckRewind(kv', pos') /\ Before.kv = kv'
  BY DEF Before
<1> DEFINE b == Before
<1>5. /\ b.pos = pos' /\ b.history = history' /\ b.logits = logits'
      /\ b.rewindable = CheckRewind(kv', pos') /\ b.kv = kv'
      /\ guarded => call'.before = b
  BY <1>1, <1>4
<1> HIDE DEF b
<1>6. QED
  BY <1>1, <1>2, <1>3, <1>5, OpensInv

LEMMA StartInv ==
    ASSUME SessionInv, StartAppend \/ StartIngest
    PROVE  SessionInv'
<1>1. CASE StartAppend
  <2>1. PICK seg \in Prompts : call' = Appending(FALSE, <<seg>>)
    BY <1>1 DEF StartAppend
  <2>2. <<seg>> \in Seq(Segments) /\ <<seg>> # <<>>
    BY DEF Segments
  <2>3. QED
    BY <1>1, <2>1, <2>2, StartsInv DEF StartAppend
<1>2. CASE StartIngest
  <2>1. PICK m \in Messages : Ingests(m)
    BY <1>2 DEF StartIngest
  <2>2. m \in Seq(Segments) /\ m # <<>>
    BY MessageSegments
  <2>3. QED
    BY <2>1, <2>2, StartsInv DEF Ingests
<1>3. QED
  BY <1>1, <1>2

(* A segment is begun.                                                     *)
LEMMA BegunIs ==
    ASSUME IsAppend(call), NEW mutation \in {"tail", "destructive"}, NEW from, NEW cells,
           Begun(mutation, from, cells)
    PROVE  /\ IsAppend(call') /\ call'.op = call.op
           /\ call'.guarded = call.guarded /\ call'.begun
           /\ call'.mutation = mutation /\ call'.before = call.before
           /\ call'.todo = call.todo /\ call'.fed = call.fed
           /\ call'.base.pos = from /\ call'.base.cells = cells
BY DEF IsAppend, Begun

(* The newest snapshot of the frontier is the state at the frontier.       *)
LEMMA TopOfRing ==
    ASSUME NEW k, Bounded(k), NEW at \in Nat, AtEnd(k, at), RingTop(k, at)
    PROVE  TopAt(k, at, k.conv)
<1> DEFINE ring == k.ring
           l == Len(ring)
<1>1. ring \in Seq(Snapshots) /\ l \in Nat /\ DOMAIN ring = 1 .. l
  BY KvFields, LenProperties DEF Bounded
<1> SUFFICES ASSUME NEW i \in DOMAIN ring, ring[i].at = at,
                    \A j \in DOMAIN ring : ring[j].at = at => j <= i
             PROVE  ring[i].conv = k.conv
  BY DEF TopAt
<1>2. i \in 1 .. l /\ l \in 1 .. l
  BY <1>1
<1>3. ring # <<>>
  BY <1>1, <1>2, EmptySeq
<1>4. ring[l] = [at |-> at, conv |-> k.conv]
  BY <1>3 DEF RingTop, AtEnd
<1>5. l <= i
  BY <1>1, <1>2, <1>4
<1>6. i = l
  BY <1>1, <1>2, <1>5
<1>7. QED
  BY <1>4, <1>6

LEMMA GrownAtFirst ==
    ASSUME NEW k, Bounded(k), NEW h \in Seq(AnyRow), NEW b, b.kv = k, b.history = h,
           b.pos \in Nat, Reaches(k, b.pos)
    PROVE  Grown(k, h, b)
<1>1. First(h, Len(h)) = h /\ Len(h) \in Nat
  BY FirstAll, LenProperties
<1>2. k.cells \in Seq(AnyCell) /\ Len(k.cells) \in Nat
  BY KvFields DEF Bounded
<1>3. ASSUME Len(k.cells) = b.pos PROVE Extends(k, b)
  <2>1. First(k.cells, b.pos) = k.cells
    BY <1>2, <1>3, FirstAll
  <2> DEFINE bp == b.pos
  <2>2. bp \in Nat /\ AtEnd(k, bp) /\ (~OnDevice(k) => RingTop(k, bp))
    BY <1>3 DEF AtEnd, Reaches
  <2> HIDE DEF bp
  <2>3. ~OnDevice(k) => TopAt(k, bp, k.conv)
    BY <2>2, TopOfRing
  <2>4. Len(k.cells) >= b.pos
    BY <1>2, <1>3
  <2>5. QED
    BY <2>1, <2>3, <2>4 DEF Extends, bp
<1>4. QED
  BY <1>1, <1>3 DEF Grown

LEMMA BeginInv ==
    ASSUME SessionInv, BeginSegment
    PROVE  SessionInv'
<1> DEFINE mutation == IF call.mutation = "none" THEN "tail" ELSE call.mutation
<1>1. /\ call.op = "append" /\ ~call.begun /\ Over = 0 /\ Begun(mutation, pos, kv.cells)
      /\ UNCHANGED <<kv, pos, published, history, logits, usable, cancel, report, stored, hole>>
  BY DEF BeginSegment
<1>2. /\ IsAppend(call) /\ usable /\ Appends
      /\ Rows \in Seq(AnyRow) /\ Len(Rows) \in Nat \ {0} /\ Soft \in BOOLEAN
      /\ call.fed = 0 /\ call.fed < Len(Rows) /\ MaxSeqLen \in Nat
      /\ Len(kv.cells) <= MaxSeqLen /\ published = pos /\ Frontier = pos /\ pos \in Nat
      /\ Reaches(kv, pos)
      /\ ~hole => Faithful(kv, pos)
  BY <1>1, Appended
<1>3. mutation \in {"tail", "destructive"}
  BY <1>2 DEF IsAppend
<1>4. /\ IsAppend(call') /\ call'.op = "append"
      /\ call'.guarded = call.guarded /\ call'.begun
      /\ call'.mutation = mutation /\ call'.before = call.before
      /\ call'.todo = call.todo /\ call'.fed = 0
      /\ call'.base.pos = pos /\ call'.base.cells = kv.cells
  BY <1>1, <1>2, <1>3, BegunIs
<1> HIDE DEF mutation
<1>5. StateTyped' /\ StoredInv'
  BY <1>1 DEF SessionInv, StateTyped, StoredInv
<1>6. CallTyped' /\ Appends'
  BY <1>1, <1>2, <1>4 DEF CallTyped, Appends
<1>7. Rows' = Rows /\ Soft' = Soft /\ Frontier' = pos /\ Edge' = pos
  <2>1. Rows' = Rows /\ Soft' = Soft
    BY <1>4 DEF Rows, Soft
  <2>2. Frontier' = pos
    BY <2>1, <1>1, <1>2, <1>4 DEF Frontier
  <2>3. QED
    BY <2>1, <2>2, <1>4 DEF Edge
<1>8. RoomInv'
  <2>1. pos + Len(Rows) <= MaxSeqLen
    BY <1>1, <1>2 DEF Over
  <2>2. pos + Len(Rows) - 0 <= MaxSeqLen
    BY <2>1, <1>2
  <2>3. QED
    BY <2>2, <1>1, <1>2, <1>3, <1>4, <1>7 DEF RoomInv
<1>9. EdgeInv'
  BY <1>1, <1>2, <1>4, <1>7 DEF EdgeInv, Reaches
<1>10. SeedInv'
  BY <1>4 DEF SeedInv, AtRest
<1>11. GuardInv'
  <2> SUFFICES ASSUME call.guarded PROVE GuardInv'
    BY <1>4 DEF GuardInv
  <2>1. /\ IsBefore(call.before)
        /\ call.mutation = "none" =>
              /\ kv = call.before.kv /\ pos = call.before.pos
              /\ history = call.before.history
        /\ call.mutation = "tail" => /\ Grown(kv, history, call.before)
                                     /\ Edge >= call.before.pos
    BY <1>1, <1>2, GuardIs DEF SessionInv
  <2>2. IsBefore(call.before)'
    BY <1>1, <1>4, <2>1, BeforeKept
  <2>3. mutation = "tail" => Grown(kv, history, call.before) /\ pos >= call.before.pos
    <3>1. CASE call.mutation = "none"
      <4> DEFINE b == call.before
      <4>1. b.kv = kv /\ b.history = history /\ b.pos = pos
        BY <2>1, <3>1
      <4>2. Bounded(kv) /\ history \in Seq(AnyRow)
        BY DEF SessionInv, StateTyped, Bounded, AnyKv
      <4> HIDE DEF b
      <4>3. Grown(kv, history, b)
        BY <4>1, <4>2, <1>2, GrownAtFirst
      <4>4. QED
        BY <4>1, <4>3, <1>2 DEF b
    <3>2. CASE call.mutation # "none"
      BY <2>1, <3>2, <1>1, <1>2 DEF mutation, Edge
    <3>3. QED
      BY <3>1, <3>2
  <2>4. mutation # "none"
    BY <1>3
  <2>5. QED
    BY <2>2, <2>3, <2>4, <1>1, <1>4, <1>7 DEF GuardInv, Grown
<1>12. SegmentInv'
  <2>1. kv.cells \in Seq([row : AnyRow, clean : BOOLEAN]) /\ RowsOf(kv.cells) \in Seq(AnyRow)
    BY KvFields, CellRows DEF SessionInv, StateTyped, AnyKv, AnyCell
  <2>2. First(Rows, 0) = <<>>
    BY <1>2, FirstOf, EmptySeq
  <2>3. RowsOf(kv.cells) \o <<>> = RowsOf(kv.cells)
    BY <2>1, ConcatEmptySeq
  <2>4. pos = pos + (IF Soft THEN 0 ELSE 0)
    BY <1>2
  <2>5. QED
    BY <2>1, <2>2, <2>3, <2>4, <1>1, <1>2, <1>4, <1>7 DEF SegmentInv
<1>13. QED
  BY <1>5, <1>6, <1>8, <1>9, <1>10, <1>11, <1>12 DEF SessionInv

LEMMA DropHistoryTyped ==
    ASSUME NEW h \in Seq(AnyRow), NEW from \in Nat, NEW n \in Nat
    PROVE  DropHistory(h, from, n) \in Seq(AnyRow)
<1> DEFINE l == Len(h)
           m == IF from < l THEN from ELSE l
           b == SubSeq(h, from + n + 1, l)
<1>1. l \in Nat
  BY LenProperties
<1>2. First(h, m) \in Seq(AnyRow)
  <2>1. m \in 0 .. l
    BY <1>1
  <2> HIDE DEF m
  <2>2. QED
    BY <2>1, FirstOf
<1>3. b \in Seq(AnyRow)
  <2> DEFINE a == from + n + 1
  <2>1. a \in Int /\ l \in Int /\ \A i \in a .. l : h[i] \in AnyRow
    BY <1>1, ElementOfSeq
  <2> HIDE DEF a, l
  <2>2. SubSeq(h, a, l) \in Seq(AnyRow)
    BY <2>1, SubSeqProperties
  <2>3. QED
    BY <2>2 DEF a
<1>4. DropHistory(h, from, n) = First(h, m) \o b
  BY DEF DropHistory
<1> HIDE DEF m, b
<1>5. QED
  BY <1>2, <1>3, <1>4, ConcatProperties

LEMMA ShiftedInv ==
    ASSUME SessionInv, BeginShifted
    PROVE  SessionInv'
<1>1. /\ call.op = "append" /\ ~call.begun
      /\ Over > 0 /\ CanShift(kv, NKeep, pos, Over) /\ HasToDrop(kv, NKeep, Over)
      /\ kv' = Shift(kv, NKeep, Over)
      /\ pos' = pos - Over /\ published' = pos - Over
      /\ history' = DropHistory(history, NKeep, Over)
      /\ logits' = None
      /\ Begun("destructive", pos', kv'.cells)
      /\ UNCHANGED <<usable, cancel, report, stored, hole>>
  BY DEF BeginShifted
<1>2. /\ IsAppend(call) /\ usable /\ Appends
      /\ Rows \in Seq(AnyRow) /\ Len(Rows) \in Nat \ {0} /\ Soft \in BOOLEAN
      /\ call.fed = 0 /\ call.fed < Len(Rows) /\ MaxSeqLen \in Nat
      /\ Len(kv.cells) <= MaxSeqLen /\ Len(kv.cells) \in Nat
      /\ Frontier = pos /\ pos \in Nat /\ pos <= MaxSeqLen
      /\ CanTake(kv, pos)
      /\ ~hole => Faithful(kv, pos)
  BY <1>1, Appended
<1>3. kv.backend = "cpu" /\ NKeep \in Nat \ {0} /\ pos >= NKeep + Over /\ ~OnDevice(kv)
  BY <1>1, SessionAssumption DEF CanShift, OnDevice
<1>4. Over \in Nat /\ Over = pos + Len(Rows) - MaxSeqLen
  BY <1>1, <1>2 DEF Over
<1> DEFINE over == Over
           p == pos - Over
<1>5. p \in Nat /\ p <= MaxSeqLen /\ pos' = p /\ published' = p /\ p + Len(Rows) - 0 <= MaxSeqLen
  BY <1>1, <1>2, <1>3, <1>4
<1>6. /\ Bounded(kv') /\ Marked(kv') /\ kv'.backend = "cpu" /\ kv'.dropped
      /\ Len(kv'.cells) = Len(kv.cells) - over
  <2>1. over \in Nat /\ HasToDrop(kv, NKeep, over) /\ kv' = Shift(kv, NKeep, over)
    BY <1>1, <1>4
  <2>2. Bounded(kv) /\ Marked(kv)
    BY <1>2 DEF CanTake
  <2> HIDE DEF over
  <2>3. QED
    BY <2>1, <2>2, <1>3, ShiftIs
<1>7. /\ Len(kv'.cells) <= MaxSeqLen /\ Len(kv'.cells) <= MaxSeqLen + 1
      /\ Len(kv'.cells) <= p /\ (Len(kv.cells) = pos => Len(kv'.cells) = p)
      /\ ~OnDevice(kv')
  BY <1>2, <1>3, <1>4, <1>6 DEF OnDevice, CanTake
<1>8. /\ IsAppend(call') /\ call'.op = "append"
      /\ call'.guarded = call.guarded /\ call'.begun
      /\ call'.mutation = "destructive" /\ call'.before = call.before
      /\ call'.todo = call.todo /\ call'.fed = 0
      /\ call'.base.pos = pos' /\ call'.base.cells = kv'.cells
  BY <1>1, <1>2, BegunIs
<1> HIDE DEF p, over
<1>9. history' \in Seq(AnyRow)
  BY <1>1, <1>3, <1>4, DropHistoryTyped DEF SessionInv, StateTyped
<1>10. StateTyped' /\ StoredInv'
  <2>1. p \in 0 .. MaxSeqLen
    BY <1>5
  <2>2. QED
    BY <2>1, <1>1, <1>5, <1>6, <1>7, <1>9 DEF SessionInv, StateTyped, StoredInv, Bounded, AnyKv
<1>11. CallTyped' /\ Appends'
  BY <1>1, <1>2, <1>8 DEF CallTyped, Appends
<1>12. Rows' = Rows /\ Soft' = Soft /\ Frontier' = p /\ Edge' = p
  <2>1. Rows' = Rows /\ Soft' = Soft
    BY <1>8 DEF Rows, Soft
  <2>2. Frontier' = p
    BY <2>1, <1>2, <1>5, <1>8 DEF Frontier
  <2>3. QED
    BY <2>1, <2>2, <1>8 DEF Edge
<1>13. RoomInv'
  BY <1>1, <1>2, <1>5, <1>7, <1>8, <1>12 DEF RoomInv
<1>14. EdgeInv'
  <2>1. Shifted'
    BY <1>8 DEF Shifted
  <2>2. ~hole' => Faithful(kv', p)
    BY <1>1, <1>2, <1>6, <1>7 DEF Faithful
  <2>3. QED
    BY <2>1, <2>2, <1>5, <1>7, <1>8, <1>12 DEF EdgeInv
<1>15. SeedInv'
  BY <1>8 DEF SeedInv, AtRest
<1>16. GuardInv'
  <2> SUFFICES ASSUME call.guarded PROVE GuardInv'
    BY <1>8 DEF GuardInv
  <2>1. IsBefore(call.before)'
    BY <1>1, <1>2, <1>8, GuardIs, BeforeKept DEF SessionInv
  <2>2. QED
    BY <2>1, <1>8 DEF GuardInv
<1>17. SegmentInv'
  <2>1. kv'.cells \in Seq([row : AnyRow, clean : BOOLEAN]) /\ RowsOf(kv'.cells) \in Seq(AnyRow)
    BY <1>6, KvFields, CellRows DEF Bounded, AnyCell
  <2>2. First(Rows, 0) = <<>>
    BY <1>2, FirstOf, EmptySeq
  <2>3. RowsOf(kv'.cells) \o <<>> = RowsOf(kv'.cells)
    BY <2>1, ConcatEmptySeq
  <2>4. p = p + (IF Soft THEN 0 ELSE 0) /\ p \in Nat
    BY <1>5
  <2>5. QED
    BY <2>1, <2>2, <2>3, <2>4, <1>2, <1>5, <1>8, <1>12 DEF SegmentInv
<1>18. QED
  BY <1>10, <1>11, <1>13, <1>14, <1>15, <1>16, <1>17 DEF SessionInv

LEMMA ShiftPanicsInv ==
    ASSUME SessionInv, ShiftPanics
    PROVE  SessionInv'
<1>1. call.op = "append" /\ UNCHANGED <<kv, pos, published, history, cancel, stored, hole>>
  BY DEF ShiftPanics
<1>2. Len(kv.cells) <= MaxSeqLen /\ call.guarded \in BOOLEAN
  BY <1>1, Appended
<1>3. CASE call.guarded
  <2>1. usable' = FALSE /\ logits' = None /\ report' = "unusable" /\ call' = Rest
    BY <1>3 DEF ShiftPanics
  <2>2. Bounded(kv') /\ Marked(kv') /\ Len(kv'.cells) <= MaxSeqLen + 1
    BY <1>1 DEF SessionInv, StateTyped, Bounded, AnyKv
  <2>3. report' \in Outcomes \cup {None} /\ cancel' \in BOOLEAN
    BY <1>1, <2>1 DEF Outcomes, SessionInv, StateTyped
  <2>4. QED
    BY <2>1, <2>2, <2>3, <1>1, CondemnedInv
<1>4. CASE ~call.guarded
  <2>1. call' = Aborted /\ UNCHANGED <<usable, logits, report>>
    BY <1>4 DEF ShiftPanics
  <2>2. StateTyped' /\ StoredInv'
    BY <1>1, <2>1 DEF SessionInv, StateTyped, StoredInv
  <2>3. QED
    BY <1>1, <1>2, <2>1, <2>2, Crash
<1>5. QED
  BY <1>2, <1>3, <1>4

(* A chunk the accelerator fails at.                                       *)
LEMMA ChunkFaultsInv ==
    ASSUME SessionInv, ChunkFaults
    PROVE  SessionInv'
<1>1. /\ call.op = "append" /\ call.begun
      /\ kv' \in FaultedFeeds(kv, Chunk, Frontier)
      /\ logits' = None /\ Fails
      /\ hole' = (hole \/ ~call.guarded)
      /\ UNCHANGED <<pos, published, history, usable, cancel, report, stored>>
  BY DEF ChunkFaults
<1>2. /\ IsAppend(call) /\ usable /\ Appends /\ call.guarded \in BOOLEAN
      /\ Len(Rows) \in Nat \ {0} /\ call.fed \in Nat /\ call.fed < Len(Rows)
      /\ Edge = Frontier /\ Frontier \in Nat /\ Frontier >= pos
      /\ MaxSeqLen \in Nat /\ pos \in Nat /\ published = pos
      /\ CanTake(kv, Frontier) /\ Len(kv.cells) <= MaxSeqLen /\ Len(kv.cells) \in Nat
      /\ Frontier + Len(Rows) - call.fed <= MaxSeqLen
      /\ call.mutation # "none"
  BY <1>1, Appended
<1>3. /\ Chunk \in Seq(AnyRow) /\ Len(Chunk) \in Nat
      /\ FedAfter = call.fed + Len(Chunk) /\ FedAfter \in 1 .. Len(Rows)
  BY <1>2, ChunkIs
<1> DEFINE at == Frontier
           ch == Chunk
           k == kv
           Hit(n) == /\ OnDevice(k) /\ Bounded(n) /\ Marked(n)
                     /\ n.backend = k.backend /\ n.dropped = k.dropped
                     /\ Len(n.cells) \in Nat /\ Len(n.cells) >= at
                     /\ Len(n.cells) <= Len(k.cells) \/ Len(n.cells) < at + Len(ch)
                     /\ First(n.cells, at) = First(k.cells, at)
                     /\ n = k \/ n.torn \/ Len(n.cells) > at
<1>4. Hit(kv')
  <2>1. at \in Nat /\ CanTake(k, at) /\ ch \in Seq(AnyRow)
    BY <1>2, <1>3
  <2>2. PICK n \in FaultedFeeds(k, ch, at) : kv' = n
    BY <1>1
  <2> HIDE DEF at, ch, k
  <2>3. Hit(n)
    BY <2>1, FaultedIs
  <2> HIDE DEF Hit
  <2>4. QED
    BY <2>2, <2>3
<1>5. Len(kv'.cells) <= MaxSeqLen /\ Len(kv'.cells) >= pos /\ OnDevice(kv')
  <2>1. at + Len(ch) <= MaxSeqLen
    BY <1>2, <1>3
  <2>2. QED
    BY <2>1, <1>2, <1>3, <1>4 DEF OnDevice
<1>6. StateTyped'
  <2>1. Len(kv'.cells) <= MaxSeqLen + 1
    BY <1>2, <1>4, <1>5
  <2>2. hole' \in BOOLEAN
    BY <1>1, <1>2 DEF SessionInv, StateTyped
  <2>3. QED
    BY <2>1, <2>2, <1>1, <1>4 DEF SessionInv, StateTyped, Bounded, AnyKv
<1>7. ~call.guarded => RestsWell'
  BY <1>1, <1>2, <1>5 DEF RestsWell, Reaches, IsSeed
<1>8. call.guarded => Undone' /\ hole' = hole
  BY <1>1, <1>2, <1>5 DEF Undone, SessionInv, StateTyped
<1>9. ASSUME call.guarded, call.mutation = "tail" PROVE Grown(kv', history', call.before)
  <2> DEFINE b == call.before
             bp == b.pos
  <2>1. Grown(kv, history, b) /\ at >= bp /\ bp \in Nat
    <3>1. Grown(kv, history, b) /\ Edge >= bp /\ IsBefore(b)
      BY <1>1, <1>2, <1>9, GuardIs DEF SessionInv
    <3>2. QED
      BY <3>1, <1>2 DEF IsBefore
  <2>2. ASSUME b.rewindable, Len(b.kv.cells) = bp PROVE Extends(kv', b)
    <3>1. Extends(kv, b) /\ Len(kv.cells) >= bp /\ First(kv.cells, bp) = b.kv.cells
      BY <2>1, <2>2 DEF Grown, Extends
    <3>2. Len(kv'.cells) >= bp
      BY <2>1, <1>2, <1>4
    <3>3. First(kv'.cells, bp) = First(kv.cells, bp)
      <4> DEFINE nc == kv'.cells
                 kc == kv.cells
      <4>1. nc \in Seq(AnyCell) /\ kc \in Seq(AnyCell)
        BY <1>2, <1>4, KvFields DEF Bounded, CanTake
      <4>2. First(nc, at) = First(kc, at) /\ at \in 0 .. Len(nc) /\ at \in 0 .. Len(kc) /\ bp \in 0 .. at
        BY <2>1, <1>2, <1>4 DEF CanTake
      <4> HIDE DEF nc, kc, at, bp
      <4>3. First(First(nc, at), bp) = First(nc, bp) /\ First(First(kc, at), bp) = First(kc, bp)
        BY <4>1, <4>2, FirstFirst
      <4>4. QED
        BY <4>2, <4>3 DEF nc, kc
    <3>4. Len(kv'.cells) > bp \/ kv'.torn \/ kv' = b.kv
      <4>1. CASE kv' = kv
        BY <4>1, <3>1 DEF Extends
      <4>2. CASE Len(kv'.cells) > at
        BY <4>2, <2>1, <1>2, <1>4
      <4>3. QED
        BY <4>1, <4>2, <1>4
    <3>5. QED
      BY <3>1, <3>2, <3>3, <3>4, <1>5 DEF Extends
  <2>3. QED
    BY <2>1, <2>2, <1>1, <1>4 DEF Grown
<1>10. QED
  BY <1>1, <1>2, <1>6, <1>7, <1>8, <1>9, FailingInv

(* A chunk that goes in.                                                   *)
Joined(h) == \E x \in Seq(AnyRow) : h = history \/ h = history \o x

ChunkGoesIn ==
    /\ call.op = "append" /\ call.begun
    /\ kv' = Feed(kv, Chunk, Frontier)
    /\ Joined(history') /\ published' = pos'
    /\ report' \in Outcomes \cup {None}
    /\ UNCHANGED <<usable, cancel, stored, hole>>

After == Frontier + Len(Chunk)

LEMMA ChunkFed ==
    ASSUME SessionInv, ChunkGoesIn
    PROVE  /\ After \in Nat /\ After > 0 /\ After <= MaxSeqLen
           /\ Bounded(kv') /\ Marked(kv') /\ SameMakeOf(kv', kv) /\ CanTake(kv', After)
           /\ Len(kv'.cells) \in Nat /\ Len(kv'.cells) <= MaxSeqLen
           /\ OnDevice(kv') => Len(kv'.cells) = After
           /\ Reaches(kv', After)
           /\ ~hole => Faithful(kv', After)
           /\ history' \in Seq(AnyRow)
           /\ call.guarded => IsBefore(call.before)
           /\ call.guarded /\ call.mutation = "tail" =>
                 Grown(kv', history', call.before) /\ After >= call.before.pos
           /\ ~call.guarded /\ ~hole =>
                 RowsOf(kv'.cells) = RowsOf(call.base.cells) \o First(Rows, FedAfter)
<1>1. /\ IsAppend(call) /\ usable /\ Appends /\ call.op = "append" /\ call.begun
      /\ Rows \in Seq(AnyRow) /\ Len(Rows) \in Nat \ {0} /\ call.fed \in Nat /\ call.fed < Len(Rows)
      /\ Edge = Frontier /\ Frontier \in Nat
      /\ MaxSeqLen \in Nat
      /\ CanTake(kv, Frontier)
      /\ ~hole => Faithful(kv, Frontier)
      /\ Frontier + Len(Rows) - call.fed <= MaxSeqLen
  BY Appended DEF ChunkGoesIn
<1>2. /\ Chunk \in Seq(AnyRow) /\ Chunk # <<>> /\ Len(Chunk) \in Nat \ {0}
      /\ FedAfter = call.fed + Len(Chunk) /\ FedAfter \in 1 .. Len(Rows)
      /\ First(Rows, call.fed) \o Chunk = First(Rows, FedAfter)
  BY <1>1, ChunkIs
<1> DEFINE at == Frontier
           ch == Chunk
           k == kv
           n == Feed(k, ch, at)
           to == at + Len(ch)
<1>3. to \in Nat /\ to > 0 /\ to <= MaxSeqLen /\ to >= at /\ After = to
  BY <1>1, <1>2 DEF After
<1>4. at \in Nat /\ CanTake(k, at) /\ ch \in Seq(AnyRow) /\ ch # <<>> /\ kv' = n
  BY <1>1, <1>2 DEF ChunkGoesIn
<1> HIDE DEF at, ch, k
<1>5. /\ Bounded(n) /\ Marked(n) /\ SameMakeOf(n, k) /\ CanTake(n, to)
      /\ n.cells # <<>> /\ Len(n.cells) \in Nat /\ Len(n.cells) <= to
      /\ OnDevice(k) => Len(n.cells) = to
      /\ Reaches(n, to)
      /\ Faithful(k, at) => Faithful(n, to)
  BY <1>4, FeedReaches
<1>6. OnDevice(n) => Len(n.cells) = to
  BY <1>5 DEF SameMakeOf, OnDevice
<1>7. history \in Seq(AnyRow)
  BY DEF SessionInv, StateTyped
<1>8. history' \in Seq(AnyRow)
  <2>1. PICK x \in Seq(AnyRow) : history' = history \/ history' = history \o x
    BY DEF ChunkGoesIn, Joined
  <2>2. history \o x \in Seq(AnyRow)
    BY <1>7, ConcatProperties
  <2>3. QED
    BY <2>1, <2>2, <1>7
<1>9. call.guarded => IsBefore(call.before)
  BY <1>1, GuardIs DEF SessionInv
<1>10. ASSUME call.guarded, call.mutation = "tail"
       PROVE  Grown(n, history', call.before) /\ to >= call.before.pos
  <2> DEFINE b == call.before
             h == history
  <2>1. Grown(k, h, b) /\ at >= b.pos /\ b.history \in Seq(AnyRow) /\ b.pos \in Nat
    <3>1. Grown(kv, history, b) /\ Edge >= b.pos /\ IsBefore(b)
      BY <1>1, <1>10, GuardIs DEF SessionInv
    <3>2. QED
      BY <3>1, <1>1 DEF IsBefore, at, k
  <2>2. PICK x \in Seq(AnyRow) : history' = h \/ history' = h \o x
    BY DEF ChunkGoesIn, Joined
  <2>3. Grown(n, h, b) /\ Grown(n, h \o x, b)
    <3>1. h \in Seq(AnyRow) /\ b.pos <= at
      BY <2>1, <1>4, <1>7
    <3> HIDE DEF b, h
    <3>2. QED
      BY <2>1, <3>1, <1>4, FedGrown
  <2>4. to >= b.pos
    BY <2>1, <1>3, <1>4
  <2> HIDE DEF b, h, n
  <2>5. Grown(n, history', b)
    BY <2>2, <2>3
  <2>6. QED
    BY <2>4, <2>5 DEF b
<1>11. ASSUME ~call.guarded, ~hole
       PROVE  RowsOf(n.cells) = RowsOf(call.base.cells) \o First(Rows, FedAfter)
  <2>1. /\ call.base.cells \in Seq(AnyCell)
        /\ RowsOf(k.cells) = RowsOf(call.base.cells) \o First(Rows, call.fed)
    BY <1>1, <1>11 DEF SessionInv, SegmentInv, AnyCell, k
  <2>2. AtEnd(k, at)
    BY <1>1, <1>11 DEF AtEnd, Faithful, k, at
  <2>3. RowsOf(n.cells) = RowsOf(k.cells) \o ch
    BY <2>2, <1>4, FeedAddsRows DEF CanTake
  <2> DEFINE base == RowsOf(call.base.cells)
             gone == First(Rows, call.fed)
  <2>4. base \in Seq(AnyRow) /\ gone \in Seq(AnyRow)
    <3>1. call.fed \in 0 .. Len(Rows)
      BY <1>1
    <3>2. gone \in Seq(AnyRow)
      BY <1>1, <3>1, FirstOf
    <3>3. QED
      BY <2>1, <3>2, CellRows
  <2>5. gone \o ch = First(Rows, FedAfter)
    BY <1>2 DEF ch
  <2> HIDE DEF base, gone, n
  <2>6. (base \o gone) \o ch = base \o (gone \o ch)
    BY <2>4, <1>4, ConcatAssociative
  <2>7. QED
    BY <2>1, <2>3, <2>5, <2>6 DEF base, gone
<1>12. Len(n.cells) <= MaxSeqLen
  BY <1>1, <1>3, <1>5
<1>13. ~hole => Faithful(n, to)
  BY <1>1, <1>5 DEF k, at
<1> HIDE DEF n, to
<1>14. QED
  BY <1>3, <1>4, <1>5, <1>6, <1>8, <1>9, <1>10, <1>11, <1>12, <1>13 DEF k

LEMMA FedTyped ==
    ASSUME SessionInv, ChunkGoesIn, pos' = After \/ pos' = pos
    PROVE  StateTyped' /\ StoredInv'
<1>1. /\ After \in Nat /\ After <= MaxSeqLen
      /\ Bounded(kv') /\ Marked(kv') /\ Len(kv'.cells) \in Nat /\ Len(kv'.cells) <= MaxSeqLen
      /\ history' \in Seq(AnyRow)
  BY ChunkFed
<1>2. MaxSeqLen \in Nat /\ pos \in 0 .. MaxSeqLen
  BY SessionAssumption DEF SessionInv, StateTyped
<1>3. pos' \in 0 .. MaxSeqLen /\ Len(kv'.cells) <= MaxSeqLen + 1
  BY <1>1, <1>2
<1>4. QED
  BY <1>1, <1>3 DEF SessionInv, StateTyped, StoredInv, ChunkGoesIn, Bounded, AnyKv

(* ... as the last of its segment,                                         *)
LEMMA BegunSet ==
    ASSUME NEW c, IsAppend(c), NEW v \in BOOLEAN
    PROVE  LET d == [c EXCEPT !.begun = v] IN
           /\ IsAppend(d) /\ d.op = c.op /\ d.guarded = c.guarded /\ d.begun = v
           /\ d.mutation = c.mutation /\ d.before = c.before
BY DEF IsAppend

LEMMA NextSegmentFields ==
    ASSUME NEW c, IsAppend(c), NEW t \in Seq(Segments), t # <<>>
    PROVE  LET d == [c EXCEPT !.todo = t, !.begun = FALSE, !.fed = 0] IN
           /\ IsAppend(d) /\ d.op = c.op
           /\ d.guarded = c.guarded /\ ~d.begun
           /\ d.mutation = c.mutation /\ d.before = c.before /\ d.fed = 0
<1> DEFINE d1 == [c EXCEPT !.todo = t]
           d2 == [d1 EXCEPT !.begun = FALSE]
           d3 == [d2 EXCEPT !.fed = 0]
<1>1. /\ IsAppend(d1) /\ d1.op = c.op /\ d1.guarded = c.guarded
      /\ d1.mutation = c.mutation /\ d1.before = c.before
  BY DEF IsAppend
<1> HIDE DEF d1
<1>2. /\ IsAppend(d2) /\ d2.op = d1.op /\ d2.guarded = d1.guarded /\ d2.begun = FALSE
      /\ d2.mutation = d1.mutation /\ d2.before = d1.before
  BY <1>1, BegunSet
<1> HIDE DEF d2
<1>3. /\ IsAppend(d3) /\ d3.op = d2.op /\ d3.guarded = d2.guarded /\ d3.begun = d2.begun
      /\ d3.mutation = d2.mutation /\ d3.before = d2.before /\ d3.fed = 0
  BY SMTT(40), <1>2 DEF IsAppend
<1> HIDE DEF d3
<1>4. [c EXCEPT !.todo = t, !.begun = FALSE, !.fed = 0] = d3
  BY DEF d1, d2, d3
<1>5. QED
  BY <1>1, <1>2, <1>3, <1>4

LEMMA NextSegmentIs ==
    ASSUME IsAppend(call), Len(call.todo) # 1,
           call' = [call EXCEPT !.todo = Tail(@), !.begun = FALSE, !.fed = 0]
    PROVE  /\ IsAppend(call') /\ call'.op = call.op
           /\ call'.guarded = call.guarded /\ ~call'.begun
           /\ call'.mutation = call.mutation /\ call'.before = call.before /\ call'.fed = 0
<1> DEFINE todo == call.todo
           t == Tail(todo)
           d == [call EXCEPT !.todo = t, !.begun = FALSE, !.fed = 0]
<1>1. todo \in Seq(Segments) /\ todo # <<>> /\ Len(todo) # 1
  BY DEF IsAppend
<1>2. call' = d
  OBVIOUS
<1> HIDE DEF todo, t
<1>3. t \in Seq(Segments) /\ Len(t) = Len(todo) - 1 /\ Len(todo) \in Nat
  BY <1>1, HeadTailProperties, LenProperties DEF t
<1>4. t # <<>>
  BY <1>1, <1>3, EmptySeq
<1>5. /\ IsAppend(d) /\ d.op = call.op
      /\ d.guarded = call.guarded /\ ~d.begun
      /\ d.mutation = call.mutation /\ d.before = call.before /\ d.fed = 0
  BY <1>3, <1>4, NextSegmentFields
<1> HIDE DEF d
<1>6. QED
  BY <1>2, <1>5

LEMMA SegmentDoneInv ==
    ASSUME SessionInv, ChunkGoesIn, pos' = After, logits' = Context(kv'),
           call' = IF Len(call.todo) = 1 THEN Rest
                   ELSE [call EXCEPT !.todo = Tail(@), !.begun = FALSE, !.fed = 0]
    PROVE  SessionInv'
<1>1. /\ After \in Nat /\ After > 0
      /\ Len(kv'.cells) <= MaxSeqLen
      /\ OnDevice(kv') => Len(kv'.cells) = After
      /\ Reaches(kv', After)
      /\ ~hole => Faithful(kv', After)
      /\ call.guarded => IsBefore(call.before)
      /\ call.guarded /\ call.mutation = "tail" =>
            Grown(kv', history', call.before) /\ After >= call.before.pos
  BY ChunkFed
<1>2. StateTyped' /\ StoredInv'
  BY FedTyped
<1>3. IsSeed(logits', kv', After)
  BY <1>1 DEF IsSeed
<1>4. /\ call.op = "append" /\ published' = After
      /\ UNCHANGED <<usable, cancel, stored, hole>>
  BY DEF ChunkGoesIn
<1>5. IsAppend(call) /\ usable /\ call.begun /\ call.mutation # "none"
  BY <1>4, Appended DEF ChunkGoesIn
<1>6. CASE Len(call.todo) = 1
  <2>1. call' = Rest
    BY <1>6
  <2>2. RestsWell'
    BY <1>1, <1>3, <1>4 DEF RestsWell
  <2>3. QED
    BY <2>1, <2>2, <1>2, Landing
<1>7. CASE Len(call.todo) # 1
  <2>1. /\ IsAppend(call') /\ call'.op = "append"
        /\ call'.guarded = call.guarded /\ ~call'.begun
        /\ call'.mutation = call.mutation /\ call'.before = call.before /\ call'.fed = 0
    BY <1>4, <1>5, <1>7, NextSegmentIs
  <2>2. Len(Rows') \in Nat \ {0} /\ Soft' \in BOOLEAN
    <3>1. IsAppend(call)'
      BY <2>1
    <3>2. (IsAppend(call) => Len(Rows) \in Nat \ {0} /\ Soft \in BOOLEAN)'
      BY AppendIs, PTL
    <3>3. QED
      BY <3>1, <3>2
  <2>3. Frontier' = After /\ Edge' = After
    BY <1>1, <2>1, <2>2 DEF Frontier, Edge
  <2>4. CallTyped' /\ Appends'
    BY <1>4, <1>5, <2>1 DEF CallTyped, Appends
  <2>5. RoomInv'
    BY <1>1, <2>1, <2>2 DEF RoomInv
  <2>6. EdgeInv'
    BY <1>1, <1>4, <2>1, <2>3 DEF EdgeInv, Reaches
  <2>7. SeedInv'
    BY <1>3, <2>1 DEF SeedInv, AtRest
  <2>8. GuardInv'
    <3> SUFFICES ASSUME call.guarded PROVE GuardInv'
      BY <2>1 DEF GuardInv
    <3>1. IsBefore(call.before)'
      BY <1>1, <1>4, <2>1, BeforeKept
    <3>2. call.mutation = "tail" => Grown(kv', history', call'.before) /\ Edge' >= call'.before.pos
      BY <1>1, <2>1, <2>3
    <3>3. QED
      BY <3>1, <3>2, <1>5, <2>1 DEF GuardInv, Grown
  <2>9. SegmentInv'
    BY <2>1 DEF SegmentInv
  <2>10. QED
    BY <1>2, <2>4, <2>5, <2>6, <2>7, <2>8, <2>9 DEF SessionInv
<1>8. QED
  BY <1>6, <1>7

(* ... as the last before the call is cancelled,                           *)
LEMMA StoppedInv ==
    ASSUME SessionInv, ChunkGoesIn, pos' = After, StopShort
    PROVE  SessionInv'
<1>1. /\ Len(kv'.cells) <= MaxSeqLen
      /\ Reaches(kv', After)
      /\ ~hole => Faithful(kv', After)
      /\ call.guarded /\ call.mutation = "tail" => Grown(kv', history', call.before)
  BY ChunkFed
<1>2. StateTyped'
  BY FedTyped
<1>3. /\ call.op = "append" /\ call.begun /\ published' = After
      /\ UNCHANGED <<usable, cancel, stored, hole>>
      /\ logits' = None /\ Fails
  BY DEF ChunkGoesIn, StopShort
<1>4. call.mutation # "none"
  BY <1>3, Appended
<1>5. RestsWell'
  BY <1>1, <1>3 DEF RestsWell, IsSeed
<1>6. Undone'
  BY <1>1, <1>3 DEF Undone, Reaches
<1>7. QED
  BY <1>1, <1>2, <1>3, <1>4, <1>5, <1>6, FailingInv

(* ... and with more to come.                                              *)
LEMMA MoreRowsIs ==
    ASSUME IsAppend(call), NEW n \in Nat, call' = [call EXCEPT !.fed = n]
    PROVE  /\ IsAppend(call') /\ call'.op = call.op
           /\ call'.guarded = call.guarded /\ call'.begun = call.begun
           /\ call'.mutation = call.mutation /\ call'.before = call.before
           /\ call'.todo = call.todo /\ call'.base = call.base /\ call'.fed = n
BY DEF IsAppend

LEMMA MoreRowsInv ==
    ASSUME SessionInv, ChunkGoesIn, FedAfter < Len(Rows), call' = [call EXCEPT !.fed = FedAfter],
           pos' = IF Soft THEN After ELSE pos
    PROVE  SessionInv'
<1>1. /\ After \in Nat
      /\ Len(kv'.cells) <= MaxSeqLen
      /\ OnDevice(kv') => Len(kv'.cells) = After
      /\ Reaches(kv', After)
      /\ ~hole => Faithful(kv', After)
      /\ call.guarded => IsBefore(call.before)
      /\ call.guarded /\ call.mutation = "tail" =>
            Grown(kv', history', call.before) /\ After >= call.before.pos
      /\ ~call.guarded /\ ~hole =>
            RowsOf(kv'.cells) = RowsOf(call.base.cells) \o First(Rows, FedAfter)
  BY ChunkFed
<1>2. StateTyped' /\ StoredInv'
  BY FedTyped
<1>3. /\ call.op = "append" /\ call.begun /\ published' = pos'
      /\ UNCHANGED <<usable, cancel, stored, hole>>
  BY DEF ChunkGoesIn
<1>4. /\ IsAppend(call) /\ usable
      /\ Rows \in Seq(AnyRow) /\ Len(Rows) \in Nat \ {0} /\ Soft \in BOOLEAN
      /\ call.fed \in Nat /\ call.fed < Len(Rows)
      /\ Frontier \in Nat /\ pos \in Nat /\ MaxSeqLen \in Nat
      /\ Frontier + Len(Rows) - call.fed <= MaxSeqLen
      /\ call.mutation # "none"
  BY <1>3, Appended
<1>5. /\ Len(Chunk) \in Nat \ {0} /\ FedAfter = call.fed + Len(Chunk)
      /\ FedAfter \in 1 .. Len(Rows) /\ FedAfter \in Nat
  BY <1>4, ChunkIs
<1>6. /\ IsAppend(call') /\ call'.op = "append"
      /\ call'.guarded = call.guarded /\ call'.begun
      /\ call'.mutation = call.mutation /\ call'.before = call.before
      /\ call'.todo = call.todo /\ call'.base = call.base /\ call'.fed = FedAfter
  BY <1>3, <1>4, <1>5, MoreRowsIs
<1>7. Rows' = Rows /\ Soft' = Soft
  BY <1>6 DEF Rows, Soft
<1>8. Frontier' = After /\ Edge' = After
  <2>1. Frontier' = IF Soft THEN pos' ELSE pos' + FedAfter
    BY <1>6, <1>7 DEF Frontier
  <2>2. After = IF Soft THEN pos' ELSE pos + call.fed + Len(Chunk)
    BY DEF After, Frontier
  <2>3. Frontier' = After
    BY <2>1, <2>2, <1>4, <1>5
  <2>4. QED
    BY <2>3, <1>6 DEF Edge
<1>9. CallTyped' /\ Appends'
  BY <1>3, <1>4, <1>6 DEF CallTyped, Appends
<1>10. RoomInv'
  <2>1. After + Len(Rows) - FedAfter <= MaxSeqLen
    BY <1>4, <1>5 DEF After
  <2>2. QED
    BY <2>1, <1>1, <1>4, <1>6, <1>7, <1>8 DEF RoomInv
<1>11. EdgeInv'
  BY <1>1, <1>3, <1>6, <1>8 DEF EdgeInv, Reaches
<1>12. SeedInv'
  BY <1>6 DEF SeedInv, AtRest
<1>13. GuardInv'
  <2> SUFFICES ASSUME call.guarded PROVE GuardInv'
    BY <1>6 DEF GuardInv
  <2>1. IsBefore(call.before)'
    BY <1>1, <1>3, <1>6, BeforeKept
  <2>2. call.mutation = "tail" => Grown(kv', history', call'.before) /\ Edge' >= call'.before.pos
    BY <1>1, <1>6, <1>8
  <2>3. QED
    BY <2>1, <2>2, <1>4, <1>6 DEF GuardInv, Grown
<1>14. SegmentInv'
  <2> SUFFICES ASSUME ~call.guarded PROVE SegmentInv'
    BY <1>6 DEF SegmentInv
  <2>1. /\ call.base.pos \in Nat
        /\ call.base.cells \in Seq([row : AnyRow, clean : BOOLEAN])
        /\ pos = call.base.pos + IF Soft THEN call.fed ELSE 0
    BY <1>3 DEF SessionInv, SegmentInv
  <2>2. pos' = call.base.pos + IF Soft THEN FedAfter ELSE 0
    <3>1. CASE Soft
      <4>1. pos' = pos + Len(Chunk)
        BY <3>1 DEF After, Frontier
      <4>2. QED
        BY <3>1, <4>1, <2>1, <1>4, <1>5
    <3>2. CASE ~Soft
      BY <3>2, <2>1, <1>4
    <3>3. QED
      BY <3>1, <3>2
  <2>3. ~hole' => RowsOf(kv'.cells) = RowsOf(call.base.cells) \o First(Rows, FedAfter)
    BY <1>1, <1>3
  <2>4. QED
    BY <2>1, <2>2, <2>3, <1>6, <1>7 DEF SegmentInv
<1>15. QED
  BY <1>2, <1>9, <1>10, <1>11, <1>12, <1>13, <1>14 DEF SessionInv

LEMMA PrefillIs ==
    ASSUME SessionInv, PrefillChunk
    PROVE  /\ ChunkGoesIn /\ ~Soft
           /\ \/ pos' = After /\ FedAfter = Len(Rows) /\ SegmentDone
              \/ pos' = After /\ FedAfter < Len(Rows) /\ cancel /\ StopShort
              \/ pos' = pos /\ FedAfter < Len(Rows) /\ call' = [call EXCEPT !.fed = FedAfter]
<1>1. /\ call.op = "append" /\ call.begun /\ ~Soft
      /\ kv' = Feed(kv, Chunk, Frontier)
      /\ \/ /\ FedAfter = Len(Rows)
            /\ pos' = pos + FedAfter
            /\ history' = history \o Rows
            /\ SegmentDone
         \/ /\ FedAfter < Len(Rows) /\ cancel
            /\ pos' = pos + FedAfter
            /\ history' = history \o First(Rows, FedAfter)
            /\ StopShort
            /\ UNCHANGED report
         \/ /\ FedAfter < Len(Rows)
            /\ call' = [call EXCEPT !.fed = FedAfter]
            /\ UNCHANGED <<pos, history, logits, report>>
      /\ published' = pos'
      /\ UNCHANGED <<usable, cancel, stored, hole>>
  BY DEF PrefillChunk
<1>2. /\ IsAppend(call) /\ Rows \in Seq(AnyRow) /\ call.fed \in Nat /\ call.fed < Len(Rows)
      /\ pos \in Nat
  BY <1>1, Appended
<1>3. /\ Len(Chunk) \in Nat /\ FedAfter = call.fed + Len(Chunk)
      /\ First(Rows, FedAfter) \in Seq(AnyRow)
  BY <1>2, ChunkIs
<1>4. pos + FedAfter = After
  BY <1>1, <1>2, <1>3 DEF After, Frontier
<1>5. Joined(history')
  BY <1>1, <1>2, <1>3 DEF Joined
<1>6. report' \in Outcomes \cup {None}
  <2>1. report \in Outcomes \cup {None}
    BY DEF SessionInv, StateTyped
  <2>2. QED
    BY <1>1, <2>1 DEF SegmentDone
<1>7. ChunkGoesIn
  BY <1>1, <1>5, <1>6 DEF ChunkGoesIn
<1>8. QED
  BY <1>1, <1>4, <1>7

LEMMA EmbeddingIs ==
    ASSUME SessionInv, EmbeddingChunk
    PROVE  /\ ChunkGoesIn /\ Soft /\ pos' = After
           /\ \/ FedAfter = Len(Rows) /\ SegmentDone
              \/ FedAfter < Len(Rows) /\ cancel /\ StopShort
              \/ FedAfter < Len(Rows) /\ call' = [call EXCEPT !.fed = FedAfter]
<1>1. /\ call.op = "append" /\ call.begun /\ Soft
      /\ kv' = Feed(kv, Chunk, Frontier)
      /\ pos' = pos + Len(Chunk) /\ published' = pos'
      /\ \/ /\ FedAfter = Len(Rows)
            /\ history' = history \o TextOf(Rows)
            /\ SegmentDone
         \/ /\ FedAfter < Len(Rows) /\ cancel
            /\ StopShort
            /\ UNCHANGED <<history, report>>
         \/ /\ FedAfter < Len(Rows)
            /\ call' = [call EXCEPT !.fed = FedAfter]
            /\ UNCHANGED <<history, logits, report>>
      /\ UNCHANGED <<usable, cancel, stored, hole>>
  BY DEF EmbeddingChunk
<1>2. IsAppend(call) /\ Rows \in Seq(AnyRow)
  BY <1>1, Appended
<1>3. TextOf(Rows) \in Seq(AnyRow)
  BY <1>2, TextOfTyped
<1>4. pos' = After
  BY <1>1 DEF After, Frontier
<1>5. Joined(history')
  <2>1. <<>> \in Seq(AnyRow)
    OBVIOUS
  <2>2. QED
    BY <1>1, <1>3, <2>1 DEF Joined
<1>6. report' \in Outcomes \cup {None}
  <2>1. report \in Outcomes \cup {None}
    BY DEF SessionInv, StateTyped
  <2>2. QED
    BY <1>1, <2>1 DEF SegmentDone
<1>7. ChunkGoesIn
  BY <1>1, <1>5, <1>6 DEF ChunkGoesIn
<1>8. QED
  BY <1>1, <1>4, <1>7

LEMMA ChunkInv ==
    ASSUME SessionInv, PrefillChunk \/ EmbeddingChunk
    PROVE  SessionInv'
<1>1. /\ ChunkGoesIn
      /\ \/ pos' = After /\ FedAfter = Len(Rows) /\ SegmentDone
         \/ pos' = After /\ FedAfter < Len(Rows) /\ cancel /\ StopShort
         \/ /\ pos' = IF Soft THEN After ELSE pos
            /\ FedAfter < Len(Rows) /\ call' = [call EXCEPT !.fed = FedAfter]
  <2>1. CASE PrefillChunk
    BY <2>1, PrefillIs
  <2>2. CASE EmbeddingChunk
    BY <2>2, EmbeddingIs
  <2>3. QED
    BY <2>1, <2>2
<1>2. CASE pos' = After /\ SegmentDone
  <2>1. /\ logits' = Context(kv')
        /\ call' = IF Len(call.todo) = 1 THEN Rest
                   ELSE [call EXCEPT !.todo = Tail(@), !.begun = FALSE, !.fed = 0]
    BY <1>2 DEF SegmentDone
  <2>2. QED
    BY <1>1, <1>2, <2>1, SegmentDoneInv
<1>3. CASE pos' = After /\ StopShort
  BY <1>1, <1>3, StoppedInv
<1>4. CASE /\ pos' = IF Soft THEN After ELSE pos
           /\ FedAfter < Len(Rows) /\ call' = [call EXCEPT !.fed = FedAfter]
  BY <1>1, <1>4, MoreRowsInv
<1>5. QED
  BY <1>1, <1>2, <1>3, <1>4

----------------------------------------------------------------------------
(* An ingestion undoes itself.                                             *)
LEMMA Recovers ==
    ASSUME SessionInv, Recovering
    PROVE  /\ IsAppend(call) /\ usable /\ Appends /\ call.guarded
           /\ Len(kv.cells) <= MaxSeqLen /\ published = pos /\ MaxSeqLen \in Nat
           /\ ~OnDevice(kv) => Len(kv.cells) <= pos /\ RingTop(kv, pos)
           /\ ~hole /\ ~OnDevice(kv) => Faithful(kv, pos)
           /\ IsBefore(call.before)
           /\ call.mutation = "none" =>
                 /\ kv = call.before.kv /\ pos = call.before.pos
                 /\ history = call.before.history /\ logits = call.before.logits
           /\ call.mutation = "tail" => Grown(kv, history, call.before)
           /\ Bounded(kv) /\ Marked(kv) /\ Len(kv.cells) \in Nat
<1>1. call.op = "recovering" /\ Appends
  BY DEF Recovering, Appends
<1>2. IsAppend(call) /\ usable /\ call.guarded
  BY <1>1 DEF SessionInv, CallTyped
<1>3. /\ Len(kv.cells) <= MaxSeqLen /\ published = pos
      /\ ~OnDevice(kv) => Len(kv.cells) <= pos /\ RingTop(kv, pos)
      /\ ~hole /\ ~OnDevice(kv) => Faithful(kv, pos)
  BY <1>1, <1>2 DEF SessionInv, RoomInv, EdgeInv
<1>4. /\ IsBefore(call.before)
      /\ call.mutation = "none" =>
            /\ kv = call.before.kv /\ pos = call.before.pos
            /\ history = call.before.history /\ logits = call.before.logits
      /\ call.mutation = "tail" => Grown(kv, history, call.before)
  BY <1>1, <1>2, GuardIs DEF SessionInv
<1>5. Bounded(kv) /\ Marked(kv) /\ Len(kv.cells) \in Nat
  BY KvFields DEF SessionInv, StateTyped, Bounded, AnyKv
<1>6. QED
  BY <1>1, <1>2, <1>3, <1>4, <1>5, SessionAssumption

LEMMA UnchangedInv ==
    ASSUME SessionInv, LeaveUnchanged
    PROVE  SessionInv'
<1>1. /\ Recovering /\ call.mutation = "none" /\ report' = "unchanged" /\ call' = Rest
      /\ UNCHANGED <<kv, pos, published, history, logits, usable, cancel, stored, hole>>
  BY DEF LeaveUnchanged
<1>2. /\ IsBefore(call.before) /\ Len(kv.cells) <= MaxSeqLen /\ published = pos
      /\ kv = call.before.kv /\ pos = call.before.pos /\ logits = call.before.logits
  BY <1>1, Recovers
<1>3. Reaches(kv, pos) /\ IsSeed(logits, kv, pos) /\ (~hole => Faithful(kv, pos))
  BY <1>2 DEF IsBefore
<1>4. StateTyped' /\ StoredInv'
  <2>1. report' \in Outcomes \cup {None}
    BY <1>1 DEF Outcomes
  <2>2. QED
    BY <1>1, <2>1 DEF SessionInv, StateTyped, StoredInv
<1>5. RestsWell'
  BY <1>1, <1>2, <1>3 DEF RestsWell
<1>6. QED
  BY <1>1, <1>4, <1>5, Landing

(* A rewind that finds its way back is exact.                              *)
Rewound(k, n, b) ==
    /\ b.pos <= Len(b.kv.cells) /\ Reaches(b.kv, b.pos) /\ b.rewindable
    /\ CheckRewind(k, b.pos) /\ Extends(k, b) /\ k.backend = b.kv.backend
    /\ n = Truncate(k, b.pos)

LEMMA RewoundContext ==
    ASSUME NEW k, Bounded(k), Marked(k), NEW b, b.kv \in AnyKv, b.pos \in Nat,
           ~OnDevice(k) => RingTop(k, b.pos),
           NEW n, Rewound(k, n, b), Len(b.kv.cells) = b.pos,
           b.pos > 0 \/ b.kv.conv = <<>>
    PROVE  Context(n) = Context(b.kv)
<1> DEFINE at == b.pos
<1>1. /\ at \in 0 .. Len(k.cells) /\ Len(k.cells) \in Nat /\ k.backend \in Backends
      /\ k.cells \in Seq(AnyCell)
  BY KvFields DEF Rewound, CheckRewind, Bounded
<1>2. /\ n = Truncate(k, at) /\ First(k.cells, at) = b.kv.cells
      /\ Len(k.cells) > at \/ k.torn \/ k = b.kv
      /\ ~OnDevice(k) => TopAt(k, at, b.kv.conv)
      /\ b.kv.cells \in Seq(AnyCell)
  BY KvFields DEF Rewound, Extends
<1>3. CASE at > 0 /\ Len(k.cells) = at
  <2>1. ~k.torn
    <3>1. CASE OnDevice(k)
      BY <3>1, <1>3 DEF Rewound, CheckRewind, OnDevice
    <3>2. CASE ~OnDevice(k)
      BY <3>2 DEF Marked
    <3>3. QED
      BY <3>1, <3>2
  <2>2. k = b.kv
    BY <2>1, <1>1, <1>2, <1>3
  <2>3. n = k
    <3>1. CASE OnDevice(k)
      <4>1. n.cells = n.cells /\ (at # 0 /\ at = Len(k.cells) => Truncate(k, at) = k)
        BY <3>1, <1>1, TruncateDeviceIs
      <4>2. QED
        BY <4>1, <1>2, <1>3
    <3>2. CASE ~OnDevice(k)
      <4>1. at = Len(k.cells) => Truncate(k, at) = k
        BY <3>2, <1>1, TruncateRingIs
      <4>2. QED
        BY <4>1, <1>2, <1>3
    <3>3. QED
      BY <3>1, <3>2
  <2>4. QED
    BY <2>2, <2>3
<1>4. CASE at > 0 /\ Len(k.cells) # at
  <2>1. ~OnDevice(k) /\ HasPos(k, at)
    BY <1>4 DEF Rewound, CheckRewind, OnDevice
  <2>2. n = RolledBack(k, at)
    BY <2>1, <1>1, <1>2, <1>4, TruncateRingIs
  <2>3. at \in 1 .. Len(k.cells)
    BY <1>1, <1>4
  <2>4. /\ n.cells = First(k.cells, at) /\ TopIs(n, at)
        /\ IsLastAt(k.ring, at, Len(n.ring))
        /\ n.ring = First(k.ring, Len(n.ring))
    BY <2>1, <2>2, <2>3, RolledBackIs
  <2> DEFINE i == Len(n.ring)
  <2>5. i \in 1 .. Len(k.ring) /\ k.ring \in Seq(Snapshots) /\ DOMAIN k.ring = 1 .. Len(k.ring)
    BY <2>4, KvFields, LenProperties DEF IsLastAt, Bounded
  <2>6. n.ring[i] = k.ring[i]
    <3> DEFINE ring == k.ring
    <3>1. ring \in Seq(Snapshots) /\ i \in 0 .. Len(ring) /\ i \in 1 .. i /\ n.ring = First(ring, i)
      BY <2>4, <2>5
    <3> HIDE DEF ring, i
    <3>2. First(ring, i)[i] = ring[i]
      BY <3>1, FirstOf
    <3>3. QED
      BY <3>1, <3>2 DEF ring
  <2>7. n.conv = k.ring[i].conv
    BY <2>4, <2>6 DEF TopIs
  <2>8. k.ring[i].conv = b.kv.conv
    BY <2>1, <2>4, <1>2 DEF TopAt, IsLastAt
  <2>9. QED
    BY <2>4, <2>7, <2>8, <1>2 DEF Context
<1>5. CASE at = 0
  <2>1. Len(b.kv.cells) = 0 /\ b.kv.conv = <<>>
    BY <1>5
  <2>2. b.kv.cells = <<>>
    BY <2>1, <1>2, EmptySeq
  <2>3. n.cells = <<>> /\ n.conv = <<>>
    <3>1. CASE OnDevice(k)
      BY <3>1, <1>1, <1>2, <1>5, TruncateDeviceIs, PristineIs
    <3>2. CASE ~OnDevice(k) /\ Len(k.cells) # 0
      BY <3>2, <1>1, <1>2, <1>5, TruncateRingIs, PristineIs
    <3>3. CASE ~OnDevice(k) /\ Len(k.cells) = 0
      <4>1. n = k
        BY <3>3, <1>1, <1>2, <1>5, TruncateRingIs
      <4>2. ~k.torn
        BY <3>3 DEF Marked
      <4>3. k = b.kv
        BY <3>3, <4>2, <1>2, <1>5
      <4>4. QED
        BY <4>1, <4>3, <2>1, <2>2
    <3>4. QED
      BY <3>1, <3>2, <3>3
  <2>4. QED
    BY <2>1, <2>2, <2>3 DEF Context
<1>6. QED
  BY <1>1, <1>3, <1>4, <1>5

LEMMA RewindInv ==
    ASSUME SessionInv, RewindToBefore
    PROVE  /\ SessionInv'
           /\ ~hole => Context(kv') = Context(call.before.kv)
           /\ history' = call.before.history
<1> DEFINE b == call.before
           at == b.pos
           k == kv
           n == Truncate(k, at)
<1>1. /\ Recovering /\ call.mutation = "tail" /\ b.rewindable /\ CheckRewind(k, at)
      /\ kv' = n /\ pos' = at /\ published' = at
      /\ history' = First(history, Len(b.history))
      /\ logits' = b.logits /\ report' = "restored" /\ call' = Rest
      /\ UNCHANGED <<usable, cancel, stored, hole>>
  BY DEF RewindToBefore, CanRewind
<1>2. /\ Len(k.cells) <= MaxSeqLen /\ MaxSeqLen \in Nat
      /\ ~OnDevice(k) => Len(k.cells) <= pos /\ RingTop(k, pos)
      /\ ~hole /\ ~OnDevice(k) => Faithful(k, pos)
      /\ IsBefore(b) /\ Grown(k, history, b)
      /\ Bounded(k) /\ Marked(k) /\ Len(k.cells) \in Nat
  BY <1>1, Recovers
<1>3. /\ at \in 0 .. MaxSeqLen /\ at \in Nat /\ b.kv \in AnyKv /\ Marked(b.kv)
      /\ b.history \in Seq(AnyRow) /\ b.rewindable = CheckRewind(b.kv, at)
      /\ IsSeed(b.logits, b.kv, at) /\ Reaches(b.kv, at)
      /\ ~hole => Faithful(b.kv, at)
  BY <1>2 DEF IsBefore, AnyKv
<1>4. at <= Len(b.kv.cells) /\ at <= Len(k.cells) /\ Len(b.kv.cells) \in Nat
  BY <1>1, <1>3, KvFields DEF CheckRewind
<1>5. /\ k.backend = b.kv.backend
      /\ Len(b.kv.cells) = at => Extends(k, b)
      /\ history' = b.history
  BY <1>1, <1>2 DEF Grown
<1>6. ~OnDevice(k) => Len(b.kv.cells) = at /\ Extends(k, b)
  BY <1>3, <1>4, <1>5 DEF Reaches, OnDevice
<1>7. ~OnDevice(k) => RingTop(k, at)
  <2> SUFFICES ASSUME ~OnDevice(k) PROVE RingTop(k, at)
    OBVIOUS
  <2>1. RingTop(k, pos) /\ Len(k.cells) <= pos /\ Extends(k, b)
    BY <1>2, <1>6
  <2>2. CASE Len(k.cells) = at
    <3>1. k = b.kv
      BY <2>1, <2>2, <1>2 DEF Extends, Marked
    <3>2. QED
      BY <3>1, <1>3 DEF Reaches
  <2>3. CASE Len(k.cells) # at
    BY <2>1, <2>3 DEF RingTop
  <2>4. QED
    BY <2>2, <2>3
<1>8. /\ Bounded(n) /\ Marked(n) /\ n.backend = k.backend
      /\ Len(n.cells) <= at /\ Len(n.cells) \in Nat
      /\ OnDevice(k) => Len(n.cells) = at
      /\ ~OnDevice(k) => RingTop(n, at)
  <2>1. at \in 0 .. Len(k.cells)
    BY <1>2, <1>3, <1>4
  <2> HIDE DEF at, k
  <2>2. CASE OnDevice(k)
    <3>1. Bounded(n) /\ Marked(n) /\ n.backend = k.backend /\ Len(n.cells) = at
      BY <2>1, <2>2, <1>2, TruncateDeviceIs
    <3>2. QED
      BY <3>1, <2>2, <1>3
  <2>3. CASE ~OnDevice(k)
    <3>1. Bounded(n) /\ Marked(n) /\ n.backend = k.backend /\ Len(n.cells) <= at /\ RingTop(n, at)
      BY <2>1, <2>3, <1>2, <1>7, TruncateRingIs
    <3>2. Len(n.cells) \in Nat
      BY <3>1, KvFields DEF Bounded
    <3>3. QED
      BY <3>1, <3>2, <2>3
  <2>4. QED
    BY <2>2, <2>3
<1>9. ASSUME Len(b.kv.cells) = at, at > 0 \/ b.kv.conv = <<>>
      PROVE  Context(n) = Context(b.kv)
  <2>1. Rewound(k, n, b)
    BY <1>1, <1>3, <1>4, <1>5, <1>9 DEF Rewound
  <2> DEFINE m == n
  <2>2. Rewound(k, m, b)
    BY <2>1
  <2> HIDE DEF m
  <2>3. Context(m) = Context(b.kv)
    BY <2>2, <1>2, <1>3, <1>7, <1>9, RewoundContext
  <2>4. QED
    BY <2>3 DEF m
<1>10. IsSeed(b.logits, n, at)
  <2> SUFFICES ASSUME b.logits # None PROVE IsSeed(b.logits, n, at)
    BY DEF IsSeed
  <2>1. b.logits = Context(b.kv) /\ at > 0 /\ (OnDevice(b.kv) => Len(b.kv.cells) = at)
    BY <1>3 DEF IsSeed
  <2>2. Len(b.kv.cells) = at
    BY <2>1, <1>5, <1>6 DEF OnDevice
  <2>3. Context(n) = Context(b.kv)
    BY <2>1, <2>2, <1>9
  <2>4. OnDevice(n) => Len(n.cells) = at
    BY <1>8 DEF OnDevice
  <2>5. QED
    BY <2>1, <2>3, <2>4 DEF IsSeed
<1>11. ~hole => Context(n) = Context(b.kv)
  <2> SUFFICES ASSUME ~hole PROVE Context(n) = Context(b.kv)
    OBVIOUS
  <2>1. Faithful(b.kv, at)
    BY <1>3
  <2>2. Len(b.kv.cells) = at
    BY <2>1 DEF Faithful
  <2>3. at = 0 => b.kv.conv = <<>>
    <3> SUFFICES ASSUME at = 0 PROVE b.kv.conv = <<>>
      OBVIOUS
    <3>1. b.kv.cells = <<>>
      BY <2>2, <1>3, KvFields, EmptySeq
    <3>2. Sound(b.kv)
      BY <3>1, <2>1, <1>3 DEF Faithful, Marked
    <3>3. Newest(RowsOf(<<>>), Taps) = <<>>
      BY KvAssumption DEF Newest, RowsOf
    <3>4. QED
      BY <3>1, <3>2, <3>3 DEF Sound, InTune
  <2>4. at > 0 \/ at = 0
    BY <1>3
  <2>5. QED
    BY <2>2, <2>3, <2>4, <1>9
<1>12. ~hole => Faithful(n, at)
  <2> SUFFICES ASSUME ~hole PROVE Faithful(n, at)
    OBVIOUS
  <2>1. CASE ~OnDevice(k)
    <3>1. Faithful(k, Len(k.cells))
      BY <2>1, <1>2 DEF Faithful
    <3> HIDE DEF at, k
    <3>2. Faithful(n, at)
      BY <3>1, <1>1, <1>2, <1>3, <1>7, RewindFaithful
    <3>3. QED
      BY <3>2
  <2>2. CASE OnDevice(k)
    <3>1. Faithful(b.kv, at)
      BY <1>3
    <3>2. Extends(k, b)
      BY <3>1, <1>5 DEF Faithful
    <3>3. at = 0 \/ (at = Len(k.cells) /\ ~k.torn)
      BY <2>2, <1>1 DEF CheckRewind, OnDevice
    <3>4. k.backend \in Backends /\ at \in 0 .. Len(k.cells)
      BY <1>2, <1>3, <1>4, KvFields DEF Bounded
    <3> DEFINE a == at
    <3>5. a = at
      OBVIOUS
    <3> HIDE DEF a
    <3>6. /\ a = 0 => Truncate(k, a) = Pristine(k.backend)
          /\ a # 0 /\ a = Len(k.cells) => Truncate(k, a) = k
      BY <2>2, <3>4, <3>5, <1>2, TruncateDeviceIs
    <3>7. CASE at = 0
      <4>1. n = Pristine(k.backend)
        BY <3>5, <3>6, <3>7
      <4>2. Faithful(Pristine(k.backend), 0)
        BY <3>4, PristineIs
      <4>3. QED
        BY <4>1, <4>2, <3>7
    <3>8. CASE at # 0
      <4>1. n = k
        BY <3>3, <3>5, <3>6, <3>8
      <4>2. k = b.kv
        BY <3>2, <3>3, <3>8, <1>2, <1>3 DEF Extends
      <4>3. QED
        BY <4>1, <4>2, <3>1
    <3>9. QED
      BY <3>7, <3>8
  <2>3. QED
    BY <2>1, <2>2
<1>13. Reaches(n, at) /\ Len(n.cells) <= MaxSeqLen /\ Len(n.cells) <= MaxSeqLen + 1
  <2>1. OnDevice(n) <=> OnDevice(k)
    BY <1>8 DEF OnDevice
  <2>2. Len(n.cells) <= MaxSeqLen /\ Len(n.cells) <= MaxSeqLen + 1
    BY <1>2, <1>3, <1>8
  <2>3. OnDevice(k) => Len(n.cells) >= at
    BY <1>3, <1>8
  <2>4. QED
    BY <2>1, <2>2, <2>3, <1>8 DEF Reaches
<1> HIDE DEF n, at, k
<1>14. StateTyped' /\ StoredInv'
  <2>1. report' \in Outcomes \cup {None}
    BY <1>1 DEF Outcomes
  <2>2. QED
    BY <2>1, <1>1, <1>3, <1>5, <1>8, <1>13 DEF SessionInv, StateTyped, StoredInv, Bounded, AnyKv
<1>15. RestsWell'
  BY <1>1, <1>10, <1>12, <1>13 DEF RestsWell
<1>16. SessionInv'
  BY <1>1, <1>14, <1>15, Landing
<1>17. QED
  BY <1>1, <1>5, <1>11, <1>16

LEMMA ResetInsteadInv ==
    ASSUME SessionInv, ResetInstead
    PROVE  SessionInv'
<1>1. /\ Cleared /\ usable' = TRUE /\ report' = "reset" /\ call' = Rest
      /\ cancel' = cancel /\ stored' = stored
  BY DEF ResetInstead
<1>2. cancel' \in BOOLEAN /\ report' \in Outcomes \cup {None}
  BY <1>1 DEF SessionInv, StateTyped, Outcomes
<1>3. QED
  BY <1>1, <1>2, ClearedInv

LEMMA GiveUpInv ==
    ASSUME SessionInv, GiveUp
    PROVE  SessionInv'
<1>1. /\ Recovering /\ kv' \in {kv, Unanswered(kv)}
      /\ usable' = FALSE /\ report' = "unusable" /\ call' = Rest
      /\ UNCHANGED <<pos, published, history, cancel, stored, hole>>
  BY DEF GiveUp, MustReset
<1>2. /\ Bounded(kv) /\ Marked(kv) /\ Len(kv.cells) \in Nat /\ Len(kv.cells) <= MaxSeqLen
      /\ MaxSeqLen \in Nat
  BY <1>1, Recovers
<1>3. Bounded(kv') /\ Marked(kv') /\ kv'.cells = kv.cells
  BY <1>1, <1>2, UnansweredIs
<1>4. Len(kv'.cells) <= MaxSeqLen + 1
  BY <1>2, <1>3
<1>5. report' \in Outcomes \cup {None} /\ cancel' \in BOOLEAN
  BY <1>1 DEF Outcomes, SessionInv, StateTyped
<1>6. QED
  BY <1>1, <1>3, <1>4, <1>5, CondemnedInv

LEMMA UnwindsInv ==
    ASSUME SessionInv, IngestUnwinds
    PROVE  SessionInv'
<1>1. /\ call.op \in {"append", "recovering"}
      /\ kv' = Wrecked(kv) /\ usable' = FALSE /\ report' = "unusable" /\ call' = Rest
      /\ UNCHANGED <<pos, published, history, cancel, stored, hole>>
  BY DEF IngestUnwinds
<1>2. usable
  BY <1>1 DEF SessionInv, CallTyped, Appends
<1>3. /\ Bounded(kv) /\ Marked(kv) /\ Len(kv.cells) \in Nat /\ Len(kv.cells) <= MaxSeqLen
      /\ MaxSeqLen \in Nat
  BY <1>2, KvFields, SessionAssumption DEF SessionInv, StateTyped, RoomInv, Bounded, AnyKv
<1>4. Bounded(kv') /\ Marked(kv') /\ Len(kv'.cells) = Len(kv.cells) + 1
  BY <1>1, <1>3, WreckedIs
<1>5. Len(kv'.cells) <= MaxSeqLen + 1
  BY <1>3, <1>4
<1>6. report' \in Outcomes \cup {None} /\ cancel' \in BOOLEAN
  BY <1>1 DEF Outcomes, SessionInv, StateTyped
<1>7. QED
  BY <1>1, <1>4, <1>5, <1>6, CondemnedInv

LEMMA AppendStepInv ==
    ASSUME SessionInv, AppendStep
    PROVE  SessionInv'
BY RefuseInv, BeginInv, ShiftedInv, ShiftPanicsInv, ChunkInv, ChunkFaultsInv,
   UnchangedInv, RewindInv, ResetInsteadInv, GiveUpInv, UnwindsInv DEF AppendStep

----------------------------------------------------------------------------
(* Generating: the state a step of it starts in, ...                       *)
LEMMA Generates ==
    ASSUME SessionInv, call.op = "generate"
    PROVE  /\ IsGenerate(call) /\ usable /\ ~Appends /\ MaxSeqLen \in Nat
           /\ pos \in 1 .. MaxSeqLen /\ call.at \in 1 .. MaxSeqLen
           /\ Edge \in 1 .. MaxSeqLen /\ published = Edge
           /\ Edge = IF call.mode = "spec" THEN pos ELSE call.at
           /\ CanTake(kv, Edge) /\ Reaches(kv, Edge)
           /\ Len(kv.cells) \in Nat /\ Len(kv.cells) <= MaxSeqLen
           /\ OnDevice(kv) => Len(kv.cells) = Edge
           /\ ~hole => Faithful(kv, Edge)
           /\ history \in Seq(AnyRow)
<1>1. IsGenerate(call) /\ usable /\ ~Appends
  BY DEF SessionInv, CallTyped, Appends
<1>2. pos \in 0 .. MaxSeqLen /\ history \in Seq(AnyRow) /\ kv \in AnyKv /\ Marked(kv)
      /\ Len(kv.ring) <= Window
  BY DEF SessionInv, StateTyped, AnyKv
<1>3. Len(kv.cells) \in Nat /\ Bounded(kv) /\ MaxSeqLen \in Nat
  BY <1>2, KvFields, SessionAssumption DEF Bounded
<1>4. call.at \in 1 .. MaxSeqLen /\ pos > 0 /\ Len(kv.cells) <= MaxSeqLen
  BY <1>1 DEF SessionInv, RoomInv
<1>5. Edge = IF call.mode = "spec" THEN pos ELSE call.at
  BY DEF Edge
<1>6. Edge \in 1 .. MaxSeqLen /\ pos \in 1 .. MaxSeqLen
  BY <1>2, <1>3, <1>4, <1>5
<1>7. /\ Reaches(kv, Edge) /\ published = Edge
      /\ ~OnDevice(kv) => Len(kv.cells) <= Edge
      /\ ~hole => Faithful(kv, Edge)
  BY <1>1 DEF SessionInv, EdgeInv, Shifted
<1>8. OnDevice(kv) => Len(kv.cells) = Edge
  BY DEF SessionInv, SeedInv
<1>9. CanTake(kv, Edge)
  BY <1>2, <1>3, <1>6, <1>7, <1>8 DEF CanTake
<1>10. QED
  BY <1>1, <1>2, <1>3, <1>4, <1>5, <1>6, <1>7, <1>8, <1>9

(* Who owns the session may condemn it when the call returns.              *)
MayCondemn == usable' \in BOOLEAN /\ (AtRest' \/ UNCHANGED usable)

(* ... what it always leaves behind, ...                                   *)
LEMMA GeneratedTyped ==
    ASSUME SessionInv, Bounded(kv'), Marked(kv'), Len(kv'.cells) <= MaxSeqLen + 1,
           pos' \in 0 .. MaxSeqLen, published' \in 0 .. MaxSeqLen, history' \in Seq(AnyRow),
           cancel' \in BOOLEAN, hole' \in BOOLEAN, usable' \in BOOLEAN,
           UNCHANGED <<report, stored>>
    PROVE  StateTyped' /\ StoredInv'
BY DEF SessionInv, StateTyped, StoredInv, Bounded, AnyKv

(* ... the step that ends it, ...                                          *)
LEMMA ReturnsInv ==
    ASSUME SessionInv, NEW at \in 0 .. MaxSeqLen, NEW kept, GenerateReturns(at, kept),
           Bounded(kv'), Marked(kv'), Len(kv'.cells) <= MaxSeqLen, Reaches(kv', at),
           history' \in Seq(AnyRow), hole' \in BOOLEAN, ~hole' => Faithful(kv', at),
           IsSeed(kept, kv', at), usable' \in BOOLEAN, UNCHANGED <<report, stored>>
    PROVE  SessionInv'
<1>1. pos' = at /\ published' = at /\ logits' = kept /\ cancel' = FALSE /\ call' = Rest
  BY DEF GenerateReturns
<1>2. kv' \in AnyKv /\ MaxSeqLen \in Nat
  BY SessionAssumption DEF Bounded
<1>3. Len(kv'.cells) \in Nat
  <2>1. PICK n : n = kv'
    OBVIOUS
  <2>2. Len(n.cells) \in Nat
    BY <1>2, <2>1, KvFields
  <2>3. QED
    BY <2>1, <2>2
<1>4. Len(kv'.cells) <= MaxSeqLen + 1
  BY <1>2, <1>3
<1>5. StateTyped' /\ StoredInv'
  BY <1>1, <1>4, GeneratedTyped
<1>6. RestsWell'
  BY <1>1 DEF RestsWell
<1>7. QED
  BY <1>1, <1>5, <1>6, Landing

(* ... and the one it goes on from.                                        *)
LEMMA GoesOnInv ==
    ASSUME SessionInv, IsGenerate(call'), usable, NEW at \in 1 .. MaxSeqLen,
           Bounded(kv'), Marked(kv'), Len(kv'.cells) <= MaxSeqLen, Reaches(kv', at),
           OnDevice(kv') => Len(kv'.cells) = at,
           call'.mode = "spec" => pos' = at /\ call'.emitted # 0,
           call'.mode # "spec" => call'.at = at /\ (call'.fresh => IsSeed(call'.taken, kv', at)),
           call'.at \in 1 .. MaxSeqLen, pos' \in 1 .. MaxSeqLen, published' = at,
           history' \in Seq(AnyRow), hole' \in BOOLEAN, ~hole' => Faithful(kv', at),
           cancel' \in BOOLEAN, UNCHANGED <<usable, report, stored>>
    PROVE  SessionInv'
<1>1. kv' \in AnyKv /\ MaxSeqLen \in Nat
  BY SessionAssumption DEF Bounded
<1>2. Len(kv'.cells) \in Nat
  <2>1. PICK n : n = kv'
    OBVIOUS
  <2>2. Len(n.cells) \in Nat
    BY <1>1, <2>1, KvFields
  <2>3. QED
    BY <2>1, <2>2
<1>3. /\ Len(kv'.cells) <= MaxSeqLen + 1
      /\ pos' \in 0 .. MaxSeqLen /\ published' \in 0 .. MaxSeqLen /\ pos' > 0 /\ at \in Nat
  BY <1>1, <1>2
<1>4. StateTyped' /\ StoredInv'
  <2>1. usable' \in BOOLEAN
    BY DEF SessionInv, StateTyped
  <2>2. QED
    BY <1>3, <2>1, GeneratedTyped
<1>5. call'.op = "generate" /\ ~Appends' /\ ~AtRest'
  <2>1. PICK c : c = call'
    OBVIOUS
  <2>2. c.op = "generate"
    BY <2>1 DEF IsGenerate
  <2>3. QED
    BY <2>1, <2>2 DEF Appends, AtRest
<1>6. Edge' = at
  BY <1>5 DEF Edge
<1>7. CallTyped'
  BY <1>5 DEF CallTyped
<1>8. RoomInv'
  BY <1>3, <1>5 DEF RoomInv
<1>9. EdgeInv'
  <2>1. /\ OnDevice(kv') => Len(kv'.cells) >= at
        /\ ~OnDevice(kv') => Len(kv'.cells) <= at
    BY DEF Reaches
  <2>2. QED
    BY <2>1, <1>5, <1>6 DEF EdgeInv
<1>10. SeedInv'
  BY <1>5, <1>6 DEF SeedInv
<1>11. GuardInv' /\ SegmentInv'
  BY <1>5 DEF GuardInv, SegmentInv
<1>12. QED
  BY <1>4, <1>7, <1>8, <1>9, <1>10, <1>11 DEF SessionInv

LEMMA StartGenerateInv ==
    ASSUME SessionInv, StartGenerate
    PROVE  SessionInv'
<1>1. AtRest /\ usable /\ logits # None
      /\ UNCHANGED <<kv, pos, published, history, usable, cancel, report, stored, hole>>
  BY DEF StartGenerate
<1>2. PICK mode \in Modes, budget \in 1 .. MaxNew :
          call' = [op |-> "generate", mode |-> mode, budget |-> budget, emitted |-> 0,
                   taken |-> logits, fresh |-> TRUE, at |-> pos]
  BY DEF StartGenerate
<1>3. /\ Len(kv.cells) <= MaxSeqLen /\ Reaches(kv, pos) /\ published = pos
      /\ ~hole => Faithful(kv, pos)
      /\ IsSeed(logits, kv, pos)
  BY <1>1, Resting DEF RestsWell
<1>4. /\ pos \in 1 .. MaxSeqLen /\ hole \in BOOLEAN /\ cancel \in BOOLEAN
      /\ kv \in AnyKv /\ Marked(kv) /\ Bounded(kv) /\ history \in Seq(AnyRow)
      /\ OnDevice(kv) => Len(kv.cells) = pos
  <2>1. pos \in 0 .. MaxSeqLen /\ kv \in AnyKv /\ Len(kv.ring) <= Window
        /\ hole \in BOOLEAN /\ cancel \in BOOLEAN /\ Marked(kv) /\ history \in Seq(AnyRow)
    BY DEF SessionInv, StateTyped, AnyKv
  <2>2. pos > 0 /\ (OnDevice(kv) => Len(kv.cells) = pos)
    BY <1>1, <1>3 DEF IsSeed
  <2>3. MaxSeqLen \in Nat
    BY SessionAssumption
  <2>4. QED
    BY <2>1, <2>2, <2>3 DEF Bounded
<1>5. budget \in Nat /\ pos \in Nat
  <2>1. MaxNew \in Nat /\ MaxSeqLen \in Nat
    BY SessionAssumption
  <2>2. QED
    BY <2>1, <1>4
<1>6. /\ IsGenerate(call') /\ call'.op = "generate" /\ call'.mode = mode
      /\ call'.emitted = 0 /\ call'.taken = logits /\ call'.at = pos
  BY <1>2, <1>5 DEF IsGenerate
<1>7. StateTyped' /\ StoredInv'
  BY <1>1 DEF SessionInv, StateTyped, StoredInv
<1>8. ~Appends' /\ ~AtRest' /\ Edge' = pos
  BY <1>1, <1>6 DEF Appends, AtRest, Edge
<1>9. CallTyped'
  BY <1>1, <1>6, <1>8 DEF CallTyped
<1>10. RoomInv'
  <2>1. pos > 0
    BY <1>4, SessionAssumption
  <2>2. QED
    BY <2>1, <1>1, <1>3, <1>4, <1>6 DEF RoomInv
<1>11. EdgeInv'
  BY <1>1, <1>3, <1>4, <1>6, <1>8 DEF EdgeInv, Reaches
<1>12. SeedInv'
  <2>1. IsSeed(call'.taken, kv', pos') /\ IsSeed(call'.taken, kv', call'.at)
    BY <1>1, <1>3, <1>6
  <2>2. OnDevice(kv') => Len(kv'.cells) = Edge'
    BY <1>1, <1>4, <1>8
  <2>3. QED
    BY <2>1, <2>2, <1>8, <1>6 DEF SeedInv, AtRest
<1>13. GuardInv' /\ SegmentInv'
  BY <1>6, <1>8 DEF GuardInv, SegmentInv
<1>14. QED
  BY <1>7, <1>9, <1>10, <1>11, <1>12, <1>13 DEF SessionInv

(* One token more, ...                                                     *)
LEMMA StepIs ==
    ASSUME IsGenerate(call), NEW e \in Nat, NEW a \in Nat, NEW t, NEW f \in BOOLEAN,
           call' = [call EXCEPT !.emitted = e, !.at = a, !.taken = t, !.fresh = f]
    PROVE  /\ IsGenerate(call') /\ call'.mode = call.mode
           /\ call'.emitted = e /\ call'.at = a /\ call'.taken = t /\ call'.fresh = f
<1> DEFINE c == call
           d1 == [c EXCEPT !.emitted = e]
           d2 == [d1 EXCEPT !.at = a]
           d3 == [d2 EXCEPT !.taken = t]
           d4 == [d3 EXCEPT !.fresh = f]
<1>1. IsGenerate(d1) /\ d1.mode = c.mode /\ d1.emitted = e
  BY DEF IsGenerate
<1> HIDE DEF d1
<1>2. IsGenerate(d2) /\ d2.mode = c.mode /\ d2.emitted = e /\ d2.at = a
  BY <1>1 DEF IsGenerate
<1> HIDE DEF d2
<1>3. IsGenerate(d3) /\ d3.mode = c.mode /\ d3.emitted = e /\ d3.at = a /\ d3.taken = t
  BY <1>2 DEF IsGenerate
<1> HIDE DEF d3
<1>4. /\ IsGenerate(d4) /\ d4.mode = c.mode /\ d4.emitted = e /\ d4.at = a
      /\ d4.taken = t /\ d4.fresh = f
  BY <1>3 DEF IsGenerate
<1>5. call' = d4
  BY DEF d1, d2, d3
<1> HIDE DEF d4
<1>6. QED
  BY <1>4, <1>5

LEMMA EmittedIs ==
    ASSUME NEW c, IsGenerate(c), NEW e \in Nat
    PROVE  LET d == [c EXCEPT !.emitted = e] IN
           IsGenerate(d) /\ d.mode = c.mode /\ d.emitted = e /\ d.at = c.at
BY DEF IsGenerate

(* A token is fed where the context ends.                                  *)
LEMMA TokenFed ==
    ASSUME SessionInv, call.op = "generate", Edge < MaxSeqLen,
           NEW t \in Tokens, kv' = Feed(kv, <<t>>, Edge), history' = Append(history, t),
           hole' = hole
    PROVE  /\ Bounded(kv') /\ Marked(kv') /\ Reaches(kv', Edge + 1)
           /\ Len(kv'.cells) <= MaxSeqLen
           /\ OnDevice(kv') => Len(kv'.cells) = Edge + 1
           /\ ~hole' => Faithful(kv', Edge + 1)
           /\ history' \in Seq(AnyRow) /\ Edge + 1 \in 1 .. MaxSeqLen /\ hole' \in BOOLEAN
<1>1. /\ Edge \in 1 .. MaxSeqLen /\ MaxSeqLen \in Nat /\ CanTake(kv, Edge)
      /\ ~hole => Faithful(kv, Edge)
      /\ history \in Seq(AnyRow)
  BY Generates
<1> DEFINE k == kv
           at == Edge
           rows == <<t>>
           n == Feed(k, rows, at)
<1>2. t \in AnyRow
  BY DEF AnyRow
<1>3. rows \in Seq(AnyRow) /\ rows # <<>> /\ Len(rows) = 1
  BY <1>2
<1>4. at \in Nat /\ CanTake(k, at) /\ at + 1 <= MaxSeqLen
  BY <1>1
<1>5. kv' = n
  OBVIOUS
<1> HIDE DEF k, at, rows
<1>6. /\ Bounded(n) /\ Marked(n) /\ SameMakeOf(n, k)
      /\ Len(n.cells) \in Nat /\ Len(n.cells) <= at + Len(rows)
      /\ OnDevice(k) => Len(n.cells) = at + Len(rows)
      /\ Reaches(n, at + Len(rows))
      /\ Faithful(k, at) => Faithful(n, at + Len(rows))
  BY <1>3, <1>4, FeedReaches
<1>7. OnDevice(n) => OnDevice(k)
  BY <1>6 DEF SameMakeOf, OnDevice
<1>8. Append(history, t) \in Seq(AnyRow)
  BY <1>1, <1>2
<1>9. Len(n.cells) <= MaxSeqLen
  BY <1>1, <1>3, <1>4, <1>6
<1>10. ~hole => Faithful(k, at)
  BY <1>1 DEF k, at
<1>11. hole \in BOOLEAN
  BY DEF SessionInv, StateTyped
<1> HIDE DEF n
<1>12. /\ Bounded(n) /\ Marked(n) /\ Reaches(n, at + 1)
       /\ OnDevice(n) => Len(n.cells) = at + 1
       /\ ~hole => Faithful(n, at + 1)
  BY <1>3, <1>6, <1>7, <1>10
<1>13. at + 1 \in 1 .. MaxSeqLen
  BY <1>1, <1>4
<1>14. QED
  BY <1>5, <1>8, <1>9, <1>11, <1>12, <1>13 DEF at

LEMMA DecodeStepInv ==
    ASSUME SessionInv, DecodeStep, UNCHANGED usable
    PROVE  SessionInv'
<1>1. /\ call.op = "generate" /\ call.mode # "spec" /\ call.at < MaxSeqLen
      /\ published' = call.at + 1
      /\ UNCHANGED <<pos, logits, cancel, report, stored, hole>>
      /\ call' = [call EXCEPT
                    !.emitted = @ + 1,
                    !.at = @ + 1,
                    !.taken = IF call.mode = "sampled" THEN Context(kv') ELSE @,
                    !.fresh = (call.mode = "sampled")]
  BY DEF DecodeStep, Decoding, MayStep
<1>2. PICK t \in Tokens : kv' = Feed(kv, <<t>>, call.at) /\ history' = Append(history, t)
  BY DEF DecodeStep
<1>3. /\ IsGenerate(call) /\ usable /\ Edge = call.at /\ call.at \in 1 .. MaxSeqLen
      /\ pos \in 1 .. MaxSeqLen /\ MaxSeqLen \in Nat
  BY <1>1, Generates
<1> DEFINE at == call.at + 1
<1>4. /\ Bounded(kv') /\ Marked(kv') /\ Reaches(kv', at)
      /\ Len(kv'.cells) <= MaxSeqLen
      /\ OnDevice(kv') => Len(kv'.cells) = at
      /\ ~hole' => Faithful(kv', at)
      /\ history' \in Seq(AnyRow) /\ at \in 1 .. MaxSeqLen /\ hole' \in BOOLEAN
  BY <1>1, <1>2, <1>3, TokenFed
<1>5. /\ IsGenerate(call') /\ call'.mode = call.mode /\ call'.at = at
      /\ call'.fresh => IsSeed(call'.taken, kv', at)
  <2>1. call.emitted + 1 \in Nat /\ at \in Nat /\ at > 0
    BY <1>3 DEF IsGenerate
  <2>2. PICK e \in Nat : e = call.emitted + 1
    BY <2>1
  <2> HIDE DEF at
  <2>3. CASE call.mode = "sampled"
    <3>1. PICK seed : seed = Context(kv')
      OBVIOUS
    <3>2. PICK v \in BOOLEAN : v = TRUE
      OBVIOUS
    <3>3. call' = [call EXCEPT !.emitted = e, !.at = at, !.taken = seed, !.fresh = v]
      BY <1>1, <2>2, <2>3, <3>1, <3>2 DEF at
    <3>4. IsSeed(seed, kv', at)
      BY <1>4, <2>1, <3>1 DEF IsSeed
    <3>5. /\ IsGenerate(call') /\ call'.mode = call.mode /\ call'.at = at
          /\ call'.taken = seed
      BY <3>3, <1>3, <2>1, StepIs
    <3>6. QED
      BY <3>4, <3>5
  <2>4. CASE call.mode # "sampled"
    <3>1. PICK taken : taken = call.taken
      OBVIOUS
    <3>2. PICK v \in BOOLEAN : v = FALSE
      OBVIOUS
    <3>3. call' = [call EXCEPT !.emitted = e, !.at = at, !.taken = taken, !.fresh = v]
      BY <1>1, <2>2, <2>4, <3>1, <3>2 DEF at
    <3>4. /\ IsGenerate(call') /\ call'.mode = call.mode /\ call'.at = at
          /\ call'.fresh = v
      BY <3>3, <1>3, <2>1, StepIs
    <3>5. QED
      BY <3>2, <3>4
  <2>5. QED
    BY <2>3, <2>4
<1>6. usable' = usable /\ cancel' \in BOOLEAN
  BY <1>1 DEF SessionInv, StateTyped
<1> HIDE DEF at
<1>7. /\ call'.mode # "spec" /\ call'.at \in 1 .. MaxSeqLen /\ pos' \in 1 .. MaxSeqLen
      /\ published' = at
  BY <1>1, <1>3, <1>4, <1>5 DEF at
<1>8. QED
  BY <1>1, <1>3, <1>4, <1>5, <1>6, <1>7, GoesOnInv

LEMMA StopsInv ==
    ASSUME SessionInv, DecodeStops \/ SpecStops, usable' \in BOOLEAN
    PROVE  SessionInv'
<1>1. /\ call.op = "generate"
      /\ UNCHANGED <<kv, history, report, stored, hole>>
  BY DEF DecodeStops, SpecStops, Decoding
<1>2. PICK kept : /\ GenerateReturns(Edge, kept)
                  /\ IsSeed(kept, kv, Edge)
  <2>1. CASE DecodeStops
    <3>1. Edge = call.at
      BY <1>1, <2>1 DEF DecodeStops, Decoding, Edge
    <3> DEFINE kept == IF (call.mode = "sampled" \/ call.emitted = 0) /\ call.fresh
                       THEN call.taken ELSE None
    <3>2. GenerateReturns(Edge, kept)
      BY <2>1, <3>1 DEF DecodeStops
    <3>3. call.fresh => IsSeed(call.taken, kv, call.at)
      BY <1>1, <2>1 DEF SessionInv, SeedInv, DecodeStops, Decoding
    <3>4. IsSeed(kept, kv, Edge)
      BY <3>1, <3>3 DEF IsSeed
    <3>5. QED
      BY <3>2, <3>4
  <2>2. CASE SpecStops
    <3>1. Edge = pos /\ call.mode = "spec"
      BY <1>1, <2>2 DEF SpecStops, Decoding, Edge
    <3> DEFINE kept == IF call.emitted = 0 THEN call.taken ELSE None
    <3>2. GenerateReturns(Edge, kept)
      BY <2>2, <3>1 DEF SpecStops
    <3>3. call.emitted = 0 => IsSeed(call.taken, kv, pos)
      BY <1>1, <3>1 DEF SessionInv, SeedInv
    <3>4. IsSeed(kept, kv, Edge)
      BY <3>1, <3>3 DEF IsSeed
    <3>5. QED
      BY <3>2, <3>4
  <2>3. QED
    BY <2>1, <2>2
<1>3. /\ Edge \in 0 .. MaxSeqLen /\ Reaches(kv, Edge)
      /\ Len(kv.cells) <= MaxSeqLen
      /\ ~hole => Faithful(kv, Edge)
      /\ history \in Seq(AnyRow) /\ Bounded(kv) /\ Marked(kv)
  BY <1>1, Generates DEF CanTake
<1>4. PICK at \in 0 .. MaxSeqLen : at = Edge
  BY <1>3
<1>5. /\ Bounded(kv') /\ Marked(kv') /\ Len(kv'.cells) <= MaxSeqLen /\ Reaches(kv', at)
      /\ history' \in Seq(AnyRow) /\ hole' \in BOOLEAN
      /\ ~hole' => Faithful(kv', at)
      /\ IsSeed(kept, kv', at)
  BY <1>1, <1>2, <1>3, <1>4 DEF SessionInv, StateTyped
<1>6. GenerateReturns(at, kept) /\ UNCHANGED <<report, stored>>
  BY <1>1, <1>2, <1>4
<1>7. QED
  BY <1>5, <1>6, ReturnsInv

(* A fault on the device: what has been fed of the token goes with it.     *)
LEMMA FaultsInv ==
    ASSUME SessionInv, DecodeFaults \/ SpecSingleFaults, usable' \in BOOLEAN
    PROVE  SessionInv'
<1>1. /\ call.op = "generate" /\ Edge < MaxSeqLen
      /\ hole' = TRUE /\ UNCHANGED <<history, report, stored>>
      /\ GenerateReturns(Edge, None)
      /\ \E t \in Tokens : kv' \in FaultedFeeds(kv, <<t>>, Edge)
  BY DEF DecodeFaults, SpecSingleFaults, Decoding, MayStep, Edge
<1>2. PICK t \in Tokens : kv' \in FaultedFeeds(kv, <<t>>, Edge)
  BY <1>1
<1>3. /\ Edge \in 1 .. MaxSeqLen /\ MaxSeqLen \in Nat
      /\ CanTake(kv, Edge) /\ Len(kv.cells) <= MaxSeqLen /\ Len(kv.cells) \in Nat
      /\ history \in Seq(AnyRow)
  BY <1>1, Generates
<1> DEFINE k == kv
           rows == <<t>>
<1>4. PICK at \in 0 .. MaxSeqLen : at = Edge
  BY <1>3
<1>5. at \in Nat /\ CanTake(k, at) /\ rows \in Seq(AnyRow) /\ Len(rows) = 1
      /\ kv' \in FaultedFeeds(k, rows, at)
  <2>1. t \in AnyRow
    BY DEF AnyRow
  <2>2. QED
    BY <2>1, <1>2, <1>3, <1>4
<1>6. at < MaxSeqLen /\ Len(k.cells) <= MaxSeqLen /\ Len(k.cells) \in Nat
  BY <1>1, <1>3, <1>4
<1> HIDE DEF k, rows
<1> DEFINE Hit(n) == /\ OnDevice(n) /\ Bounded(n) /\ Marked(n)
                     /\ Len(n.cells) <= MaxSeqLen /\ Reaches(n, at)
<1>7. Hit(kv')
  <2>1. PICK n \in FaultedFeeds(k, rows, at) : n = kv'
    BY <1>5
  <2>2. /\ OnDevice(k) /\ Bounded(n) /\ Marked(n) /\ n.backend = k.backend
        /\ Len(n.cells) \in Nat /\ Len(n.cells) >= at
        /\ Len(n.cells) <= Len(k.cells) \/ Len(n.cells) < at + Len(rows)
    BY <1>5, FaultedIs
  <2>3. OnDevice(n)
    BY <2>2 DEF OnDevice
  <2>4. Len(n.cells) <= MaxSeqLen
    BY <1>3, <1>5, <1>6, <2>2
  <2>5. Hit(n)
    BY <2>2, <2>3, <2>4 DEF Reaches
  <2> HIDE DEF Hit
  <2>6. QED
    BY <2>1, <2>5
<1>8. IsSeed(None, kv', at)
  BY DEF IsSeed
<1>9. GenerateReturns(at, None) /\ hole' \in BOOLEAN /\ (~hole' => Faithful(kv', at))
      /\ history' \in Seq(AnyRow) /\ UNCHANGED <<report, stored>>
  BY <1>1, <1>3, <1>4
<1>10. QED
  BY <1>7, <1>8, <1>9, ReturnsInv

LEMMA Ongoing ==
    ASSUME IsGenerate(call')
    PROVE  call'.op = "generate" /\ ~AtRest' /\ ~Appends'
<1>1. PICK c : c = call'
  OBVIOUS
<1>2. c.op = "generate"
  BY <1>1 DEF IsGenerate
<1>3. QED
  BY <1>1, <1>2 DEF AtRest, Appends

LEMMA SpecSingleInv ==
    ASSUME SessionInv, SpecSingle, MayCondemn
    PROVE  SessionInv'
<1>1. /\ call.op = "generate" /\ call.mode = "spec" /\ pos < MaxSeqLen
      /\ UNCHANGED <<report, stored, hole>>
  BY DEF SpecSingle, Decoding, MayStep
<1>2. PICK t \in Tokens : kv' = Feed(kv, <<t>>, pos) /\ history' = Append(history, t)
  BY DEF SpecSingle
<1>3. /\ IsGenerate(call) /\ usable /\ Edge = pos /\ call.at \in 1 .. MaxSeqLen
      /\ pos \in 1 .. MaxSeqLen /\ MaxSeqLen \in Nat
  BY <1>1, Generates
<1>4. PICK at \in 1 .. MaxSeqLen : at = pos + 1
  BY <1>1, <1>3
<1>5. /\ Bounded(kv') /\ Marked(kv') /\ Reaches(kv', at)
      /\ Len(kv'.cells) <= MaxSeqLen
      /\ OnDevice(kv') => Len(kv'.cells) = at
      /\ ~hole' => Faithful(kv', at)
      /\ history' \in Seq(AnyRow) /\ hole' \in BOOLEAN
  BY <1>1, <1>2, <1>3, <1>4, TokenFed
<1>6. CASE GenerateReturns(pos + 1, None)
  <2>1. IsSeed(None, kv', at) /\ at \in 0 .. MaxSeqLen /\ usable' \in BOOLEAN
    BY <1>3 DEF IsSeed, MayCondemn
  <2>2. QED
    BY <1>1, <1>4, <1>5, <1>6, <2>1, ReturnsInv
<1>7. CASE /\ pos' = pos + 1 /\ published' = pos'
           /\ call' = [call EXCEPT !.emitted = @ + 1]
           /\ UNCHANGED <<logits, cancel>>
  <2>1. PICK e \in Nat : e = call.emitted + 1 /\ e # 0
    BY <1>3 DEF IsGenerate
  <2>2. call' = [call EXCEPT !.emitted = e]
    BY <1>7, <2>1
  <2>3. IsGenerate(call') /\ call'.mode = call.mode /\ call'.emitted = e /\ call'.at = call.at
    BY <2>2, <1>3, EmittedIs
  <2>4. cancel' \in BOOLEAN
    BY <1>7 DEF SessionInv, StateTyped
  <2>5. usable' = usable
    BY <2>3, Ongoing DEF MayCondemn
  <2>6. QED
    BY <1>1, <1>3, <1>4, <1>5, <1>7, <2>1, <2>3, <2>4, <2>5, GoesOnInv
<1>8. QED
  BY <1>6, <1>7 DEF SpecSingle

(* A verification round feeds at the end of the cache and goes back twice. *)
LEMMA CutIs ==
    ASSUME NEW k, Bounded(k), Marked(k), ~OnDevice(k) => RingTop(k, Len(k.cells)),
           NEW w \in 1 .. Len(k.cells)
    PROVE  LET n == Truncate(k, w) IN
           /\ Bounded(n) /\ Marked(n) /\ n.backend = k.backend
           /\ Len(n.cells) \in {0, w}
           /\ OnDevice(n) => Len(n.cells) = w
           /\ ~OnDevice(n) => RingTop(n, w) /\ RingTop(n, Len(n.cells))
           /\ Faithful(k, Len(k.cells)) /\ CheckRewind(k, w) => Faithful(n, w)
<1> DEFINE n == Truncate(k, w)
<1>1. /\ Len(k.cells) \in Nat /\ w \in Nat /\ w > 0 /\ w <= Len(k.cells)
      /\ k.cells # <<>> /\ w \in 0 .. Len(k.cells) /\ k.backend \in Backends
  BY KvFields DEF Bounded
<1>2. ~OnDevice(k) => RingTop(k, w)
  BY <1>1 DEF RingTop
<1>3. ASSUME Faithful(k, Len(k.cells)), CheckRewind(k, w) PROVE Faithful(n, w)
  BY <1>1, <1>2, <1>3, RewindFaithful
<1>4. CASE OnDevice(k)
  <2>1. Bounded(n) /\ Marked(n) /\ n.backend = k.backend /\ Len(n.cells) = w
    BY <1>1, <1>4, TruncateDeviceIs
  <2>2. OnDevice(n)
    BY <1>4, <2>1 DEF OnDevice
  <2> HIDE DEF n
  <2>3. QED
    BY <1>3, <2>1, <2>2 DEF n
<1>5. CASE ~OnDevice(k)
  <2>1. /\ Bounded(n) /\ Marked(n) /\ n.backend = k.backend /\ RingTop(n, w)
        /\ w = Len(k.cells) => n = k
        /\ w # Len(k.cells) /\ w > 0 /\ HasPos(k, w) => n = RolledBack(k, w)
        /\ w # Len(k.cells) /\ (w = 0 \/ ~HasPos(k, w)) => n = Pristine(k.backend)
    BY <1>1, <1>2, <1>5, TruncateRingIs
  <2>2. ~OnDevice(n)
    BY <1>5, <2>1 DEF OnDevice
  <2>3. HasPos(k, w) => Len(RolledBack(k, w).cells) = w
    BY <1>1, RolledBackIs
  <2>4. /\ Len(Pristine(k.backend).cells) = 0
        /\ RingTop(Pristine(k.backend), 0)
    BY <1>1, PristineIs
  <2> HIDE DEF n
  <2>5. \/ Len(n.cells) = w
        \/ n = Pristine(k.backend)
    BY <1>1, <2>1, <2>3
  <2>6. Len(n.cells) \in {0, w} /\ RingTop(n, Len(n.cells))
    BY <2>1, <2>4, <2>5
  <2>7. QED
    BY <1>3, <2>1, <2>2, <2>6 DEF n
<1>6. QED
  BY <1>4, <1>5

LEMMA VerifiedIs ==
    ASSUME NEW p \in Nat, NEW k, CanTake(k, p), OnDevice(k) => Len(k.cells) = p,
           NEW rows \in Seq(AnyRow), rows # <<>>,
           NEW v \in Len(k.cells) + 1 .. Len(k.cells) + Len(rows)
    PROVE  LET fed == Feed(k, rows, Len(k.cells))
               n == Truncate(fed, v)
           IN  /\ Bounded(n) /\ Marked(n) /\ n.backend = k.backend
               /\ Len(n.cells) \in {0, v}
               /\ OnDevice(n) => Len(n.cells) = v
               /\ ~OnDevice(n) => RingTop(n, v) /\ RingTop(n, Len(n.cells))
               /\ Faithful(k, Len(k.cells)) /\ CheckRewind(fed, v) => Faithful(n, v)
<1> DEFINE old == Len(k.cells)
           to == old + Len(rows)
           fed == Feed(k, rows, old)
           n == Truncate(fed, v)
<1>1. Bounded(k) /\ old \in Nat /\ Len(rows) \in Nat \ {0}
  BY KvFields, EmptySeq DEF CanTake, Bounded
<1>2. CanTake(k, old)
  BY <1>1 DEF CanTake
<1>3. v \in old + 1 .. to /\ to \in Nat
  BY <1>1
<1> HIDE DEF old
<1>4. /\ Bounded(fed) /\ Marked(fed) /\ SameMakeOf(fed, k)
      /\ Reaches(fed, to)
      /\ Faithful(k, old) => Faithful(fed, to)
  BY <1>1, <1>2, FeedReaches
<1>5. Len(fed.cells) = to
  <2>1. Base(k, old) = old
    BY DEF Base, old
  <2>2. OnDevice(k) => old <= Len(k.cells)
    BY <1>1 DEF old
  <2>3. rows # <<>> => Len(fed.cells) = Base(k, old) + Len(rows)
    BY <1>1, <2>2, FeedGrows
  <2>4. QED
    BY <2>1, <2>3
<1> HIDE DEF fed, to
<1>6. ~OnDevice(fed) => RingTop(fed, Len(fed.cells))
  BY <1>4, <1>5 DEF Reaches
<1>7. v \in 1 .. Len(fed.cells)
  BY <1>1, <1>3, <1>5
<1>8. /\ Bounded(n) /\ Marked(n) /\ n.backend = fed.backend
      /\ Len(n.cells) \in {0, v}
      /\ OnDevice(n) => Len(n.cells) = v
      /\ ~OnDevice(n) => RingTop(n, v) /\ RingTop(n, Len(n.cells))
      /\ Faithful(fed, Len(fed.cells)) /\ CheckRewind(fed, v) => Faithful(n, v)
  BY <1>4, <1>6, <1>7, CutIs
<1> HIDE DEF n
<1>9. n.backend = k.backend
  BY <1>4, <1>8 DEF SameMakeOf
<1>10. Faithful(k, old) /\ CheckRewind(fed, v) => Faithful(n, v)
  BY <1>4, <1>5, <1>8
<1>11. QED
  BY <1>8, <1>9, <1>10 DEF n, fed, old

LEMMA DraftIs ==
    ASSUME NEW p \in Nat, p < MaxSeqLen, pos = p, NEW draft \in Drafts
    PROVE  /\ draft \in Seq(AnyRow) /\ Len(draft) \in Nat \ {0}
           /\ p + 1 + Len(draft) <= MaxSeqLen
<1> DEFINE most == IF MaxDraft < Room THEN MaxDraft ELSE Room
<1>1. MaxSeqLen \in Nat /\ MaxDraft \in Nat
  BY SessionAssumption
<1>2. Room \in Nat /\ Room = MaxSeqLen - (p + 1)
  BY <1>1 DEF Room
<1>3. most \in Nat /\ most <= Room
  BY <1>1, <1>2
<1>4. PICK n \in 1 .. most : draft \in [1 .. n -> Tokens]
  BY DEF Drafts
<1>5. n \in Nat \ {0} /\ n <= Room
  BY <1>2, <1>3, <1>4
<1>6. draft \in Seq(Tokens) /\ Len(draft) = n
  BY <1>4, <1>5
<1>7. Tokens \subseteq AnyRow
  BY DEF AnyRow
<1>8. draft \in Seq(AnyRow)
  BY <1>6, <1>7
<1>9. QED
  BY <1>1, <1>2, <1>5, <1>6, <1>8

LEMMA RoundIs ==
    ASSUME NEW p \in Nat, NEW k, CanTake(k, p), OnDevice(k) => Len(k.cells) = p,
           NEW rows \in Seq(AnyRow), rows # <<>>,
           NEW accepted \in 0 .. Len(rows) - 1, NEW kept \in 0 .. accepted
    PROVE  LET r == Round(k, p, rows, accepted, kept) IN
           /\ Bounded(r.final) /\ Marked(r.final)
           /\ Len(r.final.cells) <= p + 1 + accepted
           /\ ~r.panics => /\ Reaches(r.final, p + 1 + kept)
                           /\ OnDevice(r.final) => Len(r.final.cells) = p + 1 + kept
           /\ ~r.panics /\ r.proven /\ Faithful(k, p) => Faithful(r.final, p + 1 + kept)
<1> DEFINE old      == Len(k.cells)
           fed      == Feed(k, rows, old)
           v        == old + 1 + accepted
           w        == p + 1 + kept
           verified == Truncate(fed, v)
           stopped  == kept < accepted
           panics   == stopped /\ ~CanTruncate(verified, w)
           final    == IF stopped /\ ~panics THEN Truncate(verified, w) ELSE verified
           proven   == /\ CheckRewind(fed, v)
                       /\ Len(verified.cells) = v
                       /\ stopped => /\ CheckRewind(verified, w)
                                     /\ Len(final.cells) = w
           r == Round(k, p, rows, accepted, kept)
<1>1. r.final = final /\ r.panics = panics /\ r.proven = proven
  BY DEF Round
<1>2. /\ Bounded(k) /\ old \in Nat /\ Len(rows) \in Nat \ {0}
      /\ accepted \in Nat /\ kept \in Nat /\ kept <= accepted /\ accepted < Len(rows)
      /\ old <= p
  <2>1. Bounded(k) /\ Len(rows) \in Nat \ {0} /\ old \in Nat
    BY KvFields, EmptySeq DEF CanTake, Bounded
  <2>2. old <= p
    BY <2>1 DEF CanTake
  <2>3. QED
    BY <2>1, <2>2
<1>3. v \in old + 1 .. old + Len(rows)
  BY <1>2
<1>4. /\ Bounded(verified) /\ Marked(verified) /\ verified.backend = k.backend
      /\ Len(verified.cells) \in {0, v}
      /\ OnDevice(verified) => Len(verified.cells) = v
      /\ ~OnDevice(verified) => RingTop(verified, v) /\ RingTop(verified, Len(verified.cells))
      /\ Faithful(k, old) /\ CheckRewind(fed, v) => Faithful(verified, v)
  <2> DEFINE u == v
  <2>1. u \in Len(k.cells) + 1 .. Len(k.cells) + Len(rows)
    BY <1>3
  <2> HIDE DEF u
  <2>2. LET n == Truncate(fed, u) IN
        /\ Bounded(n) /\ Marked(n) /\ n.backend = k.backend
        /\ Len(n.cells) \in {0, u}
        /\ OnDevice(n) => Len(n.cells) = u
        /\ ~OnDevice(n) => RingTop(n, u) /\ RingTop(n, Len(n.cells))
        /\ Faithful(k, old) /\ CheckRewind(fed, u) => Faithful(n, u)
    BY <2>1, VerifiedIs
  <2>3. QED
    BY <2>2 DEF u
<1>5. OnDevice(verified) => old = p
  BY <1>4 DEF OnDevice
<1>6. Faithful(k, p) => old = p
  BY DEF Faithful
<1>7. v \in Nat \ {0} /\ w \in Nat \ {0} /\ v <= p + 1 + accepted /\ w <= p + 1 + accepted
  BY <1>2
<1> HIDE DEF fed, verified
<1>8. CASE ~stopped
  <2>1. kept = accepted
    BY <1>2, <1>8
  <2>2. final = verified /\ ~panics
    BY <1>8
  <2>3. v <= w /\ (old = p => v = w)
    BY <1>2, <2>1
  <2>4. Len(verified.cells) <= w /\ Len(verified.cells) \in Nat
    BY <1>4, <1>7, <2>3
  <2>5. OnDevice(verified) => Len(verified.cells) = w
    BY <1>4, <1>5, <2>3
  <2>6. ~OnDevice(verified) => RingTop(verified, w)
    <3> HIDE DEF v, w
    <3>1. Len(verified.cells) = w => w = v
      BY <1>4, <1>7, <2>3
    <3>2. QED
      BY <1>4, <3>1 DEF RingTop
  <2>7. Reaches(verified, w)
    BY <2>4, <2>5, <2>6 DEF Reaches
  <2>8. proven /\ Faithful(k, p) => Faithful(verified, w)
    BY <1>4, <1>6, <2>3
  <2>9. Len(verified.cells) <= p + 1 + accepted
    BY <2>1, <2>4
  <2> HIDE DEF final, panics, proven
  <2>10. QED
    BY <1>1, <1>4, <2>2, <2>5, <2>7, <2>8, <2>9
<1>9. CASE stopped /\ panics
  <2>1. final = verified
    BY <1>9
  <2>2. Len(verified.cells) <= p + 1 + accepted
    BY <1>2, <1>4, <1>7
  <2> HIDE DEF final, panics, proven
  <2>3. QED
    BY <1>1, <1>4, <1>9, <2>1, <2>2
<1>10. CASE stopped /\ ~panics
  <2> DEFINE n == Truncate(verified, w)
  <2>1. final = n /\ w <= Len(verified.cells)
    BY <1>10 DEF CanTruncate
  <2>2. Len(verified.cells) = v
    <3> HIDE DEF v, w
    <3>1. QED
      BY <1>4, <1>7, <2>1
  <2>3. w \in 1 .. Len(verified.cells)
    BY <1>7, <2>1, <2>2
  <2> HIDE DEF v, w
  <2>4. /\ Bounded(n) /\ Marked(n)
        /\ Len(n.cells) \in {0, w}
        /\ OnDevice(n) => Len(n.cells) = w
        /\ ~OnDevice(n) => RingTop(n, w)
        /\ Faithful(verified, Len(verified.cells)) /\ CheckRewind(verified, w) => Faithful(n, w)
    BY <1>4, <2>3, CutIs
  <2> HIDE DEF n
  <2>5. Len(n.cells) <= w
    BY <1>7, <2>4
  <2>6. Reaches(n, w)
    BY <2>4, <2>5 DEF Reaches
  <2>7. proven /\ Faithful(k, p) => Faithful(n, w)
    BY <1>4, <1>6, <1>10, <2>2, <2>4
  <2>8. Len(n.cells) <= p + 1 + accepted
    BY <1>2, <1>7, <2>4
  <2> HIDE DEF final, panics, proven
  <2>9. QED
    BY <1>1, <1>10, <2>1, <2>4, <2>6, <2>7, <2>8 DEF w
<1>11. QED
  BY <1>8, <1>9, <1>10

LEMMA SpecRoundInv ==
    ASSUME SessionInv, SpecRound, MayCondemn
    PROVE  SessionInv'
<1>1. /\ call.op = "generate" /\ call.mode = "spec" /\ pos < MaxSeqLen
      /\ UNCHANGED <<report, stored>>
  BY DEF SpecRound, Decoding, MayStep
<1>2. /\ IsGenerate(call) /\ usable /\ Edge = pos /\ call.at \in 1 .. MaxSeqLen
      /\ pos \in 1 .. MaxSeqLen /\ MaxSeqLen \in Nat /\ history \in Seq(AnyRow)
      /\ CanTake(kv, Edge)
      /\ OnDevice(kv) => Len(kv.cells) = Edge
      /\ ~hole => Faithful(kv, Edge)
  BY <1>1, Generates
<1> DEFINE Does(t, draft, accepted, kept) ==
         LET r == Round(kv, pos, <<t>> \o draft, accepted, kept) IN
         /\ kv' = r.final
         /\ history' = history \o <<t>> \o First(draft, kept)
         /\ hole' = (hole \/ ~r.proven)
         /\ IF r.panics
            THEN /\ call' = Aborted
                 /\ cancel' = FALSE
                 /\ UNCHANGED <<pos, published, logits>>
            ELSE IF kept < accepted
            THEN GenerateReturns(pos + 1 + kept, None)
            ELSE /\ pos' = pos + 1 + kept
                 /\ published' = pos'
                 /\ call' = [call EXCEPT !.emitted = @ + 1 + kept]
                 /\ UNCHANGED <<logits, cancel>>
<1>3. PICK t \in Tokens, draft \in Drafts, accepted \in Nat, kept \in Nat :
         /\ accepted \in 0 .. Len(draft) /\ kept \in 0 .. accepted
         /\ Does(t, draft, accepted, kept)
  <2>1. PICK t \in Tokens, draft \in Drafts :
           \E accepted \in 0 .. Len(draft) : \E kept \in 0 .. accepted :
              Does(t, draft, accepted, kept)
    BY DEF SpecRound
  <2> HIDE DEF Does
  <2>2. PICK accepted \in 0 .. Len(draft) :
           \E kept \in 0 .. accepted : Does(t, draft, accepted, kept)
    BY <2>1
  <2>3. accepted \in Nat /\ \A kept \in 0 .. accepted : kept \in Nat
    OBVIOUS
  <2>4. QED
    BY <2>2, <2>3
<1> DEFINE k == kv
           rows == <<t>> \o draft
<1>4. PICK p \in Nat : p = pos
  BY <1>2
<1> DEFINE r == Round(k, p, rows, accepted, kept)
           at == p + 1 + kept
<1>5. /\ kv' = r.final /\ (hole' <=> (hole \/ ~r.proven))
      /\ r.panics => call' = Aborted /\ cancel' = FALSE /\ UNCHANGED <<pos, published>>
      /\ ~r.panics => \/ GenerateReturns(at, None)
                      \/ /\ pos' = at /\ published' = at
                         /\ call' = [call EXCEPT !.emitted = @ + 1 + kept]
                         /\ UNCHANGED cancel
  BY <1>3, <1>4
<1>6. /\ draft \in Seq(AnyRow) /\ Len(draft) \in Nat \ {0} /\ p + 1 + Len(draft) <= MaxSeqLen
      /\ accepted \in Nat /\ kept \in Nat /\ kept <= accepted /\ accepted <= Len(draft)
  <2>1. p < MaxSeqLen
    BY <1>1, <1>4
  <2>2. /\ draft \in Seq(AnyRow) /\ Len(draft) \in Nat \ {0} /\ p + 1 + Len(draft) <= MaxSeqLen
    BY <1>4, <2>1, DraftIs
  <2>3. accepted \in 0 .. Len(draft) /\ kept \in 0 .. accepted
    BY <1>3
  <2>4. QED
    BY <2>2, <2>3
<1>7. t \in AnyRow
  BY DEF AnyRow
<1>8. rows \in Seq(AnyRow) /\ rows # <<>> /\ Len(rows) = Len(draft) + 1
  <2>1. <<t>> \in Seq(AnyRow) /\ Len(<<t>>) = 1
    BY <1>7
  <2>2. rows \in Seq(AnyRow) /\ Len(rows) = Len(draft) + 1
    BY <2>1, <1>6, ConcatProperties
  <2>3. QED
    BY <2>2, <1>6, EmptySeq
<1>9. history' \in Seq(AnyRow)
  <2>1. kept \in 0 .. Len(draft)
    BY <1>6
  <2>2. First(draft, kept) \in Seq(AnyRow)
    BY <1>6, <2>1, FirstOf
  <2>3. history \o <<t>> \in Seq(AnyRow)
    BY <1>2, <1>7
  <2>4. QED
    BY <1>3, <2>2, <2>3, ConcatProperties
<1>10. /\ Bounded(r.final) /\ Marked(r.final)
       /\ Len(r.final.cells) <= p + 1 + accepted
       /\ ~r.panics => /\ Reaches(r.final, at)
                       /\ OnDevice(r.final) => Len(r.final.cells) = at
       /\ ~r.panics /\ r.proven /\ Faithful(k, p) => Faithful(r.final, at)
  <2>1. CanTake(k, p) /\ (OnDevice(k) => Len(k.cells) = p)
    BY <1>2, <1>4
  <2>2. accepted \in 0 .. Len(rows) - 1 /\ kept \in 0 .. accepted
    BY <1>6, <1>8
  <2> HIDE DEF k, rows
  <2>3. QED
    BY <2>1, <2>2, <1>8, RoundIs
<1>11. ~hole => Faithful(k, p)
  BY <1>2, <1>4
<1>12. Len(r.final.cells) \in Nat
  BY <1>10, KvFields DEF Bounded
<1>13. Len(r.final.cells) <= MaxSeqLen
  BY <1>2, <1>6, <1>10, <1>12
<1>14. at \in 1 .. MaxSeqLen
  BY <1>2, <1>6
<1>15. hole' \in BOOLEAN
  <2>1. hole \in BOOLEAN /\ hole' = (hole \/ ~Round(kv, pos, <<t>> \o draft, accepted, kept).proven)
    BY <1>3 DEF SessionInv, StateTyped
  <2>2. QED
    BY <2>1, Zenon
<1> HIDE DEF k, rows, r
<1>16. /\ Bounded(kv') /\ Marked(kv') /\ Len(kv'.cells) <= MaxSeqLen
  BY <1>5, <1>10, <1>13
<1>17. CASE r.panics
  <2>1. Len(kv'.cells) <= MaxSeqLen + 1
    BY <1>2, <1>5, <1>12, <1>13
  <2>2. pos' \in 0 .. MaxSeqLen /\ published' \in 0 .. MaxSeqLen /\ cancel' \in BOOLEAN
    BY <1>5, <1>17 DEF SessionInv, StateTyped
  <2>3. StateTyped' /\ StoredInv'
    <3>1. usable' \in BOOLEAN
      BY DEF MayCondemn
    <3>2. QED
      BY <1>1, <1>9, <1>15, <1>16, <2>1, <2>2, <3>1, GeneratedTyped
  <2>4. QED
    BY <1>5, <1>16, <1>17, <2>3, Crash
<1>18. CASE ~r.panics
  <2>1. /\ Reaches(kv', at)
        /\ OnDevice(kv') => Len(kv'.cells) = at
        /\ ~hole' => Faithful(kv', at)
    BY <1>5, <1>10, <1>11, <1>18
  <2>2. PICK to \in 1 .. MaxSeqLen : to = at
    BY <1>14
  <2>3. CASE GenerateReturns(at, None)
    <3>1. IsSeed(None, kv', to) /\ to \in 0 .. MaxSeqLen /\ usable' \in BOOLEAN
      BY <1>2 DEF IsSeed, MayCondemn
    <3>2. QED
      BY <1>1, <1>9, <1>15, <1>16, <2>1, <2>2, <2>3, <3>1, ReturnsInv
  <2>4. CASE /\ pos' = at /\ published' = at
             /\ call' = [call EXCEPT !.emitted = @ + 1 + kept]
             /\ UNCHANGED cancel
    <3>1. PICK e \in Nat : e = call.emitted + 1 + kept /\ e # 0
      BY <1>2, <1>6 DEF IsGenerate
    <3>2. call' = [call EXCEPT !.emitted = e]
      BY <2>4, <3>1
    <3>3. IsGenerate(call') /\ call'.mode = call.mode /\ call'.emitted = e /\ call'.at = call.at
      BY <3>2, <1>2, EmittedIs
    <3>4. cancel' \in BOOLEAN
      BY <2>4 DEF SessionInv, StateTyped
    <3>5. usable' = usable
      BY <3>3, Ongoing DEF MayCondemn
    <3>6. QED
      BY <1>1, <1>2, <1>9, <1>15, <1>16, <2>1, <2>2, <2>4, <3>1, <3>3, <3>4, <3>5, GoesOnInv
  <2>5. QED
    BY <1>5, <1>18, <2>3, <2>4
<1>19. QED
  BY <1>17, <1>18

LEMMA VerificationFaultsInv ==
    ASSUME SessionInv, VerificationFaults, UNCHANGED usable
    PROVE  SessionInv'
<1>1. /\ call.op = "generate" /\ call.mode = "spec" /\ pos < MaxSeqLen
      /\ call' = Aborted /\ cancel' = FALSE
      /\ UNCHANGED <<pos, published, history, logits, report, stored, hole>>
  BY DEF VerificationFaults, Decoding, MayStep
<1>2. PICK t \in Tokens : kv' \in FaultedFeeds(kv, <<t>>, Len(kv.cells))
  BY DEF VerificationFaults
<1>3. /\ CanTake(kv, Edge) /\ Len(kv.cells) \in Nat /\ Len(kv.cells) <= MaxSeqLen
      /\ MaxSeqLen \in Nat /\ history \in Seq(AnyRow) /\ usable
  BY <1>1, Generates
<1> DEFINE k == kv
           rows == <<t>>
           at == Len(k.cells)
<1>4. /\ at \in Nat /\ CanTake(k, at) /\ rows \in Seq(AnyRow) /\ Len(rows) = 1
      /\ kv' \in FaultedFeeds(k, rows, at) /\ at <= MaxSeqLen
  <2>1. t \in AnyRow
    BY DEF AnyRow
  <2>2. QED
    BY <2>1, <1>2, <1>3 DEF CanTake
<1>5. OnDevice(k) => at = Len(k.cells)
  OBVIOUS
<1> DEFINE Hit(n) == Bounded(n) /\ Marked(n) /\ Len(n.cells) <= MaxSeqLen /\ Len(n.cells) \in Nat
<1>6. Hit(kv')
  <2> HIDE DEF k, rows
  <2>1. PICK n \in FaultedFeeds(k, rows, at) : n = kv'
    BY <1>4
  <2>2. PICK a \in Nat : a = at
    BY <1>4
  <2>3. /\ Bounded(n) /\ Marked(n) /\ Len(n.cells) \in Nat
        /\ Len(n.cells) <= Len(k.cells) \/ Len(n.cells) < a + Len(rows)
    BY <1>4, <2>1, <2>2, FaultedIs
  <2>4. Len(n.cells) <= MaxSeqLen
    BY <1>3, <1>4, <2>2, <2>3
  <2>5. Hit(n)
    BY <2>3, <2>4
  <2> HIDE DEF Hit
  <2>6. QED
    BY <2>1, <2>5
<1>7. Len(kv'.cells) <= MaxSeqLen + 1
  BY <1>3, <1>6
<1>8. /\ pos' \in 0 .. MaxSeqLen /\ published' \in 0 .. MaxSeqLen /\ cancel' \in BOOLEAN
      /\ hole' \in BOOLEAN /\ history' \in Seq(AnyRow)
  BY <1>1 DEF SessionInv, StateTyped
<1>9. StateTyped' /\ StoredInv'
  <2>1. usable' \in BOOLEAN
    BY DEF SessionInv, StateTyped
  <2>2. QED
    BY <1>1, <1>6, <1>7, <1>8, <2>1, GeneratedTyped
<1>10. QED
  BY <1>1, <1>6, <1>9, Crash

LEMMA GeneratingInv ==
    ASSUME SessionInv, Generating, MayCondemn
    PROVE  SessionInv'
<1>1. CASE DecodeStep
  <2>1. IsGenerate(call)
    BY <1>1, Generates DEF DecodeStep, Decoding
  <2>2. call'.op = call.op
    BY <1>1, <2>1 DEF DecodeStep, IsGenerate
  <2>3. UNCHANGED usable
    BY <1>1, <2>2 DEF MayCondemn, AtRest, DecodeStep, Decoding
  <2>4. QED
    BY <1>1, <2>3, DecodeStepInv
<1>2. CASE DecodeStops \/ SpecStops
  BY <1>2, StopsInv DEF MayCondemn
<1>3. CASE DecodeFaults \/ SpecSingleFaults
  BY <1>3, FaultsInv DEF MayCondemn
<1>4. CASE SpecSingle \/ SpecRound
  BY <1>4, SpecSingleInv, SpecRoundInv
<1>5. CASE VerificationFaults
  <2>1. UNCHANGED usable
    BY <1>5 DEF MayCondemn, VerificationFaults, Aborted, AtRest
  <2>2. QED
    BY <1>5, <2>1, VerificationFaultsInv
<1>6. QED
  BY <1>1, <1>2, <1>3, <1>4, <1>5 DEF Generating

----------------------------------------------------------------------------
LEMMA ResetsInv ==
    ASSUME SessionInv, Reset \/ ResetFails
    PROVE  SessionInv'
<1>1. CASE Reset
  <2>1. call = Rest
    BY <1>1, Resting DEF Reset
  <2>2. /\ Cleared /\ call' = Rest /\ stored' = stored /\ usable' = TRUE
        /\ cancel' \in BOOLEAN /\ report' \in Outcomes \cup {None}
    BY <1>1, <2>1 DEF Reset
  <2>3. QED
    BY <2>2, ClearedInv
<1>2. CASE ResetFails
  <2>1. call = Rest
    BY <1>2, Resting DEF ResetFails
  <2>2. /\ Bounded(kv) /\ Marked(kv) /\ Len(kv.cells) <= MaxSeqLen + 1
        /\ report \in Outcomes \cup {None} /\ cancel \in BOOLEAN
    BY DEF SessionInv, StateTyped, Bounded, AnyKv
  <2>3. LET n == Unanswered(kv) IN Bounded(n) /\ Marked(n) /\ n.cells = kv.cells
    BY <2>2, UnansweredIs
  <2>4. kv' = kv \/ kv' = Unanswered(kv)
    BY <1>2 DEF ResetFails
  <2>5. Bounded(kv') /\ Marked(kv') /\ Len(kv'.cells) <= MaxSeqLen + 1
    BY <2>2, <2>3, <2>4
  <2>6. /\ usable' = FALSE /\ call' = Rest /\ report' \in Outcomes \cup {None}
        /\ cancel' \in BOOLEAN /\ UNCHANGED <<pos, published, history, stored, hole>>
    BY <1>2, <2>1, <2>2 DEF ResetFails
  <2>7. QED
    BY <2>5, <2>6, CondemnedInv
<1>3. QED
  BY <1>1, <1>2

LEMMA NextInv ==
    ASSUME SessionInv, [Next]_vars
    PROVE  SessionInv'
<1>1. CASE StartAppend \/ StartIngest
  BY <1>1, StartInv
<1>2. CASE AppendStep
  BY <1>2, AppendStepInv
<1>3. CASE StartGenerate
  BY <1>3, StartGenerateInv
<1>4. CASE Generating /\ UNCHANGED usable
  <2>1. MayCondemn
    BY <1>4 DEF MayCondemn, SessionInv, StateTyped
  <2>2. QED
    BY <1>4, <2>1, GeneratingInv
<1>5. CASE Reset \/ ResetFails
  BY <1>5, ResetsInv
<1>6. CASE Checkpoint
  BY <1>6, CheckpointInv
<1>7. CASE Restore
  BY <1>7, RestoreInv
<1>8. CASE GenerateNothing \/ Cancel \/ ClearCancel
  BY <1>8, FlagsInv DEF GenerateNothing, Cancel, ClearCancel
<1>9. CASE UNCHANGED vars
  <2>1. cancel' \in BOOLEAN
    BY <1>9 DEF SessionInv, StateTyped, vars
  <2>2. QED
    BY <1>9, <2>1, FlagsInv DEF vars
<1>10. QED
  BY <1>1, <1>2, <1>3, <1>4, <1>5, <1>6, <1>7, <1>8, <1>9 DEF Next

(* Every state the session reaches satisfies the parts of the invariant:   *)
(* the cache against the position it is extended at, the seed against the  *)
(* cache, the checkpoint of an ingestion against what it would restore.    *)
THEOREM SessionInvariant == Spec => []SessionInv
<1>1. Init => SessionInv
  BY InitInv
<1>2. SessionInv /\ [Next]_vars => SessionInv'
  BY NextInv
<1>3. QED
  BY <1>1, <1>2, PTL DEF Spec

(* The invariant has the types in it.                                      *)
LEMMA SessionTyped ==
    ASSUME SessionInv
    PROVE  TypeOK
<1>1. call.op \in {"rest", "append", "recovering", "generate", "aborted"}
  BY DEF SessionInv, CallTyped, Appends, Rest, Aborted
<1>2. QED
  BY <1>1 DEF SessionInv, StateTyped, TypeOK

(* The position never leaves 0 .. max_seq_len, the cache holds at most one *)
(* row more (the half-written one of a pass that panicked), and a report   *)
(* is one of the four outcomes.                                            *)
THEOREM SessionTypeOK == Spec => []TypeOK
<1>1. SessionInv => TypeOK
  BY SessionTyped
<1>2. QED
  BY <1>1, SessionInvariant, PTL

(* Whatever was cancelled, failed, undone, verified, reset or restored, a  *)
(* usable session between calls stands where its cache ends, tells other   *)
(* threads so, and holds what one pass over its rows would have left.      *)
THEOREM SessionFrontierAgrees == Spec => []FrontierAgrees
<1>1. SessionInv => FrontierAgrees
  <2> SUFFICES ASSUME SessionInv, AtRest, usable, ~hole
               PROVE  /\ pos = Len(kv.cells)
                      /\ published = pos
                      /\ kv.dropped \/ Sound(kv)
    BY DEF FrontierAgrees
  <2>1. Faithful(kv, pos) /\ published = pos
    BY Resting DEF RestsWell
  <2>2. QED
    BY <2>1 DEF Faithful
<1>2. QED
  BY <1>1, SessionInvariant, PTL

(* Logits that a generation may start from follow from the state it starts *)
(* in, whichever append, rewind, reset or restore came last.               *)
THEOREM SessionSeedMatchesContext == Spec => []SeedMatchesContext
<1>1. SessionInv => SeedMatchesContext
  BY Resting DEF SeedMatchesContext, RestsWell, IsSeed
<1>2. QED
  BY <1>1, SessionInvariant, PTL

(* A "restored" report is true: the context, position, drafting history    *)
(* and logits are those of before the ingestion, and a cancel request that *)
(* came meanwhile is still pending.                                        *)
THEOREM SessionRestoredIsExact == Spec => RestoredIsExact
<1> DEFINE Exact == Recovering /\ AtRest' /\ report' = "restored" /\ ~hole =>
                      /\ Context(kv') = Context(call.before.kv)
                      /\ pos' = call.before.pos
                      /\ history' = call.before.history
                      /\ logits' = call.before.logits
                      /\ cancel' = cancel
<1>1. SessionInv /\ [Next]_vars => [Exact]_vars
  <2> SUFFICES ASSUME SessionInv, Next, Recovering, AtRest', report' = "restored", ~hole
               PROVE  Exact
    OBVIOUS
  <2>1. call.op = "recovering" /\ call'.op = "rest"
    BY DEF Recovering, AtRest
  <2>2. CASE RewindToBefore
    <3>1. /\ Context(kv') = Context(call.before.kv)
          /\ history' = call.before.history
      BY <2>2, RewindInv
    <3>2. pos' = call.before.pos /\ logits' = call.before.logits /\ cancel' = cancel
      BY <2>2 DEF RewindToBefore
    <3>3. QED
      BY <3>1, <3>2
  <2>3. CASE AppendStep /\ ~RewindToBefore
    <3>1. ~(RefuseSegment \/ BeginSegment \/ BeginShifted \/ ShiftPanics)
      BY <2>1 DEF RefuseSegment, BeginSegment, BeginShifted, ShiftPanics
    <3>2. ~(PrefillChunk \/ EmbeddingChunk \/ ChunkFaults)
      BY <2>1 DEF PrefillChunk, EmbeddingChunk, ChunkFaults
    <3>3. ~(LeaveUnchanged \/ ResetInstead \/ GiveUp \/ IngestUnwinds)
      BY DEF LeaveUnchanged, ResetInstead, GiveUp, IngestUnwinds
    <3>4. QED
      BY <2>3, <3>1, <3>2, <3>3 DEF AppendStep
  <2>4. ~(StartAppend \/ StartIngest \/ GenerateNothing \/ StartGenerate)
    BY <2>1 DEF StartAppend, StartIngest, Ingests, GenerateNothing, StartGenerate, AtRest
  <2>5. ~Generating
    BY <2>1 DEF Generating, DecodeStep, DecodeStops, DecodeFaults, SpecStops, SpecSingle,
                SpecSingleFaults, SpecRound, VerificationFaults, Decoding
  <2>6. ~(Reset \/ ResetFails \/ Checkpoint \/ Restore \/ Cancel \/ ClearCancel)
    BY <2>1 DEF Reset, ResetFails, Checkpoint, Restore, Cancel, ClearCancel, AtRest
  <2>7. QED
    BY <2>2, <2>3, <2>4, <2>5, <2>6 DEF Next
<1>2. QED
  BY <1>1, SessionInvariant, PTL DEF Spec, RestoredIsExact

(* A raw append that stops early keeps its contract: the position says how *)
(* many rows of the segment went in, those are in the context and no       *)
(* others, and nothing can be generated from half a segment.               *)
THEOREM SessionCancelledIsResumable == Spec => CancelledIsResumable
<1> DEFINE Partial == call.op = "append" /\ call.begun /\ ~call.guarded /\ AtRest' /\ ~hole' =>
              LET rows == Rows
                  done == pos' - call.base.pos
              IN  /\ RowsOf(kv'.cells) = RowsOf(call.base.cells) \o First(rows, done)
                  /\ done < Len(rows) => cancel /\ logits' = None
<1>1. SessionInv /\ [Next]_vars => [Partial]_vars
  <2> SUFFICES ASSUME SessionInv, Next, call.op = "append", call.begun, ~call.guarded,
                      AtRest', ~hole'
               PROVE  /\ RowsOf(kv'.cells) = RowsOf(call.base.cells)
                                             \o First(Rows, pos' - call.base.pos)
                      /\ pos' - call.base.pos < Len(Rows) => cancel /\ logits' = None
    BY Zenon
  <2>1. call'.op = "rest"
    BY DEF AtRest
  <2>2. /\ IsAppend(call) /\ call.fed \in Nat /\ call.fed < Len(Rows) /\ Len(Rows) \in Nat
        /\ pos \in Nat
    BY Appended
  <2>3. FedAfter = call.fed + Len(Chunk) /\ Len(Chunk) \in Nat
    BY <2>2, ChunkIs
  <2>4. CASE PrefillChunk \/ EmbeddingChunk
    <3>1. ChunkGoesIn
      BY <2>4, PrefillIs, EmbeddingIs
    <3>2. ~hole
      BY <3>1 DEF ChunkGoesIn
    <3>3. call' # [call EXCEPT !.fed = FedAfter]
      <4> SUFFICES ASSUME call' = [call EXCEPT !.fed = FedAfter] PROVE FALSE
        OBVIOUS
      <4>1. FedAfter \in Nat
        BY <2>2, <2>3
      <4>2. call'.op = call.op
        BY <4>1, <2>2, MoreRowsIs
      <4>3. QED
        BY <4>2, <2>1
    <3>4. /\ pos' = After
          /\ FedAfter = Len(Rows) \/ (cancel /\ logits' = None)
      BY <2>4, <3>3, PrefillIs, EmbeddingIs DEF StopShort
    <3>5. RowsOf(kv'.cells) = RowsOf(call.base.cells) \o First(Rows, FedAfter)
      BY <3>1, <3>2, ChunkFed
    <3>6. pos' - call.base.pos = FedAfter
      <4>1. call.base.pos \in Nat /\ pos = call.base.pos + IF Soft THEN call.fed ELSE 0
        BY DEF SessionInv, SegmentInv
      <4>2. After = pos + (IF Soft THEN 0 ELSE call.fed) + Len(Chunk)
        BY <2>2 DEF After, Frontier
      <4>3. QED
        BY <2>2, <2>3, <3>4, <4>1, <4>2
    <3>7. QED
      BY SMTT(40), <2>2, <3>4, <3>5, <3>6
  <2>5. ~ChunkFaults
    BY DEF ChunkFaults
  <2>6. ~(RefuseSegment \/ BeginSegment \/ BeginShifted \/ ShiftPanics)
    BY DEF RefuseSegment, BeginSegment, BeginShifted, ShiftPanics
  <2>7. ~(LeaveUnchanged \/ RewindToBefore \/ ResetInstead \/ GiveUp \/ IngestUnwinds)
    BY DEF LeaveUnchanged, RewindToBefore, ResetInstead, MustReset, GiveUp, IngestUnwinds,
           Recovering
  <2>8. ~(StartAppend \/ StartIngest \/ GenerateNothing \/ StartGenerate)
    BY DEF StartAppend, StartIngest, Ingests, GenerateNothing, StartGenerate, AtRest
  <2>9. ~Generating
    BY DEF Generating, DecodeStep, DecodeStops, DecodeFaults, SpecStops, SpecSingle,
           SpecSingleFaults, SpecRound, VerificationFaults, Decoding
  <2>10. ~(Reset \/ ResetFails \/ Checkpoint \/ Restore \/ Cancel \/ ClearCancel)
    BY <2>1 DEF Reset, ResetFails, Checkpoint, Restore, Cancel, ClearCancel, AtRest
  <2>11. QED
    BY <2>4, <2>5, <2>6, <2>7, <2>8, <2>9, <2>10 DEF Next, AppendStep
<1>2. QED
  BY <1>1, SessionInvariant, PTL DEF Spec, CancelledIsResumable

=============================================================================
