----------------------------- MODULE ChatProofs -----------------------------
(***************************************************************************)
(* Proofs about Chat: its phases are true of the session, and it keeps the *)
(* promise of Transcript, for every set of messages, context length, chunk *)
(* size, draft length and backend.  That the session stays consistent is   *)
(* SessionProofs'; what is added here is what the rows in it spell.        *)
(***************************************************************************)
EXTENDS Chat, SessionProofs

----------------------------------------------------------------------------
(* A sequence of sequences, joined, is its first and the others joined.    *)
LEMMA FlattenSteps ==
    ASSUME NEW S, NEW s \in Seq(Seq(S)), s # <<>>
    PROVE  \E f : /\ f[1] = s[1]
                  /\ \A i \in 2 .. Len(s) : f[i] = f[i - 1] \o s[i]
                  /\ \A i \in 1 .. Len(s) : f[i] \in Seq(S)
                  /\ FlattenSeq(s) = f[Len(s)]
<1> DEFINE l == Len(s)
           Run(n, f) == f = [i \in 1 .. n |-> IF i = 1 THEN s[i] ELSE f[i - 1] \o s[i]]
           Bad == {n \in Nat \ {0} : n <= l /\ ~ \E f : Run(n, f)}
<1>0. l \in Nat \ {0} /\ l <= l /\ \A i \in 1 .. l : s[i] \in Seq(S)
  BY LenProperties, ElementOfSeq, EmptySeq
<1> HIDE DEF l
<1>1. Bad = {}
  <2> SUFFICES ASSUME Bad # {} PROVE FALSE
    OBVIOUS
  <2>1. PICK n \in Bad : \A m \in Bad : n <= m
    <3>1. Bad \in SUBSET Nat
      OBVIOUS
    <3> HIDE DEF Bad
    <3>2. QED
      BY <3>1, Least
  <2>2. n \in Nat \ {0} /\ n <= l /\ ~ \E f : Run(n, f)
    BY <2>1
  <2>3. n # 1
    <3>1. Run(1, [i \in 1 .. 1 |-> s[1]])
      OBVIOUS
    <3>2. QED
      BY <3>1, <2>2
  <2>4. n - 1 \in Nat \ {0} /\ n - 1 <= l /\ ~(n <= n - 1)
    BY <2>2, <2>3, <1>0
  <2>5. PICK g : Run(n - 1, g)
    BY <2>1, <2>4
  <2> DEFINE h == [i \in 1 .. n |-> IF i = 1 THEN s[i] ELSE g[i - 1] \o s[i]]
  <2>6. ASSUME NEW i \in 1 .. n, i # 1 PROVE h[i - 1] = g[i - 1]
    <3> DEFINE j == i - 1
    <3>1. j \in 1 .. n - 1 /\ j \in 1 .. n
      BY <2>2, <2>6
    <3> HIDE DEF h, j
    <3>2. g[j] = IF j = 1 THEN s[j] ELSE g[j - 1] \o s[j]
      BY <3>1, <2>5
    <3>3. h[j] = IF j = 1 THEN s[j] ELSE g[j - 1] \o s[j]
      BY <3>1 DEF h
    <3>4. QED
      BY <3>2, <3>3 DEF j
  <2>7. Run(n, h)
    BY <2>6
  <2>8. QED
    BY <2>2, <2>7
<1>2. \E f : Run(l, f)
  <2> HIDE DEF Run
  <2>1. QED
    BY <1>0, <1>1
<1> DEFINE f == CHOOSE f : Run(l, f)
<1>3. Run(l, f)
  BY <1>2
<1>4. FlattenSeq(s) = f[l]
  BY <1>0 DEF FlattenSeq, l
<1> HIDE DEF f
<1>5. f[1] = s[1] /\ \A i \in 2 .. l : f[i] = f[i - 1] \o s[i]
  <2>1. \A i \in 1 .. l : f[i] = IF i = 1 THEN s[i] ELSE f[i - 1] \o s[i]
    BY <1>3
  <2>2. 1 \in 1 .. l /\ \A i \in 2 .. l : i \in 1 .. l /\ i # 1
    BY <1>0
  <2>3. QED
    BY <2>1, <2>2
<1>6. \A i \in 1 .. l : f[i] \in Seq(S)
  <2> DEFINE Off == {n \in Nat : n \in 1 .. l /\ f[n] \notin Seq(S)}
  <2> SUFFICES ASSUME Off # {} PROVE FALSE
    <3>1. ASSUME NEW i \in 1 .. l, f[i] \notin Seq(S) PROVE i \in Off
      BY <3>1, <1>0
    <3> HIDE DEF Off
    <3>2. QED
      BY <3>1
  <2>1. PICK n \in Off : \A m \in Off : n <= m
    <3>1. Off \in SUBSET Nat
      OBVIOUS
    <3> HIDE DEF Off
    <3>2. QED
      BY <3>1, Least
  <2>2. n \in 1 .. l /\ f[n] \notin Seq(S) /\ n \in Nat
    BY <2>1
  <2>3. n # 1
    BY <2>2, <1>0, <1>5
  <2>4. n \in 2 .. l /\ n - 1 \in 1 .. l /\ n - 1 \in Nat /\ ~(n <= n - 1)
    BY <2>2, <2>3, <1>0
  <2>5. f[n - 1] \in Seq(S) /\ s[n] \in Seq(S)
    BY <2>1, <2>4, <1>0
  <2>6. f[n - 1] \o s[n] \in Seq(S)
    BY <2>5, ConcatProperties
  <2>7. QED
    BY <2>2, <2>4, <2>6, <1>5
<1>7. QED
  BY <1>4, <1>5, <1>6 DEF l

LEMMA FlattenHead ==
    ASSUME NEW S, NEW s \in Seq(Seq(S)), s # <<>>
    PROVE  /\ FlattenSeq(s) \in Seq(S) /\ FlattenSeq(Tail(s)) \in Seq(S)
           /\ FlattenSeq(s) = Head(s) \o FlattenSeq(Tail(s))
<1> DEFINE l == Len(s)
           t == Tail(s)
<1>1. /\ l \in Nat \ {0} /\ Head(s) = s[1] /\ s[1] \in Seq(S)
      /\ t \in Seq(Seq(S)) /\ Len(t) = l - 1 /\ \A i \in 1 .. Len(t) : t[i] = s[i + 1]
  BY LenProperties, EmptySeq, HeadTailProperties, ElementOfSeq
<1>2. PICK f : /\ f[1] = s[1]
               /\ \A i \in 2 .. l : f[i] = f[i - 1] \o s[i]
               /\ \A i \in 1 .. l : f[i] \in Seq(S)
               /\ FlattenSeq(s) = f[l]
  BY FlattenSteps
<1>3. FlattenSeq(s) \in Seq(S)
  BY <1>1, <1>2
<1>4. CASE t = <<>>
  <2>1. FlattenSeq(t) = <<>>
    BY <1>4 DEF FlattenSeq
  <2>2. l = 1
    <3>1. Len(<<>>) = 0
      OBVIOUS
    <3> HIDE DEF t, l
    <3>2. Len(t) = 0 /\ Len(t) = l - 1 /\ l \in Nat
      BY <3>1, <1>1, <1>4
    <3>3. QED
      BY <3>2
  <2>3. s[1] \o <<>> = s[1] /\ <<>> \in Seq(S)
    BY <1>1, ConcatEmptySeq
  <2>4. QED
    BY <1>1, <1>2, <1>3, <2>1, <2>2, <2>3
<1>5. CASE t # <<>>
  <2> HIDE DEF l, t
  <2>1. PICK g : /\ g[1] = t[1]
                 /\ \A i \in 2 .. Len(t) : g[i] = g[i - 1] \o t[i]
                 /\ \A i \in 1 .. Len(t) : g[i] \in Seq(S)
                 /\ FlattenSeq(t) = g[Len(t)]
    BY <1>1, <1>5, FlattenSteps
  <2>2. Len(t) \in Nat \ {0}
    BY <1>1, <1>5, EmptySeq, LenProperties
  <2>3. \A i \in 1 .. Len(t) : f[i + 1] = s[1] \o g[i]
    <3> DEFINE Off == {n \in Nat : n \in 1 .. Len(t) /\ f[n + 1] # s[1] \o g[n]}
    <3> SUFFICES ASSUME Off # {} PROVE FALSE
      <4>1. ASSUME NEW i \in 1 .. Len(t), f[i + 1] # s[1] \o g[i] PROVE i \in Off
        <5>1. i \in Nat
          BY <2>2
        <5>2. QED
          BY <4>1, <5>1, Zenon
      <4> HIDE DEF Off
      <4>2. QED
        BY <4>1
    <3>1. PICK n \in Off : \A m \in Off : n <= m
      <4>1. Off \in SUBSET Nat
        OBVIOUS
      <4> HIDE DEF Off
      <4>2. QED
        BY <4>1, Least
    <3>2. n \in 1 .. Len(t) /\ f[n + 1] # s[1] \o g[n] /\ n \in Nat
      BY <3>1
    <3>3. n + 1 \in 2 .. l /\ (n + 1) - 1 = n
      BY <3>2, <2>2, <1>1
    <3>4. f[n + 1] = f[n] \o t[n]
      BY <3>2, <3>3, <1>1, <1>2
    <3>5. n # 1
      BY <3>2, <3>4, <2>1, <2>2, <1>1, <1>2
    <3> DEFINE p == n - 1
    <3>6. n \in 2 .. Len(t) /\ p \in 1 .. Len(t) /\ p \in Nat /\ p + 1 = n /\ ~(n <= p)
      BY <3>2, <3>5, <2>2
    <3> HIDE DEF p
    <3>7. f[p + 1] = s[1] \o g[p]
      BY <3>1, <3>6
    <3>8. g[n] = g[p] \o t[n]
      BY <3>6, <2>1 DEF p
    <3>9. g[p] \in Seq(S) /\ t[n] \in Seq(S)
      BY <3>2, <3>6, <1>1, <2>1, ElementOfSeq
    <3>10. (s[1] \o g[p]) \o t[n] = s[1] \o (g[p] \o t[n])
      <4> DEFINE x == s[1]
                 y == g[p]
                 z == t[n]
      <4>1. x \in Seq(S) /\ y \in Seq(S) /\ z \in Seq(S)
        BY <3>9, <1>1
      <4> HIDE DEF x, y, z
      <4>2. (x \o y) \o z = x \o (y \o z)
        BY <4>1, ConcatAssociative, SMTT(40)
      <4>3. QED
        BY <4>2 DEF x, y, z
    <3>11. QED
      BY <3>2, <3>4, <3>6, <3>7, <3>8, <3>10
  <2>4. f[l] = s[1] \o g[Len(t)]
    <3>1. Len(t) \in 1 .. Len(t) /\ Len(t) + 1 = l
      BY <1>1, <2>2
    <3>2. QED
      BY <3>1, <2>3
  <2>5. g[Len(t)] \in Seq(S)
    BY <2>1, <2>2
  <2>6. QED
    BY <1>1, <1>2, <1>3, <2>1, <2>4, <2>5 DEF t
<1>6. QED
  BY <1>4, <1>5

LEMMA FlatEmpty == FlatRows(<<>>) = <<>>
<1>1. [i \in DOMAIN <<>> |-> <<>>[i].rows] = <<>>
  OBVIOUS
<1>2. FlattenSeq(<<>>) = <<>>
  BY DEF FlattenSeq
<1>3. QED
  BY <1>1, <1>2 DEF FlatRows

LEMMA FlatHead ==
    ASSUME NEW m \in Seq(Segments), m # <<>>
    PROVE  /\ FlatRows(m) \in Seq(AnyRow) /\ FlatRows(Tail(m)) \in Seq(AnyRow)
           /\ FlatRows(m) = Head(m).rows \o FlatRows(Tail(m))
<1> DEFINE s == [i \in DOMAIN m |-> m[i].rows]
           t == Tail(m)
           r == [i \in DOMAIN t |-> t[i].rows]
<1>1. /\ Len(m) \in Nat \ {0} /\ DOMAIN m = 1 .. Len(m) /\ Head(m) = m[1]
      /\ \A i \in 1 .. Len(m) : m[i] \in Segments
      /\ t \in Seq(Segments) /\ Len(t) = Len(m) - 1 /\ DOMAIN t = 1 .. Len(t)
      /\ \A i \in 1 .. Len(t) : t[i] = m[i + 1]
  BY LenProperties, EmptySeq, HeadTailProperties, ElementOfSeq
<1>2. \A i \in 1 .. Len(m) : m[i].rows \in Seq(AnyRow)
  BY <1>1, SegmentRows
<1> HIDE DEF t
<1>3. /\ s \in Seq(Seq(AnyRow)) /\ Len(s) = Len(m)
      /\ \A i \in 1 .. Len(m) : s[i] = m[i].rows
  BY <1>1, <1>2
<1>4. /\ r \in Seq(Seq(AnyRow)) /\ Len(r) = Len(t)
      /\ \A i \in 1 .. Len(t) : r[i] = m[i + 1].rows
  <2>1. \A i \in 1 .. Len(t) : t[i].rows \in Seq(AnyRow)
    BY <1>1, <1>2
  <2>2. QED
    BY <1>1, <2>1
<1> HIDE DEF s, r
<1>5. s # <<>> /\ Head(s) = Head(m).rows
  BY <1>1, <1>3, EmptySeq, HeadTailProperties
<1>6. Tail(s) = r
  <2>1. /\ Tail(s) \in Seq(Seq(AnyRow)) /\ Len(Tail(s)) = Len(s) - 1
        /\ \A i \in 1 .. Len(Tail(s)) : Tail(s)[i] = s[i + 1]
    BY <1>3, <1>5, HeadTailProperties
  <2>2. Len(Tail(s)) = Len(r) /\ \A i \in 1 .. Len(r) : Tail(s)[i] = r[i]
    BY <2>1, <1>1, <1>3, <1>4
  <2>3. QED
    BY <2>1, <2>2, <1>4, SeqEqual
<1>7. /\ FlattenSeq(s) \in Seq(AnyRow) /\ FlattenSeq(r) \in Seq(AnyRow)
      /\ FlattenSeq(s) = Head(s) \o FlattenSeq(r)
  BY <1>3, <1>5, <1>6, FlattenHead
<1>8. FlatRows(m) = FlattenSeq(s) /\ FlatRows(t) = FlattenSeq(r)
  BY DEF FlatRows, s, r
<1>9. QED
  BY <1>5, <1>7, <1>8 DEF t

(* What is left of a sequence of which the beginning has gone.             *)
LEMMA FirstBeyond ==
    ASSUME NEW S, NEW s \in Seq(S), NEW r \in Seq(S), NEW n \in 0 .. Len(r)
    PROVE  First(s \o r, Len(s) + n) = s \o First(r, n)
<1> DEFINE f == First(r, n)
           c == s \o r
           d == s \o f
           a == Len(s)
           b == Len(r)
           m == a + n
<1>1. a \in Nat /\ b \in Nat /\ n \in Nat /\ n <= b
  BY LenProperties
<1>2. f \in Seq(S) /\ Len(f) = n /\ \A i \in 1 .. n : f[i] = r[i]
  BY FirstOf
<1>3. /\ c \in Seq(S) /\ Len(c) = a + b
      /\ \A i \in 1 .. a + b : c[i] = IF i <= a THEN s[i] ELSE r[i - a]
  BY ConcatProperties
<1> HIDE DEF f
<1>4. /\ d \in Seq(S) /\ Len(d) = a + n
      /\ \A i \in 1 .. a + n : d[i] = IF i <= a THEN s[i] ELSE f[i - a]
  BY <1>2, ConcatProperties
<1> HIDE DEF a, b, c, d
<1>5. m \in 0 .. Len(c)
  BY <1>1, <1>3
<1>6. First(c, m) \in Seq(S) /\ Len(First(c, m)) = m /\ \A i \in 1 .. m : First(c, m)[i] = c[i]
  <2> HIDE DEF m
  <2>1. QED
    BY <1>3, <1>5, FirstOf
<1>7. ASSUME NEW i \in 1 .. m PROVE c[i] = d[i]
  <2>1. c[i] = (IF i <= a THEN s[i] ELSE r[i - a]) /\ d[i] = (IF i <= a THEN s[i] ELSE f[i - a])
    BY <1>1, <1>3, <1>4
  <2>2. CASE i <= a
    BY <2>1, <2>2
  <2>3. CASE ~(i <= a)
    <3>1. i - a \in 1 .. n
      BY <1>1, <2>3
    <3>2. QED
      BY <2>1, <2>3, <3>1, <1>2
  <2>4. QED
    BY <2>2, <2>3
<1>8. First(c, m) = d
  <2>1. Len(d) = m
    BY <1>4
  <2> HIDE DEF m
  <2>2. QED
    BY <2>1, <1>4, <1>6, <1>7, SeqEqual
<1>9. QED
  BY <1>8 DEF c, d, m, a, f

LEMMA RestOf ==
    ASSUME NEW S, NEW r \in Seq(S), NEW n \in 0 .. Len(r)
    PROVE  /\ SubSeq(r, n + 1, Len(r)) \in Seq(S)
           /\ n = 0 => SubSeq(r, n + 1, Len(r)) = r
           /\ n = Len(r) => SubSeq(r, n + 1, Len(r)) = <<>>
<1> DEFINE l == Len(r)
           a == n + 1
<1>1. l \in Nat /\ n \in Nat /\ n <= l /\ a \in Int /\ l \in Int /\ \A i \in a .. l : r[i] \in S
  BY LenProperties, ElementOfSeq
<1>2. First(r, l) = r
  BY FirstAll
<1> HIDE DEF l, a
<1>3. SubSeq(r, a, l) \in Seq(S)
  BY <1>1, SubSeqProperties
<1>4. n = 0 => SubSeq(r, a, l) = r
  BY <1>1, <1>2 DEF First, a
<1>5. n = l => SubSeq(r, a, l) = <<>>
  <2>1. n = l => l < a
    BY <1>1 DEF a
  <2>2. QED
    BY <2>1, <1>1, SubSeqEmpty
<1>6. QED
  BY <1>3, <1>4, <1>5 DEF l, a

LEMMA Joins ==
    ASSUME NEW S, NEW x \in Seq(S), NEW y \in Seq(S)
    PROVE  /\ x \o y \in Seq(S) /\ Len(x) \in Nat /\ Len(y) \in Nat
           /\ Len(x \o y) = Len(x) + Len(y)
           /\ \A i \in 1 .. Len(x) : (x \o y)[i] = x[i]
           /\ \A i \in 1 .. Len(y) : (x \o y)[Len(x) + i] = y[i]
<1> DEFINE c == x \o y
           a == Len(x)
           b == Len(y)
<1>1. a \in Nat /\ b \in Nat
  BY LenProperties
<1>2. /\ c \in Seq(S) /\ Len(c) = a + b
      /\ \A i \in 1 .. a + b : c[i] = IF i <= a THEN x[i] ELSE y[i - a]
  BY ConcatProperties
<1> HIDE DEF a, b, c
<1>3. ASSUME NEW i \in 1 .. a PROVE c[i] = x[i]
  BY <1>1, <1>2
<1>4. ASSUME NEW i \in 1 .. b PROVE c[a + i] = y[i]
  <2>1. a + i \in 1 .. a + b /\ ~(a + i <= a) /\ (a + i) - a = i
    BY <1>1
  <2>2. QED
    BY <2>1, <1>2
<1>5. QED
  BY <1>1, <1>2, <1>3, <1>4 DEF a, b, c

LEMMA Regroup ==
    ASSUME NEW S, NEW x \in Seq(S), NEW y \in Seq(S), NEW z \in Seq(S)
    PROVE  (x \o y) \o z = x \o (y \o z) /\ x \o y \in Seq(S)
BY ConcatAssociative, ConcatProperties, SMTT(40)

(* What a model may answer: sequences of so many tokens.                   *)
Answers == UNION {[1 .. n -> Tokens] : n \in 0 .. MaxNew}

LEMMA AnswersAre ==
    /\ \A s \in Answers : s \in Seq(Tokens) /\ Len(s) \in Nat /\ Len(s) <= MaxNew
    /\ \A s \in Seq(Tokens) : Len(s) <= MaxNew => s \in Answers
<1>1. MaxNew \in Nat
  BY SessionAssumption
<1>2. ASSUME NEW s \in Answers
      PROVE  s \in Seq(Tokens) /\ Len(s) \in Nat /\ Len(s) <= MaxNew
  <2>1. PICK n \in 0 .. MaxNew : s \in [1 .. n -> Tokens]
    BY DEF Answers
  <2>2. n \in Nat /\ n <= MaxNew
    BY <1>1
  <2>3. s \in Seq(Tokens) /\ Len(s) = n
    BY <2>1, <2>2
  <2>4. QED
    BY <2>2, <2>3
<1>3. ASSUME NEW s \in Seq(Tokens), Len(s) <= MaxNew PROVE s \in Answers
  <2>1. Len(s) \in Nat /\ s \in [1 .. Len(s) -> Tokens]
    OBVIOUS
  <2>2. Len(s) \in 0 .. MaxNew
    BY <2>1, <1>1, <1>3
  <2> DEFINE n == Len(s)
  <2> HIDE DEF n
  <2>3. n \in 0 .. MaxNew /\ s \in [1 .. n -> Tokens]
    BY <2>1, <2>2 DEF n
  <2>4. QED
    BY <2>3 DEF Answers
<1>4. QED
  BY <1>2, <1>3

(* A rewind that was checked leaves the beginning of what was there.       *)
LEMMA CheckedCut ==
    ASSUME NEW k, Bounded(k), NEW w \in Nat, CheckRewind(k, w)
    PROVE  /\ w \in 0 .. Len(k.cells)
           /\ Truncate(k, w).cells = First(k.cells, w)
<1>1. k \in AnyKv /\ k.cells \in Seq(AnyCell) /\ Len(k.cells) \in Nat /\ k.backend \in Backends
  BY KvFields DEF Bounded
<1>2. w \in 0 .. Len(k.cells)
  BY <1>1 DEF CheckRewind
<1>3. w = 0 => First(k.cells, w) = <<>>
  BY <1>1, FirstOf, EmptySeq
<1>4. w = Len(k.cells) => First(k.cells, w) = k.cells
  BY <1>1, FirstAll
<1>5. Pristine(k.backend).cells = <<>>
  BY <1>1, PristineIs
<1>6. CASE OnDevice(k)
  <2>1. w # 0 => [k EXCEPT !.cells = First(@, w)].cells = First(k.cells, w)
    BY <1>1 DEF AnyKv, Kvs
  <2>2. QED
    BY <2>1, <1>2, <1>3, <1>5, <1>6 DEF Truncate, TruncateDevice
<1>7. CASE ~OnDevice(k)
  <2>1. w = Len(k.cells) \/ HasPos(k, w)
    BY <1>7 DEF CheckRewind, OnDevice
  <2>2. CASE w = Len(k.cells)
    BY <2>2, <1>2, <1>4, <1>7 DEF Truncate, TruncateRing
  <2>3. CASE w # Len(k.cells) /\ w = 0
    <3>1. Truncate(k, w) = Pristine(k.backend)
      BY <2>3, <1>7 DEF Truncate, TruncateRing
    <3>2. QED
      BY <2>3, <3>1, <1>2, <1>3, <1>5
  <2>4. CASE w # Len(k.cells) /\ w > 0
    <3>1. Truncate(k, w) = RolledBack(k, w) /\ HasPos(k, w)
      BY <2>1, <2>4, <1>7 DEF Truncate, TruncateRing
    <3>2. w \in 1 .. Len(k.cells)
      BY <2>4, <1>2
    <3>3. RolledBack(k, w).cells = First(k.cells, w)
      BY <3>1, <3>2, RolledBackIs
    <3>4. QED
      BY <3>1, <3>3, <1>2
  <2>5. QED
    BY <2>2, <2>3, <2>4
<1>8. QED
  BY <1>6, <1>7

(* No rewind, no row and no failure takes rows out of the middle.          *)
LEMMA CutKeeps ==
    ASSUME NEW k, Bounded(k), NEW w
    PROVE  Truncate(k, w).dropped => k.dropped
<1>1. k \in AnyKv /\ k.backend \in Backends
  BY KvFields DEF Bounded
<1>2. Pristine(k.backend).dropped = FALSE
  BY DEF Pristine
<1>3. RolledBack(k, w).dropped = k.dropped
  BY <1>1 DEF RolledBack, AnyKv, Kvs
<1>4. [k EXCEPT !.cells = First(@, w)].dropped = k.dropped
  BY <1>1 DEF AnyKv, Kvs
<1>5. QED
  BY <1>2, <1>3, <1>4 DEF Truncate, TruncateDevice, TruncateRing

(* A round that was proven leaves the tokens it kept, and nothing else.    *)
LEMMA RoundRows ==
    ASSUME NEW p \in Nat, NEW k, CanTake(k, p), Faithful(k, p),
           NEW rows \in Seq(AnyRow), rows # <<>>,
           NEW accepted \in 0 .. Len(rows) - 1, NEW stay \in 0 .. accepted
    PROVE  LET r == Round(k, p, rows, accepted, stay) IN
           ~r.panics /\ r.proven =>
               RowsOf(r.final.cells) = RowsOf(k.cells) \o First(rows, 1 + stay)
<1> DEFINE old      == Len(k.cells)
           fed      == Feed(k, rows, old)
           v        == old + 1 + accepted
           w        == p + 1 + stay
           verified == Truncate(fed, v)
           stopped  == stay < accepted
           panics   == stopped /\ ~CanTruncate(verified, w)
           final    == IF stopped /\ ~panics THEN Truncate(verified, w) ELSE verified
           proven   == /\ CheckRewind(fed, v)
                       /\ Len(verified.cells) = v
                       /\ stopped => /\ CheckRewind(verified, w)
                                     /\ Len(final.cells) = w
           r == Round(k, p, rows, accepted, stay)
<1>1. r.final = final /\ r.panics = panics /\ r.proven = proven
  BY DEF Round
<1> SUFFICES ASSUME ~panics, proven
             PROVE  RowsOf(final.cells) = RowsOf(k.cells) \o First(rows, 1 + stay)
  <2> HIDE DEF panics, proven, final
  <2>1. QED
    BY <1>1
<1>2. /\ Bounded(k) /\ old = p /\ Len(rows) \in Nat \ {0}
      /\ accepted \in Nat /\ stay \in Nat /\ stay <= accepted /\ accepted < Len(rows)
  <2>1. Bounded(k) /\ Len(rows) \in Nat \ {0} /\ old = p
    BY EmptySeq DEF CanTake, Faithful
  <2>2. QED
    BY <2>1
<1>3. AtEnd(k, p) /\ (OnDevice(k) => p <= Len(k.cells))
  BY <1>2 DEF AtEnd
<1>4. /\ Bounded(fed) /\ fed.cells \in Seq(AnyCell)
      /\ RowsOf(fed.cells) = RowsOf(k.cells) \o rows
  <2>1. Bounded(Feed(k, rows, p)) /\ RowsOf(Feed(k, rows, p).cells) = RowsOf(k.cells) \o rows
    BY <1>2, <1>3, FeedGrows, FeedAddsRows
  <2>2. fed = Feed(k, rows, p)
    BY <1>2
  <2> HIDE DEF fed
  <2>3. QED
    BY <2>1, <2>2, KvFields DEF Bounded
<1>5. /\ k.cells \in Seq(AnyCell) /\ RowsOf(k.cells) \in Seq(AnyRow)
      /\ Len(RowsOf(k.cells)) = p
  BY <1>2, KvFields, CellRows DEF Bounded
<1>6. v \in Nat /\ w \in Nat /\ w <= v /\ (~stopped => w = v) /\ w = p + (1 + stay)
      /\ 1 + stay \in 0 .. Len(rows)
  BY <1>2
<1>13. Bounded(verified)
  <2> DEFINE u == v
  <2>1. u \in Len(k.cells) + 1 .. Len(k.cells) + Len(rows) /\ (OnDevice(k) => Len(k.cells) = p)
    BY <1>2
  <2> HIDE DEF u
  <2>2. Bounded(Truncate(fed, u))
    BY <1>2, <2>1, VerifiedIs
  <2>3. QED
    BY <2>2 DEF u
<1> HIDE DEF v, w, fed
<1>7. v \in 0 .. Len(fed.cells) /\ verified.cells = First(fed.cells, v)
  BY <1>4, <1>6, CheckedCut
<1>8. w \in 0 .. v /\ w \in 0 .. Len(fed.cells)
  <2>1. w \in 0 .. v
    BY <1>6
  <2>2. Len(fed.cells) \in Nat
    BY <1>4, KvFields DEF Bounded
  <2>3. QED
    BY <2>1, <2>2, <1>6, <1>7
<1>9. final.cells = First(fed.cells, w)
  <2>1. CASE ~stopped
    BY <2>1, <1>6, <1>7
  <2>2. CASE stopped
    <3>1. final = Truncate(verified, w) /\ CheckRewind(verified, w)
      BY <2>2
    <3> HIDE DEF verified
    <3>2. Truncate(verified, w).cells = First(verified.cells, w)
      BY <1>6, <1>13, <3>1, CheckedCut
    <3>3. QED
      BY <1>4, <1>7, <1>8, <3>1, <3>2, FirstFirst
  <2>3. QED
    BY <2>1, <2>2
<1> HIDE DEF verified, final, panics, proven, stopped
<1>10. RowsOf(final.cells) = First(RowsOf(k.cells) \o rows, w)
  BY <1>4, <1>8, <1>9, RowsOfFirst
<1>11. First(RowsOf(k.cells) \o rows, w) = RowsOf(k.cells) \o First(rows, 1 + stay)
  <2> DEFINE s == RowsOf(k.cells)
             n == 1 + stay
  <2>1. s \in Seq(AnyRow) /\ n \in 0 .. Len(rows) /\ w = Len(s) + n
    BY <1>5, <1>6
  <2> HIDE DEF s, n
  <2>2. First(s \o rows, Len(s) + n) = s \o First(rows, n)
    BY <2>1, FirstBeyond
  <2>3. QED
    BY <2>1, <2>2 DEF s, n
<1>12. QED
  BY <1>10, <1>11

LEMMA RoundKeeps ==
    ASSUME NEW p \in Nat, NEW k, CanTake(k, p), OnDevice(k) => Len(k.cells) = p,
           NEW rows \in Seq(AnyRow), rows # <<>>,
           NEW accepted \in 0 .. Len(rows) - 1, NEW stay \in 0 .. accepted
    PROVE  Round(k, p, rows, accepted, stay).final.dropped => k.dropped
<1> DEFINE old      == Len(k.cells)
           fed      == Feed(k, rows, old)
           v        == old + 1 + accepted
           w        == p + 1 + stay
           verified == Truncate(fed, v)
           stopped  == stay < accepted
           panics   == stopped /\ ~CanTruncate(verified, w)
           final    == IF stopped /\ ~panics THEN Truncate(verified, w) ELSE verified
<1>1. Round(k, p, rows, accepted, stay).final = final
  BY DEF Round
<1>2. Bounded(k) /\ old \in Nat /\ Len(rows) \in Nat \ {0} /\ accepted \in 0 .. Len(rows) - 1
  BY KvFields, EmptySeq DEF CanTake, Bounded
<1>3. Bounded(fed) /\ fed.dropped = k.dropped
  BY <1>2, FeedGrows DEF SameMakeOf
<1>4. Bounded(verified)
  <2> DEFINE u == v
  <2>1. u \in Len(k.cells) + 1 .. Len(k.cells) + Len(rows)
    BY <1>2
  <2> HIDE DEF u
  <2>2. Bounded(Truncate(fed, u))
    BY <2>1, VerifiedIs
  <2>3. QED
    BY <2>2 DEF u
<1> HIDE DEF fed, v, w
<1>5. verified.dropped => k.dropped
  BY <1>3, CutKeeps
<1> HIDE DEF verified
<1>6. Truncate(verified, w).dropped => verified.dropped
  BY <1>4, CutKeeps
<1>7. QED
  BY <1>1, <1>5, <1>6

----------------------------------------------------------------------------
(* What a step of a reply says: the tokens that are in the cache after it. *)
Spoken(s) ==
    /\ RowsOf(kv'.cells) = RowsOf(kv.cells) \o s
    /\ call.emitted + Len(s) <= call.budget
    /\ \/ AtRest'
       \/ /\ call'.op = "generate" /\ call'.budget = call.budget
          /\ call'.emitted = call.emitted + Len(s) /\ Len(s) > 0

LEMMA TokenRows ==
    ASSUME SessionInv, call.op = "generate", ~hole,
           NEW t \in Tokens, kv' = Feed(kv, <<t>>, Edge)
    PROVE  /\ RowsOf(kv'.cells) = RowsOf(kv.cells) \o <<t>>
           /\ <<t>> \in Seq(Tokens) /\ Len(<<t>>) = 1
<1>1. CanTake(kv, Edge) /\ Faithful(kv, Edge) /\ Edge \in 1 .. MaxSeqLen /\ MaxSeqLen \in Nat
  BY Generates
<1> DEFINE k == kv
           rows == <<t>>
           at == Edge
<1>2. Bounded(k) /\ AtEnd(k, at) /\ at \in Nat
  BY <1>1 DEF CanTake, Faithful, AtEnd
<1>3. rows \in Seq(AnyRow)
  BY DEF AnyRow
<1>4. kv' = Feed(k, rows, at)
  OBVIOUS
<1> HIDE DEF k, rows, at
<1>5. RowsOf(Feed(k, rows, at).cells) = RowsOf(k.cells) \o rows
  BY <1>2, <1>3, FeedAddsRows
<1>6. RowsOf(kv'.cells) = RowsOf(k.cells) \o rows
  BY <1>4, <1>5
<1>7. <<t>> \in Seq(Tokens) /\ Len(<<t>>) = 1
  OBVIOUS
<1>8. QED
  BY <1>6, <1>7 DEF k, rows

LEMMA DecodeSays ==
    ASSUME SessionInv, DecodeStep, ~hole
    PROVE  \E s \in Seq(Tokens) : Spoken(s)
<1>1. /\ call.op = "generate" /\ call.mode # "spec" /\ call.emitted < call.budget
      /\ \E t \in Tokens : kv' = Feed(kv, <<t>>, call.at)
      /\ call' = [call EXCEPT
                  !.emitted = @ + 1,
                  !.at = @ + 1,
                  !.taken = IF call.mode = "sampled" THEN Context(kv') ELSE @,
                  !.fresh = (call.mode = "sampled")]
  BY DEF DecodeStep, Decoding, MayStep
<1>2. /\ IsGenerate(call) /\ Edge = call.at
      /\ call.emitted \in Nat /\ call.budget \in Nat
  BY <1>1, Generates DEF IsGenerate
<1>3. PICK t \in Tokens : kv' = Feed(kv, <<t>>, Edge)
  BY <1>1, <1>2
<1>4. /\ RowsOf(kv'.cells) = RowsOf(kv.cells) \o <<t>>
      /\ <<t>> \in Seq(Tokens) /\ Len(<<t>>) = 1
  BY <1>1, <1>3, TokenRows
<1>5. call'.op = "generate" /\ call'.budget = call.budget /\ call'.emitted = call.emitted + 1
  BY <1>1, <1>2 DEF IsGenerate
<1> DEFINE s == <<t>>
<1>6. RowsOf(kv'.cells) = RowsOf(kv.cells) \o s /\ s \in Seq(Tokens) /\ Len(s) = 1
  BY <1>4
<1> HIDE DEF s
<1>7. Spoken(s)
  BY <1>1, <1>2, <1>5, <1>6 DEF Spoken
<1>8. QED
  BY <1>6, <1>7

LEMMA SingleSays ==
    ASSUME SessionInv, SpecSingle, ~hole
    PROVE  \E s \in Seq(Tokens) : Spoken(s)
<1>1. /\ call.op = "generate" /\ call.mode = "spec" /\ call.emitted < call.budget
      /\ \E t \in Tokens : kv' = Feed(kv, <<t>>, pos)
      /\ call' = Rest \/ call' = [call EXCEPT !.emitted = @ + 1]
  BY DEF SpecSingle, Decoding, MayStep, GenerateReturns
<1>2. /\ IsGenerate(call) /\ Edge = pos
      /\ call.emitted \in Nat /\ call.budget \in Nat
  BY <1>1, Generates DEF IsGenerate
<1>3. PICK t \in Tokens : kv' = Feed(kv, <<t>>, Edge)
  BY <1>1, <1>2
<1>4. /\ RowsOf(kv'.cells) = RowsOf(kv.cells) \o <<t>>
      /\ <<t>> \in Seq(Tokens) /\ Len(<<t>>) = 1
  BY <1>1, <1>3, TokenRows
<1>5. \/ AtRest'
      \/ call'.op = "generate" /\ call'.budget = call.budget /\ call'.emitted = call.emitted + 1
  BY <1>1, <1>2 DEF IsGenerate, AtRest, Rest
<1> DEFINE s == <<t>>
<1>6. RowsOf(kv'.cells) = RowsOf(kv.cells) \o s /\ s \in Seq(Tokens) /\ Len(s) = 1
  BY <1>4
<1> HIDE DEF s
<1>7. Spoken(s)
  BY SMTT(30), <1>1, <1>2, <1>5, <1>6 DEF Spoken
<1>8. QED
  BY <1>6, <1>7

LEMMA DraftTokens ==
    ASSUME NEW draft \in Drafts
    PROVE  draft \in Seq(Tokens)
<1> DEFINE most == IF MaxDraft < Room THEN MaxDraft ELSE Room
<1>1. PICK n \in 1 .. most : draft \in [1 .. n -> Tokens]
  BY DEF Drafts
<1>2. n \in Nat
  BY <1>1
<1>3. QED
  BY <1>1, <1>2

LEMMA RoundSays ==
    ASSUME SessionInv, SpecRound, ~hole'
    PROVE  call'.op # "aborted" => \E s \in Seq(Tokens) : Spoken(s)
<1>1. /\ call.op = "generate" /\ call.mode = "spec" /\ pos < MaxSeqLen
  BY DEF SpecRound, Decoding, MayStep
<1> DEFINE Does(t, draft, accepted, stay) ==
         LET r == Round(kv, pos, <<t>> \o draft, accepted, stay) IN
         /\ call.emitted + 1 + stay <= call.budget
         /\ kv' = r.final
         /\ hole' = (hole \/ ~r.proven)
         /\ IF r.panics
            THEN call' = Aborted
            ELSE IF stay < accepted
            THEN call' = Rest
            ELSE call' = [call EXCEPT !.emitted = @ + 1 + stay]
<1>2. PICK t \in Tokens, draft \in Drafts, accepted \in Nat, stay \in Nat :
         /\ accepted \in 0 .. Len(draft) /\ stay \in 0 .. accepted
         /\ Does(t, draft, accepted, stay)
  <2>1. PICK t \in Tokens, draft \in Drafts :
           \E accepted \in 0 .. Len(draft) : \E stay \in 0 .. accepted :
              Does(t, draft, accepted, stay)
    BY DEF SpecRound, GenerateReturns
  <2> HIDE DEF Does
  <2>2. PICK accepted \in 0 .. Len(draft) :
           \E stay \in 0 .. accepted : Does(t, draft, accepted, stay)
    BY <2>1
  <2>3. accepted \in Nat /\ \A stay \in 0 .. accepted : stay \in Nat
    OBVIOUS
  <2>4. QED
    BY <2>2, <2>3
<1> SUFFICES ASSUME call'.op # "aborted" PROVE \E s \in Seq(Tokens) : Spoken(s)
  OBVIOUS
<1> DEFINE k == kv
           rows == <<t>> \o draft
           r == Round(k, pos, rows, accepted, stay)
           s == First(rows, 1 + stay)
<1>3. /\ kv' = r.final /\ ~r.panics /\ r.proven /\ ~hole
      /\ call.emitted + 1 + stay <= call.budget
      /\ call' = Rest \/ call' = [call EXCEPT !.emitted = @ + 1 + stay]
  <2>1. Does(t, draft, accepted, stay)
    BY <1>2
  <2>2. ~r.panics
    BY <2>1 DEF Aborted
  <2>3. r.proven /\ ~hole
    BY <2>1
  <2> HIDE DEF r
  <2>4. QED
    BY <2>1, <2>2, <2>3 DEF r
<1>4. /\ IsGenerate(call) /\ CanTake(kv, pos) /\ Faithful(kv, pos)
      /\ call.emitted \in Nat /\ call.budget \in Nat /\ pos \in Nat
  <2>1. /\ IsGenerate(call) /\ CanTake(kv, Edge) /\ Edge = pos /\ (~hole => Faithful(kv, Edge))
        /\ pos \in 1 .. MaxSeqLen /\ MaxSeqLen \in Nat
    BY <1>1, Generates
  <2>2. QED
    BY <2>1, <1>3 DEF IsGenerate
<1>5. draft \in Seq(Tokens) /\ <<t>> \in Seq(Tokens) /\ Len(<<t>>) = 1
  BY DraftTokens
<1>6. rows \in Seq(Tokens) /\ Len(rows) = 1 + Len(draft) /\ Len(draft) \in Nat
  BY <1>5, ConcatProperties, LenProperties
<1>7. accepted \in 0 .. Len(rows) - 1 /\ stay \in 0 .. accepted /\ 1 + stay \in 0 .. Len(rows)
  BY <1>2, <1>6
<1>8. rows \in Seq(AnyRow) /\ rows # <<>>
  <2>1. rows \in Seq(AnyRow)
    <3>1. Tokens \subseteq AnyRow
      BY DEF AnyRow
    <3> HIDE DEF rows
    <3>2. QED
      BY <1>6, <3>1
  <2>2. QED
    BY <2>1, <1>6, EmptySeq
<1> HIDE DEF rows
<1>9. s \in Seq(Tokens) /\ Len(s) = 1 + stay
  BY <1>6, <1>7, FirstOf
<1>10. RowsOf(kv'.cells) = RowsOf(kv.cells) \o s
  <2> DEFINE p == pos
  <2>1. p \in Nat /\ CanTake(k, p) /\ Faithful(k, p)
    BY <1>4
  <2> HIDE DEF p, k
  <2>2. LET o == Round(k, p, rows, accepted, stay) IN
        ~o.panics /\ o.proven => RowsOf(o.final.cells) = RowsOf(k.cells) \o First(rows, 1 + stay)
    BY <2>1, <1>7, <1>8, RoundRows
  <2>3. RowsOf(r.final.cells) = RowsOf(k.cells) \o s
    BY <2>2, <1>3 DEF p
  <2>4. QED
    BY <2>3, <1>3 DEF k
<1> HIDE DEF s, r
<1>11. \/ AtRest'
       \/ call'.op = "generate" /\ call'.budget = call.budget /\ call'.emitted = call.emitted + Len(s)
  <2>1. CASE call' = Rest
    BY <2>1 DEF AtRest, Rest
  <2>2. CASE call' = [call EXCEPT !.emitted = @ + 1 + stay]
    <3>1. call'.op = "generate" /\ call'.budget = call.budget /\ call'.emitted = call.emitted + 1 + stay
      BY <2>2, <1>4 DEF IsGenerate
    <3>2. QED
      BY <3>1, <1>2, <1>4, <1>9
  <2>3. QED
    BY <1>3, <2>1, <2>2
<1>12. Spoken(s)
  <2>1. call.emitted + Len(s) <= call.budget /\ Len(s) > 0
    BY <1>2, <1>3, <1>4, <1>9
  <2>2. QED
    BY <2>1, <1>10, <1>11 DEF Spoken
<1>13. QED
  BY <1>9, <1>12

(* A reply that goes on, or ends without an error, says tokens.            *)
LEMMA ReplySays ==
    ASSUME SessionInv, Generating, ~hole', call'.op # "aborted", call.emitted <= call.budget
    PROVE  \E s \in Seq(Tokens) : Spoken(s)
<1>1. CASE DecodeStep
  BY <1>1, DecodeSays DEF DecodeStep
<1>2. CASE DecodeStops \/ SpecStops
  <2>1. AtRest' /\ kv' = kv /\ call.op = "generate"
    BY <1>2 DEF DecodeStops, SpecStops, GenerateReturns, AtRest, Rest, Decoding
  <2>2. IsGenerate(call) /\ Bounded(kv)
    BY <2>1, Generates DEF CanTake
  <2>3. RowsOf(kv.cells) \in Seq(AnyRow)
    BY <2>2, KvFields, CellRows DEF Bounded
  <2> DEFINE s == <<>>
  <2>4. RowsOf(kv'.cells) = RowsOf(kv.cells) \o s /\ s \in Seq(Tokens) /\ Len(s) = 0
    BY <2>1, <2>3, ConcatEmptySeq
  <2>5. call.emitted + 0 <= call.budget
    BY <2>2 DEF IsGenerate
  <2> HIDE DEF s
  <2>6. Spoken(s)
    BY <2>1, <2>4, <2>5 DEF Spoken
  <2>7. QED
    BY <2>4, <2>6
<1>3. CASE DecodeFaults \/ SpecSingleFaults
  BY <1>3 DEF DecodeFaults, SpecSingleFaults
<1>4. CASE SpecSingle
  BY <1>4, SingleSays DEF SpecSingle
<1>5. CASE SpecRound
  BY <1>5, RoundSays
<1>6. CASE VerificationFaults
  BY <1>6 DEF VerificationFaults, Aborted
<1>7. QED
  BY <1>1, <1>2, <1>3, <1>4, <1>5, <1>6 DEF Generating

----------------------------------------------------------------------------
(* Chat pins no prefix, so nothing is ever taken out of the middle.        *)
LEMMA FaultKeeps ==
    ASSUME NEW at \in Nat, NEW k, CanTake(k, at), NEW rows \in Seq(AnyRow),
           NEW n \in FaultedFeeds(k, rows, at)
    PROVE  n.dropped = k.dropped
BY FaultedIs

LEMMA NeverShifts ==
    ASSUME SessionInv
    PROVE  ~BeginShifted /\ ~ShiftPanics
<1>1. NKeep = 0
  BY ChatAssumption
<1>2. \A n : ~CanShift(kv, NKeep, pos, n)
  BY <1>1 DEF CanShift
<1>3. QED
  BY <1>2 DEF BeginShifted, ShiftPanics

LEMMA AppendKeeps ==
    ASSUME SessionInv, AppendStep, ~kv.dropped
    PROVE  ~kv'.dropped
<1>1. Bounded(kv) /\ kv \in AnyKv /\ kv.backend \in Backends
  BY KvFields DEF SessionInv, StateTyped, Bounded, AnyKv
<1>2. CASE RefuseSegment \/ BeginSegment \/ LeaveUnchanged
  BY <1>2 DEF RefuseSegment, BeginSegment, LeaveUnchanged
<1>3. CASE PrefillChunk \/ EmbeddingChunk
  <2>1. ChunkGoesIn
    BY <1>3, PrefillIs, EmbeddingIs
  <2>2. SameMakeOf(kv', kv)
    BY <2>1, ChunkFed
  <2>3. QED
    BY <2>2 DEF SameMakeOf
<1>4. CASE ChunkFaults
  <2>1. call.op = "append" /\ kv' \in FaultedFeeds(kv, Chunk, Frontier)
    BY <1>4 DEF ChunkFaults
  <2>2. /\ CanTake(kv, Frontier) /\ Frontier \in Nat
        /\ Chunk \in Seq(AnyRow)
    <3>1. /\ CanTake(kv, Frontier) /\ Frontier \in Nat
          /\ IsAppend(call) /\ call.fed < Len(Rows)
      BY <2>1, Appended
    <3>2. QED
      BY <3>1, ChunkIs
  <2> DEFINE k == kv
             ch == Chunk
             at == Frontier
  <2>3. k \in {kv} /\ ch \in Seq(AnyRow) /\ at \in Nat /\ CanTake(k, at)
    BY <2>2
  <2>4. PICK n \in FaultedFeeds(k, ch, at) : n = kv'
    BY <2>1
  <2> HIDE DEF k, ch, at
  <2>5. n.dropped = k.dropped
    BY <2>3, <2>4, FaultKeeps
  <2>6. QED
    BY <2>4, <2>5 DEF k
<1>5. CASE RewindToBefore
  <2>1. kv' = Truncate(kv, call.before.pos)
    BY <1>5 DEF RewindToBefore
  <2> DEFINE k == kv
             w == call.before.pos
  <2>2. Bounded(k)
    BY <1>1
  <2> HIDE DEF k, w
  <2>3. Truncate(k, w).dropped => k.dropped
    BY <2>2, CutKeeps
  <2>4. QED
    BY <2>1, <2>3 DEF k, w
<1>6. CASE ResetInstead
  <2>1. kv' = Pristine(kv.backend)
    BY <1>6 DEF ResetInstead, Cleared
  <2>2. QED
    BY <2>1 DEF Pristine
<1>7. CASE GiveUp
  <2>1. kv' = kv \/ kv' = Unanswered(kv)
    BY <1>7 DEF GiveUp
  <2>2. Unanswered(kv).dropped = kv.dropped
    BY <1>1 DEF Unanswered, AnyKv, Kvs
  <2>3. QED
    BY <2>1, <2>2
<1>8. CASE IngestUnwinds
  <2>1. kv' = Wrecked(kv)
    BY <1>8 DEF IngestUnwinds
  <2>2. Wrecked(kv).dropped = kv.dropped
    BY <1>1 DEF Wrecked, AnyKv, Kvs
  <2>3. QED
    BY <2>1, <2>2
<1>9. QED
  BY <1>2, <1>3, <1>4, <1>5, <1>6, <1>7, <1>8, NeverShifts DEF AppendStep

LEMMA ReplyFaultKeeps ==
    ASSUME SessionInv, call.op = "generate", ~kv.dropped, NEW t \in Tokens,
           NEW at \in Nat, at = Edge \/ at = Len(kv.cells),
           kv' \in FaultedFeeds(kv, <<t>>, at)
    PROVE  ~kv'.dropped
<1>1. CanTake(kv, Edge) /\ Len(kv.cells) \in Nat
  BY Generates
<1> DEFINE k == kv
           rows == <<t>>
<1>2. CanTake(k, at)
  BY <1>1 DEF CanTake
<1>3. rows \in Seq(AnyRow)
  BY DEF AnyRow
<1>4. PICK n \in FaultedFeeds(k, rows, at) : n = kv'
  OBVIOUS
<1> HIDE DEF k, rows
<1>5. n.dropped = k.dropped
  BY <1>2, <1>3, <1>4, FaultKeeps
<1>6. QED
  BY <1>4, <1>5 DEF k

LEMMA ReplyFeedKeeps ==
    ASSUME SessionInv, call.op = "generate", ~kv.dropped, NEW t \in Tokens,
           kv' = Feed(kv, <<t>>, Edge)
    PROVE  ~kv'.dropped
<1>1. CanTake(kv, Edge) /\ Edge \in 1 .. MaxSeqLen /\ MaxSeqLen \in Nat
  BY Generates
<1> DEFINE k == kv
           rows == <<t>>
           at == Edge
<1>2. Bounded(k) /\ at \in Nat /\ (OnDevice(k) => at <= Len(k.cells))
  BY <1>1 DEF CanTake
<1>3. rows \in Seq(AnyRow)
  BY DEF AnyRow
<1>4. kv' = Feed(k, rows, at)
  OBVIOUS
<1> HIDE DEF k, rows, at
<1>5. SameMakeOf(Feed(k, rows, at), k)
  BY <1>2, <1>3, FeedGrows
<1>6. QED
  BY <1>4, <1>5 DEF SameMakeOf, k

LEMMA RoundKeepsAll ==
    ASSUME SessionInv, SpecRound, ~kv.dropped
    PROVE  ~kv'.dropped
<1>1. /\ call.op = "generate" /\ call.mode = "spec"
  BY DEF SpecRound, Decoding
<1> DEFINE Does(t, draft, accepted, stay) ==
         kv' = Round(kv, pos, <<t>> \o draft, accepted, stay).final
<1>2. PICK t \in Tokens, draft \in Drafts, accepted \in Nat, stay \in Nat :
         /\ accepted \in 0 .. Len(draft) /\ stay \in 0 .. accepted
         /\ Does(t, draft, accepted, stay)
  <2>1. PICK t \in Tokens, draft \in Drafts :
           \E accepted \in 0 .. Len(draft) : \E stay \in 0 .. accepted :
              Does(t, draft, accepted, stay)
    BY DEF SpecRound
  <2> HIDE DEF Does
  <2>2. PICK accepted \in 0 .. Len(draft) :
           \E stay \in 0 .. accepted : Does(t, draft, accepted, stay)
    BY <2>1
  <2>3. accepted \in Nat /\ \A stay \in 0 .. accepted : stay \in Nat
    OBVIOUS
  <2>4. QED
    BY <2>2, <2>3
<1> DEFINE k == kv
           rows == <<t>> \o draft
           p == pos
<1>3. CanTake(k, p) /\ p \in Nat /\ (OnDevice(k) => Len(k.cells) = p)
  <2>1. /\ CanTake(kv, Edge) /\ Edge = pos /\ pos \in 1 .. MaxSeqLen /\ MaxSeqLen \in Nat
        /\ OnDevice(kv) => Len(kv.cells) = Edge
    BY <1>1, Generates
  <2>2. QED
    BY <2>1
<1>4. draft \in Seq(Tokens) /\ <<t>> \in Seq(Tokens) /\ Len(<<t>>) = 1
  BY DraftTokens
<1>5. rows \in Seq(Tokens) /\ Len(rows) = 1 + Len(draft) /\ Len(draft) \in Nat
  BY <1>4, ConcatProperties, LenProperties
<1>6. accepted \in 0 .. Len(rows) - 1 /\ stay \in 0 .. accepted
  BY <1>2, <1>5
<1>7. rows \in Seq(AnyRow) /\ rows # <<>>
  <2>1. rows \in Seq(AnyRow)
    <3>1. Tokens \subseteq AnyRow
      BY DEF AnyRow
    <3> HIDE DEF rows
    <3>2. QED
      BY <1>5, <3>1
  <2>2. QED
    BY <2>1, <1>5, EmptySeq
<1>8. kv' = Round(k, p, rows, accepted, stay).final
  BY <1>2
<1> HIDE DEF k, rows, p
<1>9. Round(k, p, rows, accepted, stay).final.dropped => k.dropped
  BY <1>3, <1>6, <1>7, RoundKeeps
<1>10. QED
  BY <1>8, <1>9 DEF k

LEMMA ReplyKeeps ==
    ASSUME SessionInv, Generating, ~kv.dropped
    PROVE  ~kv'.dropped
<1>1. call.op = "generate"
  BY DEF Generating, DecodeStep, DecodeStops, DecodeFaults, SpecStops, SpecSingle,
         SpecSingleFaults, SpecRound, VerificationFaults, Decoding
<1>2. /\ Edge = IF call.mode = "spec" THEN pos ELSE call.at
      /\ Edge \in Nat /\ Len(kv.cells) \in Nat
  <2>1. /\ Edge = IF call.mode = "spec" THEN pos ELSE call.at
        /\ Edge \in 1 .. MaxSeqLen /\ MaxSeqLen \in Nat /\ Len(kv.cells) \in Nat
    BY <1>1, Generates
  <2>2. QED
    BY <2>1
<1>3. CASE DecodeStep
  <2>1. \E t \in Tokens : kv' = Feed(kv, <<t>>, Edge)
    BY <1>2, <1>3 DEF DecodeStep, Decoding
  <2>2. QED
    BY <1>1, <2>1, ReplyFeedKeeps
<1>4. CASE SpecSingle
  <2>1. \E t \in Tokens : kv' = Feed(kv, <<t>>, Edge)
    BY <1>2, <1>4 DEF SpecSingle, Decoding
  <2>2. QED
    BY <1>1, <2>1, ReplyFeedKeeps
<1>5. CASE DecodeStops \/ SpecStops
  BY <1>5 DEF DecodeStops, SpecStops
<1>6. CASE DecodeFaults
  <2>1. \E t \in Tokens : kv' \in FaultedFeeds(kv, <<t>>, Edge)
    BY <1>2, <1>6 DEF DecodeFaults, Decoding
  <2>2. QED
    BY <1>1, <1>2, <2>1, ReplyFaultKeeps
<1>7. CASE SpecSingleFaults
  <2>1. \E t \in Tokens : kv' \in FaultedFeeds(kv, <<t>>, Edge)
    BY <1>2, <1>7 DEF SpecSingleFaults, Decoding
  <2>2. QED
    BY <1>1, <1>2, <2>1, ReplyFaultKeeps
<1>8. CASE SpecRound
  BY <1>8, RoundKeepsAll
<1>9. CASE VerificationFaults
  <2>1. \E t \in Tokens : kv' \in FaultedFeeds(kv, <<t>>, Len(kv.cells))
    BY <1>9 DEF VerificationFaults
  <2>2. QED
    BY <1>1, <1>2, <2>1, ReplyFaultKeeps
<1>10. QED
  BY <1>3, <1>4, <1>5, <1>6, <1>7, <1>8, <1>9 DEF Generating

----------------------------------------------------------------------------
(* A message, alone and behind a reply.                                    *)
Closed == <<Eos, Newline>>

LEMMA TurnIs ==
    ASSUME NEW m \in Turns
    PROVE  /\ m \in Messages /\ m \in Seq(Segments) /\ m # <<>>
           /\ Continued(m, Closed) \in Messages
           /\ Continued(m, Closed) \in Seq(Segments) /\ Continued(m, Closed) # <<>>
           /\ Closed \in Seq(AnyRow) /\ FlatRows(m) \in Seq(AnyRow)
           /\ FlatRows(Continued(m, Closed)) = Closed \o FlatRows(m)
<1> DEFINE head == [soft |-> FALSE, rows |-> Closed \o m[1].rows]
           c == Continued(m, Closed)
           rest == Tail(m)
<1>1. m \in Messages /\ c \in Messages
  BY ChatAssumption DEF Closed
<1>2. m \in Seq(Segments) /\ m # <<>> /\ c \in Seq(Segments) /\ c # <<>>
  <2> HIDE DEF c
  <2>1. QED
    BY <1>1, MessageSegments
<1>3. /\ rest \in Seq(Segments) /\ Head(m) = m[1] /\ Head(m) \in Segments
      /\ Head(m).rows \in Seq(AnyRow)
  BY <1>2, HeadTailProperties, SegmentRows
<1>4. c = <<head>> \o rest
  BY DEF Continued
<1> HIDE DEF rest, head
<1>5. Head(c) = head /\ Tail(c) = rest
  <2> DEFINE S == Segments \cup {head}
  <2>1. rest \in Seq(S) /\ head \in S
    BY <1>3
  <2> HIDE DEF S, c
  <2>2. <<head>> \in Seq(S) /\ Len(<<head>>) = 1 /\ <<head>>[1] = head
    BY <2>1
  <2>3. /\ c \in Seq(S) /\ Len(c) = 1 + Len(rest) /\ Len(rest) \in Nat
        /\ c[1] = head /\ \A i \in 1 .. Len(rest) : c[i + 1] = rest[i]
    <3> DEFINE h == <<head>>
    <3>1. h \in Seq(S) /\ Len(h) = 1 /\ h[1] = head /\ c = h \o rest
      BY <1>4, <2>2
    <3> HIDE DEF h
    <3>2. /\ c \in Seq(S) /\ Len(c) = 1 + Len(rest) /\ Len(rest) \in Nat
          /\ \A i \in 1 .. 1 : c[i] = h[i]
          /\ \A i \in 1 .. Len(rest) : c[1 + i] = rest[i]
      <4>1. /\ h \o rest \in Seq(S) /\ Len(rest) \in Nat
            /\ Len(h \o rest) = Len(h) + Len(rest)
            /\ \A i \in 1 .. Len(h) : (h \o rest)[i] = h[i]
            /\ \A i \in 1 .. Len(rest) : (h \o rest)[Len(h) + i] = rest[i]
        <5>1. h \in Seq(S) /\ rest \in Seq(S)
          BY <2>1, <3>1
        <5>2. QED
          BY <5>1, Joins, SMTT(30)
      <4>2. Len(h) = 1 /\ c = h \o rest /\ Len(h) + Len(rest) = 1 + Len(rest)
        BY <3>1
      <4>3. /\ c \in Seq(S) /\ Len(c) = 1 + Len(rest)
            /\ \A i \in 1 .. 1 : c[i] = h[i]
        BY <4>1, <4>2, Zenon
      <4>4. \A i \in 1 .. Len(rest) : c[1 + i] = rest[i]
        BY <4>1, <4>2, Zenon
      <4>5. QED
        BY <4>1, <4>3, <4>4
    <3>3. c[1] = head
      BY <3>1, <3>2
    <3>4. ASSUME NEW i \in 1 .. Len(rest) PROVE c[i + 1] = rest[i]
      BY <3>2
    <3>5. QED
      BY <3>2, <3>3, <3>4
  <2>4. c # <<>>
    BY <2>3, EmptySeq
  <2>5. /\ Head(c) = c[1] /\ Tail(c) \in Seq(S) /\ Len(Tail(c)) = Len(c) - 1
        /\ \A i \in 1 .. Len(Tail(c)) : Tail(c)[i] = c[i + 1]
    BY <2>3, <2>4, HeadTailProperties
  <2>6. Tail(c) = rest
    <3>1. Len(Tail(c)) = Len(rest) /\ \A i \in 1 .. Len(rest) : Tail(c)[i] = rest[i]
      BY <2>3, <2>5
    <3>2. QED
      BY <2>1, <2>5, <3>1, SeqEqual
  <2>7. QED
    BY <2>3, <2>5, <2>6
<1>6. Closed \o Head(m).rows \in Seq(AnyRow)
  <2>1. head \in Segments
    BY <1>2, <1>5, HeadTailProperties
  <2>2. head.rows \in Seq(AnyRow)
    BY <2>1, SegmentRows
  <2>3. QED
    BY <2>2, <1>3 DEF head
<1>7. Closed \in Seq(AnyRow)
  <2> DEFINE r == Head(m).rows
             U == AnyRow \cup {Eos, Newline}
  <2>1. Closed \in Seq(U) /\ Len(Closed) = 2 /\ Closed[1] = Eos /\ Closed[2] = Newline
    BY DEF Closed
  <2>2. r \in Seq(U)
    BY <1>3
  <2>3. Closed \o r \in Seq(AnyRow)
    BY <1>6
  <2> HIDE DEF r, U
  <2>4. /\ Len(Closed \o r) = 2 + Len(r) /\ Len(r) \in Nat
        /\ \A i \in 1 .. 2 : (Closed \o r)[i] = Closed[i]
    <3> DEFINE end == Closed
    <3>1. end \in Seq(U) /\ Len(end) = 2
      BY <2>1
    <3> HIDE DEF end
    <3>2. /\ Len(r) \in Nat /\ Len(end \o r) = Len(end) + Len(r)
          /\ \A i \in 1 .. Len(end) : (end \o r)[i] = end[i]
      BY <2>2, <3>1, Joins
    <3>3. QED
      BY <3>1, <3>2 DEF end
  <2>5. 1 \in 1 .. Len(Closed \o r) /\ 2 \in 1 .. Len(Closed \o r)
    BY <2>4
  <2>6. (Closed \o r)[1] \in AnyRow /\ (Closed \o r)[2] \in AnyRow
    BY <2>3, <2>5, ElementOfSeq
  <2>7. Eos \in AnyRow /\ Newline \in AnyRow
    BY <2>1, <2>4, <2>6
  <2>8. QED
    BY <2>7 DEF Closed
<1>8. /\ FlatRows(m) \in Seq(AnyRow) /\ FlatRows(rest) \in Seq(AnyRow)
      /\ FlatRows(m) = Head(m).rows \o FlatRows(rest)
  BY <1>2, FlatHead DEF rest
<1>9. FlatRows(c) = Head(c).rows \o FlatRows(Tail(c))
  <2> HIDE DEF c
  <2>1. QED
    BY <1>2, FlatHead
<1>10. FlatRows(c) = (Closed \o Head(m).rows) \o FlatRows(rest)
  <2>1. head.rows = Closed \o Head(m).rows
    BY <1>3 DEF head
  <2> HIDE DEF c
  <2>2. QED
    BY <2>1, <1>5, <1>9
<1>11. FlatRows(c) = Closed \o FlatRows(m)
  <2> DEFINE x == Closed
             y == Head(m).rows
             z == FlatRows(rest)
  <2>1. x \in Seq(AnyRow) /\ y \in Seq(AnyRow) /\ z \in Seq(AnyRow)
    BY <1>3, <1>7, <1>8
  <2>2. FlatRows(c) = (x \o y) \o z /\ FlatRows(m) = y \o z
    BY <1>8, <1>10
  <2> HIDE DEF x, y, z, c
  <2>3. (x \o y) \o z = x \o (y \o z)
    BY <2>1, Regroup
  <2>4. QED
    BY <2>2, <2>3 DEF x
<1>12. QED
  BY <1>1, <1>2, <1>7, <1>8, <1>11

(* What is left of a message of which nothing has gone in is the message.  *)
LEMMA LeftAtFirst ==
    ASSUME NEW c, IsAppend(c), c.fed = 0
    PROVE  Left(c) = FlatRows(c.todo)
<1> DEFINE todo == c.todo
           r == Head(todo).rows
<1>1. todo \in Seq(Segments) /\ todo # <<>>
  BY DEF IsAppend
<1> HIDE DEF todo
<1>2. r \in Seq(AnyRow) /\ Len(r) \in Nat
  BY <1>1, HeadTailProperties, SegmentRows, LenProperties
<1>3. FlatRows(todo) = r \o FlatRows(Tail(todo))
  BY <1>1, FlatHead
<1> HIDE DEF r
<1>4. SubSeq(r, 0 + 1, Len(r)) = r
  BY <1>2, RestOf
<1>5. SubSeq(r, c.fed + 1, Len(r)) = r
  BY <1>4
<1>6. Left(c) = SubSeq(r, c.fed + 1, Len(r)) \o FlatRows(Tail(todo))
  BY DEF Left, r, todo
<1>7. QED
  BY <1>3, <1>5, <1>6 DEF todo

----------------------------------------------------------------------------
(* The session under Chat stays consistent.                                *)
LEMMA ReplacementIs ==
    ASSUME NEW m \in Messages
    PROVE  LET c == [Appending(TRUE, m) EXCEPT !.before = Emptied] IN
           /\ IsAppend(c) /\ c.op = "append" /\ c.guarded /\ c.todo = m
           /\ ~c.begun /\ c.fed = 0 /\ c.mutation = "none" /\ c.before = Emptied
<1>1. m \in Seq(Segments) /\ m # <<>>
  BY MessageSegments
<1> DEFINE a == Appending(TRUE, m)
           b == Emptied
<1>2. /\ IsAppend(a) /\ a.op = "append" /\ a.guarded = TRUE /\ a.todo = m
      /\ ~a.begun /\ a.fed = 0 /\ a.mutation = "none"
  BY <1>1, AppendingIs
<1> HIDE DEF a, b
<1>3. LET c == [a EXCEPT !.before = b] IN
      /\ IsAppend(c) /\ c.op = "append" /\ c.guarded /\ c.todo = m
      /\ ~c.begun /\ c.fed = 0 /\ c.mutation = "none" /\ c.before = b
  BY <1>2 DEF IsAppend
<1>4. QED
  BY <1>3 DEF a, b

LEMMA ReplaceSession ==
    ASSUME SessionInv, ChatReplace
    PROVE  SessionInv'
<1>1. /\ AtRest /\ usable /\ Cleared /\ report' = None
      /\ UNCHANGED <<usable, cancel, stored>>
  BY DEF ChatReplace
<1>2. PICK t \in Turns : call' = [Appending(TRUE, t) EXCEPT !.before = Emptied]
  BY DEF ChatReplace
<1> DEFINE todo == t
           b == Emptied
<1>3. todo \in Messages /\ todo \in Seq(Segments) /\ todo # <<>>
  BY TurnIs
<1>4. /\ IsAppend(call') /\ call'.op = "append" /\ call'.guarded = TRUE /\ call'.todo = todo
      /\ ~call'.begun /\ call'.fed = 0 /\ call'.mutation = "none" /\ call'.before = b
  BY <1>2, <1>3, ReplacementIs
<1>5. kv.backend \in Backends /\ MaxSeqLen \in Nat
  BY SessionAssumption, KvFields DEF SessionInv, StateTyped, AnyKv
<1>6. /\ kv' = Pristine(kv.backend)
      /\ pos' = 0 /\ published' = 0 /\ history' = <<>> /\ logits' = None /\ hole' = FALSE
  BY <1>1 DEF Cleared
<1>7. /\ Bounded(kv') /\ Marked(kv') /\ Len(kv'.cells) = 0 /\ kv'.ring = <<>>
      /\ Faithful(kv', 0) /\ RingTop(kv', 0)
  BY <1>5, <1>6, PristineIs
<1>8. <<>> \in Seq(AnyRow) /\ Len(kv'.cells) <= MaxSeqLen /\ Len(kv'.cells) <= MaxSeqLen + 1
      /\ 0 \in 0 .. MaxSeqLen
  BY <1>5, <1>7
<1>9. StateTyped' /\ StoredInv' /\ usable'
  <2>1. Len(kv'.ring) <= Window /\ kv' \in Kvs(AnyRow)
    BY <1>7 DEF Bounded, AnyKv
  <2>2. {usable', cancel', hole'} \subseteq BOOLEAN /\ report' \in Outcomes \cup {None}
    BY <1>1, <1>6 DEF SessionInv, StateTyped
  <2>3. QED
    BY <1>1, <1>6, <1>7, <1>8, <2>1, <2>2 DEF StateTyped, SessionInv, StoredInv
<1>10. RestsWell'
  BY <1>6, <1>7, <1>8 DEF RestsWell, Reaches, IsSeed
<1>11. /\ b.pos = pos' /\ b.history = history' /\ b.logits = logits' /\ b.kv = kv'
       /\ b.rewindable = CheckRewind(kv', pos')
  BY <1>6 DEF Emptied
<1> HIDE DEF b, todo
<1>12. QED
  BY <1>3, <1>4, <1>9, <1>10, <1>11, OpensInv

LEMMA UnwindSession ==
    ASSUME SessionInv, ReplyUnwinds, usable
    PROVE  SessionInv'
<1>1. /\ kv' = kv \/ kv' = Wrecked(kv)
      /\ usable' = FALSE /\ call' = Rest /\ cancel' = FALSE
      /\ UNCHANGED <<pos, published, history, report, stored, hole>>
      /\ call.op \in {"generate", "aborted"}
  BY DEF ReplyUnwinds
<1>2. Bounded(kv) /\ Marked(kv) /\ MaxSeqLen \in Nat /\ Len(kv.cells) \in Nat
  BY SessionAssumption, KvFields DEF SessionInv, StateTyped, Bounded, AnyKv
<1>3. Bounded(Wrecked(kv)) /\ Marked(Wrecked(kv)) /\ Len(Wrecked(kv).cells) = Len(kv.cells) + 1
  BY <1>2, WreckedIs
<1>4. Len(kv.cells) <= MaxSeqLen
  BY DEF SessionInv, RoomInv
<1>5. report' \in Outcomes \cup {None}
  BY <1>1 DEF SessionInv, StateTyped
<1>6. Bounded(kv') /\ Marked(kv') /\ Len(kv'.cells) <= MaxSeqLen + 1
  <2>1. CASE kv' = kv
    BY <2>1, <1>2, <1>4
  <2>2. CASE kv' = Wrecked(kv)
    <3>1. Len(kv'.cells) = Len(kv.cells) + 1
      BY <2>2, <1>3
    <3>2. Len(kv'.cells) <= MaxSeqLen + 1
      BY <3>1, <1>2, <1>4
    <3>3. QED
      BY <2>2, <3>2, <1>3
  <2>3. QED
    BY <1>1, <2>1, <2>2
<1>7. QED
  BY <1>1, <1>5, <1>6, CondemnedInv

(* A message Chat may ingest now is one of Messages.                       *)
LEMMA RenderedIs ==
    ASSUME PhaseInv, NEW m \in Turns, phase \in {"idle", "turn"}
    PROVE  /\ phase = "idle" => Rendered(m, phase = "idle") = m
           /\ phase = "turn" => Rendered(m, phase = "idle") = Continued(m, Closed)
           /\ Rendered(m, phase = "idle") \in Messages
<1>1. phase = "turn" => terminal = FALSE
  BY DEF PhaseInv, Ended
<1>2. phase = "turn" => Closing = Closed
  BY <1>1 DEF Closing, Closed
<1>3. QED
  BY <1>2, TurnIs DEF Rendered

LEMMA GeneratingOp ==
    ASSUME Generating
    PROVE  call.op = "generate" /\ UNCHANGED <<report, stored>>
BY DEF Generating, DecodeStep, DecodeStops, DecodeFaults, SpecStops, SpecSingle,
       SpecSingleFaults, SpecRound, VerificationFaults, Decoding

LEMMA LooksIsGenerating ==
    ASSUME LooksAtToken
    PROVE  Generating
BY DEF LooksAtToken, Generating

LEMMA ReplyingIs ==
    ASSUME Replying
    PROVE  turn # None /\ Generating
BY LooksIsGenerating DEF Replying

LEMMA ChatSession ==
    ASSUME ChatInv, [ChatNext]_allVars
    PROVE  SessionInv'
<1>1. SessionInv /\ PhaseInv
  BY DEF ChatInv
<1>2. CASE UNCHANGED allVars
  BY <1>1, <1>2, NextInv DEF allVars
<1>3. CASE ChatIngest
  <2>1. PICK m \in Turns : Ingests(Rendered(m, phase = "idle"))
    BY <1>3 DEF ChatIngest
  <2>2. Rendered(m, phase = "idle") \in Messages
    BY <1>1, <1>3, RenderedIs DEF ChatIngest
  <2>3. StartIngest
    BY <2>1, <2>2 DEF StartIngest
  <2>4. QED
    BY <1>1, <2>3, NextInv DEF Next
<1>4. CASE ChatReplace
  BY <1>1, <1>4, ReplaceSession
<1>5. CASE ChatReplaceFails
  BY <1>1, <1>5, NextInv DEF ChatReplaceFails, Next
<1>6. CASE Ingesting
  BY <1>1, <1>6, NextInv DEF Ingesting, Next
<1>7. CASE ChatGenerateNothing
  BY <1>1, <1>7, NextInv DEF ChatGenerateNothing, Next
<1>8. CASE ChatGenerate
  BY <1>1, <1>8, NextInv DEF ChatGenerate, Next
<1>9. CASE Replying
  <2>1. Generating
    BY <1>9, ReplyingIs
  <2>2. usable \in BOOLEAN /\ usable
    BY <1>1, <2>1, GeneratingOp DEF SessionInv, StateTyped, CallTyped, Appends
  <2>3. usable' \in BOOLEAN /\ (AtRest' \/ UNCHANGED usable)
    BY <1>9, <2>2 DEF Replying, Condemned
  <2>4. QED
    BY <1>1, <2>1, <2>3, GeneratingInv DEF MayCondemn
<1>10. CASE ReplyUnwinds
  BY <1>1, <1>10, UnwindSession DEF ReplyUnwinds, PhaseInv
<1>11. CASE ChatReset \/ ChatResetFails
  BY <1>1, <1>11, NextInv DEF ChatReset, ChatResetFails, Next
<1>12. CASE Raw
  BY <1>1, <1>12, NextInv DEF Raw
<1>13. CASE RawAppend
  BY <1>1, <1>13, NextInv DEF RawAppend, Next
<1>14. CASE ChatCheckpoint \/ ChatRestore
  BY <1>1, <1>14, NextInv DEF ChatCheckpoint, ChatRestore, Next
<1>15. CASE Cancel \/ ClearCancel
  BY <1>1, <1>15, NextInv DEF Next
<1>16. QED
  BY <1>2, <1>3, <1>4, <1>5, <1>6, <1>7, <1>8, <1>9, <1>10, <1>11, <1>12, <1>13, <1>14, <1>15
     DEF ChatNext

----------------------------------------------------------------------------
(* An ingestion.  Once a chunk is in, what is in the cache and what is     *)
(* left of the message still make up the same text.                        *)
Remaining == SubSeq(Rows, FedAfter + 1, Len(Rows)) \o FlatRows(Tail(call.todo))

LEMMA TailRows ==
    ASSUME IsAppend(call)
    PROVE  /\ FlatRows(Tail(call.todo)) \in Seq(AnyRow)
           /\ Len(call.todo) = 1 => FlatRows(Tail(call.todo)) = <<>>
<1> DEFINE todo == call.todo
           t == Tail(todo)
<1>1. todo \in Seq(Segments) /\ todo # <<>>
  BY DEF IsAppend
<1> HIDE DEF todo
<1>2. FlatRows(t) \in Seq(AnyRow)
  BY <1>1, FlatHead
<1>3. t \in Seq(Segments) /\ Len(t) = Len(todo) - 1
  BY <1>1, HeadTailProperties
<1> HIDE DEF t
<1>4. Len(todo) = 1 => t = <<>>
  BY <1>3, EmptySeq
<1>5. Len(todo) = 1 => FlatRows(t) = <<>>
  BY <1>4, FlatEmpty
<1>6. QED
  BY <1>2, <1>5 DEF t, todo

LEMMA ChunkMoves ==
    ASSUME SessionInv, ChunkGoesIn, ~hole
    PROVE  /\ RowsOf(kv'.cells) \o Remaining = RowsOf(kv.cells) \o Left(call)
           /\ RowsOf(kv'.cells) \in Seq(AnyRow)
<1>1. call.op = "append" /\ kv' = Feed(kv, Chunk, Frontier)
  BY DEF ChunkGoesIn
<1>2. /\ IsAppend(call) /\ Rows \in Seq(AnyRow) /\ Len(Rows) \in Nat \ {0}
      /\ call.fed \in Nat /\ call.fed < Len(Rows)
      /\ Frontier \in Nat /\ CanTake(kv, Frontier) /\ Faithful(kv, Frontier)
  BY <1>1, Appended
<1>3. Chunk \in Seq(AnyRow) /\ FedAfter = call.fed + Len(Chunk) /\ FedAfter \in 1 .. Len(Rows)
  BY <1>2, ChunkIs
<1> DEFINE k == kv
           c == Chunk
           at == Frontier
           x == RowsOf(kv.cells)
           rows == Rows
           l == Len(Rows)
           f == call.fed
           g == FedAfter
           z == FlatRows(Tail(call.todo))
           y == SubSeq(rows, g + 1, l)
<1>4. Bounded(k) /\ AtEnd(k, at) /\ c \in Seq(AnyRow) /\ at \in Nat
  BY <1>2, <1>3 DEF CanTake, Faithful, AtEnd
<1>5. RowsOf(kv'.cells) = x \o c
  <2>1. kv' = Feed(k, c, at)
    BY <1>1
  <2> HIDE DEF k, c, at
  <2>2. RowsOf(Feed(k, c, at).cells) = RowsOf(k.cells) \o c
    BY <1>4, FeedAddsRows
  <2>3. RowsOf(kv'.cells) = RowsOf(k.cells) \o c
    BY <2>1, <2>2
  <2>4. QED
    BY <2>3 DEF k
<1>6. x \in Seq(AnyRow)
  BY <1>4, KvFields, CellRows DEF Bounded
<1>7. f \in Nat /\ g \in Nat /\ f <= g /\ g <= l /\ l \in Nat /\ l = Len(rows)
      /\ g \in 0 .. Len(rows) /\ rows \in Seq(AnyRow)
  BY <1>2, <1>3
<1>8. c = SubSeq(rows, f + 1, g)
  <2>1. Ubatch \in Nat \ {0}
    BY SessionAssumption
  <2> DEFINE e == IF call.fed + Ubatch < Len(Rows) THEN call.fed + Ubatch ELSE Len(Rows)
  <2>2. Chunk = SubSeq(Rows, call.fed + 1, e)
    BY DEF Chunk
  <2>3. e \in Nat /\ e <= Len(Rows) /\ call.fed < e
    BY <2>1, <1>2
  <2> HIDE DEF e
  <2>4. Len(SubSeq(Rows, call.fed + 1, e)) = e - call.fed
    <3> DEFINE a == call.fed + 1
               q == Rows
    <3>1. a \in Int /\ e \in Int /\ a <= e /\ a >= 1 /\ e <= Len(q) /\ q \in Seq(AnyRow)
      BY <2>3, <1>2
    <3>2. \A i \in a .. e : q[i] \in AnyRow
      <4>1. \A i \in a .. e : i \in 1 .. Len(q)
        BY <2>3, <1>2
      <4>2. QED
        BY <3>1, <4>1, ElementOfSeq
    <3> HIDE DEF a, q
    <3>3. Len(SubSeq(q, a, e)) = (IF a <= e THEN e - a + 1 ELSE 0)
      BY <3>1, <3>2, SubSeqProperties
    <3>4. Len(SubSeq(q, a, e)) = e - a + 1
      BY <3>1, <3>3
    <3>5. e - a + 1 = e - call.fed
      BY <2>3, <1>2 DEF a
    <3>6. QED
      BY <3>4, <3>5 DEF a, q
  <2>5. FedAfter = e
    BY <2>2, <2>3, <2>4, <1>2, <1>3
  <2>6. QED
    BY <2>2, <2>5
<1>9. z \in Seq(AnyRow)
  BY <1>2, TailRows
<1>10. Left(call) = SubSeq(rows, f + 1, l) \o z /\ Remaining = y \o z
  BY DEF Left, Remaining, Rows
<1> HIDE DEF c, x, rows, l, f, g, z
<1>11. y \in Seq(AnyRow)
  BY <1>7, RestOf
<1>12. SubSeq(rows, f + 1, l) = c \o y
  <2> DEFINE a == f + 1
  <2>1. a \in 1 .. Len(rows) + 1 /\ g \in a - 1 .. Len(rows) /\ l \in g .. Len(rows)
    BY <1>7
  <2> HIDE DEF a
  <2>2. SubSeq(rows, a, g) \o SubSeq(rows, g + 1, l) = SubSeq(rows, a, l)
    BY <1>7, <2>1, ConcatAdjacentSubSeq
  <2>3. QED
    BY <1>8, <2>2 DEF a
<1> HIDE DEF y
<1>13. c \in Seq(AnyRow)
  BY <1>4
<1>14. (x \o c) \o (y \o z) = x \o ((c \o y) \o z) /\ x \o c \in Seq(AnyRow)
  <2>1. y \o z \in Seq(AnyRow) /\ (c \o y) \o z = c \o (y \o z)
    BY <1>9, <1>11, <1>13, Regroup
  <2> DEFINE v == y \o z
  <2>2. v \in Seq(AnyRow)
    BY <2>1
  <2> HIDE DEF v
  <2>3. (x \o c) \o v = x \o (c \o v) /\ x \o c \in Seq(AnyRow)
    BY <2>2, <1>6, <1>13, Regroup
  <2>4. QED
    BY <2>1, <2>3 DEF v
<1>15. QED
  BY <1>5, <1>10, <1>12, <1>14 DEF x

(* The ways a step of an ingestion can go.                                 *)
Goes ==
    /\ call'.op \in {"append", "recovering"}
    /\ call'.guarded /\ call'.before = call.before
    /\ hole' = hole
    /\ call'.op = "append" =>
          /\ call.op = "append"
          /\ ~hole => RowsOf(kv'.cells) \o Left(call') = RowsOf(kv.cells) \o Left(call)

Completes ==
    /\ AtRest' /\ report' = None /\ usable' /\ hole' = hole
    /\ logits' = Context(kv')
    /\ call.op = "append"
    /\ ~hole => RowsOf(kv'.cells) = RowsOf(kv.cells) \o Left(call)

Undoes ==
    /\ AtRest' /\ report' \in {"unchanged", "restored"} /\ usable' /\ hole' = hole
    /\ pos' = call.before.pos
    /\ ~hole => kv'.cells = call.before.kv.cells

Empties == AtRest' /\ report' = "reset" /\ usable' /\ ~hole' /\ pos' = 0 /\ kv'.cells = <<>>

GivesUp == AtRest' /\ report' = "unusable" /\ ~usable'

LEMMA FailsGoes ==
    ASSUME SessionInv, call.op = "append", call.guarded, Fails, hole' = hole
    PROVE  Goes
<1>1. IsAppend(call)
  BY Appended
<1>2. call' = [call EXCEPT !.op = "recovering"]
  BY DEF Fails
<1>3. /\ IsAppend(call') /\ call'.op = "recovering"
      /\ call'.guarded = call.guarded /\ call'.before = call.before
  BY <1>1, <1>2, RecoveringIs
<1>4. QED
  BY <1>3 DEF Goes

LEMMA BeginGoes ==
    ASSUME SessionInv, BeginSegment, call.guarded
    PROVE  Goes
<1>1. /\ call.op = "append" /\ hole' = hole /\ kv' = kv
      /\ Begun(IF call.mutation = "none" THEN "tail" ELSE call.mutation, pos, kv.cells)
  BY DEF BeginSegment
<1>2. IsAppend(call) /\ call.mutation \in {"none", "tail", "destructive"}
  BY <1>1, Appended DEF IsAppend
<1> DEFINE m == IF call.mutation = "none" THEN "tail" ELSE call.mutation
<1>3. m \in {"tail", "destructive"} /\ Begun(m, pos, kv.cells)
  BY <1>1, <1>2
<1> HIDE DEF m
<1>4. /\ IsAppend(call') /\ call'.op = call.op
      /\ call'.guarded = call.guarded /\ call'.before = call.before
      /\ call'.todo = call.todo /\ call'.fed = call.fed
  BY <1>2, <1>3, BegunIs
<1>5. Left(call') = Left(call)
  BY <1>4 DEF Left
<1>6. QED
  BY <1>1, <1>4, <1>5 DEF Goes

LEMMA MoreGoes ==
    ASSUME SessionInv, ChunkGoesIn, call.guarded, call' = [call EXCEPT !.fed = FedAfter]
    PROVE  Goes
<1>1. call.op = "append" /\ hole' = hole
  BY DEF ChunkGoesIn
<1>2. IsAppend(call) /\ call.fed < Len(Rows)
  BY <1>1, Appended
<1>3. FedAfter \in Nat
  <2>1. FedAfter \in 1 .. Len(Rows)
    BY <1>2, ChunkIs
  <2>2. QED
    BY <2>1
<1>4. /\ IsAppend(call') /\ call'.op = call.op
      /\ call'.guarded = call.guarded /\ call'.before = call.before
      /\ call'.todo = call.todo /\ call'.fed = FedAfter
  <2> DEFINE n == FedAfter
  <2>1. n \in Nat /\ call' = [call EXCEPT !.fed = n]
    BY <1>3
  <2> HIDE DEF n
  <2>2. /\ IsAppend(call') /\ call'.op = call.op
        /\ call'.guarded = call.guarded /\ call'.before = call.before
        /\ call'.todo = call.todo /\ call'.fed = n
    BY <1>2, <2>1, MoreRowsIs
  <2>3. QED
    BY <2>2 DEF n
<1>5. Left(call') = Remaining
  BY <1>4 DEF Left, Remaining, Rows
<1>6. ~hole => RowsOf(kv'.cells) \o Left(call') = RowsOf(kv.cells) \o Left(call)
  BY <1>5, ChunkMoves
<1>7. QED
  BY <1>1, <1>4, <1>6 DEF Goes

LEMMA DoneGoes ==
    ASSUME SessionInv, ChunkGoesIn, call.guarded, FedAfter = Len(Rows), SegmentDone
    PROVE  Goes \/ Completes
<1>1. call.op = "append" /\ hole' = hole /\ usable' = usable
  BY DEF ChunkGoesIn
<1>2. IsAppend(call) /\ Rows \in Seq(AnyRow) /\ usable
  BY <1>1, Appended
<1> DEFINE z == FlatRows(Tail(call.todo))
<1>3. z \in Seq(AnyRow)
  BY <1>2, TailRows
<1>4. Remaining = z
  <2> DEFINE q == Rows
  <2>1. q \in Seq(AnyRow) /\ Len(q) \in 0 .. Len(q)
    BY <1>2, LenProperties
  <2>2. Remaining = SubSeq(q, Len(q) + 1, Len(q)) \o z
    BY DEF Remaining
  <2> HIDE DEF q, z
  <2>3. SubSeq(q, Len(q) + 1, Len(q)) = <<>>
    BY <2>1, RestOf
  <2>4. <<>> \o z = z
    BY <1>3, ConcatEmptySeq
  <2>5. QED
    BY <2>2, <2>3, <2>4
<1>5. CASE Len(call.todo) = 1
  <2>1. call' = Rest /\ report' = None /\ logits' = Context(kv')
    BY <1>5 DEF SegmentDone
  <2>2. z = <<>>
    BY <1>2, <1>5, TailRows
  <2>3. ASSUME ~hole PROVE RowsOf(kv'.cells) = RowsOf(kv.cells) \o Left(call)
    <3>1. /\ RowsOf(kv'.cells) \o Remaining = RowsOf(kv.cells) \o Left(call)
          /\ RowsOf(kv'.cells) \in Seq(AnyRow)
      BY <2>3, ChunkMoves
    <3>2. RowsOf(kv'.cells) \o <<>> = RowsOf(kv'.cells)
      BY <3>1, ConcatEmptySeq
    <3> HIDE DEF z
    <3>3. QED
      BY <3>1, <3>2, <2>2, <1>4
  <2>4. QED
    BY <1>1, <1>2, <2>1, <2>3 DEF Completes, AtRest, Rest
<1>6. CASE Len(call.todo) # 1
  <2>1. call' = [call EXCEPT !.todo = Tail(@), !.begun = FALSE, !.fed = 0]
    BY <1>6 DEF SegmentDone
  <2>2. /\ IsAppend(call') /\ call'.op = call.op
        /\ call'.guarded = call.guarded /\ call'.before = call.before /\ call'.fed = 0
    BY <1>2, <1>6, <2>1, NextSegmentIs
  <2>3. call'.todo = Tail(call.todo)
    BY <1>2, <2>1 DEF IsAppend
  <2>4. Left(call') = z
    BY <2>2, <2>3, LeftAtFirst
  <2>5. ~hole => RowsOf(kv'.cells) \o Left(call') = RowsOf(kv.cells) \o Left(call)
    <3> HIDE DEF z
    <3>1. QED
      BY <1>4, <2>4, ChunkMoves
  <2>6. QED
    BY <1>1, <2>2, <2>5 DEF Goes
<1>7. QED
  BY <1>5, <1>6

LEMMA UndoGoes ==
    ASSUME SessionInv, LeaveUnchanged \/ RewindToBefore
    PROVE  Undoes
<1>1. CASE LeaveUnchanged
  <2>1. /\ Recovering /\ call.mutation = "none" /\ report' = "unchanged" /\ call' = Rest
        /\ UNCHANGED <<kv, pos, usable, hole>>
    BY <1>1 DEF LeaveUnchanged
  <2>2. kv = call.before.kv /\ pos = call.before.pos /\ usable
    BY <2>1, Recovers
  <2>3. QED
    BY <2>1, <2>2 DEF Undoes, AtRest, Rest
<1>2. CASE RewindToBefore
  <2>1. /\ Recovering /\ report' = "restored" /\ call' = Rest /\ pos' = call.before.pos
        /\ UNCHANGED <<usable, hole>>
    BY <1>2 DEF RewindToBefore
  <2>2. usable
    BY <2>1, Recovers
  <2>3. ~hole => Context(kv') = Context(call.before.kv)
    BY <1>2, RewindInv
  <2>4. ~hole => kv'.cells = call.before.kv.cells
    BY <2>3 DEF Context
  <2>5. QED
    BY <2>1, <2>2, <2>4 DEF Undoes, AtRest, Rest
<1>3. QED
  BY <1>1, <1>2

LEMMA IngestSteps ==
    ASSUME SessionInv, AppendStep, call.guarded
    PROVE  /\ Goes \/ Completes \/ Undoes \/ Empties \/ GivesUp
           /\ stored' = stored
<1>1. stored' = stored
  BY NeverShifts DEF AppendStep, RefuseSegment, BeginSegment, PrefillChunk, EmbeddingChunk,
     ChunkFaults, LeaveUnchanged, RewindToBefore, ResetInstead, GiveUp, IngestUnwinds
<1>2. CASE RefuseSegment
  BY <1>1, <1>2, FailsGoes DEF RefuseSegment
<1>3. CASE BeginSegment
  BY <1>1, <1>3, BeginGoes
<1>4. CASE PrefillChunk \/ EmbeddingChunk
  <2>1. /\ ChunkGoesIn
        /\ \/ FedAfter = Len(Rows) /\ SegmentDone
           \/ FedAfter < Len(Rows) /\ cancel /\ StopShort
           \/ FedAfter < Len(Rows) /\ call' = [call EXCEPT !.fed = FedAfter]
    BY <1>4, PrefillIs, EmbeddingIs
  <2>2. CASE FedAfter = Len(Rows) /\ SegmentDone
    BY <1>1, <2>1, <2>2, DoneGoes
  <2>3. CASE FedAfter < Len(Rows) /\ cancel /\ StopShort
    BY <1>1, <2>1, <2>3, FailsGoes DEF StopShort, ChunkGoesIn
  <2>4. CASE FedAfter < Len(Rows) /\ call' = [call EXCEPT !.fed = FedAfter]
    BY <1>1, <2>1, <2>4, MoreGoes
  <2>5. QED
    BY <2>1, <2>2, <2>3, <2>4
<1>5. CASE ChunkFaults
  <2>1. call.op = "append" /\ Fails /\ hole' = (hole \/ ~call.guarded)
    BY <1>5 DEF ChunkFaults
  <2>2. hole' = hole
    BY <2>1 DEF SessionInv, StateTyped
  <2>3. QED
    BY <1>1, <2>1, <2>2, FailsGoes
<1>6. CASE LeaveUnchanged \/ RewindToBefore
  BY <1>1, <1>6, UndoGoes
<1>7. CASE ResetInstead
  BY <1>1, <1>7 DEF ResetInstead, Cleared, Pristine, Empties, AtRest, Rest
<1>8. CASE GiveUp \/ IngestUnwinds
  BY <1>1, <1>8 DEF GiveUp, IngestUnwinds, GivesUp, AtRest, Rest
<1>9. Goes \/ Completes \/ Undoes \/ Empties \/ GivesUp
  BY <1>2, <1>3, <1>4, <1>5, <1>6, <1>7, <1>8, NeverShifts DEF AppendStep
<1>10. QED
  BY <1>1, <1>9

LEMMA AppendOp ==
    ASSUME AppendStep, SessionInv
    PROVE  Appends
BY NeverShifts DEF AppendStep, RefuseSegment, BeginSegment, PrefillChunk, EmbeddingChunk,
   ChunkFaults, LeaveUnchanged, RewindToBefore, ResetInstead, GiveUp, IngestUnwinds,
   Recovering, MustReset, Appends

(* The same of an append that is the owner's own.                          *)
LEMMA RawSteps ==
    ASSUME SessionInv, AppendStep, ~call.guarded
    PROVE  /\ AtRest' \/ (call'.op = "append" /\ ~call'.guarded)
           /\ stored' = stored
<1>1. Appends /\ call.op = "append" /\ IsAppend(call)
  <2>1. Appends
    BY AppendOp
  <2>2. CallTyped
    BY DEF SessionInv
  <2>3. QED
    BY <2>1, <2>2 DEF CallTyped, Appends
<1>2. Fails => AtRest'
  BY DEF Fails, AtRest, Rest
<1>3. stored' = stored
  BY NeverShifts DEF AppendStep, RefuseSegment, BeginSegment, PrefillChunk, EmbeddingChunk,
     ChunkFaults, LeaveUnchanged, RewindToBefore, ResetInstead, GiveUp, IngestUnwinds
<1>4. CASE RefuseSegment \/ ChunkFaults
  BY <1>2, <1>3, <1>4 DEF RefuseSegment, ChunkFaults
<1>5. CASE BeginSegment
  BY <1>1, <1>3, <1>5 DEF BeginSegment, Begun, IsAppend
<1>6. CASE PrefillChunk \/ EmbeddingChunk
  <2>1. \/ SegmentDone
        \/ StopShort
        \/ call' = [call EXCEPT !.fed = FedAfter]
    BY <1>6 DEF PrefillChunk, EmbeddingChunk
  <2>2. CASE SegmentDone
    BY <1>1, <1>3, <2>2 DEF SegmentDone, AtRest, Rest, IsAppend
  <2>3. CASE StopShort
    BY <1>2, <1>3, <2>3 DEF StopShort
  <2>4. CASE call' = [call EXCEPT !.fed = FedAfter]
    BY <1>1, <1>3, <2>4 DEF IsAppend
  <2>5. QED
    BY <2>1, <2>2, <2>3, <2>4
<1>7. QED
  BY <1>1, <1>3, <1>4, <1>5, <1>6, NeverShifts DEF AppendStep, Recovering, LeaveUnchanged,
     RewindToBefore, ResetInstead, MustReset, GiveUp, IngestUnwinds

----------------------------------------------------------------------------
(* A reply.  It counts its tokens, damaged or not.                         *)
LEMMA ReplyOps ==
    ASSUME SessionInv, Generating
    PROVE  /\ AtRest' \/ call'.op \in {"generate", "aborted"}
           /\ IsGenerate(call) /\ usable /\ ~Appends
           /\ call.emitted \in Nat /\ call.budget \in Nat
<1>1. call.op = "generate"
  BY GeneratingOp
<1>2. IsGenerate(call) /\ usable /\ ~Appends
  BY <1>1, Generates
<1>3. call.emitted \in Nat /\ call.budget \in Nat
  BY <1>2 DEF IsGenerate
<1>4. CASE DecodeStep
  BY <1>2, <1>4 DEF DecodeStep, IsGenerate
<1>5. CASE DecodeStops \/ DecodeFaults \/ SpecStops \/ SpecSingleFaults
  <2>1. call' = Rest
    BY <1>5 DEF DecodeStops, DecodeFaults, SpecStops, SpecSingleFaults, GenerateReturns
  <2>2. QED
    BY <2>1, <1>2, <1>3 DEF AtRest, Rest
<1>6. CASE SpecSingle
  <2>1. call' = Rest \/ call' = [call EXCEPT !.emitted = @ + 1]
    BY <1>6 DEF SpecSingle, GenerateReturns
  <2>2. QED
    BY <2>1, <1>2 DEF IsGenerate, AtRest, Rest
<1>7. CASE SpecRound
  <2>1. \/ call' = Rest \/ call' = Aborted
        \/ \E stay \in Nat : call' = [call EXCEPT !.emitted = @ + 1 + stay]
    BY <1>7 DEF SpecRound, GenerateReturns
  <2>2. QED
    BY <2>1, <1>2 DEF IsGenerate, AtRest, Rest, Aborted
<1>8. CASE VerificationFaults
  BY <1>2, <1>3, <1>8 DEF VerificationFaults, Aborted
<1>9. AtRest' \/ call'.op \in {"generate", "aborted"}
  BY <1>4, <1>5, <1>6, <1>7, <1>8 DEF Generating
<1>10. QED
  BY <1>2, <1>3, <1>9

LEMMA ReplyCounts ==
    ASSUME SessionInv, Generating, call'.op = "generate"
    PROVE  /\ call'.budget = call.budget
           /\ call'.emitted \in Nat /\ call'.emitted # 0 /\ call'.emitted <= call'.budget
<1>1. IsGenerate(call) /\ call.emitted \in Nat /\ call.budget \in Nat
  BY ReplyOps
<1>2. call' # Rest /\ call' # Aborted
  BY DEF Rest, Aborted
<1>3. CASE DecodeStep
  <2>1. call.emitted < call.budget
    BY <1>3 DEF DecodeStep, MayStep
  <2>2. call'.budget = call.budget /\ call'.emitted = call.emitted + 1
    BY <1>1, <1>3 DEF DecodeStep, IsGenerate
  <2>3. QED
    BY <2>1, <2>2, <1>1
<1>4. CASE SpecSingle
  <2>1. call.emitted < call.budget
    BY <1>4 DEF SpecSingle, MayStep
  <2>2. call' = [call EXCEPT !.emitted = @ + 1]
    BY <1>2, <1>4 DEF SpecSingle, GenerateReturns
  <2>3. call'.budget = call.budget /\ call'.emitted = call.emitted + 1
    BY <1>1, <2>2 DEF IsGenerate
  <2>4. QED
    BY <2>1, <2>3, <1>1
<1>5. CASE SpecRound
  <2>1. PICK stay \in Nat : /\ call.emitted + 1 + stay <= call.budget
                            /\ call' = [call EXCEPT !.emitted = @ + 1 + stay]
    BY <1>2, <1>5 DEF SpecRound, GenerateReturns
  <2>2. call'.budget = call.budget /\ call'.emitted = call.emitted + 1 + stay
    BY <1>1, <2>1 DEF IsGenerate
  <2>3. QED
    BY <2>1, <2>2, <1>1
<1>6. QED
  BY <1>2, <1>3, <1>4, <1>5 DEF Generating, DecodeStops, DecodeFaults, SpecStops,
     SpecSingleFaults, VerificationFaults, GenerateReturns

(* Cancelled before its first token, it puts back the logits it took.      *)
LEMMA ReplyUntouched ==
    ASSUME SessionInv, Generating, AtRest', ~hole', cancel,
           call.emitted = 0, call.fresh
    PROVE  kv' = kv /\ logits' = call.taken
<1>1. ~DecodeStep /\ ~SpecSingle /\ ~SpecRound
  BY DEF DecodeStep, SpecSingle, SpecRound, MayStep
<1>2. ~DecodeFaults /\ ~SpecSingleFaults
  BY DEF DecodeFaults, SpecSingleFaults
<1>3. ~VerificationFaults
  BY DEF VerificationFaults, MayStep
<1>4. QED
  BY <1>1, <1>2, <1>3 DEF Generating, DecodeStops, SpecStops, GenerateReturns

----------------------------------------------------------------------------
(* What has become of a call of Chat that has begun, and of one that ended. *)
LEMMA TextTyped ==
    ASSUME SessionInv
    PROVE  RowsOf(kv.cells) \in Seq(AnyRow) /\ \A p : TextIn(p) \in Seq(AnyRow)
<1>1. kv.cells \in Seq(AnyCell)
  BY KvFields DEF SessionInv, StateTyped, AnyKv
<1>2. RowsOf(kv.cells) \in Seq(AnyRow)
  BY <1>1, CellRows
<1>3. <<>> \in Seq(AnyRow)
  OBVIOUS
<1>4. \A p : TextIn(p) \in Seq(AnyRow)
  BY <1>2, <1>3 DEF TextIn
<1>5. QED
  BY <1>2, <1>4

LEMMA OccupiedIs ==
    ASSUME SessionInv, PhaseInv, phase # "unusable", NEW r \in BOOLEAN, Occupied(r)
    PROVE  /\ turn' # None /\ turn' \in Locals
           /\ turn'.prior = phase /\ turn'.terminal = terminal /\ turn'.replacing = r
           /\ turn'.text = TextIn(phase)
           /\ phase' = "unusable" /\ kept' = kept
           /\ Ended(turn'.terminal, turn'.prior)
<1>1. /\ turn' = [prior |-> phase, terminal |-> terminal, replacing |-> r, text |-> TextIn(phase)]
      /\ phase' = "unusable" /\ kept' = kept
  BY DEF Occupied
<1>2. phase \in Phases /\ Ended(terminal, phase)
  BY DEF PhaseInv
<1>3. TextIn(phase) \in Seq(AnyRow)
  BY TextTyped
<1>4. terminal \in {None, FALSE}
  BY <1>2 DEF Ended
<1>5. turn' \in Locals
  BY <1>1, <1>2, <1>3, <1>4 DEF Locals
<1>6. turn' # None
  BY <1>5, NothingAssumption
<1>7. QED
  BY <1>1, <1>2, <1>5, <1>6

LEMMA RestingTurn ==
    ASSUME PhaseInv, AtRest
    PROVE  turn = None
BY DEF PhaseInv

LEMMA BegunPhase ==
    ASSUME SessionInv, PhaseInv, phase # "unusable", NEW r \in BOOLEAN, Occupied(r),
           terminal' = None \/ (terminal' = terminal /\ phase # "turn"),
           usable', ~AtRest', ~kv'.dropped
    PROVE  PhaseInv'
<1>1. /\ turn' # None /\ turn' \in Locals
      /\ turn'.prior = phase /\ turn'.terminal = terminal
      /\ phase' = "unusable"
      /\ Ended(turn'.terminal, turn'.prior)
  BY OccupiedIs
<1>2. Ended(terminal', phase')
  BY <1>1, NothingAssumption DEF PhaseInv, Ended
<1>3. phase' \in Phases
  BY <1>1 DEF Phases
<1>4. QED
  BY <1>1, <1>2, <1>3 DEF PhaseInv

(* A call that has ended, or that never began.                             *)
LEMMA EndedPhase ==
    ASSUME phase' \in Phases, Ended(terminal', phase'), ~kv'.dropped, turn' = None, AtRest',
           phase' = "unusable" => ~usable',
           phase' \in Known => /\ usable' /\ ~hole'
                               /\ phase' = "idle" => pos' = 0
                               /\ phase' = "prompt" => logits' = Context(kv')
    PROVE  PhaseInv'
BY DEF PhaseInv

LEMMA RestingPhase ==
    ASSUME SessionInv, PhaseInv, AtRest, call' = call, kv' = kv \/ ~kv'.dropped,
           turn' = turn
    PROVE  turn' = None /\ AtRest' /\ ~kv'.dropped
BY DEF PhaseInv, AtRest

----------------------------------------------------------------------------
(* The phases, call by call.                                               *)
LEMMA BeginsPhase ==
    ASSUME SessionInv, PhaseInv, ChatIngest \/ ChatGenerate \/ ChatReplace
    PROVE  PhaseInv'
<1>1. CASE ChatIngest
  <2>1. /\ phase # "unusable" /\ terminal' = None /\ Occupied(FALSE)
        /\ \E m : Ingests(m)
    BY <1>1 DEF ChatIngest
  <2>2. usable' /\ kv' = kv /\ ~AtRest'
    BY <2>1 DEF Ingests, Appending, AtRest
  <2>3. QED
    BY <2>1, <2>2, BegunPhase DEF PhaseInv
<1>2. CASE ChatGenerate
  <2>1. phase = "prompt" /\ terminal' = terminal /\ Occupied(FALSE) /\ StartGenerate
    BY <1>2 DEF ChatGenerate
  <2>2. usable' /\ kv' = kv
    BY <2>1 DEF StartGenerate
  <2>3. PICK mode, budget :
           call' = [op |-> "generate", mode |-> mode, budget |-> budget, emitted |-> 0,
                    taken |-> logits, fresh |-> TRUE, at |-> pos]
    BY <2>1 DEF StartGenerate
  <2>4. ~AtRest'
    BY <2>3 DEF AtRest
  <2>5. QED
    BY <2>1, <2>2, <2>4, BegunPhase DEF PhaseInv
<1>3. CASE ChatReplace
  <2>1. /\ phase # "unusable" /\ terminal' = None /\ Occupied(TRUE) /\ Cleared
        /\ usable' /\ \E m : call' = [Appending(TRUE, m) EXCEPT !.before = Emptied]
    BY <1>3 DEF ChatReplace
  <2>2. ~AtRest'
    BY <2>1 DEF Appending, AtRest
  <2>3. ~kv'.dropped
    BY <2>1 DEF Cleared, Pristine
  <2>4. QED
    BY <2>1, <2>2, <2>3, BegunPhase
<1>4. QED
  BY <1>1, <1>2, <1>3

LEMMA RestsPhase ==
    ASSUME SessionInv, PhaseInv,
           \/ ChatReplaceFails \/ ChatReset \/ ChatResetFails
           \/ ChatGenerateNothing \/ Raw \/ ChatCheckpoint
    PROVE  PhaseInv'
<1>1. AtRest /\ call' = call /\ turn' = turn /\ phase \in Phases
  BY DEF ChatReplaceFails, ChatReset, ChatResetFails, ChatGenerateNothing, Raw,
     ChatCheckpoint, Reset, ResetFails, GenerateNothing, Checkpoint, vars, PhaseInv
<1>2. turn' = None /\ AtRest' /\ ~kv.dropped
  BY <1>1 DEF PhaseInv, AtRest
<1>3. CASE ChatReset
  <2>1. /\ phase' = "idle" /\ terminal' = None /\ pos' = 0 /\ usable' /\ ~hole'
        /\ ~kv'.dropped
    BY <1>3 DEF ChatReset, Reset, Cleared, Pristine
  <2>2. QED
    BY <1>2, <2>1, EndedPhase, NothingAssumption DEF Ended, Phases, Known
<1>4. CASE ChatReplaceFails \/ ChatResetFails
  <2>1. phase' = "unusable" /\ terminal' = None /\ ~usable' /\ kv' \in {kv, Unanswered(kv)}
    BY <1>4 DEF ChatReplaceFails, ChatResetFails, ResetFails
  <2>2. Unanswered(kv).dropped = kv.dropped
    BY DEF SessionInv, StateTyped, Kvs, Unanswered
  <2>3. ~kv'.dropped
    BY <1>2, <2>1, <2>2
  <2>4. QED
    BY <1>2, <2>1, <2>3, EndedPhase, NothingAssumption DEF Ended, Phases, Known
<1>5. CASE ChatGenerateNothing
  <2>1. /\ phase = "prompt" /\ phase' \in {"raw", phase} /\ terminal' = terminal
        /\ UNCHANGED <<kv, pos, logits, usable, hole>>
    BY <1>5 DEF ChatGenerateNothing, GenerateNothing
  <2>2. Context(kv') = Context(kv)
    BY <2>1
  <2>3. QED
    BY <1>1, <1>2, <2>1, <2>2 DEF PhaseInv, Ended, Phases, Known
<1>6. CASE Raw
  <2>1. phase' = "raw" /\ terminal' = None /\ kv' = kv
    BY <1>6 DEF Raw, vars
  <2>2. QED
    BY <1>2, <2>1, EndedPhase, NothingAssumption DEF Ended, Phases, Known
<1>7. CASE ChatCheckpoint
  BY <1>1, <1>2, <1>7 DEF ChatCheckpoint, Checkpoint, PhaseInv, Context, Ended
<1>8. QED
  BY <1>3, <1>4, <1>5, <1>6, <1>7

LEMMA RestoresPhase ==
    ASSUME SessionInv, PhaseInv, KeptInv, ChatRestore
    PROVE  PhaseInv'
<1>1. /\ AtRest /\ call' = call /\ turn' = turn /\ stored # None
      /\ kv' = RestoredFrom(stored.kv) /\ pos' = stored.pos /\ logits' = stored.logits
      /\ usable' /\ hole' = stored.hole /\ phase' = kept.phase
      /\ terminal' = IF kept.terminal = None /\ kept.phase = "turn" THEN FALSE ELSE kept.terminal
  BY DEF ChatRestore, Restore
<1>2. kept \in Ends /\ kept.phase # "unusable" /\ Ended(kept.terminal, kept.phase)
  BY <1>1 DEF KeptInv
<1>3. phase' \in Phases /\ Ended(terminal', phase')
  BY <1>1, <1>2, NothingAssumption DEF Ends, Ended
<1>4. ~kv'.dropped /\ Context(kv') = [cells |-> stored.kv.cells, conv |-> stored.kv.conv]
  BY <1>1 DEF KeptInv, RestoredFrom, Context
<1>5. turn' = None /\ AtRest'
  BY <1>1 DEF PhaseInv, AtRest
<1>6. phase' \in Known => /\ usable' /\ ~hole'
                          /\ phase' = "idle" => pos' = 0
                          /\ phase' = "prompt" => logits' = Context(kv')
  BY <1>1, <1>4 DEF KeptInv
<1>7. phase' # "unusable"
  BY <1>1, <1>2
<1>8. QED
  BY <1>3, <1>4, <1>5, <1>6, <1>7, EndedPhase

LEMMA RawPhase ==
    ASSUME SessionInv, PhaseInv, RawAppend
    PROVE  PhaseInv' /\ stored' = stored /\ turn = None
<1>1. phase = "raw" /\ turn = None /\ UNCHANGED chatVars
  BY DEF RawAppend, PhaseInv
<1>2. CASE StartAppend
  <2>1. /\ call'.op = "append" /\ ~call'.guarded /\ kv' = kv /\ stored' = stored
    BY <1>2 DEF StartAppend, Appending
  <2>2. QED
    BY <1>1, <2>1 DEF PhaseInv, Ended, AtRest, Known, chatVars
<1>3. CASE AppendStep
  <2>1. ~AtRest
    BY <1>3, AppendOp DEF Appends, AtRest
  <2>2. ~call.guarded
    BY <1>1, <2>1 DEF PhaseInv
  <2>3. /\ AtRest' \/ (call'.op = "append" /\ ~call'.guarded)
        /\ stored' = stored /\ ~kv'.dropped
    BY <1>3, <2>2, RawSteps, AppendKeeps DEF PhaseInv
  <2>4. QED
    BY <1>1, <2>3 DEF PhaseInv, Ended, AtRest, Known, chatVars
<1>4. QED
  BY <1>2, <1>3 DEF RawAppend

(* A call of Chat in progress, and how it may end: what its caller is told *)
(* goes with what has become of the session.                               *)
LEMMA InProgress ==
    ASSUME PhaseInv, turn # None
    PROVE  /\ turn \in Locals /\ turn.prior # "unusable" /\ turn.prior \in Phases
           /\ Ended(turn.terminal, turn.prior) /\ turn.replacing \in BOOLEAN
           /\ phase = "unusable" /\ terminal = None /\ ~AtRest /\ usable
BY DEF PhaseInv, Ended, Locals

Emptying == usable' /\ ~hole' /\ pos' = 0 /\ kv'.cells = <<>> /\ phase' = "idle"

IngestEnded ==
    /\ AtRest' /\ turn' = None /\ kept' = kept
    /\ \/ Completes /\ phase' = "prompt" /\ terminal' = None
       \/ Undoes /\ ~turn.replacing /\ phase' = turn.prior /\ terminal' = turn.terminal
       \/ Emptying /\ terminal' = None
       \/ GivesUp /\ phase' = "unusable" /\ terminal' = None

LEMMA UndoneToNothing ==
    ASSUME SessionInv, IngestInv, Appends, turn # None, Undoes,
           turn.replacing \/ turn.prior = "idle"
    PROVE  usable' /\ ~hole' /\ pos' = 0 /\ kv'.cells = <<>>
<1>1. call.guarded /\ ~hole /\ call.before.pos = 0
  BY DEF IngestInv
<1>2. usable' /\ ~hole' /\ pos' = 0 /\ kv'.cells = call.before.kv.cells
  BY <1>1 DEF Undoes
<1>3. IsBefore(call.before)
  BY <1>1, GuardIs DEF SessionInv
<1>4. Len(call.before.kv.cells) = 0 /\ call.before.kv \in AnyKv
  BY <1>1, <1>3 DEF IsBefore, Faithful, AnyKv
<1>5. call.before.kv.cells \in Seq(AnyCell)
  BY <1>4, KvFields
<1>6. call.before.kv.cells = <<>>
  BY <1>4, <1>5, EmptySeq
<1>7. QED
  BY <1>2, <1>6

LEMMA IngestEndsIn ==
    ASSUME SessionInv, PhaseInv, IngestInv, Ingesting
    PROVE  /\ Appends /\ call.guarded /\ ~hole /\ turn # None /\ stored' = stored
           /\ (Goes /\ UNCHANGED chatVars) \/ IngestEnded
<1>1. turn # None /\ AppendStep
  BY DEF Ingesting
<1>2. Appends
  BY <1>1, AppendOp
<1>3. call.guarded /\ ~hole
  BY <1>1, <1>2 DEF IngestInv
<1>4. Goes \/ Completes \/ Undoes \/ Empties \/ GivesUp
  BY <1>1, <1>3, IngestSteps
<1>5. stored' = stored
  BY <1>1, <1>3, IngestSteps
<1>6. terminal = None /\ turn.replacing \in BOOLEAN
  BY <1>1, InProgress
<1>7. CASE ~AtRest'
  <2>1. UNCHANGED chatVars
    BY <1>7 DEF Ingesting
  <2>2. Goes
    BY <1>4, <1>7 DEF Completes, Undoes, Empties, GivesUp
  <2>3. QED
    BY <1>1, <1>2, <1>3, <1>5, <2>1, <2>2
<1>8. CASE AtRest'
  <2>1. IngestEnds
    BY <1>8 DEF Ingesting
  <2>2. turn' = None /\ kept' = kept
    BY <2>1 DEF IngestEnds
  <2>3. CASE Completes
    <3>1. report' = None
      BY <2>3 DEF Completes
    <3>2. phase' = "prompt" /\ terminal' = terminal
      BY <2>1, <3>1, NothingAssumption DEF IngestEnds, Outcome, Outcomes
    <3>3. IngestEnded
      BY <1>6, <1>8, <2>2, <2>3, <3>2 DEF IngestEnded
    <3>4. QED
      BY <1>1, <1>2, <1>3, <1>5, <3>3
  <2>4. CASE Undoes /\ ~turn.replacing
    <3>1. report' \in {"unchanged", "restored"} /\ report' # None
      BY <2>4, NothingAssumption DEF Undoes, Outcomes
    <3>2. phase' = turn.prior /\ terminal' = turn.terminal
      BY <2>1, <2>4, <3>1 DEF IngestEnds, Outcome
    <3>3. IngestEnded
      BY <1>8, <2>2, <2>4, <3>2 DEF IngestEnded
    <3>4. QED
      BY <1>1, <1>2, <1>3, <1>5, <3>3
  <2>5. CASE Undoes /\ turn.replacing
    <3>1. report' \in {"unchanged", "restored"} /\ report' # None
      BY <2>5, NothingAssumption DEF Undoes, Outcomes
    <3>2. phase' = "idle" /\ terminal' = terminal
      BY <2>1, <2>5, <3>1 DEF IngestEnds, Outcome
    <3>3. Emptying
      BY <1>1, <1>2, <2>5, <3>2, UndoneToNothing DEF Emptying
    <3>4. IngestEnded
      BY <1>6, <1>8, <2>2, <3>2, <3>3 DEF IngestEnded
    <3>5. QED
      BY <1>1, <1>2, <1>3, <1>5, <3>4
  <2>6. CASE Empties
    <3>1. report' = "reset" /\ report' # None
      BY <2>6, NothingAssumption DEF Empties, Outcomes
    <3>2. phase' = "idle" /\ terminal' = terminal
      BY <2>1, <3>1 DEF IngestEnds, Outcome
    <3>3. Emptying
      BY <2>6, <3>2 DEF Emptying, Empties
    <3>4. IngestEnded
      BY <1>6, <1>8, <2>2, <3>2, <3>3 DEF IngestEnded
    <3>5. QED
      BY <1>1, <1>2, <1>3, <1>5, <3>4
  <2>7. CASE GivesUp
    <3>1. report' = "unusable" /\ report' # None
      BY <2>7, NothingAssumption DEF GivesUp, Outcomes
    <3>2. phase' = "unusable" /\ terminal' = terminal
      BY <2>1, <3>1 DEF IngestEnds, Outcome
    <3>3. IngestEnded
      BY <1>6, <1>8, <2>2, <2>7, <3>2 DEF IngestEnded
    <3>4. QED
      BY <1>1, <1>2, <1>3, <1>5, <3>3
  <2>8. ~Goes
    BY <1>8 DEF Goes, AtRest
  <2>9. QED
    BY <1>4, <1>6, <2>3, <2>4, <2>5, <2>6, <2>7, <2>8
<1>9. QED
  BY <1>7, <1>8

LEMMA IngestsPhase ==
    ASSUME SessionInv, PhaseInv, IngestInv, Ingesting
    PROVE  PhaseInv'
<1>1. /\ Appends /\ turn # None
      /\ (Goes /\ UNCHANGED chatVars) \/ IngestEnded
  BY IngestEndsIn
<1>2. ~kv'.dropped
  BY AppendKeeps DEF Ingesting, PhaseInv
<1>3. /\ turn \in Locals /\ turn.prior # "unusable" /\ turn.prior \in Phases
      /\ Ended(turn.terminal, turn.prior)
      /\ phase = "unusable" /\ terminal = None /\ ~AtRest /\ usable
  BY <1>1, InProgress
<1>4. CASE Goes /\ UNCHANGED chatVars
  <2>1. usable'
    <3>1. AppendStep
      BY DEF Ingesting
    <3>2. CallTyped'
      BY <3>1, AppendStepInv DEF SessionInv
    <3>3. Appends'
      BY <1>4 DEF Goes, Appends
    <3>4. QED
      BY <3>2, <3>3 DEF CallTyped, Appends
  <2>2. ~AtRest'
    BY <1>4 DEF Goes, AtRest
  <2>3. turn' = turn /\ phase' = phase /\ terminal' = terminal
    BY <1>4 DEF chatVars
  <2>4. Ended(terminal', phase') /\ phase' \in Phases
    BY <2>3 DEF PhaseInv
  <2>5. QED
    BY <1>1, <1>2, <1>3, <2>1, <2>2, <2>3, <2>4 DEF PhaseInv
<1>5. CASE IngestEnded
  <2>1. AtRest' /\ turn' = None
    BY <1>5 DEF IngestEnded
  <2>2. CASE Completes /\ phase' = "prompt" /\ terminal' = None
    <3>1. usable' /\ ~hole' /\ logits' = Context(kv')
      BY <2>2, IngestEndsIn DEF Completes
    <3>2. QED
      BY <1>2, <2>1, <2>2, <3>1, EndedPhase, NothingAssumption DEF Ended, Phases
  <2>3. CASE Undoes /\ ~turn.replacing /\ phase' = turn.prior /\ terminal' = turn.terminal
    <3>1. turn.prior \in {"idle", "turn"} /\ (turn.prior = "idle" => call.before.pos = 0)
      BY <1>1, <2>3 DEF IngestInv
    <3>2. usable' /\ ~hole' /\ pos' = call.before.pos
      BY <2>3, IngestEndsIn DEF Undoes
    <3>3. QED
      BY <1>2, <1>3, <2>1, <2>3, <3>1, <3>2, EndedPhase
  <2>4. CASE Emptying /\ terminal' = None
    BY <1>2, <2>1, <2>4, EndedPhase, NothingAssumption DEF Emptying, Ended, Phases
  <2>5. CASE GivesUp /\ phase' = "unusable" /\ terminal' = None
    BY <1>2, <2>1, <2>5, EndedPhase, NothingAssumption DEF GivesUp, Ended, Phases, Known
  <2>6. QED
    BY <1>5, <2>2, <2>3, <2>4, <2>5 DEF IngestEnded
<1>6. QED
  BY <1>1, <1>4, <1>5

LEMMA HoleStays ==
    ASSUME SessionInv, Generating, ~hole'
    PROVE  ~hole
<1>1. hole \in BOOLEAN
  BY DEF SessionInv, StateTyped
<1>2. CASE SpecRound
  <2>1. \E p : hole' = (hole \/ ~p)
    BY <1>2 DEF SpecRound
  <2>2. QED
    BY <1>1, <2>1
<1>3. QED
  BY <1>1, <1>2 DEF Generating, DecodeStep, DecodeStops, DecodeFaults, SpecStops, SpecSingle,
     SpecSingleFaults, VerificationFaults

LEMMA SaysMore ==
    ASSUME SessionInv, PhaseInv, ReplyInv, turn # None, Generating, ~hole',
           call'.op # "aborted"
    PROVE  \E s \in Answers : /\ RowsOf(kv'.cells) = turn.text \o s
                              /\ call'.op = "generate" => Len(s) = call'.emitted
<1> DEFINE n == call.emitted
           b == call.budget
           text == turn.text
<1>1. call.op = "generate" /\ ~Appends /\ n \in Nat /\ b \in Nat
  BY ReplyOps, GeneratingOp
<1>2. b <= MaxNew /\ n <= b /\ Said(kv, text, n)
  BY <1>1, HoleStays DEF ReplyInv
<1>3. PICK old \in Answers : RowsOf(kv.cells) = text \o old /\ Len(old) = n
  BY <1>2 DEF Said, Answers
<1>4. PICK new \in Seq(Tokens) : Spoken(new)
  BY <1>2, ReplySays
<1>5. /\ RowsOf(kv'.cells) = RowsOf(kv.cells) \o new
      /\ n + Len(new) <= b
      /\ AtRest' \/ call'.emitted = n + Len(new)
  BY <1>4 DEF Spoken
<1>6. text \in Seq(AnyRow)
  BY InProgress DEF Locals
<1> HIDE DEF n, b, text
<1>7. old \in Seq(Tokens) /\ new \in Seq(Tokens)
  BY AnswersAre
<1>8. old \in Seq(AnyRow) /\ new \in Seq(AnyRow)
  <2>1. Tokens \subseteq AnyRow
    BY DEF AnyRow
  <2>2. QED
    BY <1>7, <2>1
<1> DEFINE both == old \o new
           ln == Len(new)
<1>9. both \in Seq(Tokens) /\ Len(both) = Len(old) + ln /\ ln \in Nat
  BY <1>7, Joins
<1>10. RowsOf(kv'.cells) = text \o both
  BY SMTT(30), <1>3, <1>5, <1>6, <1>8, Regroup
<1> HIDE DEF both, ln
<1>11. Len(both) = n + ln /\ Len(both) <= MaxNew
  <2>1. MaxNew \in Nat
    BY SessionAssumption
  <2>2. n + ln <= b
    BY <1>5 DEF ln
  <2>3. QED
    BY <1>1, <1>2, <1>3, <1>9, <2>1, <2>2 DEF n, b
<1>12. both \in Answers
  BY <1>9, <1>11, AnswersAre
<1>13. call'.op = "generate" => Len(both) = call'.emitted
  BY <1>5, <1>11 DEF AtRest, ln
<1>14. QED
  BY <1>10, <1>12, <1>13 DEF text

ReplyEnded ==
    /\ AtRest' /\ turn' = None /\ kept' = kept /\ ~kv'.dropped /\ stored' = stored
    /\ \/ phase' = "unusable" /\ ~usable' /\ terminal' = None
       \/ /\ phase' = "prompt" /\ terminal' = None /\ usable' /\ ~hole'
          /\ kv' = kv /\ logits' = Context(kv') /\ call.emitted = 0
       \/ /\ phase' \in {"turn", "interrupted"} /\ Ended(terminal', phase')
          /\ usable' /\ ~hole'
          /\ \E s \in Answers : RowsOf(kv'.cells) = turn.text \o s

LEMMA ReplyEndsIn ==
    ASSUME SessionInv, PhaseInv, ReplyInv, Replying
    PROVE  /\ turn # None /\ Generating /\ ~Appends /\ call.op = "generate"
           /\ \/ call'.op \in {"generate", "aborted"} /\ UNCHANGED <<usable, stored, chatVars>>
              \/ ReplyEnded
<1>1. turn # None /\ Generating
  BY ReplyingIs
<1>2. call.op = "generate" /\ ~Appends /\ stored' = stored
      /\ (AtRest' \/ call'.op \in {"generate", "aborted"})
  BY <1>1, ReplyOps, GeneratingOp
<1>3. ~kv'.dropped
  BY <1>1, ReplyKeeps DEF PhaseInv
<1>4. terminal = None /\ usable
  BY <1>1, InProgress
<1>5. CASE Generating /\ ~AtRest' /\ UNCHANGED <<usable, chatVars>>
  <2>1. UNCHANGED <<usable, stored, chatVars>>
    BY <1>2, <1>5
  <2>2. call'.op \in {"generate", "aborted"}
    BY <1>2, <1>5
  <2>3. QED
    BY <1>1, <1>2, <2>1, <2>2
<1>6. CASE Generating /\ AtRest' /\ hole' /\ Condemned
  BY <1>1, <1>2, <1>3, <1>4, <1>6 DEF Condemned, Verdict, ReplyEnded
<1>7. CASE /\ Generating /\ AtRest' /\ ~hole'
           /\ Verdict(IF cancel /\ call.emitted = 0 THEN "prompt" ELSE "interrupted")
           /\ UNCHANGED usable
  <2>1. turn' = None /\ kept' = kept /\ terminal' = None /\ usable'
        /\ phase' = IF cancel /\ call.emitted = 0 THEN "prompt" ELSE "interrupted"
    BY <1>4, <1>7 DEF Verdict
  <2>2. CASE cancel /\ call.emitted = 0
    <3>1. call.fresh /\ call.taken = Context(kv)
      BY <1>1, <1>2, <2>2 DEF ReplyInv
    <3>2. kv' = kv /\ logits' = Context(kv)
      BY <1>1, <1>7, <2>2, <3>1, ReplyUntouched
    <3>3. Context(kv') = Context(kv)
      BY <3>2
    <3>4. ReplyEnded
      BY <1>2, <1>3, <1>7, <2>1, <2>2, <3>2, <3>3 DEF ReplyEnded
    <3>5. QED
      BY <1>1, <1>2, <3>4
  <2>3. CASE ~(cancel /\ call.emitted = 0)
    <3>1. call'.op # "aborted"
      BY <1>7 DEF AtRest
    <3>2. \E s \in Answers : RowsOf(kv'.cells) = turn.text \o s
      BY <1>1, <1>7, <3>1, SaysMore
    <3>3. phase' = "interrupted" /\ Ended(terminal', phase')
      BY <2>1, <2>3, NothingAssumption DEF Ended
    <3>4. ReplyEnded
      BY <1>2, <1>3, <1>7, <2>1, <3>2, <3>3 DEF ReplyEnded
    <3>5. QED
      BY <1>1, <1>2, <3>4
  <2>4. QED
    BY <2>2, <2>3
<1>8. CASE LooksAtToken /\ AtRest' /\ ~hole' /\ Verdict("turn") /\ UNCHANGED usable
  <2>1. call'.op # "aborted"
    BY <1>8 DEF AtRest
  <2>2. \E s \in Answers : RowsOf(kv'.cells) = turn.text \o s
    BY <1>1, <1>8, <2>1, SaysMore
  <2>3. turn' = None /\ kept' = kept /\ phase' = "turn" /\ Ended(terminal', phase') /\ usable'
    BY <1>4, <1>8 DEF Verdict, Ended
  <2>4. ReplyEnded
    BY <1>2, <1>3, <1>8, <2>2, <2>3 DEF ReplyEnded
  <2>5. QED
    BY <1>1, <1>2, <2>4
<1>9. QED
  BY <1>5, <1>6, <1>7, <1>8 DEF Replying

LEMMA RepliesPhase ==
    ASSUME SessionInv, PhaseInv, ReplyInv, Replying
    PROVE  PhaseInv'
<1>1. /\ turn # None /\ Generating
      /\ \/ call'.op \in {"generate", "aborted"} /\ UNCHANGED <<usable, stored, chatVars>>
         \/ ReplyEnded
  BY ReplyEndsIn
<1>2. /\ turn \in Locals /\ turn.prior # "unusable" /\ Ended(turn.terminal, turn.prior)
      /\ phase = "unusable" /\ terminal = None /\ usable
  BY <1>1, InProgress
<1>3. CASE call'.op \in {"generate", "aborted"} /\ UNCHANGED <<usable, stored, chatVars>>
  <2>1. turn' = turn /\ phase' = phase /\ terminal' = terminal /\ usable'
    BY <1>2, <1>3 DEF chatVars
  <2>2. ~AtRest'
    BY <1>3 DEF AtRest
  <2>3. Ended(terminal', phase') /\ phase' \in Phases
    BY <2>1 DEF PhaseInv
  <2>4. ~kv'.dropped
    BY <1>1, ReplyKeeps DEF PhaseInv
  <2>5. QED
    BY <1>1, <1>2, <2>1, <2>2, <2>3, <2>4 DEF PhaseInv
<1>4. CASE ReplyEnded
  <2>1. AtRest' /\ turn' = None /\ ~kv'.dropped
    BY <1>4 DEF ReplyEnded
  <2>2. CASE phase' = "unusable" /\ ~usable' /\ terminal' = None
    BY <2>1, <2>2, EndedPhase, NothingAssumption DEF Ended, Phases, Known
  <2>3. CASE /\ phase' = "prompt" /\ terminal' = None /\ usable' /\ ~hole'
             /\ kv' = kv /\ logits' = Context(kv')
    BY <2>1, <2>3, EndedPhase, NothingAssumption DEF Ended, Phases, Known
  <2>4. CASE /\ phase' \in {"turn", "interrupted"} /\ Ended(terminal', phase')
             /\ usable' /\ ~hole'
    BY <2>1, <2>4, EndedPhase DEF Phases, Known
  <2>5. QED
    BY <1>4, <2>2, <2>3, <2>4 DEF ReplyEnded
<1>5. QED
  BY <1>1, <1>3, <1>4

LEMMA UnwindsPhase ==
    ASSUME SessionInv, PhaseInv, ReplyUnwinds
    PROVE  PhaseInv'
<1>1. /\ turn # None /\ kv' \in {kv, Wrecked(kv)} /\ ~usable' /\ call' = Rest /\ turn' = None
      /\ phase' = phase /\ terminal' = terminal
  BY DEF ReplyUnwinds
<1>2. phase' = "unusable" /\ terminal' = None
  BY <1>1, InProgress
<1>3. Wrecked(kv).dropped = kv.dropped
  BY DEF SessionInv, StateTyped, Kvs, Wrecked
<1>4. ~kv'.dropped
  BY <1>1, <1>3 DEF PhaseInv
<1>5. AtRest'
  BY <1>1 DEF AtRest, Rest
<1>6. QED
  BY <1>1, <1>2, <1>4, <1>5, EndedPhase, NothingAssumption DEF Ended, Phases, Known

LEMMA ChatPhase ==
    ASSUME ChatInv, [ChatNext]_allVars
    PROVE  PhaseInv'
<1>1. SessionInv /\ PhaseInv /\ KeptInv /\ IngestInv /\ ReplyInv
  BY DEF ChatInv
<1>2. CASE UNCHANGED allVars
  BY <1>1, <1>2 DEF allVars, vars, chatVars, PhaseInv, Ended, AtRest, Context
<1>3. CASE ChatIngest \/ ChatGenerate \/ ChatReplace
  BY <1>1, <1>3, BeginsPhase
<1>4. CASE \/ ChatReplaceFails \/ ChatReset \/ ChatResetFails
           \/ ChatGenerateNothing \/ Raw \/ ChatCheckpoint
  BY <1>1, <1>4, RestsPhase
<1>5. CASE ChatRestore
  BY <1>1, <1>5, RestoresPhase
<1>6. CASE RawAppend
  BY <1>1, <1>6, RawPhase
<1>7. CASE Ingesting
  BY <1>1, <1>7, IngestsPhase
<1>8. CASE Replying
  BY <1>1, <1>8, RepliesPhase
<1>9. CASE ReplyUnwinds
  BY <1>1, <1>9, UnwindsPhase
<1>10. CASE (Cancel \/ ClearCancel) /\ UNCHANGED chatVars
  <2>1. UNCHANGED <<kv, pos, logits, usable, call, hole, phase, terminal, turn>>
    BY <1>10 DEF Cancel, ClearCancel, chatVars
  <2>2. QED
    BY <1>1, <2>1 DEF PhaseInv, Ended, AtRest, Context
<1>11. QED
  BY <1>2, <1>3, <1>4, <1>5, <1>6, <1>7, <1>8, <1>9, <1>10 DEF ChatNext

----------------------------------------------------------------------------
(* What is kept of a checkpoint is true of it for as long as it is kept.   *)
LEMMA KeptOn ==
    ASSUME KeptInv, kept' = kept, stored' = stored
    PROVE  KeptInv'
BY DEF KeptInv, Ended

LEMMA TakesKept ==
    ASSUME SessionInv, PhaseInv, ChatCheckpoint
    PROVE  KeptInv'
<1>1. /\ AtRest /\ usable
      /\ stored' = [pos |-> pos, history |-> history, logits |-> logits,
                    kv |-> Snapshot(kv), hole |-> hole]
      /\ kept' = [phase |-> phase, terminal |-> terminal]
  BY DEF ChatCheckpoint, Checkpoint
<1>2. phase # "unusable"
  BY <1>1 DEF PhaseInv
<1>3. kept'.phase = phase /\ kept'.terminal = terminal /\ kept' \in Ends
  BY <1>1 DEF PhaseInv, Ended, Ends
<1>4. kept' # None
  BY <1>3, NothingAssumption
<1>5. /\ stored'.kv.dropped = kv.dropped /\ stored'.hole = hole /\ stored'.pos = pos
      /\ stored'.logits = logits
      /\ [cells |-> stored'.kv.cells, conv |-> stored'.kv.conv] = Context(kv)
  BY <1>1 DEF Snapshot, Context
<1>6. Ended(kept'.terminal, kept'.phase)
  BY <1>3 DEF PhaseInv, Ended
<1>7. ~stored'.kv.dropped
  BY <1>5 DEF PhaseInv
<1>8. /\ kept'.phase \in Known => ~stored'.hole
      /\ kept'.phase = "idle" => stored'.pos = 0
      /\ kept'.phase = "prompt" =>
            stored'.logits = [cells |-> stored'.kv.cells, conv |-> stored'.kv.conv]
  BY <1>1, <1>3, <1>5 DEF PhaseInv, Known
<1>9. QED
  BY <1>2, <1>3, <1>4, <1>6, <1>7, <1>8 DEF KeptInv

LEMMA ChatKept ==
    ASSUME ChatInv, [ChatNext]_allVars
    PROVE  KeptInv'
<1>1. SessionInv /\ PhaseInv /\ KeptInv /\ IngestInv /\ ReplyInv
  BY DEF ChatInv
<1>2. CASE ChatCheckpoint
  BY <1>1, <1>2, TakesKept
<1>3. CASE RawAppend
  BY <1>1, <1>3, RawPhase, KeptOn DEF RawAppend, chatVars
<1>4. CASE Ingesting
  BY <1>1, <1>4, IngestEndsIn, KeptOn DEF IngestEnded, chatVars
<1>5. CASE Replying
  BY <1>1, <1>5, ReplyEndsIn, KeptOn DEF ReplyEnded, chatVars
<1>6. CASE ReplyUnwinds \/ Raw \/ UNCHANGED allVars
  BY <1>1, <1>6, KeptOn DEF ReplyUnwinds, Raw, vars, allVars, chatVars
<1>7. CASE ChatIngest \/ ChatGenerate \/ ChatReplace
  BY <1>1, <1>7, KeptOn DEF ChatIngest, Ingests, ChatGenerate, StartGenerate, ChatReplace,
     Occupied
<1>8. CASE ChatReplaceFails \/ ChatReset \/ ChatResetFails \/ ChatGenerateNothing
  BY <1>1, <1>8, KeptOn DEF ChatReplaceFails, ChatReset, ChatResetFails, ChatGenerateNothing,
     ResetFails, Reset, GenerateNothing
<1>9. CASE ChatRestore \/ ((Cancel \/ ClearCancel) /\ UNCHANGED chatVars)
  BY <1>1, <1>9, KeptOn DEF ChatRestore, Restore, Cancel, ClearCancel, chatVars
<1>10. QED
  BY <1>2, <1>3, <1>4, <1>5, <1>6, <1>7, <1>8, <1>9 DEF ChatNext

----------------------------------------------------------------------------
(* What a message goes in behind, and what of it has gone in.              *)
LEMMA EmptyContext ==
    ASSUME SessionInv, PhaseInv, AtRest, phase = "idle"
    PROVE  kv.cells = <<>> /\ RowsOf(kv.cells) = <<>> /\ pos = 0
<1>1. usable /\ ~hole /\ pos = 0
  BY DEF PhaseInv, Known
<1>2. Len(kv.cells) = 0 /\ kv \in AnyKv
  BY <1>1, Resting DEF RestsWell, Faithful, SessionInv, StateTyped, AnyKv
<1>3. kv.cells \in Seq(AnyCell)
  BY <1>2, KvFields
<1>4. kv.cells = <<>>
  BY <1>2, <1>3, EmptySeq
<1>5. RowsOf(<<>>) = <<>>
  BY DEF RowsOf
<1>6. QED
  BY <1>1, <1>4, <1>5

LEMMA IngestStarts ==
    ASSUME SessionInv, PhaseInv, ChatIngest
    PROVE  IngestInv' /\ Appends'
<1>1. phase \in {"idle", "turn"} /\ phase # "unusable" /\ Occupied(FALSE)
  BY DEF ChatIngest
<1>2. PICK m \in Turns : Ingests(Rendered(m, phase = "idle"))
  BY DEF ChatIngest
<1> DEFINE todo == Rendered(m, phase = "idle")
           flat == FlatRows(m)
           old  == RowsOf(kv.cells)
<1>3. /\ phase = "idle" => todo = m
      /\ phase = "turn" => todo = Continued(m, Closed)
      /\ todo \in Seq(Segments) /\ todo # <<>> /\ flat \in Seq(AnyRow)
      /\ Closed \in Seq(AnyRow) /\ FlatRows(Continued(m, Closed)) = Closed \o flat
  BY <1>1, RenderedIs, TurnIs
<1>4. AtRest /\ call' = Appending(TRUE, todo) /\ kv' = kv /\ hole' = hole
  BY <1>2 DEF Ingests
<1>5. ~hole
  BY <1>1, <1>4 DEF PhaseInv, Known
<1>6. old \in Seq(AnyRow)
  BY TextTyped
<1>7. /\ turn'.prior = phase /\ turn'.replacing = FALSE /\ turn'.text = old
  BY <1>1, OccupiedIs DEF TextIn, Known
<1>8. phase = "idle" => old = <<>> /\ pos = 0
  BY <1>4, EmptyContext
<1> HIDE DEF todo, flat
<1>9. /\ IsAppend(call') /\ call'.op = "append" /\ call'.guarded /\ call'.todo = todo
      /\ call'.fed = 0 /\ call'.before = Before
  BY <1>3, <1>4, AppendingIs
<1>10. call'.before.pos = pos /\ call'.before.kv = kv
  BY <1>9 DEF Before
<1>11. Left(call') = FlatRows(todo)
  BY <1>9, LeftAtFirst
<1>12. RowsOf(kv'.cells) = old
  BY <1>4
<1> HIDE DEF old
<1>13. old \o Left(call') = Started' \o flat
  <2>1. CASE phase = "idle"
    <3>1. Left(call') = flat
      BY <1>3, <1>11, <2>1 DEF flat
    <3>2. Started' = <<>>
      BY <1>7, <2>1 DEF Started
    <3>3. QED
      BY <1>8, <2>1, <3>1, <3>2
  <2>2. CASE phase = "turn"
    <3>1. Left(call') = Closed \o flat
      BY <1>3, <1>11, <2>2
    <3>2. Started' = old \o Closed
      BY <1>7, <2>2 DEF Started, Closed
    <3>3. (old \o Closed) \o flat = old \o (Closed \o flat)
      BY <1>3, <1>6, Regroup
    <3>4. QED
      BY <3>1, <3>2, <3>3
  <2>3. QED
    BY <1>1, <2>1, <2>2
<1>14. \E n \in Turns : RowsOf(kv'.cells) \o Left(call') = Started' \o FlatRows(n)
  BY <1>12, <1>13 DEF flat
<1>15. Appends'
  BY <1>9 DEF Appends
<1>16. turn'.text = RowsOf(call'.before.kv.cells)
  BY <1>7, <1>10 DEF old
<1>17. QED
  BY <1>1, <1>4, <1>5, <1>7, <1>8, <1>9, <1>10, <1>14, <1>15, <1>16 DEF IngestInv

LEMMA ReplaceStarts ==
    ASSUME SessionInv, PhaseInv, ChatReplace
    PROVE  IngestInv' /\ Appends'
<1>1. phase # "unusable" /\ Occupied(TRUE) /\ Cleared
  BY DEF ChatReplace
<1>2. PICK m \in Turns : call' = [Appending(TRUE, m) EXCEPT !.before = Emptied]
  BY DEF ChatReplace
<1>3. m \in Messages /\ FlatRows(m) \in Seq(AnyRow)
  BY TurnIs
<1>4. /\ IsAppend(call') /\ call'.op = "append" /\ call'.guarded /\ call'.todo = m
      /\ call'.fed = 0 /\ call'.before = Emptied
  BY <1>2, <1>3, ReplacementIs
<1>5. call'.before.pos = 0
  BY <1>4 DEF Emptied
<1>6. Left(call') = FlatRows(m)
  BY <1>4, LeftAtFirst
<1>7. ~hole' /\ kv'.cells = <<>>
  BY <1>1 DEF Cleared, Pristine
<1>8. turn'.replacing
  BY <1>1, OccupiedIs
<1>9. Started' = <<>> /\ RowsOf(kv'.cells) = <<>>
  BY <1>7, <1>8 DEF Started, RowsOf
<1>10. \E n \in Turns : RowsOf(kv'.cells) \o Left(call') = Started' \o FlatRows(n)
  BY <1>6, <1>9
<1>11. Appends'
  BY <1>4 DEF Appends
<1>12. QED
  BY <1>4, <1>5, <1>7, <1>8, <1>10, <1>11 DEF IngestInv

LEMMA IngestGoesOn ==
    ASSUME IngestInv, turn # None, Appends, Goes, turn' = turn
    PROVE  IngestInv' /\ Appends'
<1>1. Appends'
  BY DEF Goes, Appends
<1>2. /\ ~hole' /\ call'.guarded /\ call'.before = call.before
      /\ call'.op = "append" =>
            /\ call.op = "append"
            /\ RowsOf(kv'.cells) \o Left(call') = RowsOf(kv.cells) \o Left(call)
  BY DEF Goes, IngestInv
<1>3. Started' = Started
  BY DEF Started
<1>4. call'.op = "append" =>
          \E m \in Turns : RowsOf(kv'.cells) \o Left(call') = Started' \o FlatRows(m)
  BY <1>2, <1>3 DEF IngestInv
<1>5. QED
  BY <1>1, <1>2, <1>4 DEF IngestInv

(* The calls after which nothing is in progress.                           *)
Settles ==
    \/ ChatReplaceFails \/ ChatReset \/ ChatResetFails \/ ChatGenerateNothing \/ Raw
    \/ ChatCheckpoint \/ ChatRestore \/ RawAppend \/ ReplyUnwinds

LEMMA Settled ==
    ASSUME PhaseInv, Settles
    PROVE  turn' = None
<1>1. CASE ReplyUnwinds
  BY <1>1 DEF ReplyUnwinds
<1>2. CASE RawAppend
  BY <1>2 DEF RawAppend, chatVars, PhaseInv
<1>3. CASE ChatReplaceFails \/ ChatReset \/ ChatResetFails \/ ChatGenerateNothing \/ Raw
  BY <1>3 DEF ChatReplaceFails, ChatReset, ChatResetFails, ChatGenerateNothing, Raw,
     ResetFails, Reset, GenerateNothing, PhaseInv
<1>4. CASE ChatCheckpoint \/ ChatRestore
  BY <1>4 DEF ChatCheckpoint, ChatRestore, Checkpoint, Restore, PhaseInv
<1>5. QED
  BY <1>1, <1>2, <1>3, <1>4 DEF Settles

Idles == UNCHANGED <<kv, hole, call, turn>>

LEMMA IdlesIs ==
    ASSUME UNCHANGED allVars \/ ((Cancel \/ ClearCancel) /\ UNCHANGED chatVars)
    PROVE  Idles
BY DEF Idles, allVars, vars, chatVars, Cancel, ClearCancel

LEMMA ChatIngesting ==
    ASSUME ChatInv, [ChatNext]_allVars
    PROVE  IngestInv'
<1>1. SessionInv /\ PhaseInv /\ IngestInv /\ ReplyInv
  BY DEF ChatInv
<1>2. CASE Idles
  <2>1. Started' = Started
    BY <1>2 DEF Idles, Started
  <2>2. QED
    BY <1>1, <1>2, <2>1 DEF Idles, IngestInv, Appends
<1>3. CASE ChatIngest
  BY <1>1, <1>3, IngestStarts
<1>4. CASE ChatReplace
  BY <1>1, <1>4, ReplaceStarts
<1>5. CASE Ingesting
  <2>1. /\ Appends /\ turn # None
        /\ (Goes /\ UNCHANGED chatVars) \/ IngestEnded
    BY <1>1, <1>5, IngestEndsIn
  <2>2. CASE Goes /\ UNCHANGED chatVars
    BY <1>1, <2>1, <2>2, IngestGoesOn DEF chatVars
  <2>3. CASE IngestEnded
    BY <2>3 DEF IngestEnded, IngestInv
  <2>4. QED
    BY <2>1, <2>2, <2>3
<1>6. CASE ChatGenerate
  <2>1. \E mode, budget :
           call' = [op |-> "generate", mode |-> mode, budget |-> budget, emitted |-> 0,
                    taken |-> logits, fresh |-> TRUE, at |-> pos]
    BY <1>6 DEF ChatGenerate, StartGenerate
  <2>2. ~Appends'
    BY <2>1 DEF Appends
  <2>3. QED
    BY <2>2 DEF IngestInv
<1>7. CASE Replying
  <2>1. \/ call'.op \in {"generate", "aborted"}
        \/ ReplyEnded
    BY <1>1, <1>7, ReplyEndsIn
  <2>2. ~Appends' \/ turn' = None
    BY <2>1 DEF Appends, ReplyEnded
  <2>3. QED
    BY <2>2 DEF IngestInv
<1>8. CASE Settles
  BY <1>1, <1>8, Settled DEF IngestInv
<1>9. QED
  BY <1>2, <1>3, <1>4, <1>5, <1>6, <1>7, <1>8, IdlesIs DEF ChatNext, Settles

----------------------------------------------------------------------------
(* A reply begins with nothing said and ends with what it said.            *)
LEMMA ReplyStarts ==
    ASSUME SessionInv, PhaseInv, ChatGenerate
    PROVE  ReplyInv'
<1>1. phase = "prompt" /\ phase # "unusable" /\ Occupied(FALSE) /\ StartGenerate
  BY DEF ChatGenerate
<1>2. AtRest /\ kv' = kv /\ hole' = hole
  BY <1>1 DEF StartGenerate
<1>3. PICK mode \in Modes, budget \in 1 .. MaxNew :
         call' = [op |-> "generate", mode |-> mode, budget |-> budget, emitted |-> 0,
                  taken |-> logits, fresh |-> TRUE, at |-> pos]
  BY <1>1 DEF StartGenerate
<1>4. logits = Context(kv)
  BY <1>1, <1>2 DEF PhaseInv, Known
<1>5. turn'.prior = "prompt" /\ turn'.text = RowsOf(kv.cells)
  BY <1>1, OccupiedIs DEF TextIn, Known
<1>6. /\ call'.op = "generate" /\ call'.budget = budget /\ call'.emitted = 0
      /\ call'.fresh /\ call'.taken = logits
  BY <1>3
<1>7. call'.budget <= MaxNew /\ call'.emitted <= call'.budget
  BY <1>6, SessionAssumption
<1>8. Context(kv') = Context(kv)
  BY <1>2
<1>9. Said(kv', turn'.text, call'.emitted)
  <2> DEFINE nothing == <<>>
  <2>1. nothing \in Seq(Tokens) /\ Len(nothing) = 0 /\ Len(nothing) <= MaxNew
    BY SessionAssumption
  <2>2. RowsOf(kv.cells) \o nothing = RowsOf(kv.cells)
    BY TextTyped
  <2> HIDE DEF nothing
  <2>3. nothing \in Answers
    BY <2>1, AnswersAre
  <2>4. RowsOf(kv'.cells) = turn'.text \o nothing
    BY <1>2, <1>5, <2>2
  <2>5. QED
    BY <1>6, <2>1, <2>3, <2>4 DEF Said, Answers
<1>10. QED
  BY <1>4, <1>5, <1>6, <1>7, <1>8, <1>9 DEF ReplyInv

LEMMA ReplyGoesOn ==
    ASSUME SessionInv, PhaseInv, ReplyInv, turn # None, Generating, turn' = turn
    PROVE  ReplyInv'
<1>1. turn.prior = "prompt" /\ call.op = "generate" /\ call.budget <= MaxNew
  BY ReplyOps, GeneratingOp DEF ReplyInv
<1>2. CASE call'.op # "generate"
  BY <1>1, <1>2 DEF ReplyInv
<1>3. CASE call'.op = "generate"
  <2>1. /\ call'.budget = call.budget
        /\ call'.emitted # 0 /\ call'.emitted <= call'.budget
    BY <1>3, ReplyCounts
  <2>2. ~hole' => Said(kv', turn'.text, call'.emitted)
    BY <1>3, SaysMore DEF Said, Answers
  <2>3. QED
    BY <1>1, <1>3, <2>1, <2>2 DEF ReplyInv
<1>4. QED
  BY <1>2, <1>3

LEMMA ChatReplying ==
    ASSUME ChatInv, [ChatNext]_allVars
    PROVE  ReplyInv'
<1>1. SessionInv /\ PhaseInv /\ IngestInv /\ ReplyInv
  BY DEF ChatInv
<1>2. CASE Idles
  <2>1. Context(kv') = Context(kv) /\ Said(kv', turn'.text, call'.emitted) = Said(kv, turn.text, call.emitted)
    BY <1>2 DEF Idles
  <2>2. QED
    BY <1>1, <1>2, <2>1 DEF Idles, ReplyInv, Appends
<1>3. CASE ChatIngest \/ ChatReplace
  BY <1>1, <1>3, IngestStarts, ReplaceStarts DEF ReplyInv
<1>4. CASE Ingesting
  <2>1. /\ Appends /\ turn # None
        /\ (Goes /\ UNCHANGED chatVars) \/ IngestEnded
    BY <1>1, <1>4, IngestEndsIn
  <2>2. Appends' \/ turn' = None
    BY <1>1, <2>1, IngestGoesOn DEF IngestEnded, chatVars
  <2>3. QED
    BY <2>2 DEF ReplyInv
<1>5. CASE ChatGenerate
  BY <1>1, <1>5, ReplyStarts
<1>6. CASE Replying
  <2>1. /\ turn # None /\ Generating
        /\ \/ UNCHANGED chatVars
           \/ ReplyEnded
    BY <1>1, <1>6, ReplyEndsIn
  <2>2. CASE UNCHANGED chatVars
    BY <1>1, <2>1, <2>2, ReplyGoesOn DEF chatVars
  <2>3. CASE ReplyEnded
    BY <2>3 DEF ReplyEnded, ReplyInv
  <2>4. QED
    BY <2>1, <2>2, <2>3
<1>7. CASE Settles
  BY <1>1, <1>7, Settled DEF ReplyInv
<1>8. QED
  BY <1>2, <1>3, <1>4, <1>5, <1>6, <1>7, IdlesIs DEF ChatNext, Settles

----------------------------------------------------------------------------
(* The session stays consistent under every call of Chat, the phase is the *)
(* conversation's, a stored checkpoint is as its phase says, and what is   *)
(* in the cache during a call is the text before it and a part of what it  *)
(* adds.                                                                   *)
LEMMA ChatStarts ==
    ASSUME ChatInit
    PROVE  ChatInv
<1>1. /\ Init /\ phase = "idle" /\ terminal = None /\ turn = None /\ kept = None
  BY DEF ChatInit
<1>2. SessionInv
  BY <1>1, InitInv
<1>3. /\ \E b \in Backends : kv = Pristine(b)
      /\ pos = 0 /\ usable /\ ~hole /\ call = Rest /\ stored = None
  BY <1>1 DEF Init
<1>4. ~kv.dropped
  BY <1>3 DEF Pristine
<1>5. PhaseInv
  BY <1>1, <1>3, <1>4, NothingAssumption DEF PhaseInv, Phases, Known, Ended, AtRest, Rest
<1>6. KeptInv /\ IngestInv /\ ReplyInv
  BY <1>1, <1>3 DEF KeptInv, IngestInv, ReplyInv
<1>7. QED
  BY <1>2, <1>5, <1>6 DEF ChatInv

THEOREM ChatInvariant == ChatSpec => []ChatInv
<1>1. ChatInit => ChatInv
  BY ChatStarts
<1>2. ChatInv /\ [ChatNext]_allVars => ChatInv'
  BY ChatSession, ChatPhase, ChatKept, ChatIngesting, ChatReplying DEF ChatInv
<1>3. QED
  BY <1>1, <1>2, PTL DEF ChatSpec

(* The counters stay in their ranges, the phase of a conversation is one   *)
(* of the six, a reply's end is owed just after a reply that ended itself, *)
(* and a call in progress holds the session (InferenceState, SessionPhase).*)
THEOREM ChatTypesOK == ChatSpec => []ChatTypeOK
<1>1. ChatInv => ChatTypeOK
  <2> SUFFICES ASSUME ChatInv PROVE ChatTypeOK
    OBVIOUS
  <2>1. SessionInv /\ PhaseInv
    BY DEF ChatInv
  <2>2. TypeOK
    BY <2>1, SessionTyped
  <2>3. QED
    BY <2>1, <2>2 DEF ChatTypeOK, PhaseInv, Ended
<1>2. QED
  BY <1>1, ChatInvariant, PTL

(* A conversation a caller may go on with stands on a usable session whose *)
(* cache is what its text computes, with nothing unproven in it; idle is   *)
(* empty, and a ready prompt has the logits of its last row: after any     *)
(* mixture of calls that completed, failed, were cancelled or undone.      *)
THEOREM ChatPhaseIsTrue == ChatSpec => []PhaseIsTrue
<1>1. ChatInv => PhaseIsTrue
  <2> SUFFICES ASSUME ChatInv, AtRest, phase \in Known
               PROVE  /\ usable /\ ~hole
                      /\ pos = Len(kv.cells) /\ Sound(kv)
                      /\ phase = "idle" => pos = 0
                      /\ phase = "prompt" => logits = Context(kv)
    BY DEF PhaseIsTrue
  <2>1. SessionInv /\ PhaseInv
    BY DEF ChatInv
  <2>2. /\ usable /\ ~hole /\ ~kv.dropped
        /\ phase = "idle" => pos = 0
        /\ phase = "prompt" => logits = Context(kv)
    BY <2>1 DEF PhaseInv
  <2>3. Faithful(kv, pos)
    BY <2>1, <2>2, Resting DEF RestsWell
  <2>4. pos = Len(kv.cells) /\ Sound(kv)
    BY <2>2, <2>3 DEF Faithful
  <2>5. QED
    BY <2>2, <2>4
<1>2. QED
  BY <1>1, ChatInvariant, PTL

----------------------------------------------------------------------------
(* The promise.  What a caller sees between calls and during one, ...      *)
LEMMA SeenAtRest ==
    ASSUME turn = None
    PROVE  Reported = phase /\ Visible = TextIn(phase)
BY DEF Reported, Visible

LEMMA SeenDuring ==
    ASSUME turn # None
    PROVE  Reported = turn.prior /\ Visible = turn.text
BY DEF Reported, Visible

LEMMA SeenAfter ==
    ASSUME turn' = None
    PROVE  /\ Reported' = phase'
           /\ phase' \in Known => Visible' = RowsOf(kv'.cells)
           /\ phase' \notin Known => Visible' = <<>>
BY DEF Reported, Visible, TextIn

LEMMA SeenBegun ==
    ASSUME turn' # None
    PROVE  Reported' = turn'.prior /\ Visible' = turn'.text
BY DEF Reported, Visible

LEMMA StoredOn ==
    ASSUME kept' = kept, stored' = stored
    PROVE  Stored' = Stored
BY DEF Stored

Same == Reported' = Reported /\ Visible' = Visible /\ Stored' = Stored
Promised == Promise!Next \/ Same

(* ... and which of the promised steps a step is.                          *)
LEMMA AsFail ==
    ASSUME Reported # "unusable", Visible' = <<>>, Reported' \in {"idle", "unusable"},
           Stored' = Stored
    PROVE  Promised
BY DEF Promised, Promise!Next, Promise!Fail

LEMMA AsReset ==
    ASSUME Visible' = <<>>, Reported' \in {"idle", "unusable"}, Stored' = Stored
    PROVE  Promised
BY DEF Promised, Promise!Next, Promise!Reset

LEMMA AsRaw ==
    ASSUME Reported # "unusable", Visible' = <<>>, Reported' = "raw", Stored' = Stored
    PROVE  Promised
BY DEF Promised, Promise!Next, Promise!Raw

LEMMA AsReply ==
    ASSUME Reported = "prompt", NEW r \in Answers, Visible' = Visible \o r,
           Reported' \in {"turn", "interrupted"}, Stored' = Stored
    PROVE  Promised
BY DEF Promised, Promise!Next, Promise!Reply, Answers

LEMMA AsIngest ==
    ASSUME Reported \in {"idle", "turn"}, NEW m \in Turns,
           Visible' = Visible \o (IF Reported = "turn" THEN Closed ELSE <<>>) \o FlatRows(m),
           Reported' = "prompt", Stored' = Stored
    PROVE  Promised
<1>1. FlatRows(m) \in {FlatRows(n) : n \in Turns}
  OBVIOUS
<1>2. Promise!Ingest
  BY <1>1, Zenon DEF Promise!Ingest, Closed
<1>3. QED
  BY <1>2 DEF Promised, Promise!Next

LEMMA AsReplace ==
    ASSUME Reported # "unusable", NEW m \in Turns, Visible' = FlatRows(m),
           Reported' = "prompt", Stored' = Stored
    PROVE  Promised
<1>1. FlatRows(m) \in {FlatRows(n) : n \in Turns}
  OBVIOUS
<1>2. Promise!Replace
  BY <1>1, Zenon DEF Promise!Replace
<1>3. QED
  BY <1>2 DEF Promised, Promise!Next

LEMMA BeginsUnseen ==
    ASSUME SessionInv, PhaseInv, ChatIngest \/ ChatGenerate \/ ChatReplace
    PROVE  Promised
<1>1. /\ phase # "unusable" /\ AtRest /\ stored' = stored
      /\ Occupied(FALSE) \/ Occupied(TRUE)
  BY DEF ChatIngest, Ingests, ChatGenerate, StartGenerate, ChatReplace
<1>2. turn = None
  BY <1>1, RestingTurn
<1>3. turn' # None /\ turn'.prior = phase /\ turn'.text = TextIn(phase) /\ kept' = kept
  BY <1>1, OccupiedIs
<1>4. QED
  BY <1>1, <1>2, <1>3, SeenAtRest, SeenBegun, StoredOn DEF Promised, Same

LEMMA SettlesSeen ==
    ASSUME SessionInv, PhaseInv, KeptInv, Settles
    PROVE  Promised
<1>1. turn' = None
  BY Settled
<1>2. /\ Reported' = phase'
      /\ phase' \in Known => Visible' = RowsOf(kv'.cells)
      /\ phase' \notin Known => Visible' = <<>>
  BY <1>1, SeenAfter
<1>3. RowsOf(<<>>) = <<>>
  BY DEF RowsOf
<1>4. CASE ReplyUnwinds
  <2>1. turn # None /\ phase' = phase /\ kept' = kept /\ stored' = stored
    BY <1>4 DEF ReplyUnwinds
  <2>2. phase' = "unusable" /\ turn.prior # "unusable"
    BY <2>1, InProgress
  <2>3. QED
    BY <1>2, <2>1, <2>2, SeenDuring, StoredOn, AsFail DEF Known
<1>5. CASE RawAppend
  <2>1. phase = "raw" /\ phase' = phase /\ kept' = kept /\ stored' = stored /\ turn = None
    BY <1>5, RawPhase DEF RawAppend, chatVars
  <2>2. QED
    BY <1>2, <2>1, SeenAtRest, StoredOn DEF Known, TextIn, Promised, Same
<1>6. CASE ~ReplyUnwinds /\ ~RawAppend
  <2>1. AtRest
    BY <1>6 DEF Settles, ChatReplaceFails, ChatReset, ChatResetFails, ChatGenerateNothing, Raw,
       ChatCheckpoint, ChatRestore, ResetFails, Reset, GenerateNothing, Checkpoint, Restore
  <2>2. Reported = phase /\ Visible = TextIn(phase) /\ turn = None
    BY <2>1, RestingTurn, SeenAtRest
  <2>3. CASE ChatReplaceFails \/ ChatResetFails
    <3>1. phase' = "unusable" /\ kept' = kept /\ stored' = stored
      BY <2>3 DEF ChatReplaceFails, ChatResetFails, ResetFails
    <3>2. QED
      BY <1>2, <3>1, StoredOn, AsReset DEF Known
  <2>4. CASE ChatReset
    <3>1. phase' = "idle" /\ kept' = kept /\ stored' = stored /\ kv'.cells = <<>>
      BY <2>4 DEF ChatReset, Reset, Cleared, Pristine
    <3>2. QED
      BY <1>2, <1>3, <3>1, StoredOn, AsReset DEF Known
  <2>5. CASE ChatGenerateNothing
    <3>1. /\ phase = "prompt" /\ phase' \in {phase, "raw"} /\ kv' = kv
          /\ kept' = kept /\ stored' = stored
      BY <2>5 DEF ChatGenerateNothing, GenerateNothing
    <3>2. CASE phase' = phase
      BY <1>2, <2>2, <3>1, <3>2, StoredOn DEF Known, TextIn, Promised, Same
    <3>3. CASE phase' = "raw"
      BY <1>2, <2>2, <3>1, <3>3, StoredOn, AsRaw DEF Known
    <3>4. QED
      BY <3>1, <3>2, <3>3
  <2>6. CASE Raw
    <3>1. phase # "unusable" /\ phase' = "raw" /\ kept' = kept /\ stored' = stored
      BY <2>6 DEF Raw, vars
    <3>2. QED
      BY <1>2, <2>2, <3>1, StoredOn, AsRaw DEF Known
  <2>7. CASE ChatCheckpoint
    <3>1. /\ usable /\ phase' = phase /\ kv' = kv
          /\ stored'.kv.cells = kv.cells
          /\ kept' = [phase |-> phase, terminal |-> terminal]
      BY <2>7 DEF ChatCheckpoint, Checkpoint, Snapshot
    <3>2. phase # "unusable" /\ kept' \in Ends
      BY <2>1, <3>1 DEF PhaseInv, Ended, Ends
    <3>3. kept' # None /\ kept'.phase = phase
      BY <3>1, <3>2, NothingAssumption
    <3>4. Stored' = [phase |-> phase, text |-> TextIn(phase)]
      BY <3>1, <3>3 DEF Stored, TextIn
    <3>5. Reported' = Reported /\ Visible' = Visible
      BY <1>2, <2>2, <3>1 DEF TextIn
    <3>6. Promise!Save
      BY <2>2, <3>2, <3>4, <3>5 DEF Promise!Save
    <3>7. QED
      BY <3>6 DEF Promised, Promise!Next
  <2>8. CASE ChatRestore
    <3>1. /\ stored # None /\ kv'.cells = stored.kv.cells
          /\ phase' = kept.phase /\ kept' = kept /\ stored' = stored
      BY <2>8 DEF ChatRestore, Restore, RestoredFrom
    <3>2. kept # None /\ kept.phase \in Phases
      BY <3>1 DEF KeptInv, Ends
    <3>3. RowsOf(stored.kv.cells) \in Seq(AnyRow)
      <4>1. RestoredFrom(stored.kv) \in AnyKv
        BY <3>1 DEF SessionInv, StoredInv, AnyKv
      <4>2. RestoredFrom(stored.kv).cells = stored.kv.cells
        BY DEF RestoredFrom
      <4>3. QED
        BY <4>1, <4>2, KvFields, CellRows
    <3> DEFINE text == IF kept.phase \in Known THEN RowsOf(stored.kv.cells) ELSE <<>>
    <3>4. text \in Seq(AnyRow)
      BY <3>3
    <3>5. Visible' = text
      BY <1>2, <3>1
    <3>6. Stored = [phase |-> kept.phase, text |-> text]
      BY <3>2 DEF Stored
    <3> HIDE DEF text
    <3>7. Stored \in Texts
      BY <3>2, <3>4, <3>6 DEF Texts
    <3>8. Stored # None /\ Stored.phase = kept.phase /\ Stored.text = text
      BY <3>6, <3>7, NothingAssumption
    <3>9. Stored' = Stored
      BY <3>1, StoredOn
    <3>10. Promise!Restore
      BY <1>2, <3>1, <3>5, <3>8, <3>9 DEF Promise!Restore
    <3>11. QED
      BY <3>10 DEF Promised, Promise!Next
  <2>9. QED
    BY <1>6, <2>3, <2>4, <2>5, <2>6, <2>7, <2>8 DEF Settles
<1>7. QED
  BY <1>4, <1>5, <1>6

LEMMA BeforeIsText ==
    ASSUME SessionInv, PhaseInv, IngestInv, Appends, turn # None, ~turn.replacing
    PROVE  /\ turn.prior \in {"idle", "turn"} /\ turn.text = RowsOf(call.before.kv.cells)
           /\ turn.text \in Seq(AnyRow)
           /\ turn.prior = "idle" => turn.text = <<>>
<1>1. /\ call.guarded /\ ~hole /\ turn.prior \in {"idle", "turn"}
      /\ turn.text = RowsOf(call.before.kv.cells)
      /\ turn.prior = "idle" => call.before.pos = 0
  BY DEF IngestInv
<1>2. turn.text \in Seq(AnyRow)
  BY InProgress DEF Locals
<1>3. CASE turn.prior = "idle"
  <2>1. IsBefore(call.before)
    BY <1>1, GuardIs DEF SessionInv
  <2>2. Len(call.before.kv.cells) = 0 /\ call.before.kv \in AnyKv
    BY <1>1, <1>3, <2>1 DEF IsBefore, Faithful, AnyKv
  <2>3. call.before.kv.cells \in Seq(AnyCell)
    BY <2>2, KvFields
  <2>4. call.before.kv.cells = <<>>
    BY <2>2, <2>3, EmptySeq
  <2>5. QED
    BY <1>1, <1>2, <2>4 DEF RowsOf
<1>4. QED
  BY <1>1, <1>2, <1>3

LEMMA CompletesSeen ==
    ASSUME SessionInv, PhaseInv, IngestInv, Appends, turn # None, Completes,
           phase' = "prompt", turn' = None, Stored' = Stored
    PROVE  Promised
<1>1. /\ Reported = turn.prior /\ Visible = turn.text
      /\ Reported' = "prompt" /\ Visible' = RowsOf(kv'.cells)
  BY SeenDuring, SeenAfter DEF Known
<1>2. call.op = "append" /\ RowsOf(kv'.cells) = RowsOf(kv.cells) \o Left(call)
  BY DEF Completes, IngestInv
<1>3. PICK m \in Turns : RowsOf(kv.cells) \o Left(call) = Started \o FlatRows(m)
  BY <1>2 DEF IngestInv
<1> DEFINE flat == FlatRows(m)
<1>4. Visible' = Started \o flat
  BY <1>1, <1>2, <1>3
<1>5. flat \in Seq(AnyRow) /\ Closed \in Seq(AnyRow)
  BY TurnIs
<1> HIDE DEF flat
<1>6. turn.prior # "unusable"
  BY InProgress
<1>7. <<>> \o flat = flat
  BY <1>5
<1>8. CASE turn.replacing
  <2>1. Visible' = flat
    BY <1>4, <1>7, <1>8 DEF Started
  <2>2. QED
    BY <1>1, <1>6, <2>1, AsReplace DEF flat
<1>9. CASE ~turn.replacing
  <2>1. /\ turn.prior \in {"idle", "turn"} /\ turn.text \in Seq(AnyRow)
        /\ turn.prior = "idle" => turn.text = <<>>
    BY <1>9, BeforeIsText
  <2>2. CASE turn.prior = "idle"
    <3>1. Visible' = flat
      BY <1>4, <1>7, <2>2 DEF Started
    <3>2. Visible \o <<>> \o flat = flat
      <4>1. <<>> \o <<>> = <<>>
        OBVIOUS
      <4>2. QED
        BY <1>1, <1>7, <2>1, <2>2, <4>1
    <3>3. Visible' = Visible \o (IF Reported = "turn" THEN Closed ELSE <<>>) \o flat
      BY <1>1, <2>2, <3>1, <3>2
    <3>4. QED
      BY <1>1, <2>1, <3>3, AsIngest DEF flat
  <2>3. CASE turn.prior = "turn"
    <3>1. Visible' = turn.text \o Closed \o flat
      BY <1>4, <1>9, <2>3 DEF Started, Closed
    <3>2. Visible' = Visible \o (IF Reported = "turn" THEN Closed ELSE <<>>) \o flat
      BY <1>1, <2>3, <3>1
    <3>3. QED
      BY <1>1, <2>1, <3>2, AsIngest DEF flat
  <2>4. QED
    BY <2>1, <2>2, <2>3
<1>10. QED
  BY <1>8, <1>9

LEMMA IngestsSeen ==
    ASSUME SessionInv, PhaseInv, IngestInv, Ingesting
    PROVE  Promised
<1>1. /\ Appends /\ ~hole /\ turn # None /\ stored' = stored
      /\ (Goes /\ UNCHANGED chatVars) \/ IngestEnded
  BY IngestEndsIn
<1>2. /\ Reported = turn.prior /\ Visible = turn.text /\ turn.prior # "unusable"
      /\ turn.prior \in Phases
  BY <1>1, SeenDuring, InProgress
<1>3. CASE UNCHANGED chatVars
  <2>1. turn' = turn /\ kept' = kept
    BY <1>3 DEF chatVars
  <2>2. QED
    BY <1>1, <1>2, <2>1, SeenBegun, StoredOn DEF Promised, Same
<1>4. CASE IngestEnded
  <2>1. turn' = None /\ Stored' = Stored
    BY <1>1, <1>4, StoredOn DEF IngestEnded
  <2>2. /\ Reported' = phase'
        /\ phase' \in Known => Visible' = RowsOf(kv'.cells)
        /\ phase' \notin Known => Visible' = <<>>
    BY <2>1, SeenAfter
  <2>3. CASE Completes /\ phase' = "prompt"
    BY <1>1, <2>1, <2>3, CompletesSeen
  <2>4. CASE Undoes /\ ~turn.replacing /\ phase' = turn.prior
    <3>1. turn.prior \in {"idle", "turn"} /\ turn.text = RowsOf(call.before.kv.cells)
      BY <1>1, <2>4, BeforeIsText
    <3>2. kv'.cells = call.before.kv.cells
      BY <1>1, <2>4 DEF Undoes
    <3>3. QED
      BY <1>2, <2>1, <2>2, <2>4, <3>1, <3>2 DEF Known, Promised, Same
  <2>5. CASE Emptying
    <3>1. phase' = "idle" /\ RowsOf(kv'.cells) = <<>>
      BY <2>5 DEF Emptying, RowsOf
    <3>2. QED
      BY <1>2, <2>1, <2>2, <3>1, AsFail DEF Known
  <2>6. CASE phase' = "unusable"
    BY <1>2, <2>1, <2>2, <2>6, AsFail DEF Known
  <2>7. QED
    BY <1>4, <2>3, <2>4, <2>5, <2>6 DEF IngestEnded
<1>5. QED
  BY <1>1, <1>3, <1>4

LEMMA RepliesSeen ==
    ASSUME SessionInv, PhaseInv, ReplyInv, Replying
    PROVE  Promised
<1>1. /\ turn # None /\ Generating /\ ~Appends /\ call.op = "generate"
      /\ \/ UNCHANGED <<usable, stored, chatVars>>
         \/ ReplyEnded
  BY ReplyEndsIn
<1>2. Reported = "prompt" /\ Visible = turn.text /\ turn.text \in Seq(AnyRow)
  BY <1>1, SeenDuring, InProgress DEF ReplyInv, Locals
<1>3. CASE UNCHANGED <<usable, stored, chatVars>>
  <2>1. turn' = turn /\ kept' = kept /\ stored' = stored
    BY <1>3 DEF chatVars
  <2>2. QED
    BY <1>1, <1>2, <2>1, SeenBegun, SeenDuring, StoredOn DEF Promised, Same
<1>4. CASE ReplyEnded
  <2>1. turn' = None /\ Stored' = Stored
    BY <1>4, StoredOn DEF ReplyEnded
  <2>2. /\ Reported' = phase'
        /\ phase' \in Known => Visible' = RowsOf(kv'.cells)
        /\ phase' \notin Known => Visible' = <<>>
    BY <2>1, SeenAfter
  <2>3. CASE phase' = "unusable"
    BY <1>2, <2>1, <2>2, <2>3, AsFail DEF Known
  <2>4. CASE phase' = "prompt" /\ ~hole' /\ kv' = kv /\ call.emitted = 0
    <3>1. Said(kv, turn.text, 0)
      BY <1>1, <2>4, HoleStays DEF ReplyInv
    <3>2. PICK s \in Answers : RowsOf(kv.cells) = turn.text \o s /\ Len(s) = 0
      BY <3>1 DEF Said, Answers
    <3>3. s \in Seq(Tokens)
      BY AnswersAre
    <3>4. s = <<>>
      BY <3>2, <3>3, EmptySeq
    <3>5. turn.text \o <<>> = turn.text
      BY <1>2
    <3>6. RowsOf(kv'.cells) = turn.text
      BY <2>4, <3>2, <3>4, <3>5
    <3>7. QED
      BY <1>2, <2>1, <2>2, <2>4, <3>6 DEF Known, Promised, Same
  <2>5. CASE /\ phase' \in {"turn", "interrupted"}
             /\ \E s \in Answers : RowsOf(kv'.cells) = turn.text \o s
    <3>1. PICK s \in Answers : RowsOf(kv'.cells) = turn.text \o s
      BY <2>5
    <3>2. Visible' = Visible \o s
      BY <1>2, <2>2, <2>5, <3>1 DEF Known
    <3>3. QED
      BY <1>2, <2>1, <2>2, <2>5, <3>2, AsReply
  <2>6. QED
    BY <1>4, <2>3, <2>4, <2>5 DEF ReplyEnded
<1>5. QED
  BY <1>1, <1>3, <1>4

LEMMA StepsPromised ==
    ASSUME ChatInv, [ChatNext]_allVars
    PROVE  Promised
<1>1. SessionInv /\ PhaseInv /\ KeptInv /\ IngestInv /\ ReplyInv
  BY DEF ChatInv
<1>2. CASE UNCHANGED allVars \/ ((Cancel \/ ClearCancel) /\ UNCHANGED chatVars)
  <2>1. UNCHANGED <<kv, stored, phase, turn, kept>>
    BY <1>2 DEF allVars, vars, chatVars, Cancel, ClearCancel
  <2>2. Reported' = Reported /\ Visible' = Visible
    BY <2>1 DEF Reported, Visible, TextIn
  <2>3. QED
    BY <2>1, <2>2, StoredOn DEF Promised, Same
<1>3. CASE ChatIngest \/ ChatGenerate \/ ChatReplace
  BY <1>1, <1>3, BeginsUnseen
<1>4. CASE Settles
  BY <1>1, <1>4, SettlesSeen
<1>5. CASE Ingesting
  BY <1>1, <1>5, IngestsSeen
<1>6. CASE Replying
  BY <1>1, <1>6, RepliesSeen
<1>7. QED
  BY <1>2, <1>3, <1>4, <1>5, <1>6 DEF ChatNext, Settles

(* To its caller each call of Chat happens at once (chat.rs): the text     *)
(* grows by a whole message with the ends it needs or by a whole reply, or *)
(* a call that is refused, cancelled or fails leaves it, empties it or     *)
(* says that nothing is known; a restored checkpoint brings back its text. *)
THEOREM ChatImplementsTranscript == ChatSpec => ImplementsTranscript
<1>1. ChatInit => Promise!Init
  <2> SUFFICES ASSUME ChatInit PROVE Promise!Init
    OBVIOUS
  <2>1. phase = "idle" /\ turn = None /\ kept = None /\ \E b \in Backends : kv = Pristine(b)
    BY DEF ChatInit, Init
  <2>2. Reported = "idle" /\ Visible = <<>> /\ Stored = None
    BY <2>1, SeenAtRest DEF TextIn, Known, Pristine, RowsOf, Stored
  <2>3. QED
    BY <2>2 DEF Promise!Init
<1>2. ChatInv /\ [ChatNext]_allVars => [Promise!Next]_(Promise!vars)
  BY StepsPromised DEF Promised, Same, Promise!vars
<1>3. QED
  BY <1>1, <1>2, ChatInvariant, PTL DEF ChatSpec, ImplementsTranscript, Promise!Spec

----------------------------------------------------------------------------
(* What the promise makes of turns.  A text that alternates does so after  *)
(* another message, and after a reply.                                     *)
LEMMA RowsJoin ==
    ASSUME NEW x \in Seq(AnyRow), NEW y \in Seq(AnyRow)
    PROVE  /\ x \o y \in Seq(AnyRow) /\ Len(x) \in Nat /\ Len(y) \in Nat
           /\ Len(x \o y) = Len(x) + Len(y)
           /\ \A i \in 1 .. Len(x) : (x \o y)[i] = x[i]
           /\ \A i \in 1 .. Len(y) : (x \o y)[Len(x) + i] = y[i]
<1> DEFINE S == AnyRow
<1>1. x \in Seq(S) /\ y \in Seq(S)
  OBVIOUS
<1> HIDE DEF S
<1>2. /\ x \o y \in Seq(S) /\ Len(x) \in Nat /\ Len(y) \in Nat
      /\ Len(x \o y) = Len(x) + Len(y)
      /\ \A i \in 1 .. Len(x) : (x \o y)[i] = x[i]
      /\ \A i \in 1 .. Len(y) : (x \o y)[Len(x) + i] = y[i]
  BY <1>1, Joins, SMTT(30)
<1>3. QED
  BY <1>2 DEF S

LEMMA MessageRows ==
    ASSUME NEW m \in Turns
    PROVE  /\ FlatRows(m) \in Seq(AnyRow) /\ Len(FlatRows(m)) \in Nat \ {0}
           /\ FlatRows(m)[1] = m[1].rows[1] /\ FlatRows(m)[1] \in Opening
<1>1. m \in Seq(Segments) /\ m # <<>>
  BY TurnIs
<1>2. /\ FlatRows(m) \in Seq(AnyRow) /\ FlatRows(Tail(m)) \in Seq(AnyRow)
      /\ FlatRows(m) = m[1].rows \o FlatRows(Tail(m))
  <2>1. Head(m) = m[1]
    BY <1>1, HeadTailProperties
  <2>2. QED
    BY <1>1, <2>1, FlatHead
<1>3. 1 \in DOMAIN m /\ m[1] \in Segments
  BY <1>1, LenProperties, EmptySeq, ElementOfSeq
<1>4. m[1].rows \in Seq(AnyRow) /\ Len(m[1].rows) \in Nat \ {0}
  BY <1>3, SegmentRows, LenProperties, EmptySeq
<1>5. Len(FlatRows(m)) \in Nat \ {0} /\ FlatRows(m)[1] = m[1].rows[1]
  <2> DEFINE r == m[1].rows
             q == FlatRows(Tail(m))
  <2>1. r \in Seq(AnyRow) /\ q \in Seq(AnyRow) /\ Len(r) \in Nat \ {0}
    BY <1>2, <1>4
  <2> HIDE DEF r, q
  <2>2. Len(r \o q) = Len(r) + Len(q) /\ Len(q) \in Nat /\ (r \o q)[1] = r[1]
    BY <2>1, ConcatProperties, LenProperties
  <2>3. QED
    BY <1>2, <2>1, <2>2 DEF r, q
<1>6. QED
  BY <1>2, <1>5 DEF Opening

LEMMA MessageOpens ==
    ASSUME NEW m \in Turns
    PROVE  FlatRows(m) # <<>> /\ Alternates(FlatRows(m))
<1> DEFINE r == FlatRows(m)
<1>1. r \in Seq(AnyRow) /\ Len(r) \in Nat \ {0} /\ DOMAIN r = 1 .. Len(r) /\ r[1] \in Opening
  BY MessageRows, LenProperties
<1>2. \A i \in DOMAIN r : r[i] \notin {Eos, Newline} /\ (r[i] \in Opening => i = 1)
  BY MarkerAssumption
<1> HIDE DEF r
<1>3. r # <<>> /\ Alternates(r)
  BY <1>1, <1>2, EmptySeq DEF Alternates
<1>4. QED
  BY <1>3 DEF r

LEMMA MarkersApart == Eos \notin Opening /\ Newline \notin Opening
<1>1. ASSUME NEW x \in Opening PROVE x \notin {Eos, Newline}
  <2>1. PICK m \in Turns : x = m[1].rows[1]
    BY <1>1 DEF Opening
  <2>2. 1 \in DOMAIN FlatRows(m) /\ FlatRows(m)[1] = x
    BY <2>1, MessageRows, LenProperties
  <2>3. QED
    BY <2>2, MarkerAssumption
<1>2. QED
  BY <1>1

LEMMA MessageFollows ==
    ASSUME NEW t \in Seq(AnyRow), t # <<>>, Alternates(t), NEW m \in Turns
    PROVE  /\ t \o Closed \o FlatRows(m) \in Seq(AnyRow)
           /\ t \o Closed \o FlatRows(m) # <<>>
           /\ Alternates(t \o Closed \o FlatRows(m))
<1> DEFINE r == FlatRows(m)
           s == t \o Closed \o r
           n == Len(t)
<1>1. r \in Seq(AnyRow) /\ Len(r) \in Nat \ {0} /\ r[1] \in Opening
  BY MessageRows
<1>2. \A i \in 1 .. Len(r) : r[i] \notin {Eos, Newline} /\ (r[i] \in Opening => i = 1)
  BY <1>1, MarkerAssumption, LenProperties
<1>3. Eos \notin Opening /\ Newline \notin Opening /\ Eos # Newline
  BY MarkersApart, MarkerAssumption
<1>4. /\ s \in Seq(AnyRow) /\ DOMAIN s = 1 .. n + 2 + Len(r) /\ Len(s) = n + 2 + Len(r)
      /\ n \in Nat \ {0} /\ DOMAIN t = 1 .. n
      /\ \A i \in 1 .. n : s[i] = t[i]
      /\ s[n + 1] = Eos /\ s[n + 2] = Newline
      /\ \A i \in n + 3 .. n + 2 + Len(r) : s[i] = r[i - (n + 2)]
  <2> DEFINE q == t \o Closed
  <2>1. /\ Closed \in Seq(AnyRow) /\ Len(Closed) = 2
        /\ Closed[1] = Eos /\ Closed[2] = Newline
    BY TurnIs DEF Closed
  <2>2. n \in Nat \ {0} /\ DOMAIN t = 1 .. n
    BY LenProperties, EmptySeq
  <2> HIDE DEF r
  <2>3. /\ q \in Seq(AnyRow) /\ Len(q) = n + 2
        /\ \A i \in 1 .. n : q[i] = t[i]
        /\ q[n + 1] = Eos /\ q[n + 2] = Newline
    <3> DEFINE e == Closed
    <3>1. e \in Seq(AnyRow) /\ Len(e) = 2 /\ e[1] = Eos /\ e[2] = Newline
      BY <2>1
    <3> HIDE DEF e
    <3>2. /\ t \o e \in Seq(AnyRow) /\ Len(t \o e) = Len(t) + Len(e)
          /\ \A i \in 1 .. Len(t) : (t \o e)[i] = t[i]
          /\ \A i \in 1 .. Len(e) : (t \o e)[Len(t) + i] = e[i]
      BY <3>1, RowsJoin
    <3>3. (t \o e)[n + 1] = e[1] /\ (t \o e)[n + 2] = e[2]
      <4>1. 1 \in 1 .. Len(e) /\ 2 \in 1 .. Len(e)
        BY <3>1
      <4>2. QED
        BY <3>2, <4>1
    <3>4. QED
      BY <3>1, <3>2, <3>3 DEF e
  <2> HIDE DEF q
  <2>4. /\ q \o r \in Seq(AnyRow) /\ Len(q \o r) = Len(q) + Len(r)
        /\ \A i \in 1 .. Len(q) : (q \o r)[i] = q[i]
        /\ \A i \in 1 .. Len(r) : (q \o r)[Len(q) + i] = r[i]
    BY <1>1, <2>3, RowsJoin
  <2>5. s = q \o r
    BY DEF q
  <2> HIDE DEF s
  <2>6. /\ s \in Seq(AnyRow) /\ Len(s) = n + 2 + Len(r) /\ DOMAIN s = 1 .. n + 2 + Len(r)
        /\ \A i \in 1 .. n + 2 : s[i] = q[i]
    BY <1>1, <2>2, <2>3, <2>4, <2>5, LenProperties
  <2>7. ASSUME NEW i \in n + 3 .. n + 2 + Len(r) PROVE s[i] = r[i - (n + 2)]
    <3> DEFINE j == i - (n + 2)
    <3>1. j \in 1 .. Len(r) /\ i = Len(q) + j
      BY <1>1, <2>2, <2>3
    <3> HIDE DEF j
    <3>2. s[i] = r[j]
      BY <3>1, <2>4, <2>5
    <3>3. QED
      BY <3>2 DEF j
  <2>8. QED
    BY <2>2, <2>3, <2>6, <2>7
<1> HIDE DEF s, r
<1>5. t[1] \in Opening
  BY <1>4 DEF Alternates
<1>6. ASSUME NEW i \in 1 .. n
      PROVE  /\ s[i] = t[i]
             /\ s[i] \in Opening => i = 1 \/ (i > 2 /\ s[i - 2] = Eos)
             /\ s[i] = Eos => i + 2 \in 1 .. n /\ s[i + 2] \in Opening /\ s[i + 1] = Newline
             /\ s[i] = Newline => i > 1 /\ s[i - 1] = Eos
  <2>1. s[i] = t[i]
    BY <1>4, <1>6
  <2>2. t[i] \in Opening => i = 1 \/ (i > 2 /\ t[i - 2] = Eos)
    BY <1>4, <1>6 DEF Alternates
  <2>3. t[i] = Eos => i + 2 \in 1 .. n /\ t[i + 2] \in Opening /\ t[i + 1] = Newline
    BY <1>4, <1>6 DEF Alternates
  <2>4. t[i] = Newline => i > 1 /\ t[i - 1] = Eos
    BY <1>4, <1>6 DEF Alternates
  <2>5. i > 2 => i - 2 \in 1 .. n
    BY <1>4, <1>6
  <2>6. i > 1 => i - 1 \in 1 .. n
    BY <1>4, <1>6
  <2>7. i + 2 \in 1 .. n => i + 1 \in 1 .. n
    BY <1>4, <1>6
  <2>8. QED
    BY <1>4, <2>1, <2>2, <2>3, <2>4, <2>5, <2>6, <2>7
<1>7. ASSUME NEW i \in n + 3 .. n + 2 + Len(r)
      PROVE  /\ s[i] \notin {Eos, Newline}
             /\ s[i] \in Opening => i > 2 /\ s[i - 2] = Eos
  <2>1. s[i] = r[i - (n + 2)] /\ i - (n + 2) \in 1 .. Len(r)
    BY <1>1, <1>4, <1>7
  <2>2. s[i] \notin {Eos, Newline} /\ (s[i] \in Opening => i - (n + 2) = 1)
    BY <1>2, <2>1
  <2>3. i - (n + 2) = 1 => i - 2 = n + 1 /\ i > 2
    BY <1>4, <1>7
  <2>4. QED
    BY <1>4, <2>2, <2>3
<1>8. n + 3 \in DOMAIN s /\ s[n + 3] \in Opening
  <2>1. n + 3 \in n + 3 .. n + 2 + Len(r) /\ n + 3 - (n + 2) = 1 /\ n + 3 \in DOMAIN s
    BY <1>1, <1>4
  <2>2. QED
    BY <1>1, <1>4, <2>1
<1>9. \A i \in DOMAIN s :
        i \in 1 .. n \/ i = n + 1 \/ i = n + 2 \/ i \in n + 3 .. n + 2 + Len(r)
  <2>1. n \in Nat \ {0} /\ Len(r) \in Nat \ {0} /\ DOMAIN s = 1 .. n + 2 + Len(r)
    BY <1>1, <1>4
  <2>2. QED
    BY <2>1
<1>10. ASSUME NEW i \in DOMAIN s
       PROVE  /\ s[i] \in Opening => i = 1 \/ (i > 2 /\ s[i - 2] = Eos)
              /\ s[i] = Eos =>
                    i + 2 \in DOMAIN s /\ s[i + 2] \in Opening /\ s[i + 1] = Newline
              /\ s[i] = Newline => i > 1 /\ s[i - 1] = Eos
  <2>1. CASE i \in 1 .. n
    <3>1. i + 2 \in 1 .. n => i + 2 \in DOMAIN s
      BY <1>1, <1>4
    <3>2. QED
      BY <2>1, <3>1, <1>6
  <2>2. CASE i = n + 1
    <3>1. i + 2 = n + 3 /\ i + 1 = n + 2
      BY <1>4, <2>2
    <3>2. QED
      BY <2>2, <3>1, <1>3, <1>4, <1>8
  <2>3. CASE i = n + 2
    <3>1. i - 1 = n + 1 /\ i > 1
      BY <1>4, <2>3
    <3>2. QED
      BY <2>3, <3>1, <1>3, <1>4
  <2>4. CASE i \in n + 3 .. n + 2 + Len(r)
    BY <2>4, <1>7
  <2>5. QED
    BY <1>9, <2>1, <2>2, <2>3, <2>4
<1>11. 1 \in DOMAIN s /\ s[1] \in Opening /\ s # <<>>
  <2>1. 1 \in 1 .. n /\ 1 \in DOMAIN s
    BY <1>1, <1>4
  <2>2. QED
    BY <1>4, <1>5, <2>1
<1>12. Alternates(s)
  BY <1>10, <1>11 DEF Alternates
<1>13. s \in Seq(AnyRow) /\ s # <<>> /\ Alternates(s)
  BY <1>4, <1>11, <1>12
<1>14. QED
  BY <1>13 DEF s, r

LEMMA ReplyFollows ==
    ASSUME NEW t \in Seq(AnyRow), t # <<>>, Alternates(t),
           NEW k \in Nat, NEW r \in [1 .. k -> Tokens]
    PROVE  t \o r \in Seq(AnyRow) /\ t \o r # <<>> /\ Alternates(t \o r)
<1> DEFINE s == t \o r
           n == Len(t)
<1>1. n \in Nat \ {0} /\ DOMAIN t = 1 .. n
  BY LenProperties, EmptySeq
<1>2. r \in Seq(AnyRow) /\ Len(r) = k /\ \A i \in 1 .. k : r[i] \in Tokens
  BY DEF AnyRow
<1>3. /\ s \in Seq(AnyRow) /\ Len(s) = n + k /\ DOMAIN s = 1 .. n + k
      /\ \A i \in 1 .. n : s[i] = t[i]
      /\ \A i \in 1 .. k : s[n + i] = r[i]
  <2>1. /\ s \in Seq(AnyRow) /\ Len(s) = n + Len(r)
        /\ \A i \in 1 .. n : s[i] = t[i]
        /\ \A i \in 1 .. Len(r) : s[n + i] = r[i]
    BY <1>2, RowsJoin
  <2> HIDE DEF s, n
  <2>2. DOMAIN s = 1 .. Len(s)
    BY <2>1, LenProperties
  <2>3. QED
    BY <1>2, <2>1, <2>2
<1> HIDE DEF s
<1>4. ASSUME NEW i \in 1 .. n + k, i \notin 1 .. n PROVE s[i] \in Tokens
  <2>1. i - n \in 1 .. k /\ n + (i - n) = i
    BY <1>1, <1>4
  <2> DEFINE j == i - n
  <2>2. j \in 1 .. k /\ n + j = i
    BY <2>1
  <2> HIDE DEF j
  <2>3. QED
    BY <2>2, <1>2, <1>3
<1>5. Eos \notin Tokens /\ Newline \notin Tokens /\ Opening \cap Tokens = {}
  BY ChatAssumption, MarkerAssumption
<1>6. ASSUME NEW i \in DOMAIN s
      PROVE  /\ s[i] \in Opening => i = 1 \/ (i > 2 /\ s[i - 2] = Eos)
             /\ s[i] = Eos =>
                   i + 2 \in DOMAIN s /\ s[i + 2] \in Opening /\ s[i + 1] = Newline
             /\ s[i] = Newline => i > 1 /\ s[i - 1] = Eos
  <2>1. CASE i \notin 1 .. n
    BY <2>1, <1>3, <1>4, <1>5
  <2>2. CASE i \in 1 .. n
    <3>1. /\ t[i] \in Opening => i = 1 \/ (i > 2 /\ t[i - 2] = Eos)
          /\ t[i] = Eos => i + 2 \in 1 .. n /\ t[i + 2] \in Opening /\ t[i + 1] = Newline
          /\ t[i] = Newline => i > 1 /\ t[i - 1] = Eos
      BY <1>1, <2>2 DEF Alternates
    <3>2. /\ i > 2 => i - 2 \in 1 .. n
          /\ i > 1 => i - 1 \in 1 .. n
          /\ i + 2 \in 1 .. n => i + 1 \in 1 .. n /\ i + 2 \in 1 .. n + k
      BY <1>1, <2>2
    <3>3. QED
      BY <1>3, <2>2, <3>1, <3>2
  <2>3. QED
    BY <2>1, <2>2
<1>7. 1 \in DOMAIN s /\ s[1] \in Opening /\ s # <<>>
  <2>1. t[1] \in Opening /\ 1 \in 1 .. n /\ 1 \in 1 .. n + k
    BY <1>1 DEF Alternates
  <2>2. QED
    BY <1>3, <2>1
<1>8. Alternates(s)
  BY <1>6, <1>7 DEF Alternates
<1>9. QED
  BY <1>3, <1>7, <1>8 DEF s

(* What the caller sees, and what is stored: an empty text when idle, and  *)
(* some text where a turn is open.                                         *)
Told(p, text) ==
    /\ text \in Seq(AnyRow) /\ Alternates(text)
    /\ p = "idle" => text = <<>>
    /\ p \in {"prompt", "turn"} => text # <<>>
AllTold == Told(Reported, Visible) /\ (Stored # None => Told(Stored.phase, Stored.text))

LEMMA NothingTold ==
    ASSUME NEW p, p \notin {"prompt", "turn"}
    PROVE  Told(p, <<>>)
BY DEF Told, Alternates

LEMMA ToldOn ==
    ASSUME AllTold, Promised
    PROVE  AllTold'
<1> DEFINE Now == Told(Reported', Visible')
           Then == Stored' # None => Told(Stored'.phase, Stored'.text)
<1> SUFFICES Now /\ Then
  BY DEF AllTold, Told
<1>1. /\ Told(Reported, Visible)
      /\ Stored # None => Told(Stored.phase, Stored.text)
  BY DEF AllTold
<1>2. ASSUME Stored' = Stored PROVE Then
  BY <1>1, <1>2
<1>3. CASE Same
  BY <1>1, <1>3 DEF Same
<1>4. CASE Promise!Ingest
  <2>1. PICK m \in Turns :
          Visible' = Visible \o (IF Reported = "turn" THEN Closed ELSE <<>>) \o FlatRows(m)
    BY <1>4 DEF Promise!Ingest, Closed
  <2>2. Reported \in {"idle", "turn"} /\ Reported' = "prompt" /\ Stored' = Stored
    BY <1>4 DEF Promise!Ingest
  <2>3. CASE Reported = "idle"
    <3>1. Visible' = (<<>> \o <<>>) \o FlatRows(m)
      BY <1>1, <2>1, <2>3 DEF Told
    <3>2. Visible' = FlatRows(m)
      BY <3>1, MessageRows, ConcatEmptySeq
    <3>3. QED
      BY <1>2, <2>2, <3>2, MessageRows, MessageOpens DEF Told
  <2>4. CASE Reported = "turn"
    <3>1. Visible \in Seq(AnyRow) /\ Visible # <<>> /\ Alternates(Visible)
      BY <1>1, <2>4 DEF Told
    <3>2. Visible' = Visible \o Closed \o FlatRows(m)
      BY <2>1, <2>4
    <3>3. QED
      BY <1>2, <2>2, <3>1, <3>2, MessageFollows DEF Told
  <2>5. QED
    BY <2>2, <2>3, <2>4
<1>5. CASE Promise!Replace
  <2>1. PICK m \in Turns : Visible' = FlatRows(m)
    BY <1>5 DEF Promise!Replace
  <2>2. Reported' = "prompt" /\ Stored' = Stored
    BY <1>5 DEF Promise!Replace
  <2>3. QED
    BY <1>2, <2>1, <2>2, MessageRows, MessageOpens DEF Told
<1>6. CASE Promise!Reply
  <2>1. PICK k \in 0 .. MaxNew : \E r \in [1 .. k -> Tokens] : Visible' = Visible \o r
    BY <1>6 DEF Promise!Reply
  <2>2. /\ Reported = "prompt" /\ Reported' \in {"turn", "interrupted"} /\ Stored' = Stored
        /\ k \in Nat
    BY <1>6, SessionAssumption DEF Promise!Reply
  <2>3. Visible \in Seq(AnyRow) /\ Visible # <<>> /\ Alternates(Visible)
    BY <1>1, <2>2 DEF Told
  <2>4. Visible' \in Seq(AnyRow) /\ Visible' # <<>> /\ Alternates(Visible')
    <3>1. PICK r \in [1 .. k -> Tokens] : Visible' = Visible \o r
      BY <2>1
    <3>2. QED
      BY <3>1, <2>2, <2>3, ReplyFollows
  <2>5. QED
    BY <1>2, <2>2, <2>4 DEF Told
<1>7. CASE Promise!Fail \/ Promise!Reset \/ Promise!Raw
  <2>1. Visible' = <<>> /\ Reported' \in {"idle", "unusable", "raw"} /\ Stored' = Stored
    BY <1>7 DEF Promise!Fail, Promise!Reset, Promise!Raw
  <2>2. QED
    BY <1>2, <2>1, NothingTold
<1>8. CASE Promise!Save
  <2>1. /\ Stored' = [phase |-> Reported, text |-> Visible]
        /\ Reported' = Reported /\ Visible' = Visible
    BY <1>8 DEF Promise!Save
  <2>2. QED
    BY <1>1, <2>1
<1>9. CASE Promise!Restore
  <2>1. /\ Stored # None /\ Reported' = Stored.phase /\ Visible' = Stored.text
        /\ Stored' = Stored
    BY <1>9 DEF Promise!Restore
  <2>2. QED
    BY <1>1, <1>2, <2>1
<1>10. QED
  BY <1>3, <1>4, <1>5, <1>6, <1>7, <1>8, <1>9 DEF Promised, Promise!Next

(* What Chat writes between turns (terminal_committed, newline_tokens of   *)
(* prepare): every end of a turn is followed by its newline and the next   *)
(* message, every message but the first by an end before it, and no end is *)
(* lost or doubled, over whatever was undone, replaced or restored.        *)
THEOREM ChatTurnsAreClosed == ChatSpec => []TurnsAreClosed
<1>1. ChatInit => AllTold
  <2> SUFFICES ASSUME ChatInit PROVE AllTold
    OBVIOUS
  <2>1. phase = "idle" /\ turn = None /\ kept = None /\ \E b \in Backends : kv = Pristine(b)
    BY DEF ChatInit, Init
  <2>2. Reported = "idle" /\ Visible = <<>> /\ Stored = None
    BY <2>1, SeenAtRest DEF TextIn, Known, Pristine, RowsOf, Stored
  <2>3. QED
    BY <2>2, NothingTold DEF AllTold
<1>2. AllTold /\ ChatInv /\ [ChatNext]_allVars => AllTold'
  BY StepsPromised, ToldOn
<1>3. AllTold /\ ChatInv => TurnsAreClosed
  <2> SUFFICES ASSUME AllTold, ChatInv, AtRest, phase \in Known
               PROVE  Alternates(RowsOf(kv.cells))
    BY DEF TurnsAreClosed
  <2>1. turn = None
    BY DEF ChatInv, PhaseInv
  <2>2. Visible = RowsOf(kv.cells)
    BY <2>1, SeenAtRest DEF TextIn
  <2>3. QED
    BY <2>2 DEF AllTold, Told
<1>4. QED
  BY <1>1, <1>2, <1>3, ChatInvariant, PTL DEF ChatSpec

=============================================================================
