--------------------------- MODULE DiarizerProofs ---------------------------
(***************************************************************************)
(* Proofs about Diarizer: every utterance that was granted a label is in   *)
(* one of the labeler's two queues until it is answered, and is weighed by *)
(* all the frames of its own audio, for every frame length, history,       *)
(* max_pending and stream.  The lemmas about the queues come first, then   *)
(* one about each of the labeler's calls.                                  *)
(***************************************************************************)
EXTENDS Diarizer, FiniteSetTheorems, SequenceTheorems, WellFoundedInduction, TLAPS

(* What the labeler is told of an utterance.                               *)
Utts == [id : Nat, from : Nat \cup {None}, to : Nat \cup {None}, kept : BOOLEAN]
Placed == {u \in Utts : u.from \in Nat /\ u.to \in Nat}

Ids(s) == {u.id : u \in ToSet(s)}
Distinct(s) == \A i, j \in 1 .. Len(s) : s[i].id = s[j].id => i = j

Labelers == [queue : Seq(Placed), parked : Seq(Utts), lost : {0}, first : Nat, received : Nat]

(* The labeler holds each utterance of D once, in one of its two queues.   *)
Holds(l, D) ==
    /\ l \in Labelers
    /\ Distinct(l.queue) /\ Distinct(l.parked)
    /\ Ids(l.queue) \cap Ids(l.parked) = {} /\ Ids(l.queue) \cup Ids(l.parked) = D
    /\ IsFiniteSet(D) /\ Cardinality(D) <= Cap

(* A queued utterance has its span's times on the session's clock o, and   *)
(* the frames of one that was registered in time are kept.                 *)
SpansAre(l, p, o) ==
    \A u \in ToSet(l.queue) :
        /\ p[u.id] \in Spans
        /\ u.from = Minus(p[u.id].from, o) /\ u.to = Minus(Ending(p[u.id]), o)
FramesAreKept(l) == \A u \in ToSet(l.queue) : u.kept => l.first <= u.from \div Frame

Good(l, p, o) == Holds(l, DOMAIN p) /\ SpansAre(l, p, o) /\ FramesAreKept(l)

IInv ==
    /\ maxPending \in Nat /\ now \in Nat /\ origin \in Nat /\ nextId \in Nat
    /\ DOMAIN pending \subseteq 0 .. nextId - 1
    /\ ~live => pending = Nothing
    /\ Good(Labeler, pending, origin)
    /\ WholeSpanIsWeighed

----------------------------------------------------------------------------
(* Numbers.                                                                *)
LEMMA Least ==
    ASSUME NEW S \in SUBSET Nat, S # {}
    PROVE  \E n \in S : \A m \in S : n <= m
<1>1. \E n \in S : \A m \in S : ~(<<m, n>> \in OpToRel(<, Nat))
  BY WFMin, NatLessThanWellFounded, Zenon
<1>2. PICK n \in S : \A m \in S : ~(<<m, n>> \in OpToRel(<, Nat))
  BY <1>1
<1>3. \A m \in S : ~(m < n)
  BY <1>2, Zenon DEF OpToRel
<1>4. QED
  BY <1>3

LEMMA MaxOfTwo ==
    ASSUME NEW a \in Int, NEW b \in Int
    PROVE  Max({a, b}) = IF a >= b THEN a ELSE b
<1>1. \E x \in {a, b} : \A y \in {a, b} : x >= y
  OBVIOUS
<1>2. Max({a, b}) \in {a, b} /\ \A y \in {a, b} : Max({a, b}) >= y
  BY <1>1 DEF Max
<1>3. QED
  BY <1>2

LEMMA MinOfTwo ==
    ASSUME NEW a \in Int, NEW b \in Int
    PROVE  Min({a, b}) = IF a <= b THEN a ELSE b
<1>1. \E x \in {a, b} : \A y \in {a, b} : x <= y
  OBVIOUS
<1>2. Min({a, b}) \in {a, b} /\ \A y \in {a, b} : Min({a, b}) <= y
  BY <1>1 DEF Min
<1>3. QED
  BY <1>2

LEMMA MinusIs ==
    ASSUME NEW a \in Int, NEW b \in Int
    PROVE  Minus(a, b) = IF a >= b THEN a - b ELSE 0
<1> DEFINE d == a - b
<1>1. d \in Int
  OBVIOUS
<1>2. Minus(a, b) = Max({0, d})
  BY DEF Minus
<1> HIDE DEF d
<1>3. Max({0, d}) = IF 0 >= d THEN 0 ELSE d
  BY <1>1, MaxOfTwo
<1>4. QED
  BY <1>2, <1>3 DEF d

(* A reversed span ends where it starts, on either clock.                  *)
LEMMA EndingIs ==
    ASSUME NEW s \in Spans, NEW o \in Nat
    PROVE  /\ s.from \in Int /\ s.to \in Int
           /\ Ending(s) = IF s.from >= s.to THEN s.from ELSE s.to
           /\ Minus(s.from, o) \in Nat /\ Minus(s.to, o) \in Nat
           /\ Minus(Ending(s), o) = IF Minus(s.from, o) >= Minus(s.to, o)
                                    THEN Minus(s.from, o) ELSE Minus(s.to, o)
<1>1. PICK a \in Int, b \in Int : a = s.from /\ b = s.to
  BY DiarizerAssumption DEF Spans
<1>2. Ending(s) = IF a >= b THEN a ELSE b
  BY <1>1, MaxOfTwo DEF Ending
<1>3. PICK c \in Int : c = Ending(s)
  BY <1>2
<1>4. /\ Minus(a, o) = IF a >= o THEN a - o ELSE 0
      /\ Minus(b, o) = IF b >= o THEN b - o ELSE 0
      /\ Minus(c, o) = IF c >= o THEN c - o ELSE 0
  BY MinusIs
<1>5. QED
  BY <1>1, <1>2, <1>3, <1>4

LEMMA ClampedIs ==
    ASSUME NEW u \in Utts, u.from \in Nat, u.to \in Nat
    PROVE  LET v == Clamped(u) IN
           /\ v \in Placed /\ v.id = u.id /\ v.from = u.from /\ v.kept = u.kept
           /\ v.to = IF u.from >= u.to THEN u.from ELSE u.to
<1> DEFINE v == Clamped(u)
           m == Max({u.from, u.to})
<1>1. m = IF u.from >= u.to THEN u.from ELSE u.to
  BY MaxOfTwo
<1> HIDE DEF m
<1>2. v = [u EXCEPT !.to = m]
  BY DEF Clamped, m
<1>3. v.id = u.id /\ v.from = u.from /\ v.kept = u.kept /\ v.to = m /\ v \in Utts
  BY <1>1, <1>2 DEF Utts
<1>4. QED
  BY <1>1, <1>3 DEF Placed

LEMMA CapIs == ASSUME maxPending \in Nat
               PROVE  Cap \in Nat /\ Cap >= 1 /\ Cap >= maxPending
<1>1. Max({1, maxPending}) = IF 1 >= maxPending THEN 1 ELSE maxPending
  BY MaxOfTwo
<1>2. QED
  BY <1>1 DEF Cap

(* A frame's number is the time divided by the frame, rounded down.        *)
LEMMA FrameOf ==
    ASSUME NEW t \in Nat
    PROVE  /\ t \div Frame \in Nat
           /\ \A f \in Int : f <= t \div Frame <=> f * Frame <= t
<1> DEFINE q == t \div Frame
<1>1. Frame \in Nat /\ Frame > 0
  BY DiarizerAssumption
<1>2. q \in Nat /\ q * Frame <= t /\ t < (q + 1) * Frame
  BY <1>1
<1> HIDE DEF q
<1>3. ASSUME NEW f \in Int, f <= q PROVE f * Frame <= q * Frame
  BY <1>1, <1>2, <1>3
<1>4. ASSUME NEW f \in Int, f >= q + 1 PROVE f * Frame >= (q + 1) * Frame
  BY <1>1, <1>2, <1>4
<1>5. ASSUME NEW f \in Int PROVE f <= q <=> f * Frame <= t
  <2>1. CASE f <= q
    <3>1. f * Frame \in Int /\ q * Frame \in Int
      BY <1>1, <1>2
    <3>2. QED
      BY <1>2, <1>3, <2>1, <3>1
  <2>2. CASE f >= q + 1
    <3>1. f * Frame \in Int /\ (q + 1) * Frame \in Int
      BY <1>1, <1>2
    <3>2. QED
      BY <1>2, <1>4, <2>2, <3>1
  <2>3. f <= q \/ f >= q + 1
    BY <1>2
  <2>4. QED
    BY <2>1, <2>2, <2>3
<1>6. QED
  BY <1>2, <1>5 DEF q

----------------------------------------------------------------------------
(* Queues.                                                                 *)
LEMMA ToSetIs ==
    ASSUME NEW S, NEW s \in Seq(S)
    PROVE  /\ ToSet(s) = {s[i] : i \in 1 .. Len(s)} /\ ToSet(s) \subseteq S
           /\ Len(s) \in Nat
BY LenProperties, ElementOfSeq DEF ToSet

LEMMA ConcatIs ==
    ASSUME NEW S, NEW s \in Seq(S), NEW t \in Seq(S)
    PROVE  /\ s \o t \in Seq(S) /\ Len(s \o t) = Len(s) + Len(t)
           /\ ToSet(s \o t) = ToSet(s) \cup ToSet(t)
           /\ Ids(s \o t) = Ids(s) \cup Ids(t)
           /\ Distinct(s) /\ Distinct(t) /\ Ids(s) \cap Ids(t) = {} => Distinct(s \o t)
<1> DEFINE c == s \o t
<1>1. /\ c \in Seq(S) /\ Len(c) = Len(s) + Len(t)
      /\ \A i \in 1 .. Len(s) + Len(t) :
            c[i] = IF i <= Len(s) THEN s[i] ELSE t[i - Len(s)]
  BY ConcatProperties
<1>2. Len(s) \in Nat /\ Len(t) \in Nat
  BY LenProperties
<1> HIDE DEF c
<1>3. \A i \in 1 .. Len(s) : c[i] = s[i]
  BY <1>1, <1>2
<1>4. \A i \in 1 .. Len(t) : c[Len(s) + i] = t[i] /\ Len(s) + i \in 1 .. Len(c)
  BY <1>1, <1>2
<1>5. \A i \in 1 .. Len(c) : c[i] \in ToSet(s) \cup ToSet(t)
  <2>1. \A i \in 1 .. Len(c) : i \in 1 .. Len(s) \/ i - Len(s) \in 1 .. Len(t)
    BY <1>1, <1>2
  <2>2. QED
    BY <2>1, <1>1, <1>2, ToSetIs
<1>6. ToSet(c) = ToSet(s) \cup ToSet(t)
  <2>1. \A x \in ToSet(s) : x \in ToSet(c)
    BY <1>1, <1>2, <1>3, ToSetIs
  <2>2. ASSUME NEW x \in ToSet(t) PROVE x \in ToSet(c)
    <3>1. PICK i \in 1 .. Len(t) : x = t[i]
      BY ToSetIs
    <3>2. PICK k \in 1 .. Len(c) : k = Len(s) + i
      BY <1>4
    <3>3. x = c[k]
      BY <1>4, <3>1, <3>2
    <3>4. QED
      BY <1>1, <3>3, ToSetIs
  <2>3. \A x \in ToSet(c) : x \in ToSet(s) \cup ToSet(t)
    BY <1>1, <1>5, ToSetIs
  <2>4. QED
    BY <2>1, <2>2, <2>3
<1>7. Ids(c) = Ids(s) \cup Ids(t)
  BY <1>6 DEF Ids
<1>8. ASSUME Distinct(s), Distinct(t), Ids(s) \cap Ids(t) = {} PROVE Distinct(c)
  <2> SUFFICES ASSUME NEW i \in 1 .. Len(c), NEW j \in 1 .. Len(c), c[i].id = c[j].id
               PROVE  i = j
    BY DEF Distinct
  <2>1. ASSUME NEW a \in 1 .. Len(c), NEW b \in 1 .. Len(c), a <= Len(s), ~(b <= Len(s)),
               c[a].id = c[b].id
        PROVE  FALSE
    <3>1. c[a] \in ToSet(s) /\ c[b] \in ToSet(t)
      <4>1. a \in 1 .. Len(s) /\ b - Len(s) \in 1 .. Len(t)
        BY <1>1, <1>2, <2>1
      <4>2. c[a] = s[a] /\ c[b] = t[b - Len(s)]
        BY <1>1, <1>2, <2>1
      <4>3. QED
        BY <4>1, <4>2, ToSetIs
    <3>2. c[a].id \in Ids(s) /\ c[b].id \in Ids(t)
      BY <3>1 DEF Ids
    <3>3. QED
      BY <3>2, <2>1, <1>8
  <2>2. CASE i <= Len(s) /\ j <= Len(s)
    BY <2>2, <1>1, <1>2, <1>8 DEF Distinct
  <2>3. CASE ~(i <= Len(s)) /\ ~(j <= Len(s))
    <3>1. c[i] = t[i - Len(s)] /\ c[j] = t[j - Len(s)]
      BY <2>3, <1>1, <1>2
    <3>2. i - Len(s) \in 1 .. Len(t) /\ j - Len(s) \in 1 .. Len(t)
      BY <2>3, <1>1, <1>2
    <3>3. i - Len(s) = j - Len(s)
      BY <3>1, <3>2, <1>8 DEF Distinct
    <3>4. QED
      BY <3>3, <1>1, <1>2
  <2>4. QED
    BY <2>1, <2>2, <2>3
<1>9. QED
  BY <1>1, <1>6, <1>7, <1>8 DEF c

LEMMA AppendIs ==
    ASSUME NEW S, NEW s \in Seq(S), NEW x \in S
    PROVE  /\ Append(s, x) \in Seq(S) /\ Len(Append(s, x)) = Len(s) + 1
           /\ ToSet(Append(s, x)) = ToSet(s) \cup {x}
           /\ Ids(Append(s, x)) = Ids(s) \cup {x.id}
           /\ Distinct(s) /\ x.id \notin Ids(s) => Distinct(Append(s, x))
<1>1. <<x>> \in Seq(S) /\ Len(<<x>>) = 1 /\ <<x>>[1] = x
  OBVIOUS
<1>2. Append(s, x) = s \o <<x>>
  BY AppendIsConcat
<1>3. ToSet(<<x>>) = {x}
  <2>1. ToSet(<<x>>) = {<<x>>[i] : i \in 1 .. Len(<<x>>)}
    BY <1>1, ToSetIs
  <2>2. QED
    BY <1>1, <2>1
<1>4. Ids(<<x>>) = {x.id}
  BY <1>3 DEF Ids
<1>5. Distinct(<<x>>)
  BY <1>1 DEF Distinct
<1>6. /\ s \o <<x>> \in Seq(S) /\ Len(s \o <<x>>) = Len(s) + Len(<<x>>)
      /\ ToSet(s \o <<x>>) = ToSet(s) \cup ToSet(<<x>>)
      /\ Ids(s \o <<x>>) = Ids(s) \cup Ids(<<x>>)
      /\ Distinct(s) /\ Distinct(<<x>>) /\ Ids(s) \cap Ids(<<x>>) = {} => Distinct(s \o <<x>>)
  BY <1>1, ConcatIs
<1>7. QED
  BY <1>1, <1>2, <1>3, <1>4, <1>5, <1>6

(* A queue cut in two.                                                     *)
LEMMA CutIs ==
    ASSUME NEW S, NEW s \in Seq(S), NEW n \in 0 .. Len(s)
    PROVE  LET a == SubSeq(s, 1, n)  b == SubSeq(s, n + 1, Len(s)) IN
           /\ a \in Seq(S) /\ b \in Seq(S) /\ Len(a) = n /\ Len(b) = Len(s) - n
           /\ ToSet(a) \cup ToSet(b) = ToSet(s)
           /\ Distinct(s) => Distinct(a) /\ Distinct(b) /\ Ids(a) \cap Ids(b) = {}
<1> DEFINE a == SubSeq(s, 1, n)
           b == SubSeq(s, n + 1, Len(s))
<1>1. Len(s) \in Nat /\ \A i \in 1 .. Len(s) : s[i] \in S
  BY LenProperties, ElementOfSeq
<1>2. a \in Seq(S) /\ Len(a) = n /\ \A i \in 1 .. n : a[i] = s[i]
  BY <1>1, SubSeqProperties
<1>3. b \in Seq(S) /\ Len(b) = Len(s) - n /\ \A i \in 1 .. Len(s) - n : b[i] = s[n + i]
  <2>1. n + 1 \in Int /\ \A i \in n + 1 .. Len(s) : s[i] \in S
    BY <1>1
  <2>2. /\ b \in Seq(S) /\ Len(b) = IF n + 1 <= Len(s) THEN Len(s) - (n + 1) + 1 ELSE 0
        /\ \A i \in 1 .. Len(s) - (n + 1) + 1 : b[i] = s[(n + 1) + i - 1]
    BY <1>1, <2>1, SubSeqProperties
  <2> HIDE DEF b
  <2>3. QED
    BY <1>1, <2>2
<1> HIDE DEF a, b
<1>4. ToSet(a) \cup ToSet(b) = ToSet(s)
  <2>1. ASSUME NEW x \in ToSet(a) PROVE x \in ToSet(s)
    BY <1>1, <1>2, ToSetIs
  <2>2. ASSUME NEW x \in ToSet(b) PROVE x \in ToSet(s)
    <3>1. PICK i \in 1 .. Len(s) - n : x = b[i]
      BY <1>3, ToSetIs
    <3>2. PICK k \in 1 .. Len(s) : k = n + i
      BY <1>1
    <3>3. x = s[k]
      BY <1>3, <3>1, <3>2
    <3>4. QED
      BY <3>3, ToSetIs
  <2>3. ASSUME NEW x \in ToSet(s) PROVE x \in ToSet(a) \cup ToSet(b)
    <3>1. PICK k \in 1 .. Len(s) : x = s[k]
      BY ToSetIs
    <3>2. CASE k <= n
      BY <1>2, <3>1, <3>2, ToSetIs
    <3>3. CASE k > n
      <4>1. PICK i \in 1 .. Len(s) - n : i = k - n
        BY <1>1, <3>3
      <4>2. x = b[i]
        <5>1. b[i] = s[n + i] /\ n + i = k
          BY <1>3, <4>1
        <5>2. QED
          BY <5>1, <3>1
      <4>3. QED
        BY <1>3, <4>2, ToSetIs
    <3>4. QED
      BY <1>1, <3>2, <3>3
  <2>4. QED
    BY <2>1, <2>2, <2>3
<1>5. ASSUME Distinct(s) PROVE Distinct(a) /\ Distinct(b) /\ Ids(a) \cap Ids(b) = {}
  <2>1. Distinct(a)
    BY <1>1, <1>2, <1>5 DEF Distinct
  <2>2. Distinct(b)
    <3> SUFFICES ASSUME NEW i \in 1 .. Len(b), NEW j \in 1 .. Len(b), b[i].id = b[j].id
                 PROVE  i = j
      BY DEF Distinct
    <3>1. n + i \in 1 .. Len(s) /\ n + j \in 1 .. Len(s)
      BY <1>1, <1>3
    <3>2. s[n + i].id = s[n + j].id
      BY <1>3
    <3>3. n + i = n + j
      BY <3>1, <3>2, <1>5 DEF Distinct
    <3>4. QED
      BY <3>3, <1>1, <1>3
  <2>3. ASSUME NEW x \in ToSet(a), NEW y \in ToSet(b), x.id = y.id PROVE FALSE
    <3>1. PICK i \in 1 .. n : x = s[i]
      BY <1>2, ToSetIs
    <3>2. PICK j \in 1 .. Len(s) - n : y = s[n + j]
      BY <1>3, ToSetIs
    <3>3. i \in 1 .. Len(s) /\ n + j \in 1 .. Len(s) /\ i # n + j
      BY <1>1
    <3>4. QED
      BY <3>1, <3>2, <3>3, <2>3, <1>5 DEF Distinct
  <2>4. QED
    BY <2>1, <2>2, <2>3 DEF Ids
<1>6. QED
  BY <1>2, <1>3, <1>4, <1>5 DEF a, b

(* A queue of different utterances has one for each id.                    *)
LEMMA CountIs ==
    ASSUME NEW S, NEW s \in Seq(S), Distinct(s)
    PROVE  IsFiniteSet(Ids(s)) /\ Cardinality(Ids(s)) = Len(s)
<1> DEFINE f == [i \in 1 .. Len(s) |-> s[i].id]
<1>1. Len(s) \in Nat /\ ToSet(s) = {s[i] : i \in 1 .. Len(s)}
  BY ToSetIs
<1>2. \A i \in 1 .. Len(s) : f[i] = s[i].id
  OBVIOUS
<1>3. Ids(s) = {s[i].id : i \in 1 .. Len(s)}
  BY <1>1 DEF Ids
<1>4. f \in [1 .. Len(s) -> Ids(s)]
  BY <1>3
<1>5. \A i, j \in 1 .. Len(s) : f[i] = f[j] => i = j
  BY <1>2 DEF Distinct
<1> HIDE DEF f
<1>6. f \in Injection(1 .. Len(s), Ids(s))
  BY <1>4, <1>5 DEF Injection, IsInjective
<1>7. \A x \in Ids(s) : \E i \in 1 .. Len(s) : f[i] = x
  BY <1>2, <1>3
<1>8. f \in Surjection(1 .. Len(s), Ids(s))
  BY <1>4, <1>7 DEF Surjection
<1>9. ExistsBijection(1 .. Len(s), Ids(s))
  BY <1>6, <1>8 DEF ExistsBijection, Bijection
<1>10. Cardinality(Ids(s)) = Len(s)
  BY <1>1, <1>9, FS_CountingElements
<1>11. IsFiniteSet(1 .. Len(s))
  BY <1>1, FS_Interval
<1>12. IsFiniteSet(Ids(s))
  BY <1>8, <1>11, FS_Surjection
<1>13. QED
  BY <1>10, <1>12

(* Only(us, T) goes through its queue one by one.                          *)
IsSieve(f, us, T) ==
    /\ f[0] = <<>>
    /\ \A i \in 1 .. Len(us) :
          f[i] = IF us[i] \in T THEN Append(f[i - 1], us[i]) ELSE f[i - 1]
    /\ f[Len(us)] = Only(us, T)

LEMMA OnlyRuns ==
    ASSUME NEW us, NEW T, Len(us) \in Nat
    PROVE  \E f : IsSieve(f, us, T)
<1> DEFINE Run(n, f) ==
             f = [i \in 0 .. n |->
                    IF i = 0 THEN <<>>
                    ELSE IF us[i] \in T THEN Append(f[i - 1], us[i]) ELSE f[i - 1]]
           Bad == {n \in Nat : n <= Len(us) /\ ~ \E f : Run(n, f)}
<1>1. Bad = {}
  <2> SUFFICES ASSUME Bad # {} PROVE FALSE
    OBVIOUS
  <2>1. PICK n \in Bad : \A m \in Bad : n <= m
    <3>1. Bad \in SUBSET Nat
      OBVIOUS
    <3>2. QED
      BY <3>1, Least
  <2>2. n \in Nat /\ n <= Len(us) /\ ~ \E f : Run(n, f)
    BY <2>1
  <2>3. n # 0
    <3>1. Run(0, [i \in 0 .. 0 |-> <<>>])
      OBVIOUS
    <3>2. QED
      BY <3>1, <2>2
  <2>4. n - 1 \in Nat /\ n - 1 <= Len(us) /\ ~(n <= n - 1)
    BY <2>2, <2>3
  <2>5. PICK g : Run(n - 1, g)
    BY <2>1, <2>4
  <2> DEFINE h == [i \in 0 .. n |->
                     IF i = 0 THEN <<>>
                     ELSE IF us[i] \in T THEN Append(g[i - 1], us[i]) ELSE g[i - 1]]
  <2>6. ASSUME NEW i \in 0 .. n, i # 0 PROVE h[i - 1] = g[i - 1]
    <3>1. i - 1 \in 0 .. n - 1 /\ i - 1 \in 0 .. n
      BY <2>2, <2>6
    <3> HIDE DEF h
    <3>2. g[i - 1] = IF i - 1 = 0 THEN <<>>
                     ELSE IF us[i - 1] \in T THEN Append(g[i - 1 - 1], us[i - 1])
                          ELSE g[i - 1 - 1]
      BY <3>1, <2>5
    <3>3. h[i - 1] = IF i - 1 = 0 THEN <<>>
                     ELSE IF us[i - 1] \in T THEN Append(g[i - 1 - 1], us[i - 1])
                          ELSE g[i - 1 - 1]
      BY <3>1 DEF h
    <3>4. QED
      BY <3>2, <3>3
  <2>7. Run(n, h)
    BY <2>6
  <2>8. QED
    BY <2>2, <2>7
<1>2. \E f : Run(Len(us), f)
  BY <1>1
<1> DEFINE kept == CHOOSE f : Run(Len(us), f)
<1>3. Run(Len(us), kept)
  BY <1>2
<1>4. Only(us, T) = kept[Len(us)]
  BY DEF Only
<1> HIDE DEF kept
<1>5. /\ kept[0] = <<>>
      /\ \A i \in 1 .. Len(us) :
            kept[i] = IF us[i] \in T THEN Append(kept[i - 1], us[i]) ELSE kept[i - 1]
  <2>1. kept[0] = <<>>
    BY <1>3
  <2>2. ASSUME NEW i \in 1 .. Len(us)
        PROVE  kept[i] = IF us[i] \in T THEN Append(kept[i - 1], us[i]) ELSE kept[i - 1]
    <3>1. i \in 0 .. Len(us) /\ i # 0
      OBVIOUS
    <3>2. kept[i] = IF i = 0 THEN <<>>
                    ELSE IF us[i] \in T THEN Append(kept[i - 1], us[i]) ELSE kept[i - 1]
      BY <1>3, <3>1
    <3>3. QED
      BY <3>1, <3>2
  <2>3. QED
    BY <2>1, <2>2
<1>6. IsSieve(kept, us, T)
  BY <1>4, <1>5 DEF IsSieve
<1>7. QED
  BY <1>6

(* Of the first n, the sieve holds those of T.                             *)
Sifted(s, n, us, T, S) ==
    /\ s \in Seq(S) /\ ToSet(s) = {us[i] : i \in 1 .. n} \cap T
    /\ Distinct(us) => Distinct(s)

LEMMA OnlyIs ==
    ASSUME NEW S, NEW us \in Seq(S), NEW T
    PROVE  /\ Only(us, T) \in Seq(S) /\ ToSet(Only(us, T)) = ToSet(us) \cap T
           /\ Distinct(us) => Distinct(Only(us, T))
<1>1. Len(us) \in Nat /\ \A i \in 1 .. Len(us) : us[i] \in S
  BY LenProperties, ElementOfSeq
<1>2. PICK f : IsSieve(f, us, T)
  BY <1>1, OnlyRuns
<1>3. /\ f[0] = <<>>
      /\ \A i \in 1 .. Len(us) :
            f[i] = IF us[i] \in T THEN Append(f[i - 1], us[i]) ELSE f[i - 1]
      /\ f[Len(us)] = Only(us, T)
  BY <1>2 DEF IsSieve
<1> DEFINE Bad == {n \in Nat : n <= Len(us) /\ ~Sifted(f[n], n, us, T, S)}
<1>4. Bad = {}
  <2> SUFFICES ASSUME Bad # {} PROVE FALSE
    OBVIOUS
  <2>1. PICK n \in Bad : \A m \in Bad : n <= m
    <3>1. Bad \in SUBSET Nat
      OBVIOUS
    <3>2. QED
      BY <3>1, Least
  <2>2. n \in Nat /\ n <= Len(us) /\ ~Sifted(f[n], n, us, T, S)
    BY <2>1
  <2>3. n # 0
    <3>1. <<>> \in Seq(S) /\ ToSet(<<>>) = {} /\ Len(<<>>) = 0
      BY EmptySeq DEF ToSet
    <3>2. Distinct(<<>>)
      BY <3>1 DEF Distinct
    <3>3. {us[i] : i \in 1 .. 0} = {}
      OBVIOUS
    <3>4. Sifted(f[0], 0, us, T, S)
      BY <1>3, <3>1, <3>2, <3>3 DEF Sifted
    <3>5. QED
      BY <2>2, <3>4
  <2>4. /\ n - 1 \in Nat /\ n - 1 <= Len(us) /\ ~(n <= n - 1)
        /\ n \in 1 .. Len(us)
    BY <2>2, <2>3, <1>1
  <2>5. Sifted(f[n - 1], n - 1, us, T, S)
    BY <2>1, <2>4
  <2> DEFINE e == f[n - 1]
             x == us[n]
             before == {us[i] : i \in 1 .. n - 1}
  <2>6. e \in Seq(S) /\ ToSet(e) = before \cap T /\ (Distinct(us) => Distinct(e))
    BY <2>5 DEF Sifted
  <2>7. {us[i] : i \in 1 .. n} = before \cup {x}
    <3>1. \A i \in 1 .. n : i \in 1 .. n - 1 \/ i = n
      BY <2>4
    <3>2. \A i \in 1 .. n - 1 : i \in 1 .. n
      BY <2>4
    <3>3. n \in 1 .. n
      BY <2>4
    <3>4. QED
      BY <3>1, <3>2, <3>3
  <2>8. f[n] = IF x \in T THEN Append(e, x) ELSE e
    BY <1>3, <2>4
  <2>9. x \in S
    BY <1>1, <2>4
  <2>10. ASSUME Distinct(us) PROVE x.id \notin Ids(e)
    <3> SUFFICES ASSUME NEW y \in ToSet(e), y.id = x.id PROVE FALSE
      BY DEF Ids
    <3>1. PICK i \in 1 .. n - 1 : y = us[i]
      BY <2>6
    <3>2. i \in 1 .. Len(us) /\ i # n
      BY <2>4
    <3>3. QED
      BY <3>1, <3>2, <2>4, <2>10 DEF Distinct
  <2> HIDE DEF e, x, before
  <2>11. Sifted(f[n], n, us, T, S)
    <3>1. CASE x \in T
      <4>1. f[n] = Append(e, x)
        BY <2>8, <3>1
      <4>2. /\ Append(e, x) \in Seq(S) /\ ToSet(Append(e, x)) = ToSet(e) \cup {x}
            /\ Distinct(e) /\ x.id \notin Ids(e) => Distinct(Append(e, x))
        BY <2>6, <2>9, AppendIs
      <4>3. ToSet(f[n]) = (before \cup {x}) \cap T
        BY <4>1, <4>2, <2>6, <3>1
      <4>4. QED
        BY <4>1, <4>2, <4>3, <2>6, <2>7, <2>10 DEF Sifted
    <3>2. CASE x \notin T
      <4>1. f[n] = e
        BY <2>8, <3>2
      <4>2. ToSet(f[n]) = (before \cup {x}) \cap T
        BY <4>1, <2>6, <3>2
      <4>3. QED
        BY <4>1, <4>2, <2>6, <2>7 DEF Sifted
    <3>3. QED
      BY <3>1, <3>2
  <2>12. QED
    BY <2>2, <2>11
<1>5. Sifted(f[Len(us)], Len(us), us, T, S)
  BY <1>1, <1>4
<1>6. QED
  BY <1>3, <1>5, ToSetIs DEF Sifted

(* A queue sieved by T and by what is not in T.                            *)
LEMMA SplitIs ==
    ASSUME NEW S, NEW us \in Seq(S), NEW T \in SUBSET ToSet(us), Distinct(us)
    PROVE  LET a == Only(us, T)  b == Only(us, ToSet(us) \ T) IN
           /\ a \in Seq(S) /\ b \in Seq(S) /\ Distinct(a) /\ Distinct(b)
           /\ ToSet(a) = T /\ ToSet(b) = ToSet(us) \ T
           /\ Ids(a) \cap Ids(b) = {} /\ Ids(a) \cup Ids(b) = Ids(us)
<1> DEFINE a == Only(us, T)
           b == Only(us, ToSet(us) \ T)
<1>1. /\ a \in Seq(S) /\ b \in Seq(S) /\ Distinct(a) /\ Distinct(b)
      /\ ToSet(a) = T /\ ToSet(b) = ToSet(us) \ T
  <2>1. a \in Seq(S) /\ Distinct(a) /\ ToSet(a) = ToSet(us) \cap T
    BY OnlyIs
  <2>2. b \in Seq(S) /\ Distinct(b) /\ ToSet(b) = ToSet(us) \cap (ToSet(us) \ T)
    BY OnlyIs
  <2>3. QED
    BY <2>1, <2>2
<1> HIDE DEF a, b
<1>2. ASSUME NEW x \in T, NEW y \in ToSet(us) \ T, x.id = y.id PROVE FALSE
  <2>1. PICK i \in 1 .. Len(us) : x = us[i]
    BY ToSetIs
  <2>2. PICK j \in 1 .. Len(us) : y = us[j]
    BY ToSetIs
  <2>3. i = j
    BY <1>2, <2>1, <2>2 DEF Distinct
  <2>4. QED
    BY <2>1, <2>2, <2>3
<1>3. Ids(a) \cap Ids(b) = {}
  BY <1>1, <1>2 DEF Ids
<1>4. Ids(a) \cup Ids(b) = Ids(us)
  BY <1>1 DEF Ids
<1>5. QED
  BY <1>1, <1>3, <1>4 DEF a, b

----------------------------------------------------------------------------
(* The labeler's calls.                                                    *)
LEMMA LabelerFields ==
    ASSUME NEW l \in Labelers
    PROVE  /\ l.queue \in Seq(Placed) /\ l.queue \in Seq(Utts) /\ l.parked \in Seq(Utts)
           /\ l.lost = 0 /\ l.first \in Nat /\ l.received \in Nat
           /\ Len(l.queue) \in Nat /\ Len(l.parked) \in Nat
<1>1. l.queue \in Seq(Placed) /\ l.parked \in Seq(Utts)
  BY DEF Labelers
<1>2. l.queue \in Seq(Utts)
  <2>1. Placed \subseteq Utts
    BY DEF Placed
  <2>2. QED
    BY <1>1, <2>1, SeqMonotonic
<1>3. QED
  BY <1>1, <1>2, LenProperties DEF Labelers

(* While nobody has to be lost, parking appends.                           *)
LEMMA ParkIs ==
    ASSUME maxPending \in Nat, NEW l \in Labelers, NEW us \in Seq(Utts),
           Len(l.parked) + Len(us) <= Cap
    PROVE  LET n == Park(l, us) IN
           /\ n \in Labelers /\ n.queue = l.queue /\ n.first = l.first
           /\ n.received = l.received /\ n.parked = l.parked \o us
<1> DEFINE all == l.parked \o us
           excess == Minus(Len(all), Cap)
           n == Park(l, us)
<1>1. all \in Seq(Utts) /\ Len(all) = Len(l.parked) + Len(us)
  BY LabelerFields, ConcatIs
<1>2. Len(all) \in Nat /\ Cap \in Nat
  BY <1>1, CapIs, LenProperties
<1>3. excess = 0
  <2>1. Minus(Len(all), Cap) = IF Len(all) >= Cap THEN Len(all) - Cap ELSE 0
    BY <1>2, MinusIs
  <2>2. QED
    BY <1>1, <1>2, <2>1
<1>4. SubSeq(all, excess + 1, Len(all)) = all
  <2>1. SubSeq(all, 1, Len(all)) = all
    BY <1>1, SubSeqFull
  <2> HIDE DEF all, excess
  <2>2. excess + 1 = 1
    BY <1>3
  <2>3. QED
    BY <2>1, <2>2
<1>5. n = [l EXCEPT !.parked = SubSeq(all, excess + 1, Len(all)), !.lost = @ + excess]
  BY DEF Park
<1> HIDE DEF all, excess, n
<1>6. n = [l EXCEPT !.parked = all, !.lost = @ + 0]
  BY <1>3, <1>4, <1>5
<1>7. l.lost + 0 = 0
  BY LabelerFields
<1>8. /\ n.queue = l.queue /\ n.first = l.first /\ n.received = l.received
      /\ n.parked = all /\ n.lost = 0
      /\ n = [queue |-> n.queue, parked |-> n.parked, lost |-> n.lost, first |-> n.first,
              received |-> n.received]
  BY <1>6, <1>7 DEF Labelers
<1>9. n \in Labelers
  BY <1>1, <1>8, LabelerFields DEF Labelers
<1>10. QED
  BY <1>8, <1>9 DEF all, n

(* The two queues together are as long as there are utterances.            *)
LEMMA HeldCount ==
    ASSUME NEW l, NEW D, Holds(l, D), maxPending \in Nat
    PROVE  Len(l.queue) + Len(l.parked) = Cardinality(D) /\ Cardinality(D) <= Cap
<1>1. l \in Labelers
  BY DEF Holds
<1>2. l.queue \in Seq(Utts) /\ l.parked \in Seq(Utts)
  BY <1>1, LabelerFields
<1>3. Len(l.queue) \in Nat /\ Len(l.parked) \in Nat
  BY <1>1, LabelerFields
<1>4. IsFiniteSet(Ids(l.queue)) /\ Cardinality(Ids(l.queue)) = Len(l.queue)
  BY <1>2, CountIs DEF Holds
<1>5. IsFiniteSet(Ids(l.parked)) /\ Cardinality(Ids(l.parked)) = Len(l.parked)
  BY <1>2, CountIs DEF Holds
<1>6. Cardinality({}) = 0
  BY FS_EmptySet
<1>7. Cardinality(D) = Len(l.queue) + Len(l.parked) - 0
  <2>1. Cardinality(Ids(l.queue) \cup Ids(l.parked))
          = Cardinality(Ids(l.queue)) + Cardinality(Ids(l.parked))
              - Cardinality(Ids(l.queue) \cap Ids(l.parked))
    BY <1>4, <1>5, FS_Union
  <2>2. QED
    BY <2>1, <1>4, <1>5, <1>6 DEF Holds
<1>8. Cardinality(D) <= Cap
  BY DEF Holds
<1>9. Len(l.queue) + Len(l.parked) - 0 = Len(l.queue) + Len(l.parked)
  BY <1>3
<1>10. QED
  BY <1>7, <1>8, <1>9

LEMMA AddHolds ==
    ASSUME maxPending \in Nat, NEW l, NEW D, Holds(l, D), NEW u \in Utts,
           u.from \in Nat => u.to \in Nat, u.id \notin D, Cardinality(D) < Cap
    PROVE  LET n == AddUtterance(l, u) IN
           /\ Holds(n, D \cup {u.id}) /\ n.first = l.first /\ n.received = l.received
           /\ \A x \in ToSet(n.queue) : x \in ToSet(l.queue) \/ (x = Clamped(u) /\ u.from \in Nat)
<1> DEFINE n == AddUtterance(l, u)
<1>1. l \in Labelers
  BY DEF Holds
<1>2. /\ l.queue \in Seq(Placed) /\ l.queue \in Seq(Utts) /\ l.parked \in Seq(Utts)
      /\ l.lost = 0 /\ l.first \in Nat /\ l.received \in Nat
      /\ Len(l.queue) \in Nat /\ Len(l.parked) \in Nat
  BY <1>1, LabelerFields
<1>3. Len(l.queue) + Len(l.parked) < Cap /\ Cap \in Nat /\ Cap >= maxPending
  BY HeldCount, CapIs
<1>3a. PICK q \in Nat, p \in Nat : q = Len(l.queue) /\ p = Len(l.parked)
  BY <1>2
<1>3b. q + p < Cap /\ Cap \in Nat
  BY <1>3, <1>3a
<1>4. u.id \notin Ids(l.queue) /\ u.id \notin Ids(l.parked)
  BY DEF Holds
<1>5. IsFiniteSet(D \cup {u.id}) /\ Cardinality(D \cup {u.id}) <= Cap
  <2>1. IsFiniteSet(D) /\ Cardinality(D) \in Nat
    BY FS_CardinalityType DEF Holds
  <2>2. IsFiniteSet(D \cup {u.id}) /\ Cardinality(D \cup {u.id}) = Cardinality(D) + 1
    BY <2>1, FS_AddElement
  <2>3. QED
    BY <1>3, <2>1, <2>2
<1>6. CASE u.from = None
  <2>1. n = Park(l, <<u>>)
    BY <1>6 DEF AddUtterance
  <2>2. <<u>> \in Seq(Utts) /\ Len(<<u>>) = 1
    OBVIOUS
  <2>3. Len(l.parked) + Len(<<u>>) <= Cap
    <3>1. p + 1 <= Cap
      BY <1>3b
    <3>2. QED
      BY <1>3a, <2>2, <3>1
  <2>4. /\ n \in Labelers /\ n.queue = l.queue /\ n.first = l.first
        /\ n.received = l.received /\ n.parked = l.parked \o <<u>>
    BY <1>1, <2>1, <2>2, <2>3, ParkIs
  <2>5. l.parked \o <<u>> = Append(l.parked, u)
    BY <1>2, AppendIsConcat
  <2>6. /\ Ids(n.parked) = Ids(l.parked) \cup {u.id} /\ Distinct(n.parked)
    <3>1. Distinct(l.parked)
      BY DEF Holds
    <3>2. /\ Ids(Append(l.parked, u)) = Ids(l.parked) \cup {u.id}
          /\ Distinct(l.parked) /\ u.id \notin Ids(l.parked) => Distinct(Append(l.parked, u))
      BY <1>2, AppendIs
    <3>3. n.parked = Append(l.parked, u)
      BY <2>4, <2>5
    <3>4. QED
      BY <1>4, <3>1, <3>2, <3>3
  <2> HIDE DEF n
  <2>7. Holds(n, D \cup {u.id})
    BY <1>4, <1>5, <2>4, <2>6 DEF Holds
  <2>8. QED
    BY <2>4, <2>7 DEF n
<1>7. CASE u.from # None
  <2> DEFINE v == Clamped(u)
  <2>1. u.from \in Nat /\ v \in Placed /\ v.id = u.id
    <3>1. u.from \in Nat /\ u.to \in Nat
      BY <1>7 DEF Utts
    <3>2. QED
      BY <3>1, ClampedIs
  <2> HIDE DEF v
  <2> DEFINE all == Append(l.queue, v)
             excess == Minus(Len(all), maxPending)
             old == SubSeq(all, 1, excess)
             new == SubSeq(all, excess + 1, Len(all))
             m == [l EXCEPT !.queue = new]
  <2>2. n = Park(m, old)
    BY <1>7 DEF AddUtterance, v
  <2>3. /\ all \in Seq(Placed) /\ Len(all) = Len(l.queue) + 1
        /\ ToSet(all) = ToSet(l.queue) \cup {v} /\ Ids(all) = Ids(l.queue) \cup {u.id}
        /\ Distinct(all)
    BY <1>2, <1>4, <2>1, AppendIs DEF Holds
  <2> HIDE DEF all
  <2>4. excess \in 0 .. Len(all)
    <3>1. Len(all) \in Nat
      BY <1>2, <2>3
    <3>2. Minus(Len(all), maxPending) = IF Len(all) >= maxPending THEN Len(all) - maxPending ELSE 0
      BY <3>1, MinusIs
    <3>3. QED
      BY <3>1, <3>2
  <2> HIDE DEF excess
  <2>5. /\ old \in Seq(Placed) /\ new \in Seq(Placed) /\ Len(old) = excess
        /\ ToSet(old) \cup ToSet(new) = ToSet(all)
        /\ Distinct(old) /\ Distinct(new) /\ Ids(old) \cap Ids(new) = {}
    BY <2>3, <2>4, CutIs
  <2>6. m \in Labelers /\ m.queue = new /\ m.parked = l.parked /\ m.first = l.first
        /\ m.received = l.received
    BY <1>1, <2>5 DEF Labelers
  <2>7. old \in Seq(Utts)
    <3>1. Placed \subseteq Utts
      BY DEF Placed
    <3>2. QED
      BY <2>5, <3>1, SeqMonotonic
  <2> HIDE DEF old, new, m
  <2>8. Len(m.parked) + Len(old) <= Cap
    <3>1. excess <= q + 1 /\ excess \in Int
      BY <1>3a, <2>3, <2>4
    <3>2. p + excess <= Cap
      BY <1>3b, <3>1
    <3>3. QED
      BY <1>3a, <2>5, <2>6, <3>2
  <2>9. /\ n \in Labelers /\ n.queue = m.queue /\ n.first = m.first
        /\ n.received = m.received /\ n.parked = m.parked \o old
    <3> DEFINE o == Park(m, old)
    <3>1. /\ o \in Labelers /\ o.queue = m.queue /\ o.first = m.first
          /\ o.received = m.received /\ o.parked = m.parked \o old
      BY <2>6, <2>7, <2>8, ParkIs
    <3> HIDE DEF o
    <3>2. n = o
      BY <2>2 DEF o
    <3> HIDE DEF n
    <3>3. QED
      BY <3>1, <3>2
  <2>10. Ids(old) \cup Ids(new) = Ids(l.queue) \cup {u.id}
    <3>1. Ids(old) \cup Ids(new) = Ids(all)
      BY <2>5 DEF Ids
    <3>2. QED
      BY <2>3, <3>1
  <2>11. Ids(l.parked) \cap Ids(old) = {} /\ Ids(l.parked) \cap Ids(new) = {}
    BY <1>4, <2>10 DEF Holds
  <2>12. /\ Ids(l.parked \o old) = Ids(l.parked) \cup Ids(old) /\ Distinct(l.parked \o old)
    BY <1>2, <2>5, <2>7, <2>11, ConcatIs DEF Holds
  <2> HIDE DEF n
  <2>13. Ids(n.queue) = Ids(new) /\ Ids(n.parked) = Ids(l.parked) \cup Ids(old)
         /\ Distinct(n.queue) /\ Distinct(n.parked)
    BY <2>5, <2>6, <2>9, <2>12
  <2>14. Ids(n.queue) \cap Ids(n.parked) = {} /\ Ids(n.queue) \cup Ids(n.parked) = D \cup {u.id}
    <3>1. Ids(l.queue) \cup Ids(l.parked) = D
      BY DEF Holds
    <3>2. QED
      BY <2>5, <2>10, <2>11, <2>13, <3>1
  <2>15. Holds(n, D \cup {u.id})
    BY <1>5, <2>9, <2>13, <2>14 DEF Holds
  <2>16. \A x \in ToSet(n.queue) : x \in ToSet(l.queue) \/ (x = Clamped(u) /\ u.from \in Nat)
    BY <2>1, <2>3, <2>5, <2>6, <2>9 DEF v
  <2>17. QED
    BY <2>6, <2>9, <2>15, <2>16 DEF n
<1>8. QED
  BY <1>6, <1>7

(* The frames that those who wait need are not let go.                     *)
LEMMA OldestNeededIs ==
    ASSUME NEW l \in Labelers
    PROVE  /\ OldestNeeded(l) \in Nat
           /\ \A u \in ToSet(l.queue) : OldestNeeded(l) <= u.from \div Frame
<1> DEFINE S == {u.from \div Frame : u \in ToSet(l.queue)} \cup {l.received}
<1>1. l.queue \in Seq(Placed) /\ l.received \in Nat
  BY LabelerFields
<1>2. \A u \in ToSet(l.queue) : u.from \in Nat
  BY <1>1, ToSetIs DEF Placed
<1>3. \A u \in ToSet(l.queue) : u.from \div Frame \in Nat
  BY <1>2, FrameOf
<1>4. S \in SUBSET Nat /\ S # {}
  BY <1>1, <1>3
<1>5. \E n \in S : \A m \in S : n <= m
  BY <1>4, Least
<1>6. OldestNeeded(l) = Min(S)
  BY DEF OldestNeeded
<1>7. \A u \in ToSet(l.queue) : u.from \div Frame \in S
  OBVIOUS
<1> HIDE DEF S
<1>8. Min(S) \in S /\ \A m \in S : Min(S) <= m
  BY <1>5 DEF Min
<1>9. QED
  BY <1>4, <1>6, <1>7, <1>8

LEMMA ShorterSieve ==
    ASSUME NEW S, NEW s \in Seq(S), NEW t \in Seq(S), Distinct(s), Distinct(t),
           Ids(t) \subseteq Ids(s)
    PROVE  Len(t) <= Len(s)
<1>1. IsFiniteSet(Ids(s)) /\ Cardinality(Ids(s)) = Len(s) /\ Cardinality(Ids(t)) = Len(t)
  BY CountIs
<1>2. Cardinality(Ids(t)) <= Cardinality(Ids(s))
  BY <1>1, FS_Subset
<1>3. QED
  BY <1>1, <1>2

LEMMA PushHolds ==
    ASSUME maxPending \in Nat, NEW l, NEW D, Holds(l, D), NEW k \in Nat
    PROVE  LET n == PushFrames(l, k) IN
           /\ Holds(n, D) /\ ToSet(n.queue) \subseteq ToSet(l.queue)
           /\ FramesAreKept(l) => FramesAreKept(n)
<1> DEFINE m == [l EXCEPT !.received = @ + k]
           stuck == {u \in ToSet(m.queue) : Stuck(m, u)}
           given == Only(m.queue, stuck)
           stay == Only(m.queue, ToSet(m.queue) \ stuck)
           rest == [m EXCEPT !.queue = stay]
           gone == Park(rest, given)
           oldest == OldestNeeded(gone)
           from == Max({gone.first, Min({gone.received - KeptFrames, oldest})})
           n == PushFrames(l, k)
<1>1. l \in Labelers
  BY DEF Holds
<1>2. n = [gone EXCEPT !.first = from]
  BY DEF PushFrames
<1>3. /\ m \in Labelers /\ m.queue = l.queue /\ m.parked = l.parked /\ m.first = l.first
      /\ m.received = l.received + k
  BY SMTT(40), <1>1 DEF Labelers
<1>4. /\ m.queue \in Seq(Placed) /\ m.parked \in Seq(Utts)
  BY <1>3, LabelerFields
<1>5. stuck \in SUBSET ToSet(m.queue)
  OBVIOUS
<1>6. Distinct(m.queue) /\ Distinct(m.parked)
  BY <1>3 DEF Holds
<1> HIDE DEF m, stuck
<1>7. /\ given \in Seq(Placed) /\ stay \in Seq(Placed) /\ Distinct(given) /\ Distinct(stay)
      /\ ToSet(given) = stuck /\ ToSet(stay) = ToSet(m.queue) \ stuck
      /\ Ids(given) \cap Ids(stay) = {} /\ Ids(given) \cup Ids(stay) = Ids(m.queue)
  BY <1>4, <1>5, <1>6, SplitIs
<1> HIDE DEF given, stay
<1>8. /\ rest \in Labelers /\ rest.queue = stay /\ rest.parked = l.parked
      /\ rest.first = l.first /\ rest.received = m.received
  BY <1>3, <1>7 DEF Labelers
<1> HIDE DEF rest
<1>9. given \in Seq(Utts)
  <2>1. Placed \subseteq Utts
    BY DEF Placed
  <2>2. QED
    BY <1>7, <2>1, SeqMonotonic
<1>10. Len(rest.parked) + Len(given) <= Cap
  <2>1. PICK a \in Nat, b \in Nat, c \in Nat :
            a = Len(l.parked) /\ b = Len(l.queue) /\ c = Len(given)
    BY <1>1, <1>7, LabelerFields, LenProperties
  <2>2. b + a = Cardinality(D) /\ Cardinality(D) <= Cap
    BY <2>1, HeldCount
  <2>3. c <= b
    <3>1. Ids(given) \subseteq Ids(m.queue)
      BY <1>7
    <3>2. Len(given) <= Len(m.queue)
      BY <1>4, <1>6, <1>7, <3>1, ShorterSieve
    <3>3. QED
      BY <1>3, <2>1, <3>2
  <2>4. Cap \in Nat
    BY CapIs
  <2>5. a + c <= Cap
    BY <2>2, <2>3, <2>4
  <2>6. QED
    BY <1>8, <2>1, <2>5
<1>11. /\ gone \in Labelers /\ gone.queue = stay /\ gone.first = l.first
       /\ gone.received = m.received /\ gone.parked = l.parked \o given
  BY <1>8, <1>9, <1>10, ParkIs
<1> HIDE DEF gone
<1>12. oldest \in Nat /\ \A u \in ToSet(stay) : oldest <= u.from \div Frame
  BY <1>11, OldestNeededIs
<1> HIDE DEF oldest
<1>13. from \in Nat /\ (from <= l.first \/ from <= oldest)
  <2>1. PICK r \in Int : r = gone.received - KeptFrames
    <3>1. Frame \in Nat \ {0} /\ History \in Nat
      BY DiarizerAssumption
    <3>2. KeptFrames \in Int
      BY <3>1 DEF KeptFrames, Ceil
    <3>3. gone.received \in Nat
      BY <1>11, LabelerFields
    <3>4. QED
      BY <3>2, <3>3
  <2>2. Min({r, oldest}) = IF r <= oldest THEN r ELSE oldest
    BY <1>12, MinOfTwo
  <2>3. PICK x \in Int : x = Min({r, oldest}) /\ x <= oldest
    BY <1>12, <2>2
  <2>4. gone.first = l.first /\ l.first \in Nat
    BY <1>1, <1>11, LabelerFields
  <2>5. Max({l.first, x}) = IF l.first >= x THEN l.first ELSE x
    BY <2>4, MaxOfTwo
  <2>6. from = Max({l.first, x})
    BY <2>1, <2>3, <2>4
  <2> HIDE DEF from
  <2>7. QED
    BY <1>12, <2>3, <2>4, <2>5, <2>6
<1> HIDE DEF from, n
<1>14. /\ n \in Labelers /\ n.queue = stay /\ n.parked = l.parked \o given /\ n.first = from
  BY <1>2, <1>11, <1>13 DEF Labelers
<1>15. Holds(n, D)
  <2>1. Ids(l.queue) \cap Ids(l.parked) = {} /\ Ids(l.queue) \cup Ids(l.parked) = D
    BY DEF Holds
  <2>2. Ids(l.parked) \cap Ids(given) = {} /\ Ids(l.parked) \cap Ids(stay) = {}
    BY <1>3, <1>7, <2>1
  <2>3. l.parked \in Seq(Utts) /\ Distinct(l.parked)
    BY <1>1, LabelerFields DEF Holds
  <2>4. /\ Ids(l.parked \o given) = Ids(l.parked) \cup Ids(given)
        /\ Distinct(l.parked \o given)
    <3>1. Distinct(l.parked) /\ Distinct(given) /\ Ids(l.parked) \cap Ids(given) = {}
      BY <1>7, <2>2, <2>3
    <3>2. /\ Ids(l.parked \o given) = Ids(l.parked) \cup Ids(given)
          /\ Distinct(l.parked) /\ Distinct(given) /\ Ids(l.parked) \cap Ids(given) = {}
               => Distinct(l.parked \o given)
      BY <1>9, <2>3, ConcatIs
    <3>3. QED
      BY <3>1, <3>2
  <2>5. Ids(n.queue) = Ids(stay) /\ Ids(n.parked) = Ids(l.parked) \cup Ids(given)
        /\ Distinct(n.queue) /\ Distinct(n.parked)
    BY <1>7, <1>14, <2>4
  <2>6. Ids(n.queue) \cap Ids(n.parked) = {} /\ Ids(n.queue) \cup Ids(n.parked) = D
    BY <1>3, <1>7, <2>1, <2>2, <2>5
  <2>7. QED
    BY <1>14, <2>5, <2>6 DEF Holds
<1>16. ToSet(n.queue) \subseteq ToSet(l.queue)
  BY <1>3, <1>7, <1>14
<1>17. ASSUME FramesAreKept(l) PROVE FramesAreKept(n)
  <2> SUFFICES ASSUME NEW u \in ToSet(n.queue), u.kept PROVE n.first <= u.from \div Frame
    BY DEF FramesAreKept
  <2>1. u \in ToSet(stay) /\ u \in ToSet(l.queue)
    BY <1>14, <1>16
  <2>2. PICK g \in Nat : g = u.from \div Frame
    <3>1. u.from \in Nat
      BY <1>7, <2>1, ToSetIs DEF Placed
    <3>2. QED
      BY <3>1, FrameOf
  <2>3. oldest <= g /\ l.first <= g
    BY <1>12, <1>17, <2>1, <2>2 DEF FramesAreKept
  <2>4. l.first \in Nat
    BY <1>1, LabelerFields
  <2>5. from <= g
    BY <1>12, <1>13, <2>2, <2>3, <2>4
  <2>6. QED
    BY <1>14, <2>2, <2>5
<1>18. QED
  BY <1>15, <1>16, <1>17 DEF n

LEMMA PollHolds ==
    ASSUME maxPending \in Nat, NEW l, NEW D, Holds(l, D)
    PROVE  LET n == Poll(l) IN
           /\ Holds(n, D \ {a.u.id : a \in PollAnswers(l)})
           /\ ToSet(n.queue) \subseteq ToSet(l.queue)
           /\ FramesAreKept(l) => FramesAreKept(n)
<1> DEFINE n == Poll(l)
           due == Due(l)
           stay == Only(l.queue, ToSet(l.queue) \ due)
           given == Only(l.queue, due)
           told == {a.u.id : a \in PollAnswers(l)}
<1>1. l \in Labelers
  BY DEF Holds
<1>2. /\ l.queue \in Seq(Placed) /\ l.parked \in Seq(Utts)
      /\ Distinct(l.queue) /\ Distinct(l.parked)
      /\ Ids(l.queue) \cap Ids(l.parked) = {} /\ Ids(l.queue) \cup Ids(l.parked) = D
      /\ IsFiniteSet(D) /\ Cardinality(D) <= Cap
  BY <1>1, LabelerFields DEF Holds
<1>3. due \in SUBSET ToSet(l.queue)
  BY DEF Due
<1>4. /\ given \in Seq(Placed) /\ stay \in Seq(Placed) /\ Distinct(given) /\ Distinct(stay)
      /\ ToSet(given) = due /\ ToSet(stay) = ToSet(l.queue) \ due
      /\ Ids(given) \cap Ids(stay) = {} /\ Ids(given) \cup Ids(stay) = Ids(l.queue)
  <2> HIDE DEF due
  <2>1. QED
    BY <1>2, <1>3, SplitIs
<1>5. n = [l EXCEPT !.parked = <<>>, !.queue = stay]
  BY DEF Poll
<1>6. told = Ids(l.parked) \cup Ids(given)
  <2>1. \A u : GivenUp(u).u.id = u.id /\ Labeled(l, u).u.id = u.id
    BY DEF GivenUp, Labeled
  <2>2. Ids(given) = {u.id : u \in due} /\ Ids(l.parked) = {u.id : u \in ToSet(l.parked)}
    BY <1>4 DEF Ids
  <2> HIDE DEF due, given
  <2>3. PollAnswers(l) = {GivenUp(u) : u \in ToSet(l.parked)} \cup {Labeled(l, u) : u \in due}
    BY DEF PollAnswers, due
  <2>4. told = {u.id : u \in ToSet(l.parked)} \cup {u.id : u \in due}
    BY <2>1, <2>3
  <2>5. QED
    BY <2>2, <2>4
<1> HIDE DEF n, due, stay, given, told
<1>7. <<>> \in Seq(Utts) /\ Ids(<<>>) = {} /\ Distinct(<<>>)
  <2>1. <<>> \in Seq(Utts) /\ Len(<<>>) = 0 /\ ToSet(<<>>) = {}
    BY EmptySeq DEF ToSet
  <2>2. QED
    BY <2>1 DEF Ids, Distinct
<1>8. /\ n \in Labelers /\ n.queue = stay /\ n.parked = <<>> /\ n.first = l.first
  BY <1>1, <1>4, <1>5, <1>7 DEF Labelers
<1>9. Ids(n.queue) = D \ told
  BY <1>2, <1>4, <1>6, <1>8
<1>10. IsFiniteSet(D \ told) /\ Cardinality(D \ told) <= Cap
  <2>1. IsFiniteSet(D \ told) /\ Cardinality(D \ told) <= Cardinality(D)
    BY <1>2, FS_Subset
  <2>2. Cardinality(D) \in Nat /\ Cardinality(D \ told) \in Nat /\ Cap \in Nat
    BY <1>2, <2>1, FS_CardinalityType, CapIs
  <2>3. QED
    BY <1>2, <2>1, <2>2
<1>11. Holds(n, D \ told)
  BY <1>4, <1>7, <1>8, <1>9, <1>10 DEF Holds
<1>12. ToSet(n.queue) \subseteq ToSet(l.queue)
  BY <1>4, <1>8
<1>13. FramesAreKept(l) => FramesAreKept(n)
  BY <1>8, <1>12 DEF FramesAreKept
<1>14. QED
  BY <1>11, <1>12, <1>13 DEF n, told

----------------------------------------------------------------------------
(* What is weighed for a label.                                            *)
LEMMA FramesAreOverlaps ==
    ASSUME NEW l \in Labelers, NEW u \in Placed, NEW s \in Spans, NEW o \in Nat,
           u.from = Minus(s.from, o), u.to = Minus(Ending(s), o), Ending(s) > o,
           l.first <= u.from \div Frame
    PROVE  Weighed(l, u) = {f \in 0 .. l.received - 1 : Overlaps(f, s, o)}
<1>1. PICK from \in Int, to \in Int : from = s.from /\ to = Ending(s)
  BY EndingIs
<1>2. from <= to /\ to > o /\ (from # to => s.to = to)
  BY <1>1, EndingIs
<1>3. PICK a \in Nat, b \in Nat : a = u.from /\ b = u.to
  BY DEF Placed
<1>4. a = IF from >= o THEN from - o ELSE 0
  <2>1. Minus(from, o) = IF from >= o THEN from - o ELSE 0
    BY MinusIs
  <2>2. QED
    BY <1>1, <1>3, <2>1
<1>5. b = to - o /\ b > 0
  <2>1. Minus(to, o) = IF to >= o THEN to - o ELSE 0
    BY MinusIs
  <2>2. b = Minus(to, o)
    BY <1>1, <1>3
  <2>3. QED
    BY <1>2, <2>1, <2>2
<1>6. Frame \in Nat /\ Frame > 0
  BY DiarizerAssumption
<1>7. PICK g \in Nat : g = a \div Frame
  BY FrameOf
<1>8. \A f \in Int : f <= g <=> f * Frame <= a
  BY <1>7, FrameOf
<1>9. PICK r \in Nat : r = l.received
  BY LabelerFields
<1>10. PICK last \in Int : last = IF a = b THEN a \div Frame ELSE (b - 1) \div Frame
  <2>1. b - 1 \in Nat
    BY <1>5
  <2>2. (b - 1) \div Frame \in Nat
    BY <2>1, FrameOf
  <2>3. QED
    BY <1>7, <2>2
<1>11. Weighed(l, u) = g .. Min({r - 1, last})
  <2>1. PICK z \in Nat : z = l.first
    BY LabelerFields
  <2>2. Max({z, g}) = IF z >= g THEN z ELSE g
    BY MaxOfTwo
  <2>3. z <= g
    BY <1>3, <1>7, <2>1
  <2>4. Max({z, g}) = g
    BY <2>2, <2>3
  <2>5. Weighed(l, u) = Max({l.first, u.from \div Frame}) .. Min({l.received - 1, last})
    BY <1>3, <1>10 DEF Weighed
  <2>6. QED
    BY <1>3, <1>7, <1>9, <2>1, <2>4, <2>5
<1>12. PICK e \in Int : e = Min({r - 1, last}) /\ \A f \in Int : f <= e <=> f <= r - 1 /\ f <= last
  <2>1. PICK y \in Int : y = r - 1
    OBVIOUS
  <2>2. Min({y, last}) = IF y <= last THEN y ELSE last
    BY MinOfTwo
  <2>3. QED
    BY <2>1, <2>2
<1>13. ASSUME NEW f \in Int
       PROVE  f \in g .. e <=> f \in 0 .. r - 1 /\ Overlaps(f, s, o)
  <2>1. PICK h \in Int : h = f * Frame
    BY <1>6
  <2>2. (f + 1) * Frame = h + Frame
    BY <1>6, <2>1
  <2>3. f <= g <=> h <= a
    BY <1>8, <2>1
  <2>4. g <= f <=> a < h + Frame
    <3>1. f + 1 <= g <=> h + Frame <= a
      <4>1. f + 1 \in Int
        OBVIOUS
      <4>2. f + 1 <= g <=> (f + 1) * Frame <= a
        BY <1>8, <4>1
      <4>3. QED
        BY <2>2, <4>2
    <3>2. QED
      BY <3>1, <1>6, <2>1
  <2>5. Overlaps(f, s, o) <=> IF from = to THEN o + h <= from /\ from < o + h + Frame
                                           ELSE o + h < to /\ from < o + h + Frame
    BY <1>1, <1>2, <2>1 DEF Overlaps
  <2>6. CASE a = b
    <3>1. from = to /\ from = o + a
      BY <1>2, <1>4, <1>5, <2>6
    <3>2. last = g
      BY <1>7, <1>10, <2>6
    <3>3. Overlaps(f, s, o) <=> f <= g /\ g <= f
      BY <2>1, <2>3, <2>4, <2>5, <3>1, <1>6
    <3>4. f <= e <=> f <= r - 1 /\ f <= g
      BY <1>12, <3>2
    <3>5. QED
      BY <3>3, <3>4
  <2>7. CASE a # b
    <3>1. from # to
      BY <1>4, <1>5, <2>7
    <3>2. f <= last <=> h < b
      <4>1. b - 1 \in Nat
        BY <1>5
      <4>2. f <= (b - 1) \div Frame <=> f * Frame <= b - 1
        BY <4>1, FrameOf
      <4>3. last = (b - 1) \div Frame
        BY <1>10, <2>7
      <4>4. QED
        BY <2>1, <4>2, <4>3
    <3>3. f >= 0 => h >= 0
      BY <1>6, <2>1
    <3>4. f >= 0 => (from < o + h + Frame <=> a < h + Frame)
      BY <1>4, <1>6, <2>1, <3>3
    <3>5. o + h < to <=> h < b
      BY <1>5, <2>1
    <3>6. Overlaps(f, s, o) <=> o + h < to /\ from < o + h + Frame
      BY <2>5, <3>1
    <3>7. f >= 0 => (Overlaps(f, s, o) <=> f <= last /\ g <= f)
      BY <2>4, <3>2, <3>4, <3>5, <3>6
    <3>8. f <= e <=> f <= r - 1 /\ f <= last
      BY <1>12
    <3>9. CASE f >= 0
      BY <3>7, <3>8, <3>9
    <3>10. CASE f < 0
      BY <3>10
    <3>11. QED
      BY <3>9, <3>10
  <2>8. QED
    BY <2>6, <2>7
<1>14. Weighed(l, u) = g .. e
  BY <1>11, <1>12
<1>15. ASSUME NEW f PROVE f \in g .. e <=> f \in {x \in 0 .. r - 1 : Overlaps(x, s, o)}
  BY <1>13
<1>16. g .. e = {x \in 0 .. r - 1 : Overlaps(x, s, o)}
  BY <1>15, Zenon
<1>17. QED
  BY <1>9, <1>14, <1>16

(* An event's frames are those its utterance overlaps.                     *)
IsWeighed(e) ==
    ~e.dropped /\ e.kept /\ Ending(e.span) > e.origin =>
        e.frames = {f \in 0 .. e.until - 1 : Overlaps(f, e.span, e.origin)}

LEMMA EventsWeighed ==
    ASSUME NEW l, NEW p, Good(l, p, origin), origin \in Nat, NEW A,
           \A a \in A : \/ \E u : a = GivenUp(u)
                        \/ \E u \in ToSet(l.queue) : a = Labeled(l, u)
    PROVE  \A e \in Events(p, A) : IsWeighed(e)
<1> SUFFICES ASSUME NEW e \in Events(p, A), ~e.dropped, e.kept, Ending(e.span) > e.origin
             PROVE  e.frames = {f \in 0 .. e.until - 1 : Overlaps(f, e.span, e.origin)}
  BY DEF IsWeighed
<1>1. PICK a \in A :
          e = [span |-> p[a.u.id], kept |-> a.u.kept, dropped |-> a.dropped,
               frames |-> a.frames, origin |-> origin, until |-> a.until]
  BY DEF Events
<1>2. e.dropped = a.dropped /\ e.kept = a.u.kept /\ e.frames = a.frames
      /\ e.origin = origin /\ e.until = a.until /\ e.span = p[a.u.id]
  BY <1>1
<1>3. \A u : GivenUp(u).dropped
  BY DEF GivenUp
<1>4. PICK u \in ToSet(l.queue) : a = Labeled(l, u)
  BY <1>2, <1>3
<1>5. a.u = u /\ a.frames = Weighed(l, u) /\ a.until = l.received
  BY <1>4 DEF Labeled
<1>6. l \in Labelers
  BY DEF Good, Holds
<1>7. u \in Placed
  BY <1>6, LabelerFields, ToSetIs
<1>8. /\ p[u.id] \in Spans
      /\ u.from = Minus(p[u.id].from, origin) /\ u.to = Minus(Ending(p[u.id]), origin)
  BY DEF Good, SpansAre
<1>9. l.first <= u.from \div Frame
  BY <1>2, <1>5 DEF Good, FramesAreKept
<1>10. Ending(p[u.id]) > origin
  BY <1>2, <1>5
<1>11. Weighed(l, u) = {f \in 0 .. l.received - 1 : Overlaps(f, p[u.id], origin)}
  BY <1>6, <1>7, <1>8, <1>9, <1>10, FramesAreOverlaps
<1>12. QED
  BY <1>2, <1>5, <1>11

LEMMA PollWeighed ==
    ASSUME NEW l, NEW p, Good(l, p, origin), origin \in Nat
    PROVE  \A e \in Events(p, PollAnswers(l)) : IsWeighed(e)
<1>1. \A a \in PollAnswers(l) : \/ \E u : a = GivenUp(u)
                                \/ \E u \in ToSet(l.queue) : a = Labeled(l, u)
  BY DEF PollAnswers, Due
<1>2. QED
  BY <1>1, EventsWeighed

LEMMA FlushWeighed ==
    ASSUME maxPending \in Nat, NEW l, NEW p, Good(l, p, origin), origin \in Nat
    PROVE  \A e \in Events(p, FlushAnswers(l)) : IsWeighed(e)
<1>1. ToSet(Poll(l).queue) \subseteq ToSet(l.queue)
  BY PollHolds DEF Good
<1>2. \A a \in FlushAnswers(l) : \/ \E u : a = GivenUp(u)
                                 \/ \E u \in ToSet(l.queue) : a = Labeled(l, u)
  BY <1>1 DEF FlushAnswers, PollAnswers, Due
<1>3. QED
  BY <1>2, EventsWeighed

----------------------------------------------------------------------------
(* The pipeline's side.                                                    *)
LEMMA PushGood ==
    ASSUME maxPending \in Nat, NEW l, NEW p, NEW o, Good(l, p, o), NEW k \in Nat
    PROVE  Good(PushFrames(l, k), p, o)
<1> DEFINE n == PushFrames(l, k)
<1>1. Holds(l, DOMAIN p) /\ FramesAreKept(l) /\ SpansAre(l, p, o)
  BY DEF Good
<1>2. /\ Holds(n, DOMAIN p) /\ ToSet(n.queue) \subseteq ToSet(l.queue)
      /\ FramesAreKept(l) => FramesAreKept(n)
  BY <1>1, PushHolds
<1> HIDE DEF n
<1>3. SpansAre(n, p, o)
  BY <1>1, <1>2 DEF SpansAre
<1>4. QED
  BY <1>1, <1>2, <1>3 DEF Good, n

LEMMA WithoutIs ==
    ASSUME NEW p, NEW A
    PROVE  /\ DOMAIN Without(p, A) = DOMAIN p \ {a.u.id : a \in A}
           /\ \A id \in DOMAIN p \ {a.u.id : a \in A} : Without(p, A)[id] = p[id]
BY DEF Without, Restrict

LEMMA PollGood ==
    ASSUME maxPending \in Nat, NEW l, NEW p, NEW o, Good(l, p, o)
    PROVE  Good(Poll(l), Without(p, PollAnswers(l)), o)
<1> DEFINE n == Poll(l)
           w == Without(p, PollAnswers(l))
<1>1. Holds(l, DOMAIN p) /\ FramesAreKept(l) /\ SpansAre(l, p, o)
  BY DEF Good
<1>2. /\ DOMAIN w = DOMAIN p \ {a.u.id : a \in PollAnswers(l)}
      /\ \A id \in DOMAIN p \ {a.u.id : a \in PollAnswers(l)} : w[id] = p[id]
  BY WithoutIs
<1>3. /\ Holds(n, DOMAIN p \ {a.u.id : a \in PollAnswers(l)})
      /\ ToSet(n.queue) \subseteq ToSet(l.queue)
      /\ FramesAreKept(l) => FramesAreKept(n)
  BY <1>1, PollHolds
<1>4. Holds(n, DOMAIN w)
  BY <1>2, <1>3
<1> HIDE DEF n, w
<1>5. \A u \in ToSet(n.queue) : u.id \in DOMAIN w
  BY <1>4 DEF Holds, Ids
<1>6. \A u \in ToSet(n.queue) : w[u.id] = p[u.id]
  BY <1>2, <1>5
<1>7. SpansAre(n, w, o)
  BY <1>1, <1>3, <1>6 DEF SpansAre
<1>8. QED
  BY <1>1, <1>3, <1>4, <1>7 DEF Good, n, w

(* A flush answers everyone.                                               *)
LEMMA FlushAnswersAll ==
    ASSUME maxPending \in Nat, NEW l, NEW p, NEW o, Good(l, p, o)
    PROVE  DOMAIN Without(p, FlushAnswers(l)) = {}
<1> DEFINE told == {a.u.id : a \in PollAnswers(l)}
           rest == Ids(Poll(l).queue)
<1>1. Holds(l, DOMAIN p)
  BY DEF Good
<1>2. Holds(Poll(l), DOMAIN p \ told)
  BY <1>1, PollHolds
<1>3. Poll(l).parked = <<>>
  BY <1>1 DEF Poll, Holds, Labelers
<1>4. Ids(<<>>) = {}
  BY DEF Ids, ToSet
<1>5. rest = DOMAIN p \ told
  BY <1>2, <1>3, <1>4 DEF Holds
<1>6. rest = {Labeled(l, u).u.id : u \in ToSet(Poll(l).queue)}
  BY DEF Ids, Labeled
<1>7. {a.u.id : a \in FlushAnswers(l)} = told \cup rest
  BY <1>6 DEF FlushAnswers
<1>8. DOMAIN Without(p, FlushAnswers(l)) = DOMAIN p \ {a.u.id : a \in FlushAnswers(l)}
  BY WithoutIs
<1>9. QED
  BY <1>5, <1>7, <1>8

LEMMA EmptyIsGood ==
    ASSUME maxPending \in Nat, NEW p, NEW o, DOMAIN p = {}
    PROVE  Good(EmptyLabeler, p, o)
<1>1. <<>> \in Seq(Utts) /\ <<>> \in Seq(Placed) /\ Len(<<>>) = 0 /\ ToSet(<<>>) = {}
  BY EmptySeq DEF ToSet
<1>2. Ids(<<>>) = {} /\ Distinct(<<>>)
  BY <1>1 DEF Ids, Distinct
<1>3. /\ EmptyLabeler.queue = <<>> /\ EmptyLabeler.parked = <<>>
      /\ EmptyLabeler \in Labelers
  BY <1>1 DEF EmptyLabeler, Labelers
<1>4. IsFiniteSet({}) /\ Cardinality({}) = 0 /\ Cap \in Nat
  BY FS_EmptySet, CapIs
<1>5. Holds(EmptyLabeler, DOMAIN p)
  BY <1>2, <1>3, <1>4 DEF Holds
<1>6. SpansAre(EmptyLabeler, p, o) /\ FramesAreKept(EmptyLabeler)
  BY <1>1, <1>3 DEF SpansAre, FramesAreKept
<1>7. QED
  BY <1>5, <1>6 DEF Good

LEMMA RegisteredIs ==
    ASSUME nextId \in Nat, origin \in Nat, first \in Nat,
           NEW s \in Spans \cup {Unplaceable}
    PROVE  LET u == Registered(s) IN
           /\ u \in Utts /\ u.id = nextId
           /\ u.from \in Nat => /\ u.to \in Nat /\ s \in Spans
                                /\ u.from = Minus(s.from, origin)
                                /\ u.to = Minus(s.to, origin)
                                /\ u.kept => first <= u.from \div Frame
<1> DEFINE u == Registered(s)
           from == SessionLocal(s.from)
           to == SessionLocal(s.to)
<1>1. /\ u.id = nextId /\ u.from = from /\ u.to = to
      /\ u.kept = (from # None /\ from >= first * Frame)
      /\ u = [id |-> u.id, from |-> u.from, to |-> u.to, kept |-> u.kept]
  BY DEF Registered
<1>2. u.kept \in BOOLEAN
  BY DEF Registered
<1>3. u.kept => from # None /\ from >= first * Frame
  BY <1>1
<1>4. None \notin Int /\ Frame \in Nat
  BY DiarizerAssumption
<1> HIDE DEF u
<1>5. CASE s \in Spans
  <2>1. s.from \in Int /\ s.to \in Int
    BY <1>5, EndingIs
  <2>2. from = Minus(s.from, origin) /\ to = Minus(s.to, origin)
    BY <2>1, <1>4 DEF SessionLocal
  <2>3. from \in Nat /\ to \in Nat
    <3>1. PICK a \in Int, b \in Int : a = s.from /\ b = s.to
      BY <2>1
    <3>2. Minus(a, origin) = IF a >= origin THEN a - origin ELSE 0
      BY MinusIs
    <3>3. Minus(b, origin) = IF b >= origin THEN b - origin ELSE 0
      BY MinusIs
    <3>4. Minus(a, origin) \in Nat /\ Minus(b, origin) \in Nat
      BY <3>2, <3>3
    <3>5. QED
      BY <2>2, <3>1, <3>4
  <2> HIDE DEF from, to
  <2>4. u.kept => first <= from \div Frame
    <3>1. first <= from \div Frame <=> first * Frame <= from
      BY <2>3, FrameOf
    <3>2. first * Frame \in Nat
      BY <1>4
    <3>3. QED
      BY <1>3, <2>3, <3>1, <3>2
  <2>5. u \in Utts
    BY <1>1, <1>2, <2>3 DEF Utts
  <2>6. QED
    BY <1>1, <1>5, <2>2, <2>3, <2>4, <2>5 DEF u
<1>6. CASE s = Unplaceable
  <2>1. from = None /\ to = None
    BY <1>6 DEF Unplaceable, SessionLocal
  <2> HIDE DEF from, to
  <2>2. u \in Utts
    BY <1>1, <1>2, <2>1 DEF Utts
  <2>3. QED
    BY <1>1, <1>4, <2>1, <2>2 DEF u
<1>7. QED
  BY <1>5, <1>6

LEMMA AddGood ==
    ASSUME IInv, NEW s \in Spans \cup {Unplaceable}, Grants(s)
    PROVE  /\ Good(AddUtterance(Labeler, Registered(s)), Granted(s), origin)
           /\ DOMAIN Granted(s) \subseteq 0 .. nextId
<1> DEFINE u == Registered(s)
           p == Granted(s)
           l == Labeler
           n == AddUtterance(l, u)
<1>1. /\ maxPending \in Nat /\ origin \in Nat /\ nextId \in Nat
      /\ DOMAIN pending \subseteq 0 .. nextId - 1
      /\ Holds(l, DOMAIN pending) /\ SpansAre(l, pending, origin) /\ FramesAreKept(l)
  BY DEF IInv, Good
<1>2. l.first = first /\ first \in Nat
  <2>1. l.first = first /\ l \in Labelers
    BY <1>1 DEF Labeler, Holds
  <2>2. QED
    BY <2>1, LabelerFields
<1>3. /\ u \in Utts /\ u.id = nextId
      /\ u.from \in Nat => /\ u.to \in Nat /\ s \in Spans
                           /\ u.from = Minus(s.from, origin)
                           /\ u.to = Minus(s.to, origin)
                           /\ u.kept => first <= u.from \div Frame
  BY <1>1, <1>2, RegisteredIs
<1>4. /\ DOMAIN p = DOMAIN pending \cup {nextId} /\ p[nextId] = s
      /\ nextId \notin DOMAIN pending
      /\ \A id \in DOMAIN pending : p[id] = pending[id]
  <2>1. nextId \notin DOMAIN pending
    BY <1>1
  <2>2. QED
    BY <2>1 DEF Granted
<1>5. Cardinality(DOMAIN pending) < Cap
  <2>1. IsFiniteSet(DOMAIN pending)
    BY <1>1 DEF Holds
  <2>2. Cardinality(DOMAIN pending) \in Nat /\ Cap \in Nat
    BY <1>1, <2>1, FS_CardinalityType, CapIs
  <2>3. ~(Cardinality(DOMAIN pending) >= Cap)
    BY DEF Grants, Full
  <2>4. QED
    BY <2>2, <2>3
<1> HIDE DEF u, p, l
<1>6. u.id \notin DOMAIN pending
  BY <1>3, <1>4
<1>7. u.from \in Nat => u.to \in Nat
  BY <1>3
<1>8. /\ Holds(n, DOMAIN pending \cup {u.id}) /\ n.first = l.first
      /\ \A x \in ToSet(n.queue) :
            x \in ToSet(l.queue) \/ (x = Clamped(u) /\ u.from \in Nat)
  BY <1>1, <1>3, <1>5, <1>6, <1>7, AddHolds
<1> HIDE DEF n
<1>8a. ASSUME u.from \in Nat
       PROVE  LET v == Clamped(u) IN
              /\ v.id = nextId /\ s \in Spans /\ v.from = Minus(s.from, origin)
              /\ v.to = Minus(Ending(s), origin)
              /\ v.kept => first <= v.from \div Frame
  <2>1. /\ u.to \in Nat /\ s \in Spans /\ u.from = Minus(s.from, origin)
        /\ u.to = Minus(s.to, origin) /\ (u.kept => first <= u.from \div Frame)
    BY <1>3, <1>8a
  <2>2. Minus(Ending(s), origin) = IF u.from >= u.to THEN u.from ELSE u.to
    BY <1>1, <2>1, EndingIs
  <2> DEFINE v == Clamped(u)
  <2>3. /\ v.id = u.id /\ v.from = u.from /\ v.kept = u.kept
        /\ v.to = IF u.from >= u.to THEN u.from ELSE u.to
    BY <1>3, <1>8a, <2>1, ClampedIs
  <2> HIDE DEF v
  <2>4. QED
    BY <1>3, <2>1, <2>2, <2>3 DEF v
<1>9. Holds(n, DOMAIN p)
  BY <1>3, <1>4, <1>8
<1>10. SpansAre(n, p, origin)
  <2> SUFFICES ASSUME NEW x \in ToSet(n.queue)
               PROVE  /\ p[x.id] \in Spans
                      /\ x.from = Minus(p[x.id].from, origin)
                      /\ x.to = Minus(Ending(p[x.id]), origin)
    BY DEF SpansAre
  <2>1. CASE x \in ToSet(l.queue)
    <3>1. x.id \in DOMAIN pending
      BY <1>1, <2>1 DEF Holds, Ids
    <3>2. p[x.id] = pending[x.id]
      BY <1>4, <3>1
    <3>3. QED
      BY <1>1, <2>1, <3>2 DEF SpansAre
  <2>2. CASE x = Clamped(u) /\ u.from \in Nat
    BY <1>4, <1>8a, <2>2
  <2>3. QED
    BY <1>8, <2>1, <2>2
<1>11. FramesAreKept(n)
  BY <1>1, <1>2, <1>8, <1>8a DEF FramesAreKept
<1>12. DOMAIN p \subseteq 0 .. nextId
  BY <1>1, <1>4
<1>13. QED
  BY <1>9, <1>10, <1>11, <1>12 DEF Good, n, p, l, u

LEMMA RegisterGood ==
    ASSUME IInv, NEW s \in Spans \cup {None}
    PROVE  LET r == AfterRegister(s) IN
           /\ Good(r.l, r.p, origin) /\ r.n \in Nat /\ DOMAIN r.p \subseteq 0 .. r.n - 1
<1>1. nextId \in Nat /\ DOMAIN pending \subseteq 0 .. nextId - 1
      /\ Good(Labeler, pending, origin)
  BY DEF IInv
<1>2. CASE s # None /\ Grants(s)
  <2>1. s \in Spans \cup {Unplaceable}
    BY <1>2
  <2>2. /\ Good(AddUtterance(Labeler, Registered(s)), Granted(s), origin)
        /\ DOMAIN Granted(s) \subseteq 0 .. nextId
    BY <1>2, <2>1, AddGood
  <2> DEFINE r == AfterRegister(s)
  <2>3. /\ r.l = AddUtterance(Labeler, Registered(s)) /\ r.p = Granted(s)
        /\ r.n = nextId + 1
    BY <1>2 DEF AfterRegister
  <2> HIDE DEF r
  <2>4. r.n \in Nat /\ r.n - 1 = nextId
    BY <1>1, <2>3
  <2>5. QED
    BY <2>2, <2>3, <2>4 DEF r
<1>3. CASE ~(s # None /\ Grants(s))
  BY <1>1, <1>3 DEF AfterRegister
<1>4. QED
  BY <1>2, <1>3

----------------------------------------------------------------------------
(* Every call.                                                             *)
LEMMA BecomeIs ==
    ASSUME NEW n \in Labelers, Become(n)
    PROVE  Labeler' = n
BY DEF Become, Labeler, Labelers

LEMMA GoodAfter ==
    ASSUME NEW n, NEW p, NEW o, Good(n, p, o), Become(n), maxPending' = maxPending,
           pending' = p, origin' = o
    PROVE  Good(Labeler, pending, origin)'
<1>1. n \in Labelers
  BY DEF Good, Holds
<1>2. Labeler' = n
  BY <1>1, BecomeIs
<1>3. Cap' = Cap
  BY DEF Cap
<1>4. Holds(n, DOMAIN p) /\ SpansAre(n, p, o) /\ FramesAreKept(n)
  BY DEF Good
<1>5. Holds(Labeler, DOMAIN pending)'
  BY <1>2, <1>3, <1>4 DEF Holds
<1>6. SpansAre(Labeler, pending, origin)'
  BY <1>2, <1>4 DEF SpansAre
<1>7. FramesAreKept(Labeler)'
  BY <1>2, <1>4 DEF FramesAreKept
<1>8. QED
  BY <1>5, <1>6, <1>7 DEF Good

LEMMA WeighedAfter ==
    ASSUME NEW E, \A e \in E : IsWeighed(e), events' = E
    PROVE  WholeSpanIsWeighed'
BY DEF WholeSpanIsWeighed, IsWeighed

LEMMA InitOk == Init => IInv
<1> SUFFICES ASSUME Init PROVE IInv
  OBVIOUS
<1>1. /\ maxPending \in Nat /\ now \in Nat /\ origin \in Nat /\ nextId \in Nat
      /\ pending = Nothing /\ nextId = 0 /\ events = {}
  BY DiarizerAssumption DEF Init
<1>2. Labeler = EmptyLabeler
  BY DEF Init, Labeler, EmptyLabeler
<1>3. DOMAIN pending = {}
  BY <1>1 DEF Nothing
<1>4. Good(Labeler, pending, origin)
  BY <1>1, <1>2, <1>3, EmptyIsGood
<1>5. WholeSpanIsWeighed
  BY <1>1 DEF WholeSpanIsWeighed
<1>6. QED
  BY <1>1, <1>3, <1>4, <1>5 DEF IInv

LEMMA NextOk == IInv /\ [Next]_vars => IInv'
<1> SUFFICES ASSUME IInv, [Next]_vars PROVE IInv'
  OBVIOUS
<1>1. /\ maxPending \in Nat /\ now \in Nat /\ origin \in Nat /\ nextId \in Nat
      /\ DOMAIN pending \subseteq 0 .. nextId - 1 /\ ~live => pending = Nothing
      /\ Good(Labeler, pending, origin) /\ WholeSpanIsWeighed
  BY DEF IInv
<1>2. DOMAIN Nothing = {}
  BY DEF Nothing
<1>3. ASSUME events' = {} PROVE WholeSpanIsWeighed'
  BY <1>3 DEF WholeSpanIsWeighed
<1>4. ASSUME DOMAIN pending' = {}, Become(EmptyLabeler), maxPending' = maxPending
      PROVE  Good(Labeler, pending, origin)'
  <2>1. Good(EmptyLabeler, pending', origin')
    BY <1>1, <1>4, EmptyIsGood
  <2>2. QED
    BY <1>4, <2>1, GoodAfter
<1>5. ASSUME Stopped, events' = {}, maxPending' = maxPending, now' \in Nat, origin' \in Nat,
             nextId' \in Nat
      PROVE  IInv'
  <2>1. live' = FALSE /\ Become(EmptyLabeler) /\ pending' = Nothing
    BY <1>5 DEF Stopped
  <2>2. DOMAIN pending' = {}
    BY <1>2, <2>1
  <2>3. Good(Labeler, pending, origin)'
    BY <1>4, <1>5, <2>1, <2>2
  <2>4. WholeSpanIsWeighed'
    BY <1>3, <1>5
  <2>5. QED
    BY <1>1, <1>5, <2>1, <2>2, <2>3, <2>4 DEF IInv
<1>6. ASSUME NEW s \in Spans \cup {Unplaceable}, Add(s) PROVE IInv'
  <2>1. /\ Grants(s) /\ Become(AddUtterance(Labeler, Registered(s)))
        /\ pending' = Granted(s) /\ nextId' = nextId + 1 /\ events' = {}
        /\ maxPending' = maxPending /\ now' = now /\ live' = live /\ origin' = origin
    BY <1>6 DEF Add
  <2>2. /\ Good(AddUtterance(Labeler, Registered(s)), Granted(s), origin)
        /\ DOMAIN Granted(s) \subseteq 0 .. nextId
    BY <2>1, AddGood
  <2>3. Good(Labeler, pending, origin)'
    BY <2>1, <2>2, GoodAfter
  <2>5. live
    BY <2>1 DEF Grants
  <2>6. nextId' \in Nat /\ DOMAIN pending' \subseteq 0 .. nextId' - 1
    BY <1>1, <2>1, <2>2
  <2>7. WholeSpanIsWeighed'
    BY <1>3, <2>1
  <2>8. QED
    BY <1>1, <2>1, <2>3, <2>5, <2>6, <2>7 DEF IInv
<1>7. ASSUME NEW n \in Chunks, NEW s \in Spans \cup {None}, NEW k \in 0 .. Ceil(MaxTime),
             Hear(n, s, k)
      PROVE  IInv'
  <2> DEFINE r == AfterRegister(s)
             l == PushFrames(r.l, k)
             w == Without(r.p, PollAnswers(l))
             E == Events(r.p, PollAnswers(l))
  <2>1. /\ live /\ now' = now + n /\ nextId' = r.n /\ Become(Poll(l))
        /\ pending' = w /\ events' = E
        /\ maxPending' = maxPending /\ live' = live /\ origin' = origin
    BY <1>7 DEF Hear
  <2>2. Good(r.l, r.p, origin) /\ r.n \in Nat /\ DOMAIN r.p \subseteq 0 .. r.n - 1
    BY RegisterGood
  <2>3. k \in Nat
    BY DiarizerAssumption DEF Ceil
  <2> HIDE DEF r
  <2>4. Good(l, r.p, origin)
    BY <1>1, <2>2, <2>3, PushGood
  <2> HIDE DEF l
  <2>5. Good(Poll(l), w, origin)
    BY <1>1, <2>4, PollGood
  <2>6. \A e \in E : IsWeighed(e)
    BY <1>1, <2>4, PollWeighed
  <2>7. DOMAIN w \subseteq 0 .. r.n - 1
    <3>1. DOMAIN w \subseteq DOMAIN r.p
      BY ZenonT(40), WithoutIs
    <3>2. QED
      BY <2>2, <3>1
  <2> HIDE DEF w, E
  <2>8. Good(Labeler, pending, origin)'
    BY <2>1, <2>5, GoodAfter
  <2>9. WholeSpanIsWeighed'
    BY <2>1, <2>6, WeighedAfter
  <2>10. now' \in Nat
    BY <1>1, <2>1, DiarizerAssumption
  <2>11. QED
    BY <1>1, <2>1, <2>2, <2>7, <2>8, <2>9, <2>10 DEF IInv
<1>8. ASSUME NEW n \in Chunks, NEW s \in Spans \cup {None}, HearFails(n, s) PROVE IInv'
  <2>1. /\ now' = now + n /\ Stopped /\ nextId' = AfterRegister(s).n /\ events' = {}
        /\ maxPending' = maxPending /\ origin' = origin
    BY <1>8 DEF HearFails
  <2>2. AfterRegister(s).n \in Nat
    BY RegisterGood
  <2>3. now' \in Nat
    BY <1>1, <2>1, DiarizerAssumption
  <2>4. QED
    BY <1>1, <1>5, <2>1, <2>2, <2>3
<1>9. ASSUME NEW n \in Chunks, HearWithoutDiarizer(n) PROVE IInv'
  <2>1. /\ now' = now + n /\ events' = {} /\ maxPending' = maxPending /\ live' = live
        /\ origin' = origin /\ first' = first /\ received' = received /\ queue' = queue
        /\ parked' = parked /\ lost' = lost /\ pending' = pending /\ nextId' = nextId
    BY <1>9 DEF HearWithoutDiarizer, labeler
  <2>2. Become(Labeler)
    BY <2>1 DEF Become, Labeler
  <2>3. Good(Labeler, pending, origin)'
    BY <1>1, <2>1, <2>2, GoodAfter
  <2>4. now' \in Nat
    BY <1>1, <2>1, DiarizerAssumption
  <2>5. WholeSpanIsWeighed'
    BY <1>3, <2>1
  <2>6. QED
    BY <1>1, <2>1, <2>3, <2>4, <2>5 DEF IInv
<1>10. ASSUME NEW s \in Spans \cup {None}, NEW k \in 0 .. Ceil(MaxTime), Flush(s, k)
       PROVE  IInv'
  <2> DEFINE r == AfterRegister(s)
             l == PushFrames(r.l, k)
             w == Without(r.p, FlushAnswers(l))
             E == Events(r.p, FlushAnswers(l))
  <2>1. /\ Become(EmptyLabeler) /\ origin' = now /\ nextId' = r.n /\ events' = E
        /\ \/ live' = TRUE /\ pending' = w
           \/ live' = FALSE /\ pending' = Nothing
        /\ maxPending' = maxPending /\ now' = now
    BY <1>10 DEF Flush
  <2>2. Good(r.l, r.p, origin) /\ r.n \in Nat /\ DOMAIN r.p \subseteq 0 .. r.n - 1
    BY RegisterGood
  <2>3. k \in Nat
    BY DiarizerAssumption DEF Ceil
  <2> HIDE DEF r
  <2>4. Good(l, r.p, origin)
    BY <1>1, <2>2, <2>3, PushGood
  <2> HIDE DEF l
  <2>5. DOMAIN w = {}
    BY <1>1, <2>4, FlushAnswersAll
  <2>6. \A e \in E : IsWeighed(e)
    BY <1>1, <2>4, FlushWeighed
  <2> HIDE DEF w, E
  <2>7. DOMAIN pending' = {} /\ (~live' => pending' = Nothing)
    BY <1>2, <2>1, <2>5
  <2>8. Good(Labeler, pending, origin)'
    BY <1>4, <2>1, <2>7
  <2>9. WholeSpanIsWeighed'
    BY <2>1, <2>6, WeighedAfter
  <2>10. QED
    BY <1>1, <2>1, <2>2, <2>7, <2>8, <2>9 DEF IInv
<1>11. ASSUME NEW s \in Spans \cup {None}, FlushFails(s) PROVE IInv'
  <2>1. /\ Stopped /\ nextId' = AfterRegister(s).n /\ events' = {}
        /\ maxPending' = maxPending /\ now' = now /\ origin' = origin
    BY <1>11 DEF FlushFails
  <2>2. AfterRegister(s).n \in Nat
    BY RegisterGood
  <2>3. QED
    BY <1>1, <1>5, <2>1, <2>2
<1>12. ASSUME Reset PROVE IInv'
  <2>1. /\ now' = 0 /\ origin' = 0 /\ Become(EmptyLabeler) /\ pending' = Nothing
        /\ events' = {} /\ maxPending' = maxPending /\ nextId' = nextId
    BY <1>12 DEF Reset
  <2>2. DOMAIN pending' = {}
    BY <1>2, <2>1
  <2>3. Good(Labeler, pending, origin)'
    BY <1>4, <2>1, <2>2
  <2>4. WholeSpanIsWeighed'
    BY <1>3, <2>1
  <2>5. QED
    BY <1>1, <2>1, <2>2, <2>3, <2>4 DEF IInv
<1>13. CASE UNCHANGED vars
  <2>1. /\ maxPending' = maxPending /\ now' = now /\ live' = live /\ origin' = origin
        /\ Become(Labeler) /\ pending' = pending /\ nextId' = nextId /\ events' = events
    BY <1>13 DEF vars, stream, labeler, Become, Labeler
  <2>2. Good(Labeler, pending, origin)'
    BY <1>1, <2>1, GoodAfter
  <2>3. WholeSpanIsWeighed'
    BY <1>1, <2>1 DEF WholeSpanIsWeighed
  <2>4. QED
    BY <1>1, <2>1, <2>2, <2>3 DEF IInv
<1>14. QED
  BY <1>6, <1>7, <1>8, <1>9, <1>10, <1>11, <1>12, <1>13 DEF Next

----------------------------------------------------------------------------
(* The queues' invariant, with the frames that are kept for those who wait *)
(* and what the last call's events were labeled from, holds in every state *)
(* (register, push_audio, poll, finish_and_restart, fail, reset).          *)
THEOREM DiarizerInvariant == Spec => []IInv
<1>1. QED
  BY InitOk, NextOk, PTL DEF Spec

(* register's answer is kept: "Returns whether a diarizer will label it".  *)
(* Whatever max_pending is, and however often a session fails, is flushed  *)
(* or is reset, an utterance the pipeline waits for is held once, in one   *)
(* of the labeler's queues, and none is ever pushed out of them.           *)
THEOREM DiarizerGrantsHeld == Spec => []EveryGrantIsHeld
<1>1. IInv => EveryGrantIsHeld
  <2> SUFFICES ASSUME IInv PROVE EveryGrantIsHeld
    OBVIOUS
  <2>1. maxPending \in Nat /\ (~live => pending = Nothing) /\ Holds(Labeler, DOMAIN pending)
    BY DEF IInv, Good
  <2>2. Labeler.queue = queue /\ Labeler.parked = parked /\ Labeler.lost = lost
    BY DEF Labeler
  <2>3. Len(queue) + Len(parked) = Cardinality(DOMAIN pending)
    BY <2>1, <2>2, HeldCount
  <2>4. Ids(queue) \cup Ids(parked) = DOMAIN pending
    BY <2>1, <2>2 DEF Holds
  <2>5. {u.id : u \in ToSet(queue) \cup ToSet(parked)} = DOMAIN pending
    BY <2>4 DEF Ids
  <2>6. lost = 0
    BY <2>1, <2>2, LabelerFields DEF Holds
  <2>7. QED
    BY <2>1, <2>3, <2>5, <2>6 DEF EveryGrantIsHeld
<1>2. QED
  BY DiarizerInvariant, <1>1, PTL

(* "pending utterances keep their frames alive until released"             *)
(* (push_frames): an utterance registered while its first frame was kept   *)
(* is labeled from all the frames of its own audio and from no other, for  *)
(* every frame length, history and stream, and for every pair of times a   *)
(* caller gives: a reversed one is the point at its start.                 *)
THEOREM DiarizerWholeSpan == Spec => []WholeSpanIsWeighed
<1>1. IInv => WholeSpanIsWeighed
  BY DEF IInv
<1>2. QED
  BY DiarizerInvariant, <1>1, PTL

=============================================================================
