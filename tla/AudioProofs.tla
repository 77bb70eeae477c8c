----------------------------- MODULE AudioProofs ----------------------------
(***************************************************************************)
(* What AudioPipeline promises, for any detectors, any sizes and any       *)
(* chunks.  IInv types the clocks and carries the diarizer's clock and the *)
(* cooldown between wake words; Places, the second half, says where every  *)
(* buffer lies in the stream: the utterance, the history it may reach back *)
(* into and the wake detector's ring are stretches of it, and the voice    *)
(* detector's clock, from where it was reset, is the stream's.             *)
(***************************************************************************)
EXTENDS AudioPipeline, SequenceTheorems, TLAPS

Calls == {Idle} \cup [kind : {"chunk"}, before : Int, left : Int]
                \cup [kind : {"flush"}, closes : BOOLEAN]
Sessions == {NoSession} \cup [live : {TRUE}, origin : Int, heard : Int]
VadStates == [clock : Int, triggered : BOOLEAN, tempEnd : Int \cup {None}, buffered : Int]
HotStates == [clock : Int, lastEval : Int, cooldownUntil : Int, ring : Seq(Int)]
Saids == [open : Int \cup {None}, from : Int, to : Int, wake : Int \cup {None}]
Endings == {None} \cup [to : Int, continues : BOOLEAN]
VadEvents == {None} \cup [kind : {"start", "end"}, at : Int]

(* The clocks are numbers, the buffers are sequences of them, and an       *)
(* utterance ends only where there is one.                                 *)
Types ==
    /\ now \in Int /\ pausedAt \in Int /\ vadOffset \in Int /\ start \in Int
    /\ history \in Seq(Int) /\ utterance \in Seq(Int)
    /\ vad \in VadStates /\ hot \in HotStates /\ said \in Saids
    /\ call \in Calls /\ diarizer \in Sessions /\ ending \in Endings
    /\ ending # None => state \in {"SpeechActive", "Transcribing"} /\ call.kind # "idle"

(* During a chunk the diarizer is where the call began.                    *)
DiarizerInv ==
    diarizer.live =>
        diarizer.origin + diarizer.heard = IF call.kind = "chunk" THEN call.before ELSE now

(* The cooldown, on whichever clock it is kept, reaches as far as it would *)
(* on the stream's: while the wake detector listens by what is left of it, *)
(* while it is paused by the whole of it.                                  *)
WakeInv ==
    said.wake # None =>
        IF state = "ListeningForHotword"
        THEN said.wake + Cooldown <= now + Minus(hot.cooldownUntil, hot.clock)
        ELSE pausedAt = said.wake /\ hot.cooldownUntil = hot.clock + Cooldown

IInv == Types /\ DiarizerInv /\ WakeInv

----------------------------------------------------------------------------
(* What the helpers return.                                                *)

(* A set of numbers with a least and a greatest keeps them when one joins. *)
LEMMA OneMore ==
    ASSUME NEW S \in SUBSET Int, NEW x \in Int,
           \E m \in S : \A y \in S : m <= y
    PROVE  \E m \in S \cup {x} : \A y \in S \cup {x} : m <= y
<1>1. PICK m \in S : \A y \in S : m <= y
  OBVIOUS
<1>2. CASE m <= x
  BY <1>1, <1>2
<1>3. CASE x < m
  BY <1>1, <1>3
<1> QED
  BY <1>2, <1>3

LEMMA MinIs ==
    ASSUME NEW S \in SUBSET Int, \E m \in S : \A y \in S : m <= y
    PROVE  Min(S) \in S /\ \A y \in S : Min(S) <= y
BY DEF Min

LEMMA MinOfTwo ==
    ASSUME NEW a \in Int, NEW b \in Int
    PROVE  Min({a, b}) \in {a, b} /\ Min({a, b}) <= a /\ Min({a, b}) <= b
<1>1. \E m \in {a} : \A y \in {a} : m <= y
  OBVIOUS
<1>2. \E m \in {a} \cup {b} : \A y \in {a} \cup {b} : m <= y
  BY <1>1, OneMore
<1>3. {a, b} = {a} \cup {b}
  OBVIOUS
<1> QED
  BY <1>2, <1>3, MinIs

LEMMA MaxOfTwo ==
    ASSUME NEW a \in Int, NEW b \in Int
    PROVE  Max({a, b}) = IF a >= b THEN a ELSE b
<1>1. \E x \in {a, b} : \A y \in {a, b} : x >= y
  <2>1. CASE a >= b
    BY <2>1
  <2>2. CASE a < b
    BY <2>2
  <2> QED
    BY <2>1, <2>2
<1> QED
  BY <1>1 DEF Max

LEMMA MaxOfThree ==
    ASSUME NEW a \in Int, NEW b \in Int, NEW c \in Int
    PROVE  Max({a, b, c}) \in Int
<1>1. \E x \in {a, b, c} : \A y \in {a, b, c} : x >= y
  <2>1. CASE a >= b /\ a >= c
    BY <2>1
  <2>2. CASE b >= a /\ b >= c
    BY <2>2
  <2>3. CASE c >= a /\ c >= b
    BY <2>3
  <2> QED
    BY <2>1, <2>2, <2>3
<1> QED
  BY <1>1 DEF Max

LEMMA MinusIs ==
    ASSUME NEW a \in Int, NEW b \in Int
    PROVE  Minus(a, b) = IF a >= b THEN a - b ELSE 0
<1>1. Max({0, a - b}) = IF 0 >= a - b THEN 0 ELSE a - b
  BY MaxOfTwo
<1> QED
  BY <1>1 DEF Minus

LEMMA ClampIsInt ==
    ASSUME NEW x \in Int, NEW lo \in Int, NEW hi \in Int
    PROVE  Clamp(x, lo, hi) \in Int
<1>1. Max({lo, x}) \in Int
  BY MaxOfTwo
<1> QED
  BY <1>1, MinOfTwo DEF Clamp

LEMMA SpanIsSeq ==
    ASSUME NEW a \in Int, NEW b \in Int
    PROVE  Span(a, b) \in Seq(Int)
<1>1. PICK n \in Nat : 1 .. b - a = 1 .. n
  <2>1. CASE b >= a
    BY <2>1
  <2>2. CASE b < a
    <3>1. 1 .. b - a = 1 .. 0
      BY <2>2
    <3> QED
      BY <3>1
  <2> QED
    BY <2>1, <2>2
<1>2. Span(a, b) \in [1 .. n -> Int]
  BY <1>1 DEF Span
<1> QED
  BY <1>2

LEMMA CutIsSeq ==
    ASSUME NEW s \in Seq(Int), NEW m \in Int, NEW n \in Int, m >= 1, n <= Len(s)
    PROVE  SubSeq(s, m, n) \in Seq(Int)
<1>1. CASE m <= n
  BY <1>1
<1>2. CASE m > n
  <2>1. SubSeq(s, m, n) = << >>
    BY <1>2
  <2> QED
    BY <2>1
<1> QED
  BY <1>1, <1>2

(* A prefix, and the newest of a buffer, of no more than there is.         *)
LEMMA PrefixIsSeq ==
    ASSUME NEW s \in Seq(Int), NEW n \in Int
    PROVE  SubSeq(s, 1, Min({n, Len(s)})) \in Seq(Int)
<1> DEFINE m == Min({n, Len(s)})
<1>1. Len(s) \in Int
  OBVIOUS
<1>2. m \in Int /\ m <= Len(s)
  BY <1>1, MinOfTwo
<1> HIDE DEF m
<1>3. SubSeq(s, 1, m) \in Seq(Int)
  BY <1>2, CutIsSeq
<1> QED
  BY <1>3 DEF m

LEMMA NewestIsSeq ==
    ASSUME NEW s \in Seq(Int), NEW n \in Int, n <= Len(s)
    PROVE  Newest(s, n) \in Seq(Int)
BY CutIsSeq DEF Newest

LEMMA NewestOfIsSeq ==
    ASSUME NEW s \in Seq(Int), NEW n \in Int
    PROVE  Newest(s, Min({n, Len(s)})) \in Seq(Int)
<1>1. Len(s) \in Int
  OBVIOUS
<1>2. Min({n, Len(s)}) \in Int /\ Min({n, Len(s)}) <= Len(s)
  BY <1>1, MinOfTwo
<1> QED
  BY <1>2, NewestIsSeq

(* The detectors' steps keep their types.                                  *)
LEMMA VadStepType ==
    ASSUME NEW v \in VadStates, NEW n \in Int, NEW verdict, AudioAssumption
    PROVE  VadStep(v, n, verdict).vad \in VadStates /\ VadStep(v, n, verdict).event \in VadEvents
<1> DEFINE hop == Hopped(v, v.buffered + n)
<1> DEFINE stop == Min({Silenced(v) + Pad, hop.clock})
<1> DEFINE onset == Minus(v.clock, Pad)
<1> DEFINE quiet == Silenced(v)
<1>1. Window \in Int /\ Stride \in Int /\ Pad \in Int /\ MinSilence \in Int
  BY DEF AudioAssumption
<1>2. /\ v.clock \in Int /\ v.triggered \in BOOLEAN /\ v.buffered \in Int
      /\ v.tempEnd \in Int \cup {None}
  BY DEF VadStates
<1>3. v.clock + Stride \in Int /\ (v.buffered + n) - Stride \in Int
  BY <1>1, <1>2
<1>4. hop = [v EXCEPT !.clock = v.clock + Stride, !.buffered = (v.buffered + n) - Stride]
  BY <1>1, <1>2 DEF Hopped
<1>5. hop \in VadStates
  BY <1>3, <1>4 DEF VadStates
<1>6. hop.clock \in Int
  BY <1>5 DEF VadStates
<1>7. quiet \in Int
  BY <1>2 DEF Silenced
<1>8. quiet + Pad \in Int
  BY <1>1, <1>7
<1>9. onset \in Int
  BY <1>1, <1>2, MinusIs
<1>10. stop \in Int
  BY <1>6, <1>8, MinOfTwo
<1> HIDE DEF hop, stop, onset, quiet
<1>11. /\ [hop EXCEPT !.triggered = TRUE, !.tempEnd = None] \in VadStates
       /\ [hop EXCEPT !.triggered = FALSE, !.tempEnd = None] \in VadStates
       /\ [hop EXCEPT !.tempEnd = None] \in VadStates
       /\ [hop EXCEPT !.tempEnd = quiet] \in VadStates
  BY <1>5, <1>7 DEF VadStates
<1>13. [v EXCEPT !.buffered = v.buffered + n] \in VadStates
  BY <1>2 DEF VadStates
<1>12. /\ [kind |-> "start", at |-> onset] \in VadEvents
       /\ [kind |-> "end", at |-> stop] \in VadEvents
       /\ None \in VadEvents
  BY <1>9, <1>10 DEF VadEvents
<1> QED
  BY <1>5, <1>11, <1>12, <1>13 DEF VadStep, hop, stop, onset, quiet

LEMMA HearingType ==
    ASSUME Types, AudioAssumption, NEW n \in Int
    PROVE  /\ Hearing(n) \in HotStates
           /\ Hearing(n).clock = hot.clock + n
           /\ Hearing(n).cooldownUntil = hot.cooldownUntil
<1> DEFINE ring == hot.ring \o Span(now, now + n)
<1> DEFINE kept == Newest(ring, Min({Ring, Len(ring)}))
<1> DEFINE clock == hot.clock + n
<1> DEFINE eval == IF clock - hot.lastEval >= Hop THEN clock ELSE hot.lastEval
<1>1. /\ now \in Int /\ now + n \in Int /\ Ring \in Int /\ hot \in HotStates
      /\ hot.clock \in Int /\ hot.lastEval \in Int /\ hot.ring \in Seq(Int)
  BY DEF Types, HotStates, AudioAssumption
<1>2. Span(now, now + n) \in Seq(Int)
  BY <1>1, SpanIsSeq
<1>3. ring \in Seq(Int)
  BY <1>1, <1>2
<1>4. kept \in Seq(Int)
  <2> HIDE DEF ring
  <2> QED
    BY <1>1, <1>3, NewestOfIsSeq
<1>5. clock \in Int /\ eval \in Int
  BY <1>1
<1>6. Hearing(n) = [hot EXCEPT !.clock = clock, !.lastEval = eval, !.ring = kept]
  BY DEF Hearing
<1> HIDE DEF kept, eval
<1> QED
  BY <1>1, <1>4, <1>5, <1>6 DEF HotStates

LEMMA ResumeType ==
    ASSUME Types, NEW n \in Int
    PROVE  /\ ResumeAfterPause(n) \in HotStates
           /\ ResumeAfterPause(n).clock = 0
           /\ ResumeAfterPause(n).cooldownUntil = Minus(Minus(hot.cooldownUntil, hot.clock), n)
<1> DEFINE rest == Minus(hot.cooldownUntil, hot.clock)
<1>1. hot.cooldownUntil \in Int /\ hot.clock \in Int
  BY DEF Types, HotStates
<1>2. rest \in Int
  BY <1>1, MinusIs
<1> HIDE DEF rest
<1>3. Minus(rest, n) \in Int
  BY <1>2, MinusIs
<1>4. << >> \in Seq(Int)
  OBVIOUS
<1>5. ResetHot \in HotStates /\ ResetHot.clock = 0
  BY <1>4 DEF ResetHot, HotStates
<1>6. ResumeAfterPause(n) = [ResetHot EXCEPT !.cooldownUntil = Minus(rest, n)]
  BY DEF ResumeAfterPause, rest
<1>7. /\ ResumeAfterPause(n) \in HotStates /\ ResumeAfterPause(n).clock = 0
      /\ ResumeAfterPause(n).cooldownUntil = Minus(rest, n)
  BY <1>3, <1>5, <1>6 DEF HotStates
<1> QED
  BY <1>7 DEF rest

LEMMA PartIsInt ==
    ASSUME Types, AudioAssumption, call.kind = "chunk"
    PROVE  Part \in Int /\ call.left \in Int
<1>1. call.left \in Int
  BY DEF Types, Calls, Idle
<1>2. SamplesUntilWindow \in Int
  <2>1. Window - vad.buffered \in Int
    BY DEF Types, VadStates, AudioAssumption
  <2> QED
    BY <2>1, MaxOfTwo DEF SamplesUntilWindow
<1>3. MaxUtterance - Len(utterance) \in Int
  BY DEF Types, AudioAssumption
<1> DEFINE a == IF HasVad THEN SamplesUntilWindow ELSE call.left
<1> DEFINE b == IF state = "SpeechActive" THEN MaxUtterance - Len(utterance) ELSE call.left
<1> DEFINE S == ({call.left} \cup {a}) \cup {b}
<1>4. a \in Int /\ b \in Int
  BY <1>1, <1>2, <1>3
<1> HIDE DEF a, b
<1>5. \E m \in S : \A y \in S : m <= y
  <2>1. \E m \in {call.left} : \A y \in {call.left} : m <= y
    BY <1>1
  <2>2. \E m \in {call.left} \cup {a} : \A y \in {call.left} \cup {a} : m <= y
    BY <1>1, <1>4, <2>1, OneMore
  <2> QED
    BY <1>1, <1>4, <2>2, OneMore
<1>6. Min(S) \in S
  BY <1>1, <1>4, <1>5, MinIs
<1>7. S = {call.left}
          \cup (IF HasVad THEN {SamplesUntilWindow} ELSE {})
          \cup (IF state = "SpeechActive" THEN {MaxUtterance - Len(utterance)} ELSE {})
  BY DEF a, b
<1> QED
  BY <1>1, <1>4, <1>6, <1>7 DEF Part

LEMMA RememberedIsSeq ==
    ASSUME Types, AudioAssumption, NEW n \in Int
    PROVE  Remembered(n) \in Seq(Int) /\ Spoken(n) \in Seq(Int)
<1>1. now \in Int /\ now + n \in Int /\ history \in Seq(Int) /\ utterance \in Seq(Int)
  BY DEF Types
<1>2. Span(now, now + n) \in Seq(Int)
  BY <1>1, SpanIsSeq
<1>3. HistoryLimit \in Int
  BY DEF HistoryLimit, AudioAssumption
<1>4. history \o Span(now, now + n) \in Seq(Int) /\ utterance \o Span(now, now + n) \in Seq(Int)
  BY <1>1, <1>2
<1>5. Remembered(n) \in Seq(Int)
  BY <1>3, <1>4, NewestOfIsSeq DEF Remembered
<1> QED
  BY <1>1, <1>4, <1>5 DEF Spoken

(* The beginning of the end of an utterance.                               *)
LEMMA EndUtteranceType ==
    ASSUME NEW buffer \in Seq(Int), NEW from \in Int, NEW to \in Int, NEW continues \in BOOLEAN,
           Types, state = "SpeechActive", EndUtterance(buffer, from, to, continues)
    PROVE  /\ ending' \in Endings /\ said' \in Saids /\ said'.wake = said.wake
           /\ utterance' \in Seq(Int) /\ state' \in {"SpeechActive", "Transcribing"}
<1>1. << >> \in Seq(Int)
  OBVIOUS
<1>2. said' = [said EXCEPT !.open = None, !.from = from, !.to = to]
  BY DEF EndUtterance
<1>3. said' \in Saids /\ said'.wake = said.wake
  BY <1>2 DEF Types, Saids
<1> QED
  BY <1>1, <1>3 DEF EndUtterance, Endings

----------------------------------------------------------------------------
(* The steps.                                                              *)
LEMMA InitInv == ASSUME Init, AudioAssumption  PROVE IInv
<1>1. << >> \in Seq(Int)
  OBVIOUS
<1>2. Types
  <2>1. vad \in VadStates /\ hot \in HotStates /\ said \in Saids
    BY <1>1 DEF Init, ResetVad, ResetHot, NothingSaid, VadStates, HotStates, Saids
  <2>2. call \in Calls /\ diarizer \in Sessions /\ ending \in Endings
    BY DEF Init, Calls, Fresh, Sessions, Endings
  <2> QED
    BY <1>1, <2>1, <2>2 DEF Init, Types
<1>3. DiarizerInv
  BY DEF Init, DiarizerInv, Fresh, Idle
<1>4. WakeInv
  BY DEF Init, WakeInv, NothingSaid
<1> QED
  BY <1>2, <1>3, <1>4 DEF IInv


(* What the next state keeps, and what a wake word in this step waits for. *)
WakeStep ==
    said'.wake \notin {said.wake, None} /\ said.wake # None =>
        said'.wake - said.wake >= Cooldown

LEMMA ProcessChunkStep ==
    ASSUME IInv, AudioAssumption, NEW n \in Chunks, ProcessChunk(n)
    PROVE  IInv' /\ WakeStep
<1> USE DEF IInv, ProcessChunk, buffers, detectors, history_
<1>1. Types'
  <2>1. n \in Int /\ now \in Int
    BY DEF AudioAssumption, Types
  <2>2. call' \in Calls
    BY <2>1 DEF Calls
  <2> QED
    BY <2>2 DEF Types
<1>2. DiarizerInv'
  BY DEF DiarizerInv, Idle
<1>3. WakeInv'
  BY DEF WakeInv
<1> QED
  BY <1>1, <1>2, <1>3 DEF WakeStep

(* A part of the chunk is accepted.                                        *)
LEMMA AdvanceType ==
    ASSUME Types, DiarizerInv, call.kind = "chunk", NEW n \in Int, Advance(n), UNCHANGED diarizer
    PROVE  now' \in Int /\ call' \in Calls /\ call'.kind = "chunk" /\ DiarizerInv'
<1>1. /\ now \in Int /\ call.left \in Int
      /\ call \in [kind : {"chunk"}, before : Int, left : Int]
  BY DEF Types, Calls, Idle
<1>2. call.left - n \in Int
  BY <1>1
<1>3. call' \in [kind : {"chunk"}, before : Int, left : Int] /\ call'.before = call.before
  BY <1>1, <1>2 DEF Advance
<1> QED
  BY <1>1, <1>3 DEF Advance, DiarizerInv, Calls

LEMMA ListenForHotwordStep ==
    ASSUME IInv, AudioAssumption, NEW detected \in BOOLEAN, ListenForHotword(detected)
    PROVE  IInv' /\ WakeStep
<1> DEFINE n == Min({call.left, SamplesUntilHop})
<1> DEFINE h == Hearing(n)
<1> DEFINE preRoll == Min({PreRoll, WakePreRollCap, MaxUtterance - Window, now + n, Len(h.ring)})
<1>0. Types /\ DiarizerInv /\ WakeInv
  BY DEF IInv
<1>1. call.kind = "chunk" /\ call.left > 0 /\ ending = None /\ state = "ListeningForHotword"
  BY DEF ListenForHotword, Looping
<1>2. /\ now \in Int /\ call.left \in Int /\ hot.clock \in Int /\ hot.cooldownUntil \in Int
      /\ Cooldown \in Nat
  BY <1>0, <1>1 DEF Types, Calls, Idle, HotStates, AudioAssumption
<1>3. n \in Int /\ n > 0
  <2>1. Hop - (hot.clock - hot.lastEval) \in Int
    BY <1>0, SMTT(40) DEF Types, HotStates, AudioAssumption
  <2>2. SamplesUntilHop \in Int /\ SamplesUntilHop > 0
    BY <2>1, MaxOfTwo DEF SamplesUntilHop
  <2>3. n \in {call.left, SamplesUntilHop}
    BY <1>2, <2>2, MinOfTwo
  <2> QED
    BY <1>1, <1>2, <2>2, <2>3
<1> HIDE DEF n
<1>4. /\ h \in HotStates /\ h.clock = hot.clock + n /\ h.cooldownUntil = hot.cooldownUntil
  BY <1>0, <1>3, HearingType
<1> HIDE DEF h
<1>5. Advance(n) /\ UNCHANGED <<parts, last, start, diarizer, ending>>
  BY DEF ListenForHotword, n
<1>6. now' \in Int /\ now' = now + n /\ call' \in Calls /\ DiarizerInv'
  BY <1>0, <1>1, <1>3, <1>5, AdvanceType DEF Advance
<1>7. CASE detected
  <2> HIDE DEF preRoll
  <2>1. /\ h.clock >= hot.cooldownUntil
        /\ hot' = [h EXCEPT !.cooldownUntil = h.clock + Cooldown]
        /\ pausedAt' = now + n
        /\ history' = Newest(h.ring, preRoll) /\ utterance' = <<>>
        /\ vad' = ResetVad /\ vadOffset' = now + n
        /\ state' = "ListeningForSpeech"
        /\ said' = [said EXCEPT !.wake = now + n]
    BY <1>7 DEF ListenForHotword, n, h, preRoll
  <2>2. preRoll \in Int /\ preRoll <= Len(h.ring)
    <3> DEFINE A == {Len(h.ring)} \cup {now + n}
    <3> DEFINE B == A \cup {MaxUtterance - Window}
    <3> DEFINE C == B \cup {WakePreRollCap}
    <3> DEFINE D == C \cup {PreRoll}
    <3>1. /\ Len(h.ring) \in Int /\ now + n \in Int /\ MaxUtterance - Window \in Int
          /\ WakePreRollCap \in Int /\ PreRoll \in Int
      BY <1>2, <1>3, <1>4 DEF HotStates, AudioAssumption
    <3>2. \E m \in {Len(h.ring)} : \A y \in {Len(h.ring)} : m <= y
      BY <3>1
    <3>3. \E m \in A : \A y \in A : m <= y
      BY <3>1, <3>2, OneMore
    <3>4. \E m \in B : \A y \in B : m <= y
      <4> HIDE DEF A
      <4>1. A \in SUBSET Int
        BY <3>1 DEF A
      <4> QED
        BY <3>1, <3>3, <4>1, OneMore
    <3>5. \E m \in C : \A y \in C : m <= y
      <4> HIDE DEF B
      <4>1. B \in SUBSET Int
        BY <3>1 DEF B
      <4> QED
        BY <3>1, <3>4, <4>1, OneMore
    <3>6. \E m \in D : \A y \in D : m <= y
      <4> HIDE DEF C
      <4>1. C \in SUBSET Int
        BY <3>1 DEF C
      <4> QED
        BY <3>1, <3>5, <4>1, OneMore
    <3>7. D = {PreRoll, WakePreRollCap, MaxUtterance - Window, now + n, Len(h.ring)}
      OBVIOUS
    <3>8. D \in SUBSET Int
      BY <3>1
    <3> HIDE DEF D
    <3>9. preRoll = Min(D)
      BY <3>7 DEF preRoll
    <3>10. Min(D) \in D /\ \A y \in D : Min(D) <= y
      BY <3>6, <3>8, MinIs
    <3>11. Len(h.ring) \in D
      BY <3>7
    <3> QED
      BY <3>8, <3>9, <3>10, <3>11
  <2>3. history' \in Seq(Int) /\ utterance' \in Seq(Int)
    <3>1. h.ring \in Seq(Int)
      BY <1>4 DEF HotStates
    <3> QED
      BY <2>1, <2>2, <3>1, NewestIsSeq
  <2>4. hot' \in HotStates /\ hot'.clock = h.clock /\ hot'.cooldownUntil = h.clock + Cooldown
    <3>1. h.clock + Cooldown \in Int
      BY <1>2, <1>3, <1>4
    <3> QED
      BY <1>4, <2>1, <3>1 DEF HotStates
  <2>5. said' \in Saids /\ said'.wake = now + n
    <3>1. said \in Saids /\ now + n \in Int
      BY <1>0, <1>2, <1>3 DEF Types
    <3>2. said' = [said EXCEPT !.wake = now + n]
      BY <2>1
    <3> QED
      BY <3>1, <3>2 DEF Saids
  <2>6. vad' \in VadStates
    BY <2>1 DEF ResetVad, VadStates
  <2>7. Types'
    BY <1>0, <1>1, <1>2, <1>3, <1>5, <1>6, <2>1, <2>3, <2>4, <2>5, <2>6 DEF Types
  <2>8. WakeInv'
    BY <1>0, <2>1, <2>4, <2>5 DEF WakeInv
  <2>9. WakeStep
    <3>1. Minus(hot.cooldownUntil, hot.clock) <= n
      <4>1. hot.cooldownUntil <= hot.clock + n
        BY <1>4, <2>1
      <4>2. Minus(hot.cooldownUntil, hot.clock) = IF hot.cooldownUntil >= hot.clock
                                                  THEN hot.cooldownUntil - hot.clock ELSE 0
        BY <1>2, MinusIs
      <4> QED
        BY <1>2, <1>3, <4>1, <4>2
    <3>2. SUFFICES ASSUME said.wake # None PROVE said'.wake - said.wake >= Cooldown
      BY DEF WakeStep
    <3>3. said.wake \in Int
      BY <1>0, <3>2 DEF Types, Saids
    <3>4. said.wake + Cooldown <= now + Minus(hot.cooldownUntil, hot.clock)
      BY <1>0, <1>1, <3>2 DEF WakeInv
    <3>5. Minus(hot.cooldownUntil, hot.clock) \in Int
      BY <1>2, MinusIs
    <3> QED
      BY <1>2, <1>3, <2>5, <3>1, <3>3, <3>4, <3>5
  <2> QED
    BY <1>6, <2>7, <2>8, <2>9 DEF IInv
<1>8. CASE ~detected
  <2>1. hot' = h /\ UNCHANGED <<pausedAt, history, utterance, vad, vadOffset, state, said>>
    BY <1>8 DEF ListenForHotword, n, h, history_
  <2>2. Types'
    BY <1>0, <1>1, <1>4, <1>5, <1>6, <2>1 DEF Types
  <2>3. WakeInv'
    <3>1. SUFFICES ASSUME said.wake # None
                   PROVE  said.wake + Cooldown <= now' + Minus(h.cooldownUntil, h.clock)
      BY <1>0, <1>1, <2>1 DEF WakeInv
    <3>2. said.wake \in Int
      BY <1>0, <3>1 DEF Types, Saids
    <3>3. said.wake + Cooldown <= now + Minus(hot.cooldownUntil, hot.clock)
      BY <1>0, <1>1, <3>1 DEF WakeInv
    <3>4. Minus(hot.cooldownUntil, hot.clock) = IF hot.cooldownUntil >= hot.clock
                                                THEN hot.cooldownUntil - hot.clock ELSE 0
      BY <1>2, MinusIs
    <3>5. Minus(h.cooldownUntil, h.clock) = IF hot.cooldownUntil >= hot.clock + n
                                            THEN hot.cooldownUntil - (hot.clock + n) ELSE 0
      BY <1>2, <1>3, <1>4, MinusIs
    <3> QED
      BY <1>2, <1>3, <1>6, <3>2, <3>3, <3>4, <3>5
  <2> QED
    BY <1>6, <2>1, <2>2, <2>3 DEF WakeStep, IInv
<1> QED
  BY <1>7, <1>8

(* While the wake detector is paused, nothing about the wake changes.      *)
LEMMA WakeKept ==
    ASSUME WakeInv, state # "ListeningForHotword", state' # "ListeningForHotword",
           hot' = hot, pausedAt' = pausedAt, said'.wake = said.wake
    PROVE  WakeInv' /\ WakeStep
BY DEF WakeInv, WakeStep

LEMMA OpenType ==
    ASSUME NEW s \in Saids, NEW x \in Int
    PROVE  [s EXCEPT !.open = x] \in Saids /\ [s EXCEPT !.open = x].wake = s.wake
BY DEF Saids

LEMMA SpeakWithoutVadStep ==
    ASSUME IInv, SpeakWithoutVad
    PROVE  IInv' /\ WakeStep
<1>1. Types /\ DiarizerInv /\ WakeInv
  BY DEF IInv
<1>2. /\ state = "ListeningForSpeech" /\ state' = "SpeechActive" /\ ending = None
      /\ start' = Minus(now, Len(history))
      /\ utterance' = utterance \o history /\ history' = <<>>
      /\ said' = [said EXCEPT !.open = start']
      /\ UNCHANGED <<now, vad, vadOffset, hot, pausedAt, diarizer, call, ending>>
  BY DEF SpeakWithoutVad, Looping, detectors
<1>3. now \in Int /\ history \in Seq(Int) /\ utterance \in Seq(Int) /\ said \in Saids
  BY <1>1 DEF Types
<1>4. start' \in Int
  <2>1. history \in Seq(Int)
    BY <1>3
  <2>2. Len(history) \in Int
    BY <2>1
  <2> QED
    <3>1. Minus(now, Len(history)) \in Int
      BY <1>3, <2>2, MinusIs
    <3> QED
      BY <1>2, <3>1
<1>5. utterance' \in Seq(Int) /\ history' \in Seq(Int)
  BY <1>2, <1>3
<1>6. said' \in Saids /\ said'.wake = said.wake
  BY <1>2, <1>3, <1>4, OpenType
<1>7. Types'
  BY <1>1, <1>2, <1>4, <1>5, <1>6 DEF Types
<1>8. DiarizerInv'
  BY <1>1, <1>2 DEF DiarizerInv
<1>9. WakeInv' /\ WakeStep
  BY <1>1, <1>2, <1>6, WakeKept
<1> QED
  BY <1>7, <1>8, <1>9 DEF IInv

(* What the three outcomes of a part have in common.                       *)
LEMMA ListensType ==
    ASSUME IInv, AudioAssumption, NEW verdict, Listens, Advance(Part), UNCHANGED diarizer
    PROVE  /\ Part \in Int /\ now + Part \in Int
           /\ now' \in Int /\ now' = now + Part /\ call' \in Calls /\ DiarizerInv'
           /\ call'.kind = "chunk"
           /\ ending = None /\ state # "ListeningForHotword"
           /\ Remembered(Part) \in Seq(Int) /\ Spoken(Part) \in Seq(Int)
           /\ VadStep(vad, Part, verdict).vad \in VadStates
           /\ VadStep(vad, Part, verdict).event \in VadEvents
<1>1. Types /\ DiarizerInv
  BY DEF IInv
<1>2. call.kind = "chunk" /\ ending = None /\ state # "ListeningForHotword"
  BY DEF Listens, Looping
<1>3. Part \in Int
  BY <1>1, <1>2, PartIsInt
<1>4. now' \in Int /\ call' \in Calls /\ DiarizerInv' /\ call'.kind = "chunk"
  BY <1>1, <1>2, <1>3, AdvanceType
<1>5. Remembered(Part) \in Seq(Int) /\ Spoken(Part) \in Seq(Int)
  BY <1>1, <1>3, RememberedIsSeq
<1>6. /\ VadStep(vad, Part, verdict).vad \in VadStates
      /\ VadStep(vad, Part, verdict).event \in VadEvents
  <2>1. vad \in VadStates
    BY <1>1 DEF Types
  <2> QED
    BY <1>3, <2>1, VadStepType
<1>7. now + Part \in Int
  BY <1>1, <1>3 DEF Types
<1> QED
  BY <1>2, <1>3, <1>4, <1>5, <1>6, <1>7 DEF Advance

LEMMA ListenOnStep ==
    ASSUME IInv, AudioAssumption, NEW verdict \in Verdicts, ListenOn(verdict)
    PROVE  IInv' /\ WakeStep
<1>1. Types /\ DiarizerInv /\ WakeInv
  BY DEF IInv
<1>2. /\ Listens /\ Advance(Part) /\ utterance' = Spoken(Part)
      /\ \/ vad' = VadStep(vad, Part, verdict).vad /\ history' = Remembered(Part)
         \/ UNCHANGED <<vad, history>>
      /\ UNCHANGED <<state, start, vadOffset, hot, pausedAt, diarizer, ending, said>>
  BY DEF ListenOn, history_
<1>3. /\ now' \in Int /\ call' \in Calls /\ DiarizerInv'
      /\ ending = None /\ state # "ListeningForHotword"
      /\ Remembered(Part) \in Seq(Int) /\ Spoken(Part) \in Seq(Int)
      /\ VadStep(vad, Part, verdict).vad \in VadStates
  BY <1>2, ListensType
<1>4. vad' \in VadStates /\ history' \in Seq(Int) /\ utterance' \in Seq(Int)
  <2>1. vad \in VadStates /\ history \in Seq(Int)
    BY <1>1 DEF Types
  <2> QED
    BY <1>2, <1>3, <2>1
<1>5. Types'
  BY <1>1, <1>2, <1>3, <1>4 DEF Types
<1>6. WakeInv' /\ WakeStep
  BY <1>1, <1>2, <1>3, WakeKept
<1> QED
  BY <1>3, <1>5, <1>6 DEF IInv

LEMMA SpeechStartsStep ==
    ASSUME IInv, AudioAssumption, NEW verdict \in Verdicts, SpeechStarts(verdict)
    PROVE  IInv' /\ WakeStep
<1> DEFINE heard == Remembered(Part)
<1> DEFINE event == VadStep(vad, Part, verdict).event
<1>1. Types /\ DiarizerInv /\ WakeInv
  BY DEF IInv
<1>2. /\ Listens /\ Advance(Part) /\ event # None
      /\ vad' = VadStep(vad, Part, verdict).vad /\ history' = heard
      /\ start' = OnsetFrom(event.at, now + Part, heard)
      /\ utterance' = Newest(heard, Min({now + Part - start', Len(heard)}))
      /\ state' = "SpeechActive" /\ said' = [said EXCEPT !.open = start']
      /\ UNCHANGED <<vadOffset, hot, pausedAt, diarizer, ending>>
  BY DEF SpeechStarts
<1>3. /\ Part \in Int /\ now + Part \in Int
      /\ now' \in Int /\ call' \in Calls /\ DiarizerInv'
      /\ ending = None /\ state # "ListeningForHotword"
      /\ heard \in Seq(Int) /\ VadStep(vad, Part, verdict).vad \in VadStates
      /\ event \in VadEvents
  BY <1>2, ListensType
<1> HIDE DEF heard, event
<1>4. event.at \in Int
  BY <1>2, <1>3 DEF VadEvents
<1>5. start' \in Int
  <2>1. /\ vadOffset + event.at \in Int /\ PreRoll \in Int /\ MaxUtterance \in Int
        /\ Len(heard) \in Int
    <3>1. vadOffset \in Int
      BY <1>1 DEF Types
    <3>2. PreRoll \in Int /\ MaxUtterance \in Int
      BY DEF AudioAssumption
    <3>3. Len(heard) \in Int
      BY <1>3
    <3> QED
      BY <1>4, <3>1, <3>2, <3>3
  <2>2. /\ Minus(vadOffset + event.at, PreRoll) \in Int
        /\ Minus(now + Part, Len(heard)) \in Int
        /\ Minus(now + Part, MaxUtterance) \in Int
    <3>1. Minus(vadOffset + event.at, PreRoll) \in Int
      BY <2>1, MinusIs
    <3>2. Minus(now + Part, Len(heard)) \in Int
      BY <1>3, <2>1, MinusIs
    <3>3. Minus(now + Part, MaxUtterance) \in Int
      BY <1>3, <2>1, MinusIs
    <3> QED
      BY <3>1, <3>2, <3>3
  <2> QED
    BY <1>2, <2>2, MaxOfThree DEF OnsetFrom
<1>6. utterance' \in Seq(Int)
  <2>1. now + Part - start' \in Int
    BY SMTT(40), <1>1, <1>3, <1>5 DEF Types
  <2> QED
    BY <1>2, <1>3, <2>1, NewestOfIsSeq
<1>7. said' \in Saids /\ said'.wake = said.wake
  <2>1. said \in Saids
    BY <1>1 DEF Types
  <2> QED
    BY <1>2, <1>5, <2>1, OpenType
<1>8. Types'
  BY <1>1, <1>2, <1>3, <1>5, <1>6, <1>7 DEF Types
<1>9. WakeInv' /\ WakeStep
  BY <1>1, <1>2, <1>3, <1>7, WakeKept
<1> QED
  BY <1>3, <1>8, <1>9 DEF IInv

LEMMA SpeechEndsStep ==
    ASSUME IInv, AudioAssumption, NEW verdict \in Verdicts, SpeechEnds(verdict)
    PROVE  IInv' /\ WakeStep
<1> DEFINE event == VadStep(vad, Part, verdict).event
<1> DEFINE to == Clamp(vadOffset + event.at, start, now + Part)
<1> DEFINE spoken == Spoken(Part)
<1> DEFINE buffer == SubSeq(spoken, 1, Min({to - start, Len(spoken)}))
<1>1. Types /\ DiarizerInv /\ WakeInv
  BY DEF IInv
<1>2. /\ Listens /\ Advance(Part) /\ event # None /\ state = "SpeechActive"
      /\ vad' = VadStep(vad, Part, verdict).vad /\ history' = Remembered(Part)
      /\ EndUtterance(buffer, start, to, FALSE)
      /\ UNCHANGED <<start, vadOffset, hot, pausedAt, diarizer>>
  BY DEF SpeechEnds
<1>3. /\ Part \in Int /\ now + Part \in Int
      /\ now' \in Int /\ call' \in Calls /\ DiarizerInv' /\ call'.kind = "chunk"
      /\ Remembered(Part) \in Seq(Int) /\ spoken \in Seq(Int)
      /\ VadStep(vad, Part, verdict).vad \in VadStates
      /\ event \in VadEvents
  BY <1>2, ListensType
<1> HIDE DEF event, spoken
<1>4. vadOffset + event.at \in Int /\ start \in Int
  <2>1. event.at \in Int
    BY <1>2, <1>3 DEF VadEvents
  <2> QED
    BY <1>1, <2>1 DEF Types
<1>5. to \in Int
  BY <1>3, <1>4, ClampIsInt
<1> HIDE DEF to
<1>6. buffer \in Seq(Int)
  <2>1. to - start \in Int
    BY <1>4, <1>5
  <2> QED
    BY <1>3, <2>1, PrefixIsSeq
<1> HIDE DEF buffer
<1>7. /\ ending' \in Endings /\ said' \in Saids /\ said'.wake = said.wake
      /\ utterance' \in Seq(Int) /\ state' \in {"SpeechActive", "Transcribing"}
  BY <1>1, <1>2, <1>4, <1>5, <1>6, EndUtteranceType
<1>8. Types'
  BY <1>1, <1>2, <1>3, <1>7 DEF Types
<1>9. WakeInv' /\ WakeStep
  BY <1>1, <1>2, <1>7, WakeKept
<1> QED
  BY <1>3, <1>8, <1>9 DEF IInv

LEMMA SplitStep ==
    ASSUME IInv, Split
    PROVE  IInv' /\ WakeStep
<1>1. Types /\ DiarizerInv /\ WakeInv
  BY DEF IInv
<1>2. /\ state = "SpeechActive" /\ EndUtterance(utterance, start, now, HasVad)
      /\ call.kind = "chunk"
      /\ UNCHANGED <<now, history, start, vad, vadOffset, hot, pausedAt, diarizer, call>>
  BY DEF Split, Full, detectors
<1>3. utterance \in Seq(Int) /\ start \in Int /\ now \in Int /\ HasVad \in BOOLEAN
  BY <1>1 DEF Types, HasVad
<1>4. /\ ending' \in Endings /\ said' \in Saids /\ said'.wake = said.wake
      /\ utterance' \in Seq(Int) /\ state' \in {"SpeechActive", "Transcribing"}
  BY <1>1, <1>2, <1>3, EndUtteranceType
<1>5. Types'
  BY <1>1, <1>2, <1>4 DEF Types
<1>6. DiarizerInv'
  BY <1>1, <1>2 DEF DiarizerInv
<1>7. WakeInv' /\ WakeStep
  BY <1>1, <1>2, <1>4, WakeKept
<1> QED
  BY <1>5, <1>6, <1>7 DEF IInv

(* The rest of the end of an utterance; the call may lose what is left.    *)
LEMMA FinishedStep ==
    ASSUME IInv, AudioAssumption, ending # None, Finished,
           \/ call' = call
           \/ call.kind = "chunk" /\ call' = [call EXCEPT !.left = 0]
    PROVE  IInv' /\ WakeStep
<1>1. Types /\ DiarizerInv /\ WakeInv
  BY DEF IInv
<1>2. ending' = None /\ UNCHANGED <<now, utterance, vad, vadOffset, pausedAt, diarizer>>
  BY DEF Finished
<1>3. state # "ListeningForHotword" /\ ending.to \in Int /\ hot \in HotStates /\ now \in Int
      /\ said \in Saids /\ pausedAt \in Int
  BY <1>1 DEF Types, Endings
<1>4. call' \in Calls /\ call'.kind = call.kind /\ (call.kind = "chunk" => call'.before = call.before)
  BY SMTT(40), <1>1 DEF Types, Calls, Idle
<1>5. DiarizerInv'
  BY <1>1, <1>2, <1>4 DEF DiarizerInv
<1>6. CASE ending.continues
  <2>1. /\ state' = "SpeechActive" /\ start' = ending.to
        /\ said' = [said EXCEPT !.open = ending.to] /\ UNCHANGED <<hot, history>>
    BY <1>6 DEF Finished
  <2>2. said' \in Saids /\ said'.wake = said.wake
    BY <1>3, <2>1, OpenType
  <2>3. Types'
    BY <1>1, <1>2, <1>3, <1>4, <2>1, <2>2 DEF Types, Endings
  <2>4. WakeInv' /\ WakeStep
    BY <1>1, <1>2, <1>3, <2>1, <2>2, WakeKept
  <2> QED
    BY <1>5, <2>3, <2>4 DEF IInv
<1>7. CASE ~ending.continues /\ ~WakesFirst
  <2>1. state' = "ListeningForSpeech" /\ UNCHANGED <<hot, history, start, said>>
    BY <1>7 DEF Finished, Listening
  <2>2. Types'
    BY <1>1, <1>2, <1>4, <2>1 DEF Types, Endings
  <2>3. WakeInv' /\ WakeStep
    BY <1>1, <1>2, <1>3, <2>1, WakeKept
  <2> QED
    BY <1>5, <2>2, <2>3 DEF IInv
<1>8. CASE ~ending.continues /\ WakesFirst
  <2> DEFINE left == Minus(hot.cooldownUntil, hot.clock)
  <2>1. /\ state' = "ListeningForHotword" /\ hot' = ResumeAfterPause(now - pausedAt)
        /\ history' = <<>> /\ UNCHANGED <<start, said>>
    BY <1>8 DEF Finished, Listening
  <2>2. now - pausedAt \in Int
    BY <1>3
  <2>3. hot' \in HotStates /\ hot'.clock = 0 /\ hot'.cooldownUntil = Minus(left, now - pausedAt)
    BY <1>1, <2>1, <2>2, ResumeType
  <2> HIDE DEF left
  <2>4. history' \in Seq(Int)
    BY <2>1
  <2>5. Types'
    BY <1>1, <1>2, <1>4, <2>1, <2>3, <2>4 DEF Types, Endings
  <2>6. WakeInv'
    <3>1. SUFFICES ASSUME said.wake # None
                   PROVE  said.wake + Cooldown <= now + Minus(hot'.cooldownUntil, hot'.clock)
      BY <1>2, <2>1 DEF WakeInv
    <3>2. pausedAt = said.wake /\ hot.cooldownUntil = hot.clock + Cooldown
      BY <1>1, <1>3, <3>1 DEF WakeInv
    <3>3. Cooldown \in Nat /\ hot.clock \in Int /\ hot.cooldownUntil \in Int
      BY <1>3 DEF AudioAssumption, HotStates
    <3>4. left = Cooldown
      <4>1. left = IF hot.cooldownUntil >= hot.clock
                   THEN hot.cooldownUntil - hot.clock ELSE 0
        BY <3>3, MinusIs DEF left
      <4> QED
        BY <3>2, <3>3, <4>1
    <3>5. hot'.cooldownUntil = IF Cooldown >= now - pausedAt THEN Cooldown - (now - pausedAt) ELSE 0
      BY <2>2, <2>3, <3>3, <3>4, MinusIs
    <3>6. hot'.cooldownUntil \in Int /\ hot'.cooldownUntil >= 0
      BY <1>3, <3>3, <3>5
    <3>7. Minus(hot'.cooldownUntil, hot'.clock) = hot'.cooldownUntil
      BY <2>3, <3>6, MinusIs
    <3> QED
      BY <1>3, <3>2, <3>3, <3>5, <3>7
  <2> QED
    BY <1>5, <2>1, <2>5, <2>6 DEF IInv, WakeStep
<1> QED
  BY <1>6, <1>7, <1>8

(* A diarizer with a session, a new one, and one without.                  *)
LEMMA LiveSession ==
    ASSUME NEW d \in Sessions, d.live
    PROVE  d \in [live : {TRUE}, origin : Int, heard : Int] /\ d.origin \in Int /\ d.heard \in Int
<1>1. ~NoSession.live
  BY DEF NoSession
<1>2. d \in [live : {TRUE}, origin : Int, heard : Int]
  BY <1>1 DEF Sessions
<1> QED
  BY <1>2

LEMMA FreshSession ==
    ASSUME NEW x \in Int
    PROVE  Fresh(x) \in Sessions /\ Fresh(x).origin + Fresh(x).heard = x
<1>1. Fresh(x) \in [live : {TRUE}, origin : Int, heard : Int]
  BY DEF Fresh
<1>2. Fresh(x).origin = x /\ Fresh(x).heard = 0
  BY DEF Fresh
<1>3. Fresh(x) \in Sessions
  BY <1>1 DEF Sessions
<1> QED
  BY <1>2, <1>3

LEMMA NoSessionIs == NoSession \in Sessions /\ ~NoSession.live
BY DEF NoSession, Sessions

(* The diarizer hears what the chunk accepted, and is at now again.        *)
LEMMA ChunkReturnsStep ==
    ASSUME IInv, ChunkReturns
    PROVE  IInv' /\ WakeStep
<1>1. Types /\ DiarizerInv /\ WakeInv
  BY DEF IInv
<1>2. /\ call.kind = "chunk" /\ ending = None /\ call' = Idle
      /\ diarizer' \in {NoSession,
                        IF diarizer.live THEN [diarizer EXCEPT !.heard = @ + now - call.before]
                                         ELSE diarizer}
      /\ UNCHANGED <<state, now, history, utterance, start, vad, vadOffset, hot, pausedAt,
                     ending, said>>
  BY DEF ChunkReturns, buffers, detectors, history_
<1>3. now \in Int /\ call.before \in Int
  BY <1>1, <1>2 DEF Types, Calls, Idle
<1>4. diarizer' \in Sessions /\ (diarizer'.live => diarizer'.origin + diarizer'.heard = now)
  <2>1. CASE diarizer' = NoSession
    BY <2>1, NoSessionIs
  <2>2. CASE ~diarizer.live /\ diarizer' = diarizer
    BY <1>1, <2>2 DEF Types
  <2>3. CASE diarizer.live /\ diarizer' = [diarizer EXCEPT !.heard = @ + now - call.before]
    <3>1. /\ diarizer \in [live : {TRUE}, origin : Int, heard : Int]
          /\ diarizer.origin \in Int /\ diarizer.heard \in Int
      BY <1>1, <2>3, LiveSession DEF Types
    <3>2. diarizer.origin + diarizer.heard = call.before
      BY <1>1, <1>2, <2>3 DEF DiarizerInv
    <3>3. diarizer.heard + (now - call.before) \in Int
      BY <1>3, <3>1
    <3>4. /\ diarizer' \in [live : {TRUE}, origin : Int, heard : Int]
          /\ diarizer'.origin = diarizer.origin
          /\ diarizer'.heard = diarizer.heard + (now - call.before)
      BY <2>3, <3>1, <3>3
    <3>5. diarizer'.origin + diarizer'.heard = now
      BY <1>3, <3>1, <3>2, <3>4
    <3> QED
      BY <3>4, <3>5 DEF Sessions
  <2> QED
    BY <1>2, <2>1, <2>2, <2>3
<1>5. Types'
  BY <1>1, <1>2, <1>4 DEF Types, Calls
<1>6. DiarizerInv'
  BY <1>2, <1>4 DEF DiarizerInv, Idle
<1>7. WakeInv' /\ WakeStep
  BY <1>1, <1>2 DEF WakeInv, WakeStep
<1> QED
  BY <1>5, <1>6, <1>7 DEF IInv

LEMMA FlushStep ==
    ASSUME IInv, AudioAssumption, Flush
    PROVE  IInv' /\ WakeStep
<1> DEFINE clock == vad.clock + vad.buffered
<1> DEFINE to == FlushEnd(clock)
<1> DEFINE buffer == SubSeq(utterance, 1, Min({to - start, Len(utterance)}))
<1>1. Types /\ DiarizerInv /\ WakeInv
  BY DEF IInv
<1>2. /\ call = Idle /\ call' = [kind |-> "flush", closes |-> state = "SpeechActive"]
      /\ UNCHANGED <<now, history, start, vadOffset, hot, pausedAt, diarizer>>
  BY DEF Flush
<1>3. /\ now \in Int /\ start \in Int /\ vadOffset \in Int /\ utterance \in Seq(Int)
      /\ vad \in VadStates /\ vad.clock \in Int /\ vad.buffered \in Int
      /\ vad.tempEnd \in Int \cup {None} /\ Pad \in Int
  BY <1>1 DEF Types, VadStates, AudioAssumption
<1>4. clock \in Int
  BY <1>3
<1>5. call' \in Calls /\ DiarizerInv' /\ call'.kind # "idle"
  BY <1>1, <1>2 DEF Calls, Idle, DiarizerInv
<1> HIDE DEF clock
<1>6. CASE state = "SpeechActive"
  <2>1. /\ EndUtterance(buffer, start, to, FALSE)
        /\ vad' = IF HasVad THEN [ResetVad EXCEPT !.clock = clock] ELSE vad
    BY <1>6 DEF Flush, clock
  <2>2. to \in Int
    <3> DEFINE at == IF vad.tempEnd = None THEN clock ELSE vad.tempEnd
    <3>1. at \in Int
      BY <1>3, <1>4
    <3> HIDE DEF at
    <3>2. Pad + at \in Int
      BY <1>3, <3>1
    <3>3. Min({Pad + at, clock}) \in Int
      BY <1>4, <3>2, MinOfTwo
    <3>4. vadOffset + Min({Pad + at, clock}) \in Int
      BY <1>3, <3>3
    <3>5. Clamp(vadOffset + Min({Pad + at, clock}), start, now) \in Int
      BY <1>3, <3>4, ClampIsInt
    <3> QED
      BY <1>3, <3>5 DEF FlushEnd, at
  <2> HIDE DEF to
  <2>3. to - start \in Int
    BY <1>3, <2>2
  <2>4. buffer \in Seq(Int)
    BY <1>3, <2>3, PrefixIsSeq
  <2> HIDE DEF buffer
  <2>5. /\ ending' \in Endings /\ said' \in Saids /\ said'.wake = said.wake
        /\ utterance' \in Seq(Int) /\ state' \in {"SpeechActive", "Transcribing"}
    BY <1>1, <1>3, <1>6, <2>1, <2>2, <2>4, EndUtteranceType
  <2>6. vad' \in VadStates
    <3>1. ResetVad \in VadStates
      BY DEF ResetVad, VadStates
    <3>2. [ResetVad EXCEPT !.clock = clock] \in VadStates
      BY <1>4, <3>1 DEF VadStates
    <3> QED
      BY <1>3, <2>1, <3>2
  <2>7. Types'
    BY <1>1, <1>2, <1>5, <2>5, <2>6 DEF Types
  <2>8. WakeInv' /\ WakeStep
    BY <1>1, <1>2, <1>6, <2>5, WakeKept
  <2> QED
    BY <1>5, <2>7, <2>8 DEF IInv
<1>7. CASE state # "SpeechActive"
  <2>1. UNCHANGED <<state, utterance, ending, said, vad>>
    BY <1>7 DEF Flush
  <2>2. Types'
    BY <1>1, <1>2, <1>5, <2>1 DEF Types
  <2>3. WakeInv' /\ WakeStep
    BY <1>1, <1>2, <2>1 DEF WakeInv, WakeStep
  <2> QED
    BY <1>5, <2>2, <2>3 DEF IInv
<1> QED
  BY <1>6, <1>7

LEMMA FlushReturnsStep ==
    ASSUME IInv, FlushReturns
    PROVE  IInv' /\ WakeStep
<1>1. Types /\ DiarizerInv /\ WakeInv
  BY DEF IInv
<1>2. /\ call.kind = "flush" /\ ending = None /\ call' = Idle
      /\ diarizer' \in {NoSession, IF diarizer.live THEN Fresh(now) ELSE diarizer}
      /\ \/ vad' = ResetVad /\ vadOffset' = now /\ history' = <<>>
         \/ UNCHANGED <<vad, vadOffset, history>>
      /\ UNCHANGED <<state, now, utterance, start, hot, pausedAt, ending, said>>
  BY DEF FlushReturns
<1>3. now \in Int /\ diarizer \in Sessions
  BY <1>1 DEF Types
<1>4. diarizer' \in Sessions /\ (diarizer'.live => diarizer'.origin + diarizer'.heard = now)
  <2>1. CASE diarizer' = NoSession
    BY <2>1, NoSessionIs
  <2>2. CASE diarizer' = Fresh(now)
    BY <1>3, <2>2, FreshSession
  <2>3. CASE ~diarizer.live /\ diarizer' = diarizer
    BY <1>3, <2>3
  <2> QED
    BY <1>2, <2>1, <2>2, <2>3
<1>5. vad' \in VadStates /\ vadOffset' \in Int /\ history' \in Seq(Int)
  <2>1. ResetVad \in VadStates /\ << >> \in Seq(Int)
    BY DEF ResetVad, VadStates
  <2> QED
    BY <1>1, <1>2, <2>1 DEF Types
<1>6. Types'
  BY <1>1, <1>2, <1>4, <1>5 DEF Types, Calls
<1>7. DiarizerInv'
  BY <1>2, <1>4 DEF DiarizerInv, Idle
<1>8. WakeInv' /\ WakeStep
  BY <1>1, <1>2 DEF WakeInv, WakeStep
<1> QED
  BY <1>6, <1>7, <1>8 DEF IInv

LEMMA ResetStep ==
    ASSUME IInv, Reset
    PROVE  IInv' /\ WakeStep
<1>1. Types /\ call = Idle
  BY DEF IInv, Reset
<1>2. << >> \in Seq(Int)
  OBVIOUS
<1>3. vad' \in VadStates /\ hot' \in HotStates /\ said' \in Saids /\ said'.wake = None
  BY <1>2 DEF Reset, ResetVad, ResetHot, NothingSaid, VadStates, HotStates, Saids
<1>4. diarizer' \in Sessions /\ (diarizer'.live => diarizer'.origin + diarizer'.heard = 0)
  <2>1. diarizer' = NoSession \/ diarizer' = Fresh(0)
    BY DEF Reset
  <2> QED
    BY <2>1, NoSessionIs, FreshSession
<1>5. Types'
  BY <1>1, <1>2, <1>3, <1>4 DEF Reset, Types, Idle
<1>6. DiarizerInv'
  BY <1>1, <1>4 DEF Reset, DiarizerInv, Idle
<1>7. WakeInv' /\ WakeStep
  BY <1>3 DEF WakeInv, WakeStep
<1> QED
  BY <1>5, <1>6, <1>7 DEF IInv

LEMMA TakeLastUtteranceStep ==
    ASSUME IInv, TakeLastUtterance \/ UNCHANGED vars
    PROVE  IInv' /\ WakeStep
<1>1. UNCHANGED <<state, now, history, utterance, start, vad, vadOffset, hot, pausedAt, diarizer,
                  call, ending, said>>
  BY DEF TakeLastUtterance, vars, buffers, detectors, history_
<1>2. Types /\ DiarizerInv /\ WakeInv
  BY DEF IInv
<1>3. Types'
  BY <1>1, <1>2 DEF Types
<1> QED
  BY <1>1, <1>2, <1>3 DEF IInv, DiarizerInv, WakeInv, WakeStep

LEMMA NextStep ==
    ASSUME IInv, AudioAssumption, [Next]_vars
    PROVE  IInv' /\ WakeStep
<1>1. ASSUME NEW n \in Chunks, ProcessChunk(n)  PROVE IInv' /\ WakeStep
  BY <1>1, ProcessChunkStep
<1>2. ASSUME NEW detected \in BOOLEAN, ListenForHotword(detected)  PROVE IInv' /\ WakeStep
  BY <1>2, ListenForHotwordStep
<1>3. ASSUME NEW verdict \in Verdicts,
             ListenOn(verdict) \/ SpeechStarts(verdict) \/ SpeechEnds(verdict)
      PROVE  IInv' /\ WakeStep
  BY <1>3, ListenOnStep, SpeechStartsStep, SpeechEndsStep
<1>4. ASSUME SpeakWithoutVad \/ Split  PROVE IInv' /\ WakeStep
  BY <1>4, SpeakWithoutVadStep, SplitStep
<1>5. ASSUME FinishSilently \/ Transcribed \/ TranscriptionFails  PROVE IInv' /\ WakeStep
  BY <1>5, FinishedStep DEF FinishSilently, Transcribed, TranscriptionFails
<1>6. ASSUME ChunkReturns \/ Flush \/ FlushReturns \/ Reset  PROVE IInv' /\ WakeStep
  BY <1>6, ChunkReturnsStep, FlushStep, FlushReturnsStep, ResetStep
<1>7. ASSUME TakeLastUtterance \/ UNCHANGED vars  PROVE IInv' /\ WakeStep
  BY <1>7, TakeLastUtteranceStep
<1> QED
  BY <1>1, <1>2, <1>3, <1>4, <1>5, <1>6, <1>7 DEF Next, Step

----------------------------------------------------------------------------
LEMMA AudioInv == Spec => []IInv
<1>1. Init => IInv
  BY InitInv, AudioAssumption
<1>2. IInv /\ [Next]_vars => IInv'
  BY NextStep, AudioAssumption
<1> QED
  BY <1>1, <1>2, PTL DEF Spec

(* Between calls the diarizer has heard the stream from its origin to now, *)
(* however the chunk was cut, whatever failed in it (process_chunk, flush, *)
(* PipelineDiarizer): speaker labels are looked up on a clock that agrees. *)
THEOREM AudioDiarizerClock == Spec => []DiarizerClockAgrees
<1>1. IInv => DiarizerClockAgrees
  BY DEF IInv, DiarizerInv, DiarizerClockAgrees, Idle
<1> QED
  BY <1>1, AudioInv, PTL

(* Two wake words are a cooldown apart on the stream's clock, although the *)
(* wake detector's own clock stops while speech is heard and starts from   *)
(* zero after it (resume_after_pause).                                     *)
THEOREM AudioWakesApart == Spec => WakesApart
<1>1. IInv /\ [Next]_vars => WakeStep
  BY NextStep, AudioAssumption
<1>2. Spec => [][Next]_vars
  BY PTL DEF Spec
<1>3. IInv /\ [Next]_vars
        => [said'.wake \notin {said.wake, None} /\ said.wake # None =>
               said'.wake - said.wake >= Cooldown]_vars
  BY <1>1 DEF WakeStep
<1> QED
  BY <1>2, <1>3, AudioInv, PTL DEF WakesApart

----------------------------------------------------------------------------
(* Stretches of the stream.                                                *)

LEMMA SpanIs ==
    ASSUME NEW a \in Int, NEW b \in Int
    PROVE  /\ Span(a, b) \in Seq(Int)
           /\ Len(Span(a, b)) = IF a <= b THEN b - a ELSE 0
           /\ \A i \in 1 .. b - a : Span(a, b)[i] = a + i
  <1>1. CASE a <= b
    <2> DEFINE n == b - a
    <2>1. n \in Nat
      BY <1>1
    <2>2. Span(a, b) = [i \in 1 .. n |-> a + i]
      BY DEF Span
    <2> HIDE DEF n
    <2>3. [i \in 1 .. n |-> a + i] \in Seq(Int) /\ Len([i \in 1 .. n |-> a + i]) = n
      BY <2>1
    <2> QED BY <1>1, <2>2, <2>3 DEF n
  <1>2. CASE a > b
    <2>1. 1 .. b - a = 1 .. 0
      BY <1>2
    <2>2. Span(a, b) = [i \in 1 .. 0 |-> a + i]
      BY <2>1 DEF Span
    <2>3. Span(a, b) \in Seq(Int) /\ Len(Span(a, b)) = 0
      BY <2>2
    <2> QED BY <1>2, <2>1, <2>3
  <1> QED BY <1>1, <1>2

LEMMA SpanEmpty ==
    ASSUME NEW a \in Int, NEW b \in Int, b <= a
    PROVE  Span(a, b) = <<>>
  <1>1. Span(a, b) \in Seq(Int) /\ Len(Span(a, b)) = 0
    BY SpanIs
  <1> QED BY <1>1, EmptySeq

LEMMA SpanJoin ==
    ASSUME NEW a \in Int, NEW b \in Int, NEW c \in Int, a <= b, b <= c
    PROVE  Span(a, b) \o Span(b, c) = Span(a, c)
  <1> DEFINE s == Span(a, b)
             t == Span(b, c)
             u == Span(a, c)
  <1>1. /\ s \in Seq(Int) /\ Len(s) = b - a /\ \A i \in 1 .. b - a : s[i] = a + i
        /\ t \in Seq(Int) /\ Len(t) = c - b /\ \A i \in 1 .. c - b : t[i] = b + i
        /\ u \in Seq(Int) /\ Len(u) = c - a /\ \A i \in 1 .. c - a : u[i] = a + i
    BY SpanIs
  <1> HIDE DEF s, t, u
  <1>2. /\ s \o t \in Seq(Int) /\ Len(s \o t) = Len(s) + Len(t)
        /\ \A i \in 1 .. Len(s) + Len(t) : (s \o t)[i] = IF i <= Len(s) THEN s[i] ELSE t[i - Len(s)]
    BY <1>1, ConcatProperties
  <1>3. Len(s \o t) = Len(u)
    BY <1>1, <1>2
  <1>4. ASSUME NEW i \in 1 .. Len(s \o t) PROVE (s \o t)[i] = u[i]
    <2>1. i \in Int /\ 1 <= i /\ i <= c - a
      BY <1>1, <1>2
    <2>2. CASE i <= b - a
      BY <1>1, <1>2, <2>1, <2>2
    <2>3. CASE i > b - a
      <3>1. (s \o t)[i] = t[i - (b - a)]
        BY SMTT(40), <1>1, <1>2, <2>1, <2>3
      <3>2. i - (b - a) \in 1 .. c - b
        BY <2>1, <2>3
      <3> QED BY <1>1, <2>1, <3>1, <3>2
    <2> QED BY <2>1, <2>2, <2>3
  <1>5. s \o t = u
    BY <1>1, <1>2, <1>3, <1>4, SeqEqual
  <1> QED BY <1>5 DEF s, t, u

(* A stretch cut at both ends.                                             *)
LEMMA SpanCut ==
    ASSUME NEW a \in Int, NEW b \in Int, NEW m \in Int, NEW n \in Int,
           a <= m, m <= n, n <= b
    PROVE  SubSeq(Span(a, b), m - a + 1, n - a) = Span(m, n)
  <1> DEFINE s == Span(a, b)
             u == Span(m, n)
             v == SubSeq(s, m - a + 1, n - a)
  <1>1. /\ s \in Seq(Int) /\ Len(s) = b - a /\ \A i \in 1 .. b - a : s[i] = a + i
        /\ u \in Seq(Int) /\ Len(u) = n - m /\ \A i \in 1 .. n - m : u[i] = m + i
    BY SpanIs
  <1> HIDE DEF s, u
  <1>2. /\ v \in Seq(Int)
        /\ Len(v) = IF m - a + 1 <= n - a THEN n - a - (m - a + 1) + 1 ELSE 0
        /\ \A i \in 1 .. n - a - (m - a + 1) + 1 : v[i] = s[m - a + 1 + i - 1]
    <2>1. \A i \in m - a + 1 .. n - a : s[i] \in Int
      BY <1>1
    <2>2. m - a + 1 \in Int /\ n - a \in Int
      OBVIOUS
    <2> QED BY <2>1, <2>2, SubSeqProperties
  <1> HIDE DEF v
  <1>3. Len(v) = n - m
    BY <1>2
  <1>4. ASSUME NEW i \in 1 .. Len(v) PROVE v[i] = u[i]
    <2>1. i \in 1 .. n - m /\ i \in 1 .. n - a - (m - a + 1) + 1
      BY <1>3
    <2>2. v[i] = s[m - a + i]
      BY <1>2, <2>1
    <2>3. m - a + i \in 1 .. b - a
      BY <2>1
    <2>4. s[m - a + i] = m + i
      BY <1>1, <2>1, <2>3
    <2> QED BY <1>1, <2>1, <2>2, <2>4
  <1>5. v = u
    BY <1>1, <1>2, <1>3, <1>4, SeqEqual
  <1> QED BY <1>5 DEF u, v, s

LEMMA SpanNewest ==
    ASSUME NEW a \in Int, NEW b \in Int, NEW m \in Int, 0 <= m, m <= b - a
    PROVE  Newest(Span(a, b), m) = Span(b - m, b)
  <1>1. Len(Span(a, b)) = b - a
    BY SpanIs
  <1>2. (b - m) - a + 1 = (b - a) - m + 1 /\ b - m \in Int /\ a <= b - m /\ b - m <= b
    OBVIOUS
  <1>3. SubSeq(Span(a, b), (b - m) - a + 1, b - a) = Span(b - m, b)
    BY <1>2, SpanCut
  <1> QED BY <1>1, <1>2, <1>3 DEF Newest

LEMMA SpanPrefix ==
    ASSUME NEW a \in Int, NEW b \in Int, NEW m \in Int, a <= m, m <= b
    PROVE  SubSeq(Span(a, b), 1, m - a) = Span(a, m)
  <1>1. SubSeq(Span(a, b), a - a + 1, m - a) = Span(a, m)
    BY SpanCut
  <1>2. a - a + 1 = 1
    OBVIOUS
  <1> QED BY <1>1, <1>2

(* What the clamps of the pipeline return.                                 *)
LEMMA MaxOfThreeIs ==
    ASSUME NEW a \in Int, NEW b \in Int, NEW c \in Int
    PROVE  /\ Max({a, b, c}) \in {a, b, c}
           /\ a <= Max({a, b, c}) /\ b <= Max({a, b, c}) /\ c <= Max({a, b, c})
  <1>1. \E x \in {a, b, c} : \A y \in {a, b, c} : x >= y
    <2>1. CASE a >= b /\ a >= c
      BY <2>1
    <2>2. CASE b >= a /\ b >= c
      BY <2>2
    <2>3. CASE c >= a /\ c >= b
      BY <2>3
    <2> QED BY <2>1, <2>2, <2>3
  <1>2. Max({a, b, c}) \in {a, b, c} /\ \A y \in {a, b, c} : Max({a, b, c}) >= y
    BY <1>1 DEF Max
  <1> QED BY <1>2

LEMMA ClampIs ==
    ASSUME NEW x \in Int, NEW lo \in Int, NEW hi \in Int, lo <= hi
    PROVE  Clamp(x, lo, hi) \in Int /\ lo <= Clamp(x, lo, hi) /\ Clamp(x, lo, hi) <= hi
  <1> DEFINE m == Max({lo, x})
  <1>1. m \in Int /\ m >= lo
    BY MaxOfTwo
  <1> HIDE DEF m
  <1>2. Min({hi, m}) \in {hi, m} /\ Min({hi, m}) <= hi
    BY <1>1, MinOfTwo
  <1> QED BY <1>1, <1>2 DEF Clamp, m

(* Where a call and an utterance stand.                                    *)
ShapeInv ==
    /\ state \in States
    /\ horizon \in Int /\ 0 <= horizon /\ horizon <= now /\ said.to <= now
    /\ state = "Transcribing" => ending # None
    /\ state = "ListeningForHotword" => WakesFirst
    /\ said.open # None => state = "SpeechActive" /\ ending = None
    /\ ending # None => utterance = <<>> /\ (ending.continues => HasVad /\ ending.to = now)
    /\ call.kind = "flush" =>
          IF ending = None THEN call.closes => state = Listening
                           ELSE call.closes /\ ~ending.continues

(* The voice detector's clock, from where it was reset, and what it hears. *)
VadInv ==
    HasVad =>
        /\ 0 <= vad.buffered /\ vad.buffered < Window /\ 0 <= vad.clock
        /\ state # "ListeningForHotword" => vadOffset + vad.clock + vad.buffered = now
        /\ vad.triggered <=> IF ending = None THEN state = "SpeechActive" ELSE ending.continues
        /\ vadOffset <= horizon + PreRoll

(* The utterance is the audio since its start, and empty between two.      *)
SpeechInv ==
    /\ state = "SpeechActive" /\ ending = None =>
          said.open = start /\ 0 <= start /\ start <= now /\ utterance = Span(start, now)
    /\ state \in {"ListeningForHotword", "ListeningForSpeech"} => utterance = <<>>

(* The history is the recent audio, or without a voice detector the wake   *)
(* word's pre-roll until speech takes it.                                  *)
HistoryInv ==
    /\ HasVad /\ state # "ListeningForHotword" =>
          history = Span(Max({horizon, now - HistoryLimit}), now)
    /\ ~HasVad =>
          history = IF state = "ListeningForSpeech" /\ WakesFirst THEN Span(horizon, now) ELSE <<>>

(* The wake detector's ring is what it has heard since the last utterance. *)
RingInv ==
    state = "ListeningForHotword" =>
        hot.ring = Span(now - Len(hot.ring), now) /\ said.to <= now - Len(hot.ring)

(* Where a wake word is required, speech comes after it.                   *)
WakeOrder ==
    WakesFirst =>
        /\ state # "ListeningForHotword" => said.wake # None
        /\ said.wake # None => said.wake <= horizon + PreRoll
        /\ state = "ListeningForSpeech" => said.to <= horizon
        /\ said.open # None => said.open >= horizon /\ said.open >= said.to

Places == ShapeInv /\ VadInv /\ SpeechInv /\ LastIsReported /\ HistoryInv /\ RingInv /\ WakeOrder

(* One verdict of the voice detector: its clock and its tail advance by    *)
(* what was heard, and it reports a start or an end as it changes its mind. *)
LEMMA VadStepIs ==
    ASSUME AudioAssumption, NEW v \in VadStates, NEW verdict, NEW n \in Int,
           0 <= v.buffered, v.buffered < Window, 0 <= v.clock,
           1 <= n, n <= Window - v.buffered
    PROVE  LET step == VadStep(v, n, verdict) IN
           /\ step.vad.clock \in Int /\ 0 <= step.vad.clock
           /\ step.vad.buffered \in Int /\ 0 <= step.vad.buffered /\ step.vad.buffered < Window
           /\ step.vad.clock + step.vad.buffered = v.clock + v.buffered + n
           /\ \/ step.event = None /\ step.vad.triggered = v.triggered
              \/ /\ step.event # None /\ step.event.kind = "start"
                 /\ step.event.at = Minus(v.clock, Pad)
                 /\ ~v.triggered /\ step.vad.triggered /\ v.buffered + n = Window
              \/ /\ step.event # None /\ step.event.kind = "end"
                 /\ v.triggered /\ ~step.vad.triggered
  <1> DEFINE hop == Hopped(v, v.buffered + n)
             stop == Min({Silenced(v) + Pad, hop.clock})
             onset == Minus(v.clock, Pad)
             quiet == Silenced(v)
             step == VadStep(v, n, verdict)
  <1>1. /\ Window \in Int /\ Stride \in Int /\ Pad \in Int /\ 0 < Stride /\ Stride <= Window
        /\ v.clock \in Int /\ v.buffered \in Int /\ v.triggered \in BOOLEAN
        /\ v.tempEnd \in Int \cup {None}
    BY DEF AudioAssumption, VadStates
  <1>2. /\ hop = [v EXCEPT !.clock = v.clock + Stride, !.buffered = (v.buffered + n) - Stride]
        /\ v.clock + Stride \in Int /\ (v.buffered + n) - Stride \in Int
    BY <1>1 DEF Hopped
  <1>3. hop \in VadStates /\ hop.clock = v.clock + Stride /\ hop.buffered = (v.buffered + n) - Stride
        /\ hop.triggered = v.triggered
    BY <1>2 DEF VadStates
  <1>4. quiet \in Int
    BY <1>1 DEF Silenced
  <1>5. quiet + Pad \in Int
    BY <1>1, <1>4
  <1>6. onset \in Int
    BY <1>1, MinusIs
  <1>7. stop \in Int
    BY <1>3, <1>5, MinOfTwo DEF VadStates
  <1> HIDE DEF hop, stop, onset, quiet
  <1>8. /\ [kind |-> "start", at |-> onset] # None /\ [kind |-> "end", at |-> stop] # None
    BY <1>6, <1>7 DEF AudioAssumption
  <1>9. CASE v.buffered + n < Window
    <2>1. step = [vad |-> [v EXCEPT !.buffered = v.buffered + n], event |-> None]
      BY <1>9 DEF VadStep
    <2>2. /\ step.vad.clock = v.clock /\ step.vad.buffered = v.buffered + n
          /\ step.event = None /\ step.vad.triggered = v.triggered
      BY <1>1, <2>1 DEF VadStates
    <2> HIDE DEF step
    <2>3. /\ step.vad.clock \in Int /\ 0 <= step.vad.clock
          /\ step.vad.buffered \in Int /\ 0 <= step.vad.buffered /\ step.vad.buffered < Window
          /\ step.vad.clock + step.vad.buffered = v.clock + v.buffered + n
      BY <1>1, <1>9, <2>2
    <2> QED BY <2>2, <2>3 DEF step
  <1>10. CASE v.buffered + n >= Window
    <2>1. v.buffered + n = Window
      BY <1>1, <1>10
    <2> DEFINE a == [hop EXCEPT !.triggered = TRUE, !.tempEnd = None]
               b == [hop EXCEPT !.triggered = FALSE, !.tempEnd = None]
               c == [hop EXCEPT !.tempEnd = None]
               d == [hop EXCEPT !.tempEnd = quiet]
    <2>2. /\ a.clock = hop.clock /\ a.buffered = hop.buffered /\ a.triggered = TRUE
          /\ b.clock = hop.clock /\ b.buffered = hop.buffered /\ b.triggered = FALSE
          /\ c.clock = hop.clock /\ c.buffered = hop.buffered /\ c.triggered = hop.triggered
          /\ d.clock = hop.clock /\ d.buffered = hop.buffered /\ d.triggered = hop.triggered
      BY <1>3 DEF VadStates
    <2>3. \/ step = [vad |-> a, event |-> [kind |-> "start", at |-> onset]] /\ ~v.triggered
          \/ step = [vad |-> b, event |-> [kind |-> "end", at |-> stop]] /\ v.triggered
          \/ step = [vad |-> c, event |-> None] \/ step = [vad |-> d, event |-> None]
          \/ step = [vad |-> hop, event |-> None]
      BY <1>10, <2>1 DEF VadStep, hop, stop, onset, quiet
    <2> HIDE DEF a, b, c, d
    <2>4. step.vad.clock = hop.clock /\ step.vad.buffered = hop.buffered
      <3>1. step.vad \in {a, b, c, d, hop}
        BY <2>3
      <3> QED BY <2>2, <3>1
    <2>5. \/ step.event = None /\ step.vad.triggered = v.triggered
          \/ /\ step.event # None /\ step.event.kind = "start" /\ step.event.at = onset
             /\ ~v.triggered /\ step.vad.triggered
          \/ /\ step.event # None /\ step.event.kind = "end"
             /\ v.triggered /\ ~step.vad.triggered
      <3> HIDE DEF step
      <3>1. CASE step = [vad |-> a, event |-> [kind |-> "start", at |-> onset]] /\ ~v.triggered
        BY <1>8, <2>2, <3>1
      <3>2. CASE step = [vad |-> b, event |-> [kind |-> "end", at |-> stop]] /\ v.triggered
        BY <1>8, <2>2, <3>2
      <3>3. CASE \/ step = [vad |-> c, event |-> None] \/ step = [vad |-> d, event |-> None]
                 \/ step = [vad |-> hop, event |-> None]
        BY <1>3, <2>2, <3>3
      <3> QED BY <2>3, <3>1, <3>2, <3>3
    <2> HIDE DEF step
    <2>6. /\ step.vad.clock \in Int /\ 0 <= step.vad.clock
          /\ step.vad.buffered \in Int /\ 0 <= step.vad.buffered /\ step.vad.buffered < Window
          /\ step.vad.clock + step.vad.buffered = v.clock + v.buffered + n
      BY <1>1, <1>3, <2>1, <2>4
    <2> QED BY <2>1, <2>5, <2>6 DEF step, onset
  <1>11. v.buffered + n < Window \/ v.buffered + n >= Window
    BY <1>1
  <1> QED BY <1>9, <1>10, <1>11

LEMMA OneMoreIf ==
    ASSUME NEW S \in SUBSET Int, NEW x \in Int, NEW c \in BOOLEAN,
           \E m \in S : \A y \in S : m <= y
    PROVE  LET T == S \cup (IF c THEN {x} ELSE {}) IN \E m \in T : \A y \in T : m <= y
  <1>1. CASE c
    <2>1. \E m \in S \cup {x} : \A y \in S \cup {x} : m <= y
      BY OneMore
    <2> QED BY <1>1, <2>1
  <1>2. CASE ~c
    BY <1>2
  <1> QED BY <1>1, <1>2

(* A part of a chunk is not empty, and ends at the next window or before.  *)
LEMMA PartIs ==
    ASSUME Types, AudioAssumption, Listens, HasVad => vad.buffered < Window
    PROVE  /\ Part \in Int /\ 1 <= Part
           /\ HasVad => Part <= Window - vad.buffered
           /\ state = "SpeechActive" => Part <= MaxUtterance - Len(utterance)
  <1>1. call.kind = "chunk" /\ call.left > 0 /\ ~Full
    BY DEF Listens, Looping
  <1>2. call.left \in Int /\ vad.buffered \in Int /\ Len(utterance) \in Int
        /\ Window \in Int /\ MaxUtterance \in Int
    BY <1>1 DEF Types, Calls, Idle, VadStates, AudioAssumption
  <1>3. SamplesUntilWindow = IF 1 >= Window - vad.buffered THEN 1 ELSE Window - vad.buffered
    BY <1>2, MaxOfTwo DEF SamplesUntilWindow
  <1> DEFINE w == SamplesUntilWindow
             u == MaxUtterance - Len(utterance)
             A == IF HasVad THEN {w} ELSE {}
             B == IF state = "SpeechActive" THEN {u} ELSE {}
             S == ({call.left} \cup A) \cup B
  <1>4. w \in Int /\ 1 <= w /\ (HasVad => w = Window - vad.buffered)
    BY <1>2, <1>3
  <1>5. u \in Int /\ (state = "SpeechActive" => 1 <= u)
    BY <1>1, <1>2 DEF Full
  <1>6. Part = Min(S)
    BY DEF Part
  <1> HIDE DEF w, u
  <1>7. S \in SUBSET Int /\ (\A y \in S : 1 <= y)
    BY <1>1, <1>2, <1>4, <1>5
  <1>8. \E m \in S : \A y \in S : m <= y
    <2>1. \E m \in {call.left} : \A y \in {call.left} : m <= y
      BY <1>2
    <2>2. \E m \in {call.left} \cup A : \A y \in {call.left} \cup A : m <= y
      <3> DEFINE L == {call.left}
      <3>1. L \in SUBSET Int /\ HasVad \in BOOLEAN
        BY <1>2 DEF HasVad
      <3>2. \E m \in L : \A y \in L : m <= y
        BY <2>1
      <3> HIDE DEF L
      <3>3. \E m \in L \cup A : \A y \in L \cup A : m <= y
        BY <1>4, <3>1, <3>2, OneMoreIf
      <3> QED BY <3>3 DEF L
    <2> DEFINE C == {call.left} \cup A
    <2>3. C \in SUBSET Int
      BY <1>2, <1>4
    <2>4. \E m \in C : \A y \in C : m <= y
      BY <2>2
    <2> HIDE DEF C
    <2>5. \E m \in C \cup B : \A y \in C \cup B : m <= y
      BY <1>5, <2>3, <2>4, OneMoreIf
    <2> QED BY <2>5 DEF C
  <1>9. HasVad => w \in S
    OBVIOUS
  <1>10. state = "SpeechActive" => u \in S
    OBVIOUS
  <1> HIDE DEF S
  <1>11. Min(S) \in S /\ \A y \in S : Min(S) <= y
    BY <1>7, <1>8, MinIs
  <1>12. Part \in Int /\ 1 <= Part
    BY <1>6, <1>7, <1>11
  <1>13. HasVad => Part <= w
    BY <1>6, <1>9, <1>11
  <1>14. state = "SpeechActive" => Part <= u
    BY <1>6, <1>10, <1>11
  <1> QED BY <1>4, <1>12, <1>13, <1>14 DEF u

(* What is remembered and what is spoken stay stretches of the stream.     *)
LEMMA RememberedIs ==
    ASSUME Types, AudioAssumption, ShapeInv, NEW n \in Int, 1 <= n,
           history = Span(Max({horizon, now - HistoryLimit}), now)
    PROVE  Remembered(n) = Span(Max({horizon, now + n - HistoryLimit}), now + n)
  <1> DEFINE b == Max({horizon, now - HistoryLimit})
             h == Span(b, now + n)
             m == Min({HistoryLimit, Len(h)})
  <1>1. now \in Int /\ horizon \in Int /\ horizon <= now /\ HistoryLimit \in Int /\ 1 <= HistoryLimit
    <2>1. HistoryLimit \in Int /\ 1 <= HistoryLimit
      <3>1. PreRoll \in Nat /\ Pad \in Nat /\ Window \in Nat /\ Window # 0
        BY DEF AudioAssumption
      <3> QED BY <3>1 DEF HistoryLimit
    <2> QED BY <2>1 DEF Types, ShapeInv
  <1>2. /\ b = IF horizon >= now - HistoryLimit THEN horizon ELSE now - HistoryLimit
        /\ Max({horizon, now + n - HistoryLimit})
             = IF horizon >= now + n - HistoryLimit THEN horizon ELSE now + n - HistoryLimit
    BY <1>1, MaxOfTwo
  <1>3. b \in Int /\ b <= now
    BY <1>1, <1>2
  <1> HIDE DEF b
  <1>4. history \o Span(now, now + n) = h
    <2>1. now + n \in Int /\ now <= now + n /\ history = Span(b, now)
      BY <1>1 DEF b
    <2>2. Span(b, now) \o Span(now, now + n) = Span(b, now + n)
      BY <1>1, <1>3, <2>1, SpanJoin
    <2> QED BY <2>1, <2>2
  <1>5. Len(h) = now + n - b
    BY <1>1, <1>3, SpanIs
  <1>6. m \in Int /\ m \in {HistoryLimit, now + n - b} /\ m <= HistoryLimit /\ m <= now + n - b
    <2>1. now + n - b \in Int
      BY <1>1, <1>3
    <2> HIDE DEF h
    <2> QED BY <1>1, <1>5, <2>1, MinOfTwo
  <1>7. Remembered(n) = Newest(h, m)
    BY <1>4 DEF Remembered
  <1> HIDE DEF m
  <1>8. 0 <= m
    BY <1>1, <1>3, <1>6
  <1>9. Newest(h, m) = Span(now + n - m, now + n)
    BY <1>1, <1>3, <1>6, <1>8, SpanNewest
  <1>10. now + n - m = Max({horizon, now + n - HistoryLimit})
    BY <1>1, <1>2, <1>3, <1>6
  <1> QED BY <1>7, <1>9, <1>10

LEMMA SpokenIs ==
    ASSUME Types, SpeechInv, NEW n \in Int, 1 <= n, ending = None, state = "SpeechActive"
    PROVE  Spoken(n) = Span(start, now + n)
  <1>1. start \in Int /\ now \in Int /\ start <= now /\ utterance = Span(start, now)
    BY DEF Types, SpeechInv
  <1>2. utterance \o Span(now, now + n) = Span(start, now + n)
    <2>1. now + n \in Int /\ now <= now + n
      BY <1>1
    <2> QED BY <1>1, <2>1, SpanJoin
  <1> QED BY <1>2 DEF Spoken

LEMMA AdvanceKind ==
    ASSUME Types, call.kind = "chunk", NEW n \in Int, Advance(n)
    PROVE  call'.kind = "chunk" /\ (call.left = n => call'.left = 0)
  <1>1. call \in [kind : {"chunk"}, before : Int, left : Int]
    BY DEF Types, Calls, Idle
  <1> QED BY <1>1 DEF Advance

(* What a part of a chunk does to the clocks and the history, whatever the *)
(* detector says of it.                                                    *)
LEMMA ListensPlaces ==
    ASSUME IInv, Places, AudioAssumption, NEW verdict, Listens, Advance(Part)
    PROVE  LET n == Part
               step == VadStep(vad, n, verdict) IN
           /\ n \in Int /\ 1 <= n /\ now \in Int /\ now' = now + n /\ now + n \in Int
           /\ state \in {"ListeningForSpeech", "SpeechActive"} /\ ending = None
           /\ call'.kind = "chunk"
           /\ HasVad => /\ step.vad.clock \in Int /\ 0 <= step.vad.clock
                        /\ step.vad.buffered \in Int /\ 0 <= step.vad.buffered /\ step.vad.buffered < Window
                        /\ vadOffset + step.vad.clock + step.vad.buffered = now + n
                        /\ \/ step.event = None /\ step.vad.triggered = vad.triggered
                           \/ /\ step.event # None /\ step.event.kind = "start"
                              /\ step.event.at = Minus(vad.clock, Pad)
                              /\ ~vad.triggered /\ step.vad.triggered /\ vad.buffered + n = Window
                           \/ /\ step.event # None /\ step.event.kind = "end"
                              /\ vad.triggered /\ ~step.vad.triggered
                        /\ Remembered(n) = Span(Max({horizon, now + n - HistoryLimit}), now + n)
           /\ state = "SpeechActive" => Spoken(n) = Span(start, now + n)
           /\ state = "ListeningForSpeech" => HasVad
  <1> DEFINE n == Part
             step == VadStep(vad, n, verdict)
  <1>1. Types /\ ShapeInv /\ VadInv /\ SpeechInv /\ HistoryInv
    BY DEF IInv, Places
  <1>2. /\ call.kind = "chunk" /\ ending = None /\ state \in {"ListeningForSpeech", "SpeechActive"}
        /\ (state = "ListeningForSpeech" => HasVad)
    BY DEF Listens, Looping
  <1>3. n \in Int /\ 1 <= n /\ (HasVad => n <= Window - vad.buffered)
    BY <1>1, PartIs DEF VadInv
  <1> HIDE DEF n
  <1>4. now \in Int /\ now' = now + n /\ now + n \in Int /\ call'.kind = "chunk"
    BY SMTT(40), <1>1, <1>2, <1>3, AdvanceKind DEF Types, Advance, n
  <1>5. ASSUME HasVad
        PROVE  /\ step.vad.clock \in Int /\ 0 <= step.vad.clock
               /\ step.vad.buffered \in Int /\ 0 <= step.vad.buffered /\ step.vad.buffered < Window
               /\ vadOffset + step.vad.clock + step.vad.buffered = now + n
               /\ \/ step.event = None /\ step.vad.triggered = vad.triggered
                  \/ /\ step.event # None /\ step.event.kind = "start"
                     /\ step.event.at = Minus(vad.clock, Pad)
                     /\ ~vad.triggered /\ step.vad.triggered /\ vad.buffered + n = Window
                  \/ /\ step.event # None /\ step.event.kind = "end"
                     /\ vad.triggered /\ ~step.vad.triggered
               /\ Remembered(n) = Span(Max({horizon, now + n - HistoryLimit}), now + n)
    <2>1. /\ vad \in VadStates /\ vad.clock \in Int /\ vad.buffered \in Int /\ vadOffset \in Int
          /\ 0 <= vad.buffered /\ vad.buffered < Window /\ 0 <= vad.clock
          /\ vadOffset + vad.clock + vad.buffered = now
      BY <1>1, <1>2, <1>5 DEF Types, VadStates, VadInv
    <2>2. /\ step.vad.clock \in Int /\ 0 <= step.vad.clock
          /\ step.vad.buffered \in Int /\ 0 <= step.vad.buffered /\ step.vad.buffered < Window
          /\ step.vad.clock + step.vad.buffered = vad.clock + vad.buffered + n
          /\ \/ step.event = None /\ step.vad.triggered = vad.triggered
             \/ /\ step.event # None /\ step.event.kind = "start"
                /\ step.event.at = Minus(vad.clock, Pad)
                /\ ~vad.triggered /\ step.vad.triggered /\ vad.buffered + n = Window
             \/ /\ step.event # None /\ step.event.kind = "end"
                /\ vad.triggered /\ ~step.vad.triggered
      BY <1>3, <1>5, <2>1, VadStepIs
    <2>3. history = Span(Max({horizon, now - HistoryLimit}), now)
      BY <1>1, <1>2, <1>5 DEF HistoryInv
    <2>4. Remembered(n) = Span(Max({horizon, now + n - HistoryLimit}), now + n)
      BY <1>1, <1>3, <2>3, RememberedIs
    <2> HIDE DEF step
    <2>5. vadOffset + step.vad.clock + step.vad.buffered = now + n
      BY <1>3, <1>4, <2>1, <2>2
    <2> QED BY <2>2, <2>4, <2>5
  <1>6. state = "SpeechActive" => Spoken(n) = Span(start, now + n)
    BY <1>1, <1>2, <1>3, SpokenIs
  <1> QED BY <1>2, <1>3, <1>4, <1>5, <1>6 DEF n

(* An utterance ends where its audio does.                                 *)
LEMMA EndPlaces ==
    ASSUME AudioAssumption, Types, state = "SpeechActive",
           NEW buffer, NEW from \in Int, NEW to \in Int, NEW continues \in BOOLEAN,
           buffer = Span(from, to), from <= to, EndUtterance(buffer, from, to, continues)
    PROVE  /\ ending' = [to |-> to, continues |-> continues] /\ ending' # None
           /\ utterance' = <<>> /\ LastIsReported'
           /\ said'.open = None /\ said'.to = to /\ said'.wake = said.wake
           /\ state' \in {"SpeechActive", "Transcribing"}
  <1>1. ending' = [to |-> to, continues |-> continues] /\ ending' # None
    BY DEF EndUtterance, AudioAssumption
  <1>2. said'.open = None /\ said'.from = from /\ said'.to = to /\ said'.wake = said.wake
    BY DEF EndUtterance, Types, Saids
  <1>3. state' \in {"SpeechActive", "Transcribing"}
    BY DEF EndUtterance
  <1>4. Len(buffer) = to - from /\ Len(<<>>) = 0
    BY SpanIs
  <1>5. CASE buffer = <<>>
    <2>1. from = to
      BY <1>4, <1>5
    <2> QED BY <1>1, <1>2, <1>3, <1>5, <2>1 DEF EndUtterance, LastIsReported
  <1>6. CASE buffer # <<>>
    BY <1>1, <1>2, <1>3, <1>6 DEF EndUtterance, LastIsReported
  <1> QED BY <1>5, <1>6

----------------------------------------------------------------------------
(* The steps keep every buffer in its place.                               *)

LEMMA ListenOnPlaces ==
    ASSUME IInv, Places, AudioAssumption, NEW verdict \in Verdicts, ListenOn(verdict)
    PROVE  Places'
  <1> DEFINE n == Part
             step == VadStep(vad, n, verdict)
  <1>1. /\ Types /\ ShapeInv /\ VadInv /\ SpeechInv /\ LastIsReported /\ HistoryInv /\ RingInv
        /\ WakeOrder
    BY DEF IInv, Places
  <1>2. /\ Listens /\ Advance(n) /\ utterance' = Spoken(n)
        /\ IF HasVad THEN step.event = None /\ vad' = step.vad /\ history' = Remembered(n)
                     ELSE UNCHANGED <<vad, history>>
        /\ UNCHANGED <<parts, state, last, start, vadOffset, ending, said, horizon>>
    BY DEF ListenOn, history_
  <1>3. /\ n \in Int /\ 1 <= n /\ now \in Int /\ now' = now + n /\ now + n \in Int
        /\ state \in {"ListeningForSpeech", "SpeechActive"} /\ ending = None
        /\ call'.kind = "chunk" /\ (state = "SpeechActive" => Spoken(n) = Span(start, now + n))
        /\ (state = "ListeningForSpeech" => HasVad)
    BY <1>2, ListensPlaces
  <1>4. HasVad => /\ step.vad.clock \in Int /\ 0 <= step.vad.clock
                  /\ step.vad.buffered \in Int /\ 0 <= step.vad.buffered /\ step.vad.buffered < Window
                  /\ vadOffset + step.vad.clock + step.vad.buffered = now + n
                  /\ (step.event = None => step.vad.triggered = vad.triggered)
                  /\ Remembered(n) = Span(Max({horizon, now + n - HistoryLimit}), now + n)
    BY <1>2, ListensPlaces
  <1> HIDE DEF n, step
  <1>5. (HasVad' <=> HasVad) /\ (WakesFirst' <=> WakesFirst) /\ Listening' = Listening
    BY <1>2 DEF HasVad, WakesFirst, Listening
  <1>6. ShapeInv'
    <2>1. said.to \in Int /\ horizon \in Int /\ horizon <= now /\ said.to <= now
      BY <1>1 DEF Types, Saids, ShapeInv
    <2>2. horizon <= now + n /\ said.to <= now + n
      BY <1>3, <2>1
    <2> QED BY <1>1, <1>2, <1>3, <1>5, <2>2 DEF ShapeInv
  <1>7. VadInv'
    BY <1>1, <1>2, <1>3, <1>4, <1>5 DEF VadInv
  <1>8. SpeechInv'
    <2>1. CASE state = "SpeechActive"
      <3>1. said.open = start /\ 0 <= start /\ start <= now /\ start \in Int
        BY <1>1, <1>3, <2>1 DEF SpeechInv, Types
      <3> QED BY <1>2, <1>3, <2>1, <3>1 DEF SpeechInv
    <2>2. CASE state = "ListeningForSpeech"
      <3>1. utterance = <<>> /\ utterance' = utterance
        BY <1>1, <1>2, <2>2 DEF SpeechInv, Spoken
      <3> QED BY <1>2, <2>2, <3>1 DEF SpeechInv
    <2> QED BY <1>3, <2>1, <2>2
  <1>9. LastIsReported'
    BY <1>1, <1>2 DEF LastIsReported
  <1>10. HistoryInv'
    <2>1. CASE HasVad
      <3>1. history' = Span(Max({horizon', now' - HistoryLimit}), now')
        <4>1. now' - HistoryLimit = now + n - HistoryLimit
          <5>1. HistoryLimit \in Int
            BY DEF HistoryLimit, AudioAssumption
          <5> QED BY <1>3, <5>1
        <4>2. {horizon', now' - HistoryLimit} = {horizon, now + n - HistoryLimit}
          BY <1>2, <4>1
        <4> QED BY <1>2, <1>3, <1>4, <2>1, <4>2
      <3> QED BY <1>5, <2>1, <3>1 DEF HistoryInv
    <2>2. CASE ~HasVad
      <3>1. state = "SpeechActive" /\ history' = <<>> /\ state' = state
        BY <1>1, <1>2, <1>3, <2>2 DEF HistoryInv
      <3> QED BY <1>5, <2>2, <3>1 DEF HistoryInv
    <2> QED BY <2>1, <2>2
  <1>11. RingInv' /\ WakeOrder'
    BY <1>1, <1>2, <1>3, <1>5 DEF RingInv, WakeOrder
  <1> QED BY <1>6, <1>7, <1>8, <1>9, <1>10, <1>11 DEF Places

(* An onset: where the reported start lies, and the utterance it begins.   *)
Unclipped(verdict) ==
    start' <= Max({Minus(vadOffset + vad.clock, Pad + PreRoll), horizon, now' - MaxUtterance})

LEMMA SpeechStartsPlaces ==
    ASSUME IInv, Places, AudioAssumption, NEW verdict \in Verdicts, SpeechStarts(verdict)
    PROVE  Places' /\ Unclipped(verdict)
  <1> DEFINE n == Part
             step == VadStep(vad, n, verdict)
             heard == Remembered(n)
  <1>1. /\ Types /\ ShapeInv /\ VadInv /\ SpeechInv /\ LastIsReported /\ HistoryInv /\ RingInv
        /\ WakeOrder
    BY DEF IInv, Places
  <1>2. /\ Listens /\ HasVad /\ Advance(n) /\ step.event # None /\ step.event.kind = "start"
        /\ vad' = step.vad /\ history' = heard
        /\ start' = OnsetFrom(step.event.at, now + n, heard)
        /\ utterance' = Newest(heard, Min({now + n - start', Len(heard)}))
        /\ state' = "SpeechActive" /\ said' = [said EXCEPT !.open = start']
        /\ UNCHANGED <<parts, last, vadOffset, ending, horizon>>
    BY DEF SpeechStarts
  <1>30. /\ n \in Int /\ 1 <= n /\ now \in Int /\ now' = now + n /\ now + n \in Int
         /\ state \in {"ListeningForSpeech", "SpeechActive"} /\ ending = None
         /\ call'.kind = "chunk"
    BY <1>2, ListensPlaces
  <1>31. /\ step.vad.clock \in Int /\ 0 <= step.vad.clock
         /\ step.vad.buffered \in Int /\ 0 <= step.vad.buffered /\ step.vad.buffered < Window
         /\ vadOffset + step.vad.clock + step.vad.buffered = now + n
         /\ step.event.at = Minus(vad.clock, Pad) /\ ~vad.triggered /\ step.vad.triggered
         /\ vad.buffered + n = Window
         /\ heard = Span(Max({horizon, now + n - HistoryLimit}), now + n)
    BY <1>2, ListensPlaces
  <1> HIDE DEF n, step, heard
  <1>34. PICK t \in Int : t = now + n
    BY <1>30
  <1> DEFINE b == Max({horizon, t - HistoryLimit})
             onset == vadOffset + step.event.at
  <1>32. /\ start' = OnsetFrom(step.event.at, t, heard)
         /\ utterance' = Newest(heard, Min({t - start', Len(heard)}))
    <2>1. t - start' = now + n - start'
      <3> DEFINE o == start'
      <3>1. o \in Int
        BY SpeechStartsStep DEF IInv, Types
      <3> HIDE DEF o
      <3>2. t - o = now + n - o
        BY <1>30, <1>34, <3>1
      <3> QED BY <3>2 DEF o
    <2>2. {t - start', Len(heard)} = {now + n - start', Len(heard)}
      BY <2>1
    <2> QED BY <1>2, <1>34, <2>2
  <1>33. heard = Span(b, t)
    <2>1. t - HistoryLimit = now + n - HistoryLimit
      <3>1. HistoryLimit \in Int
        BY DEF HistoryLimit, AudioAssumption
      <3> QED BY <1>30, <1>34, <3>1
    <2>2. {horizon, t - HistoryLimit} = {horizon, now + n - HistoryLimit}
      BY <2>1
    <2> QED BY <1>31, <1>34, <2>2
  <1>3. /\ n \in Int /\ 1 <= n /\ now \in Int /\ now' = t /\ t \in Int /\ now < t
        /\ state \in {"ListeningForSpeech", "SpeechActive"} /\ ending = None
        /\ call'.kind = "chunk"
    BY <1>30, <1>34
  <1>4. /\ step.vad.clock \in Int /\ 0 <= step.vad.clock
        /\ step.vad.buffered \in Int /\ 0 <= step.vad.buffered /\ step.vad.buffered < Window
        /\ vadOffset + step.vad.clock + step.vad.buffered = t
        /\ step.event.at = Minus(vad.clock, Pad) /\ ~vad.triggered /\ step.vad.triggered
        /\ vad.buffered + n = Window /\ t = now + n
        /\ heard = Span(b, t)
    BY <1>31, <1>33, <1>34
  <1>5. (HasVad' <=> HasVad) /\ (WakesFirst' <=> WakesFirst) /\ Listening' = Listening
    BY <1>2 DEF HasVad, WakesFirst, Listening
  <1>6. state = "ListeningForSpeech"
    BY <1>1, <1>2, <1>3, <1>4 DEF VadInv
  <1>7. /\ horizon \in Int /\ 0 <= horizon /\ horizon <= now /\ vadOffset \in Int
        /\ vad.clock \in Int /\ 0 <= vad.clock /\ vad.buffered \in Int /\ 0 <= vad.buffered
        /\ vadOffset + vad.clock + vad.buffered = now /\ vadOffset <= horizon + PreRoll
        /\ said \in Saids /\ said.to \in Int /\ said.to <= now
    BY <1>1, <1>2, <1>6 DEF ShapeInv, VadInv, Types, VadStates, Saids
  <1>8. /\ PreRoll \in Int /\ 0 <= PreRoll /\ Pad \in Int /\ 0 <= Pad /\ MaxUtterance \in Int /\ 1 <= MaxUtterance
        /\ Window \in Int /\ 1 <= Window /\ HistoryLimit = PreRoll + Pad + Window
    BY DEF AudioAssumption, HistoryLimit
  <1>9. b = IF horizon >= t - HistoryLimit THEN horizon ELSE t - HistoryLimit
    <2>1. t - HistoryLimit \in Int
      BY <1>3, <1>8
    <2> QED BY <1>7, <2>1, MaxOfTwo
  <1>10. b \in Int /\ horizon <= b /\ b <= t
    BY <1>3, <1>7, <1>8, <1>9
  <1> HIDE DEF b
  <1>11. heard \in Seq(Int) /\ Len(heard) = t - b
    <2>1. Span(b, t) \in Seq(Int) /\ Len(Span(b, t)) = t - b
      BY <1>3, <1>10, SpanIs
    <2> QED BY <1>4, <2>1
  <1>12. step.event.at = IF vad.clock >= Pad THEN vad.clock - Pad ELSE 0
    BY <1>4, <1>7, <1>8, MinusIs
  <1>13. onset \in Int /\ onset <= vadOffset + vad.clock /\ onset <= now
    BY <1>7, <1>8, <1>12
  <1> HIDE DEF onset
  <1> DEFINE x == Minus(onset, PreRoll)
             y == Minus(t, Len(heard))
             z == Minus(t, MaxUtterance)
  <1>14. /\ x = IF onset >= PreRoll THEN onset - PreRoll ELSE 0
         /\ y = IF t >= t - b THEN t - (t - b) ELSE 0
         /\ z = IF t >= MaxUtterance THEN t - MaxUtterance ELSE 0
    <2>1. t - b \in Int
      BY <1>3, <1>10
    <2>2. x = IF onset >= PreRoll THEN onset - PreRoll ELSE 0
      BY <1>8, <1>13, MinusIs
    <2>3. z = IF t >= MaxUtterance THEN t - MaxUtterance ELSE 0
      BY <1>3, <1>8, MinusIs
    <2>4. Minus(t, t - b) = IF t >= t - b THEN t - (t - b) ELSE 0
      <3> DEFINE l == t - b
      <3>1. l \in Int
        BY <2>1
      <3> HIDE DEF l
      <3>2. Minus(t, l) = IF t >= l THEN t - l ELSE 0
        BY <1>3, <3>1, MinusIs
      <3> QED BY <3>2 DEF l
    <2> QED BY <1>11, <2>2, <2>3, <2>4
  <1>15. /\ x \in Int /\ 0 <= x /\ x <= t /\ y = b
         /\ z \in Int /\ 0 <= z /\ z <= t /\ t - z <= MaxUtterance
    <2>1. x \in Int /\ 0 <= x /\ x <= t
      BY <1>3, <1>7, <1>8, <1>13, <1>14
    <2>2. y = b
      <3>1. t >= t - b /\ t - (t - b) = b
        BY <1>3, <1>7, <1>10
      <3> QED BY <1>14, <3>1
    <2> HIDE DEF x, y, z
    <2>3. z \in Int /\ 0 <= z /\ z <= t /\ t - z <= MaxUtterance
      BY <1>3, <1>7, <1>8, <1>14
    <2> QED BY <2>1, <2>2, <2>3
  <1>16. start' = Max({x, y, z})
    BY <1>32 DEF OnsetFrom, onset
  <1> HIDE DEF x, y, z
  <1>17. start' \in {x, b, z} /\ x <= start' /\ b <= start' /\ z <= start'
    BY <1>10, <1>15, <1>16, MaxOfThreeIs
  <1>18. /\ start' \in Int /\ 0 <= start' /\ start' <= t /\ b <= start' /\ horizon <= start'
    BY <1>3, <1>7, <1>10, <1>15, <1>17
  <1>19. utterance' = Span(start', t)
    <2> DEFINE k == t - start'
    <2>1. k \in Int /\ 0 <= k /\ k <= t - b
      <3> DEFINE o == start'
      <3>1. o \in Int /\ o <= t /\ b <= o
        BY <1>18
      <3> HIDE DEF o
      <3>2. t - o \in Int /\ 0 <= t - o /\ t - o <= t - b
        BY <1>3, <1>10, <3>1
      <3> QED BY <3>2 DEF o
    <2> HIDE DEF k
    <2>2. Min({k, t - b}) \in {k, t - b} /\ Min({k, t - b}) <= k
          /\ Min({k, t - b}) <= t - b
      <3>1. t - b \in Int
        BY <1>3, <1>10
      <3> QED BY <2>1, <3>1, MinOfTwo
    <2>3. Min({k, t - b}) = k
      BY <1>3, <1>10, <2>1, <2>2
    <2>4. Newest(Span(b, t), k) = Span(t - k, t)
      BY <1>3, <1>10, <2>1, SpanNewest
    <2>5. t - k = start'
      <3> DEFINE o == start'
      <3>1. o \in Int
        BY <1>18
      <3> HIDE DEF o
      <3>2. t - (t - o) = o
        BY <1>3, <3>1
      <3> QED BY <3>2 DEF k, o
    <2>6. utterance' = Newest(heard, Min({k, Len(heard)}))
      BY <1>32 DEF k
    <2> QED BY <1>4, <1>11, <2>3, <2>4, <2>5, <2>6
  <1>20. said'.open = start' /\ said'.to = said.to /\ said'.wake = said.wake /\ said'.from = said.from
    BY <1>2, <1>7 DEF Saids
  <1>21. start' # None
    BY <1>18 DEF AudioAssumption
  <1>22. ShapeInv'
    <2>1. horizon <= t /\ said.to <= t
      BY <1>3, <1>7
    <2> QED BY <1>1, <1>2, <1>3, <1>5, <1>20, <2>1 DEF ShapeInv, States
  <1>23. VadInv'
    BY <1>1, <1>2, <1>3, <1>4, <1>5 DEF VadInv
  <1>24. SpeechInv'
    BY <1>2, <1>3, <1>18, <1>19, <1>20 DEF SpeechInv
  <1>25. LastIsReported'
    BY <1>1, <1>2, <1>20 DEF LastIsReported
  <1>26. HistoryInv'
    <2>1. {horizon', now' - HistoryLimit} = {horizon, t - HistoryLimit}
      BY <1>2, <1>3
    <2>2. history' = Span(Max({horizon', now' - HistoryLimit}), now')
      BY <1>2, <1>3, <1>4, <2>1 DEF b
    <2> QED BY <1>2, <1>5, <2>2 DEF HistoryInv
  <1>27. RingInv'
    BY <1>2 DEF RingInv
  <1>28. WakeOrder'
    <2> SUFFICES ASSUME WakesFirst PROVE WakeOrder'
      BY <1>5 DEF WakeOrder
    <2>1. said.to <= horizon
      BY <1>1, <1>6 DEF WakeOrder
    <2>2. said.to <= start'
      BY <1>7, <1>18, <2>1
    <2> QED BY <1>1, <1>2, <1>6, <1>18, <1>20, <2>2 DEF WakeOrder
  <1>29. Unclipped(verdict)
    <2> DEFINE w == Minus(vadOffset + vad.clock, Pad + PreRoll)
               u == now' - MaxUtterance
               lim == Max({w, horizon, u})
    <2>1. /\ vadOffset + vad.clock \in Int /\ Pad + PreRoll \in Int /\ u \in Int
      BY <1>3, <1>7, <1>8
    <2>2. w = IF vadOffset + vad.clock >= Pad + PreRoll THEN vadOffset + vad.clock - (Pad + PreRoll) ELSE 0
      <3> DEFINE f == vadOffset + vad.clock
                 g == Pad + PreRoll
      <3>1. f \in Int /\ g \in Int
        BY <2>1
      <3> HIDE DEF f, g
      <3>2. Minus(f, g) = IF f >= g THEN f - g ELSE 0
        BY <3>1, MinusIs
      <3> QED BY <1>7, <1>8, <2>1, <3>2 DEF f, g
    <2>3. w \in Int /\ 0 <= w /\ vadOffset + vad.clock - (Pad + PreRoll) <= w
      BY <1>7, <1>8, <2>2
    <2> HIDE DEF w, u
    <2>4. lim \in {w, horizon, u} /\ w <= lim /\ horizon <= lim /\ u <= lim
      BY <1>7, <2>1, <2>3, MaxOfThreeIs
    <2>5. lim \in Int
      BY <1>7, <2>1, <2>3, <2>4
    <2> HIDE DEF lim
    <2>6. x <= lim
      <3>1. onset = vadOffset + vad.clock - Pad \/ (onset = vadOffset /\ vadOffset <= horizon + PreRoll)
        BY <1>7, <1>8, <1>12 DEF onset
      <3>2. CASE onset = vadOffset + vad.clock - Pad
        BY <1>7, <1>8, <1>14, <2>3, <2>4, <2>5, <3>2
      <3>3. CASE onset = vadOffset
        BY <1>7, <1>8, <1>14, <2>3, <2>4, <2>5, <3>3
      <3> QED BY <3>1, <3>2, <3>3
    <2>7. b <= lim
      BY <1>3, <1>4, <1>7, <1>8, <1>9, <2>3, <2>4, <2>5
    <2>8. z <= lim
      BY <1>3, <1>7, <1>8, <1>14, <2>4, <2>5 DEF u
    <2>9. start' <= lim
      BY <1>17, <2>6, <2>7, <2>8
    <2> QED BY <2>9 DEF Unclipped, lim, w, u
  <1> QED BY <1>22, <1>23, <1>24, <1>25, <1>26, <1>27, <1>28, <1>29 DEF Places

(* Where nothing moves but the call, and the last utterance is taken.      *)
LEMMA PlacesKept ==
    ASSUME Places,
           UNCHANGED <<parts, state, now, history, utterance, start, vad, vadOffset, hot, ending,
                       said, horizon>>,
           last' = last \/ last' = <<>>,
           \/ call' = call \/ call'.kind # "flush"
           \/ ending = None /\ ~call'.closes
    PROVE  Places'
  <1>1. (HasVad' <=> HasVad) /\ (WakesFirst' <=> WakesFirst) /\ Listening' = Listening
    BY DEF HasVad, WakesFirst, Listening
  <1>2. ShapeInv'
    BY <1>1 DEF Places, ShapeInv
  <1>3. VadInv' /\ SpeechInv'
    BY <1>1 DEF Places, VadInv, SpeechInv
  <1>4. LastIsReported'
    BY DEF Places, LastIsReported
  <1>5. HistoryInv'
    <2>1. {horizon', now' - HistoryLimit} = {horizon, now - HistoryLimit}
      OBVIOUS
    <2>2. Span(Max({horizon', now' - HistoryLimit}), now') = Span(Max({horizon, now - HistoryLimit}), now)
      BY <2>1
    <2> QED BY <1>1, <2>2 DEF Places, HistoryInv
  <1>6. RingInv' /\ WakeOrder'
    BY <1>1 DEF Places, RingInv, WakeOrder
  <1> QED BY <1>2, <1>3, <1>4, <1>5, <1>6 DEF Places

(* The history a speech onset at t may reach back into.                    *)
Recent(from, t) == Span(Max({from, t - HistoryLimit}), t)

(* The end of an utterance, while the audio goes on or stops.              *)
LEMMA EndingPlaces ==
    ASSUME IInv, Places, AudioAssumption, state = "SpeechActive", ending = None,
           NEW to \in Int, start <= to, to <= now', now <= now', now' \in Int,
           ending' # None, utterance' = <<>>, LastIsReported',
           said'.open = None, said'.to = to, said'.wake = said.wake,
           state' \in {"SpeechActive", "Transcribing"},
           ending'.continues => HasVad /\ ending'.to = now',
           UNCHANGED <<parts, vadOffset, horizon>>,
           call'.kind = "chunk" \/ (call'.kind = "flush" /\ call'.closes /\ ~ending'.continues),
           HasVad => /\ 0 <= vad'.buffered /\ vad'.buffered < Window /\ 0 <= vad'.clock
                     /\ vadOffset + vad'.clock + vad'.buffered = now'
                     /\ vad'.triggered <=> ending'.continues
                     /\ history' = Recent(horizon, now'),
           ~HasVad => history' = <<>>
    PROVE  Places'
  <1>1. /\ Types /\ ShapeInv /\ VadInv /\ SpeechInv /\ LastIsReported /\ HistoryInv /\ RingInv
        /\ WakeOrder
    BY DEF IInv, Places
  <1>2. start \in Int /\ now \in Int
    BY <1>1 DEF Types
  <1>5. (HasVad' <=> HasVad) /\ (WakesFirst' <=> WakesFirst) /\ Listening' = Listening
    BY DEF HasVad, WakesFirst, Listening
  <1>6. ShapeInv'
    <2>1. horizon \in Int /\ 0 <= horizon /\ horizon <= now
      BY <1>1 DEF ShapeInv
    <2>2. horizon <= now'
      BY <1>2, <2>1
    <2> QED BY <1>5, <2>1, <2>2 DEF ShapeInv, States
  <1>7. VadInv'
    BY <1>1, <1>5 DEF VadInv
  <1>8. SpeechInv' /\ RingInv'
    BY DEF SpeechInv, RingInv
  <1>9. HistoryInv'
    <2>1. {horizon', now' - HistoryLimit} = {horizon, now' - HistoryLimit}
      OBVIOUS
    <2>2. HasVad => history' = Span(Max({horizon', now' - HistoryLimit}), now')
      BY <2>1 DEF Recent
    <2> QED BY <1>5, <2>2 DEF HistoryInv
  <1>10. WakeOrder'
    BY <1>1, <1>5 DEF WakeOrder
  <1> QED BY <1>6, <1>7, <1>8, <1>9, <1>10 DEF Places

(* Of a buffer that reaches `to` or beyond, the part up to there.          *)
LEMMA CutAtIs ==
    ASSUME NEW from \in Int, NEW to \in Int, NEW upto \in Int, from <= to, to <= upto
    PROVE  SubSeq(Span(from, upto), 1, Min({to - from, Len(Span(from, upto))})) = Span(from, to)
  <1> DEFINE k == to - from
             l == Len(Span(from, upto))
  <1>1. k \in Int /\ l \in Int /\ k <= l
    <2>1. Len(Span(from, upto)) = upto - from
      BY SpanIs
    <2>2. l = upto - from
      BY <2>1
    <2> HIDE DEF l
    <2> QED BY <2>2
  <1>2. SubSeq(Span(from, upto), 1, k) = Span(from, to)
    BY SpanPrefix
  <1> HIDE DEF k, l
  <1>3. Min({k, l}) = k
    <2>1. Min({k, l}) \in {k, l} /\ Min({k, l}) <= k /\ Min({k, l}) <= l
      BY <1>1, MinOfTwo
    <2> QED BY <1>1, <2>1
  <1>4. SubSeq(Span(from, upto), 1, Min({k, l})) = Span(from, to)
    BY <1>2, <1>3
  <1> QED BY <1>4 DEF k, l

LEMMA SplitPlaces ==
    ASSUME IInv, Places, AudioAssumption, Split
    PROVE  Places'
  <1>1. /\ Types /\ ShapeInv /\ VadInv /\ SpeechInv /\ HistoryInv
    BY DEF IInv, Places
  <1>2. /\ call.kind = "chunk" /\ ending = None /\ state = "SpeechActive"
        /\ EndUtterance(utterance, start, now, HasVad)
        /\ UNCHANGED <<parts, now, history, start, vad, vadOffset, call, horizon>>
    BY DEF Split, Full, detectors
  <1>3. /\ now \in Int /\ HasVad \in BOOLEAN /\ utterance = Span(start, now) /\ start <= now
    BY <1>1, <1>2 DEF Types, HasVad, SpeechInv
  <1>4. {horizon, now' - HistoryLimit} = {horizon, now - HistoryLimit}
    BY <1>2
  <1>5. /\ ending' = [to |-> now, continues |-> HasVad] /\ ending' # None
        /\ utterance' = <<>> /\ LastIsReported'
        /\ said'.open = None /\ said'.to = now /\ said'.wake = said.wake
        /\ state' \in {"SpeechActive", "Transcribing"}
    BY <1>1, <1>2, <1>3, EndPlaces DEF Types
  <1>6. ending'.to = now' /\ (ending'.continues <=> HasVad)
    BY <1>2, <1>3, <1>5
  <1>7. HasVad => /\ 0 <= vad'.buffered /\ vad'.buffered < Window /\ 0 <= vad'.clock
                  /\ vadOffset + vad'.clock + vad'.buffered = now'
                  /\ vad'.triggered <=> ending'.continues
                  /\ history' = Recent(horizon, now')
    BY <1>1, <1>2, <1>4, <1>6 DEF VadInv, HistoryInv, Recent
  <1>8. ~HasVad => history' = <<>>
    BY <1>1, <1>2 DEF HistoryInv
  <1>9. now \in Int /\ now' \in Int /\ start <= now /\ now <= now'
    BY <1>2, <1>3
  <1>10. ending'.continues => HasVad /\ ending'.to = now'
    BY <1>6
  <1>11. call'.kind = "chunk" \/ (call'.kind = "flush" /\ call'.closes /\ ~ending'.continues)
    BY <1>2
  <1>12. UNCHANGED <<parts, vadOffset, horizon>>
    BY <1>2
  <1>13. now <= now' /\ state = "SpeechActive" /\ ending = None
    BY <1>2, <1>3
  <1>14. ending' # None /\ utterance' = <<>> /\ LastIsReported'
        /\ said'.open = None /\ said'.to = now /\ said'.wake = said.wake
        /\ state' \in {"SpeechActive", "Transcribing"}
    BY <1>5
  <1> QED BY <1>3, <1>7, <1>8, <1>9, <1>10, <1>11, <1>12, <1>13, <1>14, EndingPlaces

LEMMA SpeechEndsPlaces ==
    ASSUME IInv, Places, AudioAssumption, NEW verdict \in Verdicts, SpeechEnds(verdict)
    PROVE  Places'
  <1> DEFINE n == Part
             step == VadStep(vad, n, verdict)
             to == Clamp(vadOffset + step.event.at, start, now + n)
             spoken == Spoken(n)
             buffer == SubSeq(spoken, 1, Min({to - start, Len(spoken)}))
  <1>1. /\ Types /\ ShapeInv /\ VadInv /\ SpeechInv /\ HistoryInv
    BY DEF IInv, Places
  <1>2. /\ Listens /\ HasVad /\ state = "SpeechActive" /\ Advance(n)
        /\ step.event # None /\ step.event.kind = "end"
        /\ vad' = step.vad /\ history' = Remembered(n)
        /\ EndUtterance(buffer, start, to, FALSE)
        /\ UNCHANGED <<parts, start, vadOffset, horizon>>
    BY DEF SpeechEnds
  <1>3. /\ n \in Int /\ 1 <= n /\ now \in Int /\ now' = now + n /\ now + n \in Int
        /\ ending = None /\ call'.kind = "chunk" /\ spoken = Span(start, now + n)
    BY <1>2, ListensPlaces
  <1>4. /\ step.vad.clock \in Int /\ 0 <= step.vad.clock
        /\ step.vad.buffered \in Int /\ 0 <= step.vad.buffered /\ step.vad.buffered < Window
        /\ vadOffset + step.vad.clock + step.vad.buffered = now + n
        /\ ~step.vad.triggered
        /\ Remembered(n) = Span(Max({horizon, now + n - HistoryLimit}), now + n)
    BY <1>2, ListensPlaces
  <1>5. step.event.at \in Int
    <2>1. step.event \in VadEvents
      BY <1>1, <1>3, VadStepType DEF Types
    <2> HIDE DEF step
    <2> QED BY <1>2, <2>1 DEF VadEvents
  <1>6. /\ start \in Int /\ start <= now /\ vadOffset \in Int
    BY <1>1, <1>2, <1>3 DEF Types, SpeechInv
  <1> HIDE DEF n, step, spoken
  <1>7. to \in Int /\ start <= to /\ to <= now + n
    <2>1. vadOffset + step.event.at \in Int /\ start <= now + n
      BY <1>3, <1>5, <1>6
    <2> QED BY <1>3, <1>6, <2>1, ClampIs
  <1> HIDE DEF to
  <1>8. buffer = Span(start, to)
    BY <1>3, <1>6, <1>7, CutAtIs
  <1> HIDE DEF buffer
  <1>9. /\ ending' = [to |-> to, continues |-> FALSE] /\ ending' # None
        /\ utterance' = <<>> /\ LastIsReported'
        /\ said'.open = None /\ said'.to = to /\ said'.wake = said.wake
        /\ state' \in {"SpeechActive", "Transcribing"}
    BY <1>1, <1>2, <1>6, <1>7, <1>8, EndPlaces
  <1>10. ~ending'.continues
    BY <1>9
  <1>11. history' = Recent(horizon, now')
    <2>1. now' - HistoryLimit = now + n - HistoryLimit
      <3>1. HistoryLimit \in Int
        BY DEF HistoryLimit, AudioAssumption
      <3> QED BY <1>3, <3>1
    <2>2. {horizon, now' - HistoryLimit} = {horizon, now + n - HistoryLimit}
      BY <2>1
    <2> QED BY <1>2, <1>3, <1>4, <2>2 DEF Recent
  <1>12. /\ 0 <= vad'.buffered /\ vad'.buffered < Window /\ 0 <= vad'.clock
         /\ vadOffset + vad'.clock + vad'.buffered = now'
         /\ vad'.triggered <=> ending'.continues
    BY <1>2, <1>3, <1>4, <1>10
  <1>13. to <= now' /\ now <= now' /\ now' \in Int
    BY <1>3, <1>7
  <1> QED BY <1>2, <1>3, <1>7, <1>9, <1>10, <1>11, <1>12, <1>13, EndingPlaces

LEMMA SpeakWithoutVadPlaces ==
    ASSUME IInv, Places, AudioAssumption, SpeakWithoutVad
    PROVE  Places'
  <1>1. /\ Types /\ ShapeInv /\ VadInv /\ SpeechInv /\ LastIsReported /\ HistoryInv /\ RingInv
        /\ WakeOrder
    BY DEF IInv, Places
  <1>2. /\ call.kind = "chunk" /\ ending = None /\ state = "ListeningForSpeech" /\ ~HasVad
        /\ start' = Minus(now, Len(history))
        /\ utterance' = utterance \o history /\ history' = <<>>
        /\ state' = "SpeechActive" /\ said' = [said EXCEPT !.open = start']
        /\ UNCHANGED <<parts, now, last, vad, vadOffset, call, ending, horizon>>
    BY DEF SpeakWithoutVad, Looping, detectors
  <1>3. /\ now \in Int /\ horizon \in Int /\ 0 <= horizon /\ horizon <= now /\ utterance = <<>>
        /\ said \in Saids
    BY <1>1, <1>2 DEF Types, ShapeInv, SpeechInv
  <1>4. (HasVad' <=> HasVad) /\ (WakesFirst' <=> WakesFirst) /\ Listening' = Listening
    BY <1>2 DEF HasVad, WakesFirst, Listening
  <1>5. PICK o \in Int : o <= now /\ horizon <= o /\ 0 <= o /\ history = Span(o, now)
    <2>1. CASE WakesFirst
      BY <1>1, <1>2, <1>3, <2>1 DEF HistoryInv
    <2>2. CASE ~WakesFirst
      <3>1. history = <<>>
        BY <1>1, <1>2, <2>2 DEF HistoryInv
      <3>2. Span(now, now) = <<>>
        BY <1>3, SpanEmpty
      <3> QED BY <1>3, <3>1, <3>2
    <2> QED BY <2>1, <2>2
  <1>6. Len(history) = now - o
    BY <1>3, <1>5, SpanIs
  <1>7. start' = o
    <2> DEFINE l == now - o
    <2>1. l \in Int /\ l <= now
      BY <1>3, <1>5
    <2> HIDE DEF l
    <2>2. Minus(now, l) = now - l
      BY <1>3, <2>1, MinusIs
    <2>3. now - (now - o) = o
      BY <1>3, <1>5
    <2> QED BY <1>2, <1>6, <2>2, <2>3 DEF l
  <1>8. utterance' = Span(o, now)
    <2>1. history \in Seq(Int)
      BY <1>1 DEF Types
    <2>2. <<>> \o history = history
      BY <2>1, ConcatEmptySeq
    <2> QED BY <1>2, <1>3, <1>5, <2>2
  <1>9. said'.open = o /\ said'.to = said.to /\ said'.wake = said.wake /\ said'.from = said.from
    BY <1>2, <1>3, <1>7 DEF Saids
  <1>10. o # None
    BY <1>5 DEF AudioAssumption
  <1>11. ShapeInv'
    BY <1>1, <1>2, <1>4, <1>9 DEF ShapeInv, States
  <1>12. VadInv' /\ RingInv' /\ HistoryInv'
    BY <1>2, <1>4 DEF VadInv, RingInv, HistoryInv
  <1>13. SpeechInv'
    BY <1>2, <1>5, <1>7, <1>8, <1>9 DEF SpeechInv
  <1>14. LastIsReported'
    BY <1>1, <1>2, <1>9 DEF LastIsReported
  <1>15. WakeOrder'
    <2> SUFFICES ASSUME WakesFirst PROVE WakeOrder'
      BY <1>4 DEF WakeOrder
    <2>1. said.to <= horizon /\ said.to \in Int
      BY <1>1, <1>2, <1>3 DEF WakeOrder, Saids
    <2>2. said.to <= o
      BY <1>3, <1>5, <2>1
    <2> QED BY <1>1, <1>2, <1>5, <1>9, <2>2 DEF WakeOrder
  <1> QED BY <1>11, <1>12, <1>13, <1>14, <1>15 DEF Places

(* The end of an utterance: speech goes on where it ended, or the pipeline *)
(* listens again, for the wake word with an empty ring.                    *)
LEMMA FinishedPlaces ==
    ASSUME IInv, Places, AudioAssumption, ending # None, Finished,
           \/ call' = call
           \/ call.kind = "chunk" /\ call' = [call EXCEPT !.left = 0]
    PROVE  Places'
  <1>1. /\ Types /\ ShapeInv /\ VadInv /\ SpeechInv /\ LastIsReported /\ HistoryInv /\ RingInv
        /\ WakeOrder
    BY DEF IInv, Places
  <1>2. /\ ending' = None
        /\ UNCHANGED <<parts, now, utterance, last, vad, vadOffset, horizon>>
    BY DEF Finished
  <1>3. /\ now \in Int /\ horizon \in Int /\ 0 <= horizon /\ horizon <= now /\ said \in Saids
        /\ said.to \in Int /\ said.to <= now /\ said.open = None /\ utterance = <<>>
        /\ state \in {"SpeechActive", "Transcribing"}
    BY <1>1 DEF Types, ShapeInv, Saids
  <1>4. (HasVad' <=> HasVad) /\ (WakesFirst' <=> WakesFirst) /\ Listening' = Listening
    BY <1>2 DEF HasVad, WakesFirst, Listening
  <1>5. call'.kind = call.kind /\ (call.kind = "flush" => call'.closes = call.closes)
    BY <1>1 DEF Types, Calls, Idle
  <1>6. Recent(horizon', now') = Span(Max({horizon, now - HistoryLimit}), now)
    <2>1. {horizon', now' - HistoryLimit} = {horizon, now - HistoryLimit}
      BY <1>2
    <2> QED BY <1>2, <2>1 DEF Recent
  <1>7. CASE ending.continues
    <2>1. /\ state' = "SpeechActive" /\ start' = ending.to
          /\ said' = [said EXCEPT !.open = ending.to] /\ history' = history
      BY <1>7 DEF Finished
    <2>2. HasVad /\ ending.to = now /\ call'.kind # "flush"
      BY <1>1, <1>5, <1>7 DEF ShapeInv
    <2>3. said'.open = now /\ said'.to = said.to /\ said'.wake = said.wake /\ said'.from = said.from
      BY <1>3, <2>1, <2>2 DEF Saids
    <2>4. ShapeInv'
      BY <1>2, <1>3, <1>4, <2>1, <2>2, <2>3 DEF ShapeInv, States
    <2>5. VadInv' /\ RingInv'
      BY <1>1, <1>2, <1>3, <1>4, <1>7, <2>1 DEF VadInv, RingInv
    <2>6. SpeechInv'
      <3>1. Span(now, now) = <<>>
        BY <1>3, SpanEmpty
      <3> QED BY <1>2, <1>3, <2>1, <2>2, <2>3, <3>1 DEF SpeechInv
    <2>7. LastIsReported'
      BY <1>1, <1>2, <2>3 DEF LastIsReported
    <2>8. HistoryInv'
      BY <1>1, <1>3, <1>4, <1>6, <2>1, <2>2 DEF HistoryInv, Recent
    <2>9. WakeOrder'
      BY <1>1, <1>2, <1>3, <1>4, <2>1, <2>3 DEF WakeOrder
    <2> QED BY <2>4, <2>5, <2>6, <2>7, <2>8, <2>9 DEF Places
  <1>8. CASE ~ending.continues
    <2>1. /\ state' = Listening /\ hot' = (IF WakesFirst THEN ResumeAfterPause(now - pausedAt) ELSE hot)
          /\ history' = (IF WakesFirst THEN <<>> ELSE history) /\ UNCHANGED <<start, said>>
      BY <1>8 DEF Finished
    <2>2. ShapeInv'
      BY <1>1, <1>2, <1>3, <1>4, <1>5, <2>1 DEF ShapeInv, States, Listening
    <2>3. VadInv'
      BY <1>1, <1>2, <1>3, <1>4, <1>8, <2>1 DEF VadInv, Listening
    <2>4. SpeechInv' /\ LastIsReported'
      BY <1>1, <1>2, <1>3, <1>4, <2>1 DEF SpeechInv, LastIsReported, Listening
    <2>5. HistoryInv'
      BY <1>1, <1>3, <1>4, <1>6, <2>1 DEF HistoryInv, Recent, Listening
    <2>6. RingInv'
      <3> SUFFICES ASSUME WakesFirst PROVE RingInv'
        BY <2>1 DEF RingInv, Listening
      <3>1. hot'.ring = <<>>
        BY <2>1 DEF ResumeAfterPause, ResetHot
      <3>2. Span(now, now) = <<>> /\ Len(<<>>) = 0
        BY <1>3, SpanEmpty
      <3>3. now - 0 = now
        BY <1>3
      <3> QED BY <1>2, <1>3, <2>1, <3>1, <3>2, <3>3 DEF RingInv
    <2>7. WakeOrder'
      BY <1>1, <1>2, <1>3, <1>4, <2>1 DEF WakeOrder, Listening
    <2> QED BY <2>2, <2>3, <2>4, <2>5, <2>6, <2>7 DEF Places
  <1> QED BY <1>7, <1>8

(* A flush cuts the utterance between its start and now.                   *)
LEMMA FlushPlaces ==
    ASSUME IInv, Places, AudioAssumption, Flush
    PROVE  Places'
  <1> DEFINE clock == vad.clock + vad.buffered
             to == FlushEnd(clock)
             buffer == SubSeq(utterance, 1, Min({to - start, Len(utterance)}))
  <1>1. /\ Types /\ ShapeInv /\ VadInv /\ SpeechInv /\ HistoryInv
    BY DEF IInv, Places
  <1>2. /\ call = Idle /\ call' = [kind |-> "flush", closes |-> state = "SpeechActive"]
        /\ UNCHANGED <<parts, now, history, start, vadOffset, hot, horizon>>
    BY DEF Flush
  <1>3. ending = None /\ now \in Int
    BY <1>1, <1>2 DEF Types, Idle
  <1>4. CASE state = "SpeechActive"
    <2>1. /\ EndUtterance(buffer, start, to, FALSE)
          /\ vad' = IF HasVad THEN [ResetVad EXCEPT !.clock = clock] ELSE vad
      BY <1>4 DEF Flush
    <2>2. /\ start \in Int /\ start <= now /\ vadOffset \in Int /\ utterance = Span(start, now)
          /\ vad.clock \in Int /\ vad.buffered \in Int /\ vad.tempEnd \in Int \cup {None}
          /\ Pad \in Int
      BY <1>1, <1>3, <1>4 DEF Types, SpeechInv, VadStates, AudioAssumption
    <2>3. HasVad => 0 <= clock /\ vadOffset + clock = now
      <3> SUFFICES ASSUME HasVad PROVE 0 <= clock /\ vadOffset + clock = now
        OBVIOUS
      <3>1. /\ 0 <= vad.buffered /\ 0 <= vad.clock /\ vadOffset + vad.clock + vad.buffered = now
        BY <1>1, <1>4 DEF VadInv
      <3> QED BY <2>2, <3>1
    <2>4. clock \in Int
      BY <2>2
    <2> HIDE DEF clock
    <2>5. to \in Int /\ start <= to /\ to <= now
      <3> DEFINE at == IF vad.tempEnd = None THEN clock ELSE vad.tempEnd
                 edge == Min({Pad + at, clock})
      <3>1. at \in Int
        BY <2>2, <2>4
      <3> HIDE DEF at
      <3>2. Pad + at \in Int
        BY <2>2, <3>1
      <3>3. edge \in Int
        BY <2>4, <3>2, MinOfTwo
      <3> HIDE DEF edge
      <3>4. vadOffset + edge \in Int
        BY <2>2, <3>3
      <3>5. Clamp(vadOffset + edge, start, now) \in Int
            /\ start <= Clamp(vadOffset + edge, start, now) /\ Clamp(vadOffset + edge, start, now) <= now
        BY <1>3, <2>2, <3>4, ClampIs
      <3>6. to = Clamp(vadOffset + edge, start, now) \/ to = now
        BY DEF FlushEnd, edge, at
      <3> QED BY <1>3, <2>2, <3>5, <3>6
    <2> HIDE DEF to
    <2>6. buffer = Span(start, to)
      BY <1>3, <2>2, <2>5, CutAtIs
    <2> HIDE DEF buffer
    <2>7. /\ ending' = [to |-> to, continues |-> FALSE] /\ ending' # None
          /\ utterance' = <<>> /\ LastIsReported'
          /\ said'.open = None /\ said'.to = to /\ said'.wake = said.wake
          /\ state' \in {"SpeechActive", "Transcribing"}
      BY <1>1, <1>4, <2>1, <2>2, <2>5, <2>6, EndPlaces
    <2>8. ~ending'.continues
      BY <2>7
    <2>9. call'.kind = "flush" /\ call'.closes
      BY <1>2, <1>4
    <2>10. HasVad => /\ 0 <= vad'.buffered /\ vad'.buffered < Window /\ 0 <= vad'.clock
                     /\ vadOffset + vad'.clock + vad'.buffered = now'
                     /\ vad'.triggered <=> ending'.continues
                     /\ history' = Recent(horizon, now')
      <3> SUFFICES ASSUME HasVad
                   PROVE  /\ 0 <= vad'.buffered /\ vad'.buffered < Window /\ 0 <= vad'.clock
                          /\ vadOffset + vad'.clock + vad'.buffered = now'
                          /\ vad'.triggered <=> ending'.continues
                          /\ history' = Recent(horizon, now')
        OBVIOUS
      <3>1. vad'.clock = clock /\ vad'.buffered = 0 /\ ~vad'.triggered
        BY <2>1 DEF ResetVad
      <3>2. 0 < Window /\ Window \in Int
        BY DEF AudioAssumption
      <3>3. /\ 0 <= vad'.buffered /\ vad'.buffered < Window /\ 0 <= vad'.clock
            /\ vadOffset + vad'.clock + vad'.buffered = now'
            /\ vad'.triggered <=> ending'.continues
        BY <1>2, <2>2, <2>3, <2>4, <2>8, <3>1, <3>2
      <3>4. history' = Recent(horizon, now')
        <4>1. {horizon, now' - HistoryLimit} = {horizon, now - HistoryLimit}
          BY <1>2
        <4> QED BY <1>1, <1>2, <1>4, <4>1 DEF HistoryInv, Recent
      <3> QED BY <3>3, <3>4
    <2>11. ~HasVad => history' = <<>>
      BY <1>1, <1>2, <1>4 DEF HistoryInv
    <2>12. to <= now' /\ now <= now' /\ now' \in Int
      BY <1>2, <1>3, <2>5
    <2>13. UNCHANGED <<parts, vadOffset, horizon>>
      BY <1>2
    <2> QED BY <1>3, <1>4, <2>5, <2>7, <2>8, <2>9, <2>10, <2>11, <2>12, <2>13, EndingPlaces
  <1>5. CASE state # "SpeechActive"
    <2>1. UNCHANGED <<state, utterance, last, ending, said, vad>>
      BY <1>5 DEF Flush
    <2>2. call'.closes => state = "SpeechActive"
      BY <1>2
    <2> QED BY <1>2, <1>3, <1>5, <2>1, <2>2, PlacesKept
  <1> QED BY <1>4, <1>5

(* A flush that ended an utterance leaves nothing to reach back into.      *)
LEMMA FlushReturnsPlaces ==
    ASSUME IInv, Places, AudioAssumption, FlushReturns
    PROVE  Places'
  <1>1. /\ Types /\ ShapeInv /\ VadInv /\ SpeechInv /\ LastIsReported /\ HistoryInv /\ RingInv
        /\ WakeOrder
    BY DEF IInv, Places
  <1>2. /\ call.kind = "flush" /\ ending = None /\ call' = Idle
        /\ UNCHANGED <<parts, state, now, utterance, last, start, hot, ending, said>>
    BY DEF FlushReturns
  <1>3. call'.kind # "flush"
    BY <1>2 DEF Idle
  <1>4. CASE call.closes
    <2>1. vad' = ResetVad /\ vadOffset' = now /\ history' = <<>> /\ horizon' = now
      BY <1>4 DEF FlushReturns
    <2>2. state = Listening /\ now \in Int /\ 0 <= now /\ horizon \in Int /\ horizon <= now
          /\ PreRoll \in Int /\ 0 <= PreRoll /\ said \in Saids
      BY <1>1, <1>2, <1>4 DEF ShapeInv, Types, AudioAssumption
    <2>3. (HasVad' <=> HasVad) /\ (WakesFirst' <=> WakesFirst) /\ Listening' = Listening
      BY <1>2 DEF HasVad, WakesFirst, Listening
    <2>4. ShapeInv'
      BY <1>1, <1>2, <1>3, <2>1, <2>2, <2>3 DEF ShapeInv
    <2>5. VadInv'
      <3>1. Window \in Int /\ 0 < Window
        BY DEF AudioAssumption
      <3> QED BY <1>2, <2>1, <2>2, <2>3, <3>1 DEF VadInv, ResetVad, Listening
    <2>6. SpeechInv' /\ LastIsReported' /\ RingInv'
      BY <1>1, <1>2 DEF SpeechInv, LastIsReported, RingInv
    <2>7. HistoryInv'
      <3> DEFINE m == Max({horizon', now' - HistoryLimit})
      <3>1. HistoryLimit \in Int /\ 0 <= HistoryLimit
        BY DEF HistoryLimit, AudioAssumption
      <3>2. now' \in Int /\ horizon' \in Int /\ now' - HistoryLimit \in Int /\ horizon' = now'
            /\ horizon' >= now' - HistoryLimit
        BY <1>2, <2>1, <2>2, <3>1
      <3>3. m = horizon'
        BY <3>2, MaxOfTwo
      <3> HIDE DEF m
      <3>4. Span(m, now') = <<>>
        BY <3>2, <3>3, SpanEmpty
      <3>5. ~(state' = "ListeningForSpeech" /\ WakesFirst')
        BY <1>2, <2>2, <2>3 DEF Listening
      <3> QED BY <2>1, <3>4, <3>5 DEF HistoryInv, m
    <2>8. WakeOrder'
      <3> SUFFICES ASSUME WakesFirst PROVE WakeOrder'
        BY <2>3 DEF WakeOrder
      <3>1. state = "ListeningForHotword"
        BY <2>2 DEF Listening
      <3>2. said.wake # None => said.wake \in Int /\ said.wake <= horizon + PreRoll
        BY <1>1, <2>2 DEF WakeOrder, Saids
      <3>3. said.wake # None => said.wake <= now + PreRoll
        BY <2>2, <3>2
      <3>4. said.open = None
        BY <1>1, <3>1 DEF ShapeInv
      <3> QED BY <1>2, <2>1, <3>1, <3>3, <3>4 DEF WakeOrder
    <2> QED BY <2>4, <2>5, <2>6, <2>7, <2>8 DEF Places
  <1>5. CASE ~call.closes
    <2>1. UNCHANGED <<vad, vadOffset, history, horizon>>
      BY <1>5 DEF FlushReturns
    <2> QED BY <1>2, <1>3, <2>1, PlacesKept
  <1> QED BY <1>4, <1>5

LEMMA MinOfFiveIs ==
    ASSUME NEW a \in Int, NEW b \in Int, NEW c \in Int, NEW d \in Int, NEW e \in Int
    PROVE  LET m == Min({a, b, c, d, e}) IN
           m \in {a, b, c, d, e} /\ m <= a /\ m <= b /\ m <= c /\ m <= d /\ m <= e
  <1> DEFINE A == {e} \cup {d}
             B == A \cup {c}
             C == B \cup {b}
             D == C \cup {a}
  <1>1. \E m \in {e} : \A y \in {e} : m <= y
    OBVIOUS
  <1>2. \E m \in A : \A y \in A : m <= y
    BY <1>1, OneMore
  <1>3. \E m \in B : \A y \in B : m <= y
    <2>1. A \in SUBSET Int
      OBVIOUS
    <2> HIDE DEF A
    <2> QED BY <1>2, <2>1, OneMore
  <1>4. \E m \in C : \A y \in C : m <= y
    <2>1. B \in SUBSET Int
      OBVIOUS
    <2> HIDE DEF B
    <2> QED BY <1>3, <2>1, OneMore
  <1>5. \E m \in D : \A y \in D : m <= y
    <2>1. C \in SUBSET Int
      OBVIOUS
    <2> HIDE DEF C
    <2> QED BY <1>4, <2>1, OneMore
  <1>6. D = {a, b, c, d, e} /\ D \in SUBSET Int
    OBVIOUS
  <1>7. a \in D /\ b \in D /\ c \in D /\ d \in D /\ e \in D
    OBVIOUS
  <1> HIDE DEF D
  <1>8. Min(D) \in D /\ \A y \in D : Min(D) <= y
    BY <1>5, <1>6, MinIs
  <1> QED BY <1>6, <1>7, <1>8

(* The wake detector's ring ends where the stream does, after the last     *)
(* utterance; a wake word reaches back into it no farther than it goes.    *)
LEMMA HearingPlaces ==
    ASSUME Types, RingInv, AudioAssumption, state = "ListeningForHotword",
           NEW n \in Int, 0 <= n, NEW t \in Int, t = now + n
    PROVE  LET r == Hearing(n).ring IN
           /\ Len(r) \in Int /\ 0 <= Len(r)
           /\ r = Span(t - Len(r), t) /\ said.to <= t - Len(r)
  <1> DEFINE l == Len(hot.ring)
             r == Hearing(n).ring
  <1>1. /\ now \in Int /\ hot \in HotStates /\ l \in Int /\ 0 <= l /\ said.to \in Int
        /\ Ring \in Int /\ 0 <= Ring
    BY DEF Types, HotStates, Saids, AudioAssumption
  <1>2. hot.ring = Span(now - l, now) /\ said.to <= now - l
    BY DEF RingInv
  <1> HIDE DEF l
  <1>3. PICK a \in Int : a = now - l
    BY <1>1
  <1> DEFINE s == Span(a, t)
             k == Min({Ring, Len(s)})
  <1>4. hot.ring \o Span(now, t) = s
    <2>1. a <= now /\ now <= t
      BY <1>1, <1>3
    <2>2. Span(a, now) \o Span(now, t) = s
      BY <1>1, <2>1, SpanJoin
    <2> QED BY <1>2, <1>3, <2>2
  <1>5. Len(s) = t - a /\ t - a \in Int /\ 0 <= t - a /\ a <= t
    <2>1. a <= t
      BY <1>1, <1>3
    <2>2. Len(s) = t - a
      BY <2>1, SpanIs
    <2> QED BY <2>1, <2>2
  <1>6. r = Newest(s, k)
    <2>1. hot \in [clock : Int, lastEval : Int, cooldownUntil : Int, ring : Seq(Int)]
      BY <1>1 DEF HotStates
    <2> HIDE DEF k, s
    <2>2. r = Newest(hot.ring \o Span(now, now + n), Min({Ring, Len(hot.ring \o Span(now, now + n))}))
      BY <2>1 DEF Hearing
    <2> QED BY <1>4, <2>2 DEF k
  <1>7. k \in Int /\ 0 <= k /\ k <= t - a
    <2> DEFINE e == t - a
    <2>1. e \in Int
      BY <1>5
    <2>2. k = Min({Ring, e})
      BY <1>5
    <2> HIDE DEF e, s, k
    <2>3. Min({Ring, e}) \in {Ring, e} /\ Min({Ring, e}) <= e
      BY <1>1, <2>1, MinOfTwo
    <2> QED BY <1>1, <1>5, <2>2, <2>3 DEF e
  <1> HIDE DEF k
  <1>8. Newest(s, k) = Span(t - k, t)
    BY <1>7, SpanNewest
  <1>9. Len(r) = k
    <2> DEFINE c == t - k
    <2>1. c \in Int /\ c <= t /\ t - c = k
      BY <1>7
    <2> HIDE DEF c
    <2>2. Len(Span(c, t)) = t - c
      BY <2>1, SpanIs
    <2> QED BY <1>6, <1>8, <2>1, <2>2 DEF c
  <1>10. said.to <= t - k
    BY <1>1, <1>2, <1>3, <1>7
  <1> HIDE DEF r, s
  <1> QED BY <1>6, <1>7, <1>8, <1>9, <1>10 DEF r

LEMMA ListenForHotwordPlaces ==
    ASSUME IInv, Places, AudioAssumption, NEW detected \in BOOLEAN, ListenForHotword(detected)
    PROVE  Places'
  <1> DEFINE n == Min({call.left, SamplesUntilHop})
             h == Hearing(n)
             preRoll == Min({PreRoll, WakePreRollCap, MaxUtterance - Window, now + n, Len(h.ring)})
  <1>1. /\ Types /\ ShapeInv /\ VadInv /\ SpeechInv /\ LastIsReported /\ HistoryInv /\ RingInv
        /\ WakeOrder
    BY DEF IInv, Places
  <1>2. call.kind = "chunk" /\ call.left > 0 /\ ending = None /\ state = "ListeningForHotword"
    BY DEF ListenForHotword, Looping
  <1>3. n \in Int /\ 0 <= n
    <2>1. Hop - (hot.clock - hot.lastEval) \in Int
      BY <1>1 DEF Types, HotStates, AudioAssumption
    <2>2. SamplesUntilHop \in Int /\ SamplesUntilHop > 0
      BY <2>1, MaxOfTwo DEF SamplesUntilHop
    <2>3. call.left \in Int
      BY <1>1, <1>2 DEF Types, Calls, Idle
    <2>4. n \in {call.left, SamplesUntilHop}
      BY <2>2, <2>3, MinOfTwo
    <2> HIDE DEF n
    <2> QED BY <1>2, <2>2, <2>3, <2>4
  <1>4. Advance(n) /\ UNCHANGED <<parts, last, start, ending>>
    BY DEF ListenForHotword
  <1> HIDE DEF n
  <1>5. /\ now \in Int /\ horizon \in Int /\ 0 <= horizon /\ horizon <= now /\ now' = now + n
        /\ said \in Saids /\ said.to \in Int /\ said.to <= now /\ WakesFirst /\ said.open = None
    BY <1>1, <1>2, <1>4 DEF Types, ShapeInv, Saids, Advance
  <1>6. call'.kind = "chunk"
    BY <1>1, <1>2, <1>3, <1>4, AdvanceKind
  <1>7. (HasVad' <=> HasVad) /\ (WakesFirst' <=> WakesFirst) /\ Listening' = Listening
    BY <1>4 DEF HasVad, WakesFirst, Listening
  <1> DEFINE l == Len(h.ring)
  <1>11. PICK t \in Int : t = now + n
    BY <1>3, <1>5
  <1>12. now' = t /\ now <= t
    BY <1>3, <1>5, <1>11
  <1>8. l \in Int /\ 0 <= l /\ h.ring = Span(t - l, t) /\ said.to <= t - l
    BY <1>1, <1>2, <1>3, <1>11, HearingPlaces
  <1> HIDE DEF h
  <1>9. CASE detected
    <2> DEFINE p == preRoll
    <2>1. /\ history' = Newest(h.ring, p) /\ utterance' = <<>>
          /\ vad' = ResetVad /\ vadOffset' = t
          /\ state' = "ListeningForSpeech"
          /\ said' = [said EXCEPT !.wake = t] /\ horizon' = now + n - p
      <3>1. /\ history' = Newest(h.ring, p) /\ utterance' = <<>>
            /\ vad' = ResetVad /\ vadOffset' = now + n
            /\ state' = "ListeningForSpeech"
            /\ said' = [said EXCEPT !.wake = now + n] /\ horizon' = now + n - p
        BY <1>9 DEF ListenForHotword, n, h
      <3> HIDE DEF p
      <3> QED BY <1>11, <3>1
    <2>2. /\ PreRoll \in Int /\ 0 <= PreRoll /\ WakePreRollCap \in Int /\ 0 <= WakePreRollCap
          /\ MaxUtterance - Window \in Int /\ 0 <= MaxUtterance - Window
          /\ Window \in Int /\ 0 < Window
          /\ HistoryLimit \in Int /\ PreRoll <= HistoryLimit
      BY DEF AudioAssumption, HistoryLimit
    <2>3. p \in Int /\ 0 <= p /\ p <= PreRoll /\ p <= t /\ p <= l
      <3> DEFINE u == MaxUtterance - Window
      <3>1. u \in Int /\ 0 <= u /\ 0 <= t
        BY <1>5, <1>12, <2>2
      <3> HIDE DEF l
      <3>2. p = Min({PreRoll, WakePreRollCap, u, t, l})
        BY <1>11 DEF l
      <3> HIDE DEF u, p
      <3>3. /\ p \in {PreRoll, WakePreRollCap, u, t, l} /\ p <= PreRoll /\ p <= WakePreRollCap
            /\ p <= u /\ p <= t /\ p <= l
        BY <1>8, <2>2, <3>1, <3>2, MinOfFiveIs
      <3> QED BY <1>8, <2>2, <3>1, <3>3
    <2> HIDE DEF p, l
    <2>14. horizon' = t - p
      BY <1>3, <1>5, <1>11, <2>1, <2>3
    <2>4. history' = Span(t - p, t)
      <3> DEFINE c == t - l
      <3>1. c \in Int /\ p <= t - c
        BY <1>8, <2>3
      <3> HIDE DEF c
      <3>2. Newest(Span(c, t), p) = Span(t - p, t)
        BY <2>3, <3>1, SpanNewest
      <3> QED BY <1>8, <2>1, <3>2 DEF c
    <2>5. /\ horizon' \in Int /\ 0 <= horizon' /\ horizon' <= now' /\ said.to <= now'
          /\ said.to <= horizon' /\ now' <= horizon' + PreRoll
      <3>1. /\ t - p \in Int /\ 0 <= t - p /\ t - p <= t /\ said.to <= t - p
            /\ said.to <= t /\ t <= (t - p) + PreRoll
        BY <1>5, <1>8, <2>2, <2>3
      <3> QED BY <1>12, <2>14, <3>1
    <2>6. history' = Span(horizon', now')
      BY <1>12, <2>14, <2>4
    <2>7. /\ said'.open = None /\ said'.to = said.to /\ said'.from = said.from
          /\ said'.wake = t /\ said'.wake = now' /\ said'.wake # None
      <3>1. t # None
        BY <1>11 DEF AudioAssumption
      <3> QED BY <1>5, <1>12, <2>1, <3>1 DEF Saids
    <2>8. ShapeInv'
      BY <1>4, <1>2, <1>6, <2>1, <2>5, <2>7 DEF ShapeInv, States
    <2>9. VadInv'
      BY <1>2, <1>4, <1>12, <2>1, <2>2, <2>5 DEF VadInv, ResetVad
    <2>10. SpeechInv' /\ RingInv'
      BY <2>1 DEF SpeechInv, RingInv
    <2>11. LastIsReported'
      BY <1>1, <1>4, <2>7 DEF LastIsReported
    <2>12. HistoryInv'
      <3> DEFINE o == horizon'
      <3>1. o \in Int /\ t <= o + PreRoll
        BY <1>12, <2>5
      <3>2. Max({o, t - HistoryLimit}) = o
        <4> HIDE DEF o
        <4>1. t - HistoryLimit \in Int /\ t - HistoryLimit <= o
          BY <2>2, <3>1
        <4> QED BY <3>1, <4>1, MaxOfTwo
      <3>3. {horizon', now' - HistoryLimit} = {o, t - HistoryLimit}
        BY <1>12
      <3> QED BY <1>7, <2>1, <2>6, <3>2, <3>3, <1>5 DEF HistoryInv
    <2>13. WakeOrder'
      BY <2>1, <2>5, <2>7 DEF WakeOrder
    <2> QED BY <2>8, <2>9, <2>10, <2>11, <2>12, <2>13 DEF Places
  <1>10. CASE ~detected
    <2>1. hot' = h /\ UNCHANGED <<history, utterance, vad, vadOffset, state, said, horizon>>
      BY <1>10 DEF ListenForHotword, n, h, history_
    <2>2. horizon <= now' /\ said.to <= now' /\ now' \in Int
      BY <1>3, <1>5
    <2>3. ShapeInv'
      BY <1>1, <1>2, <1>4, <1>5, <1>6, <1>7, <2>1, <2>2 DEF ShapeInv
    <2>4. VadInv' /\ SpeechInv' /\ HistoryInv' /\ WakeOrder'
      BY <1>1, <1>2, <1>4, <1>7, <2>1 DEF VadInv, SpeechInv, HistoryInv, WakeOrder
    <2>5. LastIsReported'
      BY <1>1, <1>4, <2>1 DEF LastIsReported
    <2>6. RingInv'
      BY <1>8, <1>12, <2>1 DEF RingInv, l
    <2> QED BY <2>3, <2>4, <2>5, <2>6 DEF Places
  <1> QED BY <1>9, <1>10

LEMMA ProcessChunkPlaces ==
    ASSUME Places, NEW n \in Chunks, ProcessChunk(n)
    PROVE  Places'
  <1>1. call'.kind # "flush"
    BY DEF ProcessChunk
  <1> QED BY <1>1, PlacesKept DEF ProcessChunk, buffers, detectors, history_

LEMMA QuietPlaces ==
    ASSUME Places, ChunkReturns \/ TakeLastUtterance \/ UNCHANGED vars
    PROVE  Places'
  <1>1. Idle.kind # "flush"
    BY DEF Idle
  <1> QED
    BY <1>1, PlacesKept DEF ChunkReturns, TakeLastUtterance, vars, buffers, detectors, history_

LEMMA FreshPlaces ==
    ASSUME state = Listening, now = 0, vadOffset = 0, history = <<>>, utterance = <<>>,
           last = <<>>, vad = ResetVad, hot = ResetHot, said = NothingSaid, horizon = 0,
           ending = None, call.kind # "flush", AudioAssumption
    PROVE  Places
  <1>1. ShapeInv
    BY DEF ShapeInv, States, Listening, NothingSaid
  <1>2. VadInv
    <2>1. Window \in Int /\ 0 < Window /\ PreRoll \in Int /\ 0 <= PreRoll
      BY DEF AudioAssumption
    <2> QED BY <2>1 DEF VadInv, ResetVad, Listening
  <1>3. SpeechInv /\ LastIsReported
    BY DEF SpeechInv, LastIsReported, Listening, NothingSaid
  <1>4. Span(0, 0) = <<>>
    BY SpanEmpty
  <1>5. Max({horizon, now - HistoryLimit}) = 0
    <2>1. HistoryLimit \in Int /\ 0 <= HistoryLimit
      BY DEF HistoryLimit, AudioAssumption
    <2> DEFINE a == horizon
               b == now - HistoryLimit
    <2>2. a \in Int /\ b \in Int /\ b <= a /\ a = 0
      BY <2>1
    <2> HIDE DEF a, b
    <2>3. Max({a, b}) = a
      BY <2>2, MaxOfTwo
    <2> QED BY <2>2, <2>3 DEF a, b
  <1>6. HistoryInv
    BY <1>4, <1>5 DEF HistoryInv, Listening
  <1>7. RingInv
    <2>1. hot.ring = <<>> /\ said.to = 0
      BY DEF ResetHot, NothingSaid
    <2>2. Len(<<>>) = 0
      OBVIOUS
    <2>3. Len(hot.ring) = 0
      BY <2>1, <2>2
    <2>4. now - Len(hot.ring) = 0
      BY <2>3
    <2> QED BY <1>4, <2>1, <2>4 DEF RingInv
  <1>8. WakeOrder
    BY DEF WakeOrder, NothingSaid, Listening
  <1> QED BY <1>1, <1>2, <1>3, <1>6, <1>7, <1>8 DEF Places

LEMMA InitPlaces == ASSUME Init, AudioAssumption PROVE Places
  <1>1. call.kind # "flush"
    BY DEF Init, Idle
  <1> QED BY <1>1, FreshPlaces DEF Init

LEMMA ResetPlaces ==
    ASSUME IInv, AudioAssumption, Reset
    PROVE  Places'
  <1>1. ending = None /\ call'.kind # "flush" /\ ending' = ending
    BY DEF IInv, Types, Reset, Idle
  <1>2. Listening' = Listening
    BY DEF Reset, Listening, WakesFirst
  <1>3. /\ state' = Listening' /\ now' = 0 /\ vadOffset' = 0 /\ history' = <<>> /\ utterance' = <<>>
        /\ last' = <<>> /\ vad' = ResetVad /\ hot' = ResetHot /\ said' = NothingSaid
        /\ horizon' = 0 /\ ending' = None
    BY <1>1, <1>2 DEF Reset
  <1>4. (state = Listening /\ now = 0 /\ vadOffset = 0 /\ history = <<>> /\ utterance = <<>>
         /\ last = <<>> /\ vad = ResetVad /\ hot = ResetHot /\ said = NothingSaid
         /\ horizon = 0 /\ ending = None /\ call.kind # "flush" /\ AudioAssumption => Places)'
    BY FreshPlaces, PTL
  <1> QED BY <1>1, <1>3, <1>4

LEMMA PlacesStep ==
    ASSUME IInv, Places, AudioAssumption, [Next]_vars
    PROVE  Places' /\ \A verdict \in Verdicts : SpeechStarts(verdict) => Unclipped(verdict)
  <1>1. ASSUME NEW n \in Chunks, ProcessChunk(n)  PROVE Places'
    BY <1>1, ProcessChunkPlaces
  <1>2. ASSUME NEW detected \in BOOLEAN, ListenForHotword(detected)  PROVE Places'
    BY <1>2, ListenForHotwordPlaces
  <1>3. ASSUME NEW verdict \in Verdicts,
               ListenOn(verdict) \/ SpeechStarts(verdict) \/ SpeechEnds(verdict)
        PROVE  Places'
    BY <1>3, ListenOnPlaces, SpeechStartsPlaces, SpeechEndsPlaces
  <1>4. ASSUME SpeakWithoutVad \/ Split  PROVE Places'
    BY <1>4, SpeakWithoutVadPlaces, SplitPlaces
  <1>5. ASSUME FinishSilently \/ Transcribed \/ TranscriptionFails  PROVE Places'
    BY <1>5, FinishedPlaces DEF FinishSilently, Transcribed, TranscriptionFails
  <1>6. ASSUME ChunkReturns \/ TakeLastUtterance \/ UNCHANGED vars  PROVE Places'
    BY <1>6, QuietPlaces
  <1>7. ASSUME Flush \/ FlushReturns \/ Reset  PROVE Places'
    BY <1>7, FlushPlaces, FlushReturnsPlaces, ResetPlaces
  <1>8. Places'
    BY <1>1, <1>2, <1>3, <1>4, <1>5, <1>6, <1>7 DEF Next, Step
  <1>9. \A verdict \in Verdicts : SpeechStarts(verdict) => Unclipped(verdict)
    BY SpeechStartsPlaces
  <1> QED BY <1>8, <1>9

LEMMA PlacesHold == Spec => [](IInv /\ Places)
  <1>1. Init => Places
    BY InitPlaces, AudioAssumption
  <1>2. Init => IInv
    BY InitInv, AudioAssumption
  <1>3. (IInv /\ Places) /\ [Next]_vars => (IInv /\ Places)'
    BY NextStep, PlacesStep, AudioAssumption
  <1> QED BY <1>1, <1>2, <1>3, PTL DEF Spec

(* The voice detector's clock, reset at every wake word and every flush,   *)
(* agrees with the stream's, and its state with the pipeline's: an offset  *)
(* it reports is a place in the stream (process_vad_part, flush).          *)
THEOREM AudioVadClock == Spec => []VadClockAgrees
  <1>1. ASSUME IInv, Places PROVE VadClockAgrees
    <2> SUFFICES ASSUME HasVad, state \in {"ListeningForSpeech", "SpeechActive"}, ending = None
                 PROVE  /\ vadOffset + vad.clock + vad.buffered = now
                        /\ vad.triggered = (state = "SpeechActive")
      BY DEF VadClockAgrees
    <2>1. VadInv /\ Types
      BY <1>1 DEF Places, IInv
    <2>2. vadOffset + vad.clock + vad.buffered = now
      BY <2>1 DEF VadInv
    <2>3. vad.triggered <=> state = "SpeechActive"
      BY <2>1 DEF VadInv
    <2>4. vad.triggered \in BOOLEAN
      BY <2>1 DEF Types, VadStates
    <2>5. vad.triggered = (state = "SpeechActive")
      BY <2>3, <2>4
    <2> QED BY <2>2, <2>5
  <1> QED BY <1>1, PlacesHold, PTL

(* Every buffer is the stretch of the stream it is reported as, wherever a *)
(* pre-roll, a split, a flush or a wake word put its start.                *)
THEOREM AudioBuffersAreSpans == Spec => []BuffersAreSpans
  <1>1. Places => UtteranceIsItsSpan
    BY DEF Places, SpeechInv, UtteranceIsItsSpan
  <1>2. Places => LastIsReported
    BY DEF Places
  <1>3. Places => HistoryIsRecent
    BY DEF Places, HistoryInv, HistoryIsRecent
  <1>4. Places => BuffersAreSpans
    BY <1>1, <1>2, <1>3 DEF BuffersAreSpans
  <1> QED BY <1>4, PlacesHold, PTL

(* An utterance starts a pre-roll before its speech as far as there is     *)
(* audio to keep, and never before its wake word or within another.        *)
THEOREM AudioOnset == Spec => OnsetIsPlaced
  <1>1. ASSUME IInv, Places PROVE SpeechAfterWake
    <2> SUFFICES ASSUME WakesFirst, said.open # None
                 PROVE  /\ said.wake # None /\ said.open >= said.wake - PreRoll
                        /\ said.open >= said.to
      BY DEF SpeechAfterWake
    <2>1. Types /\ ShapeInv /\ WakeOrder
      BY <1>1 DEF IInv, Places
    <2>2. state = "SpeechActive"
      BY <2>1 DEF ShapeInv
    <2>3. /\ said.wake # None /\ said.wake <= horizon + PreRoll
          /\ said.open >= horizon /\ said.open >= said.to
      BY <2>1, <2>2 DEF WakeOrder
    <2>4. said.wake \in Int /\ said.open \in Int /\ horizon \in Int /\ PreRoll \in Int
      BY <2>1, <2>3, AudioAssumption DEF Types, Saids, ShapeInv, AudioAssumption
    <2> QED BY <2>3, <2>4
  <1>2. IInv /\ Places /\ [Next]_vars
          => [\A verdict \in Verdicts : SpeechStarts(verdict) =>
                 start' <= Max({Minus(vadOffset + vad.clock, Pad + PreRoll), horizon,
                                now' - MaxUtterance})]_vars
    <2>1. ASSUME IInv, Places, [Next]_vars
          PROVE  \A verdict \in Verdicts : SpeechStarts(verdict) => Unclipped(verdict)
      BY <2>1, PlacesStep, AudioAssumption
    <2> QED BY <2>1 DEF Unclipped
  <1>3. Spec => [][Next]_vars
    BY PTL DEF Spec
  <1>4. Spec => OnsetNotClipped
    BY <1>2, <1>3, PlacesHold, PTL DEF OnsetNotClipped
  <1>5. Spec => []SpeechAfterWake
    BY <1>1, PlacesHold, PTL
  <1> QED BY <1>4, <1>5 DEF OnsetIsPlaced
=============================================================================
