---------------------------- MODULE HexagonProofs ----------------------------
(***************************************************************************)
(* Theorems about the command queue and the pager, for any model, sizes    *)
(* and number of passes, whatever the DSP answers and whenever.            *)
(***************************************************************************)
EXTENDS HexagonModel, TLAPS, SequenceTheorems, FiniteSetTheorems

Op == Nat \X Nat \X (1 .. Layers)
Request == [seq : Nat, at : Nat, ops : Seq(Op)]
Answer == [seq : Nat, good : BOOLEAN]

Waits == [seq : Nat, stale : 0 .. MaxStale, by : {"none", "flush", "full", "drain"}]

Places == {"rest", "begin", "emit", "flush", "drain", "await", "stage", "quiesce",
           "evict", "closing", "closed"}
Returns == {"rest", "emit", "closing", "quiesce"}

QueueType ==
    /\ pending \in Seq(Op)
    /\ seq \in Nat \ {0}
    /\ inflight \in Seq(Nat)
    /\ outstanding \in Nat
    /\ cursor \in 0 .. Staging
    /\ pipelined \in BOOLEAN
    /\ staged \in [0 .. Staging - 1 -> Nat]
    /\ requests \in Seq(Request)
    /\ answers \in Seq(Answer)
    /\ pc \in Places
    /\ ret \in Returns
    /\ after \in {"flushed", "stage", "closed"}
    /\ wait \in Waits
    /\ sync \in BOOLEAN /\ failed \in BOOLEAN /\ ok \in BOOLEAN

ModelType ==
    /\ model \in Models
    /\ torn \in BOOLEAN /\ poisoned \in BOOLEAN /\ piped0 \in BOOLEAN
    /\ dirty \in BOOLEAN /\ clean \in BOOLEAN
    /\ call \in Calls
    /\ pass \in Nat /\ prefix \in Nat /\ prefixes \subseteq Nat
    /\ layer \in 1 .. Layers + 1
    /\ mapped \subseteq model.paged /\ held \subseteq model.paged
    /\ pinned \subseteq model.paged /\ window \in Seq(model.paged)

(* A flush that returns has sent what was pending; an eviction starts over *)
(* an empty queue.                                                         *)
SentInv ==
    /\ pc = "drain" /\ after = "flushed" => pending = <<>>
    /\ pc = "await" /\ (wait.by # "drain" \/ after = "flushed") => pending = <<>>
    /\ pc = "quiesce" /\ model.kind # "audio" /\ call # "reset" => pending = <<>>
    /\ pc = "evict" => pending = <<>> /\ requests = <<>>

(* A batch that waits for the staging buffer to be empty fits it.          *)
StageInv ==
    \/ pc = "stage"
    \/ pc = "drain" /\ after = "stage"
    \/ pc = "await" /\ wait.by = "drain" /\ after = "stage"
    => Len(pending) \in 1 .. Staging

(* The wait for an empty queue, and the eviction after it, are for a layer *)
(* that is paged and not mapped.                                           *)
NeedInv ==
    \/ pc \in {"flush", "stage"} /\ ret = "quiesce"
    \/ pc = "drain" /\ after # "closed" /\ ret = "quiesce"
    \/ pc = "await" /\ ret = "quiesce" /\ ~(wait.by = "drain" /\ after = "closed")
    \/ pc = "quiesce" /\ model.kind # "audio" /\ call # "reset"
    \/ pc = "evict"
    => layer \in model.paged \ mapped

(* The window lists the mapped layers that are not pinned, each once.      *)
WindowInv ==
    /\ mapped = pinned \cup Range(window)
    /\ pinned \cap Range(window) = {}
    /\ \A i, j \in DOMAIN window : window[i] = window[j] => i = j
    /\ Len(window) + Cardinality(pinned) = Cardinality(mapped)
    /\ Cardinality(mapped) <= Budget
    /\ Cardinality(pinned) <= Budget - Reserve(model.paged)

IType == QueueType /\ ModelType
IInv == /\ IType /\ OutstandingExact /\ SentInv /\ StageInv /\ NeedInv
        /\ WindowInv /\ MappedWhileRead

LEMMA InitType == Init => IType
  <1> SUFFICES ASSUME Init PROVE IType
    OBVIOUS
  <1> USE QueueAssumption, ModelAssumption DEF Init, QueueInit
  <1>1. pending \in Seq(Op) /\ inflight \in Seq(Nat) /\ window \in Seq(model.paged)
    OBVIOUS
  <1>2. requests \in Seq(Request) /\ answers \in Seq(Answer)
    OBVIOUS
  <1>3. seq \in Nat \ {0} /\ outstanding \in Nat /\ cursor \in 0 .. Staging
    OBVIOUS
  <1>4. staged \in [0 .. Staging - 1 -> Nat]
    OBVIOUS
  <1>5. wait \in Waits
    BY DEF NoWait, Waits
  <1>6. QueueType
    BY <1>1, <1>2, <1>3, <1>4, <1>5 DEF QueueType, Places, Returns
  <1>7. pinned \subseteq model.paged
    BY DEF Pinnings
  <1>8. layer \in 1 .. Layers + 1
    OBVIOUS
  <1>9. ModelType
    BY <1>1, <1>7, <1>8 DEF ModelType, Calls
  <1> QED BY <1>6, <1>9 DEF IType

(* What a step may do to the queue, the wait and the pager.                *)
PendingMoves ==
    \/ pending' \in {pending, <<>>}
    \/ /\ pc = "emit" /\ layer <= Layers
       /\ layer \in model.paged => layer \in mapped
       /\ pending' = Append(pending, <<pass, prefix, layer>>)

Sent(at) ==
    /\ pending' = <<>>
    /\ seq' = seq + 1
    /\ cursor' = at + Len(pending)
    /\ staged' = [k \in DOMAIN staged |->
                    IF k \in Region(at, Len(pending)) THEN seq ELSE staged[k]]
    /\ \/ UNCHANGED <<requests, outstanding>>
       \/ /\ requests' = Append(requests, [seq |-> seq, at |-> at, ops |-> pending])
          /\ outstanding' = outstanding + 1
    /\ UNCHANGED answers

(* reserve_stage gives a batch that fits a place in the staging buffer.    *)
SentInPlace ==
    \/ /\ pc = "flush" /\ StageAt + Len(pending) <= Staging
       /\ Sent(StageAt)
    \/ pc = "stage" /\ Sent(0)

DspMoves ==
    \/ UNCHANGED <<seq, cursor, staged, requests, answers, outstanding>>
    \/ SentInPlace
    \/ /\ requests # <<>>
       /\ requests' = Tail(requests)
       /\ \E good \in BOOLEAN :
             answers' = Append(answers, [seq |-> Head(requests).seq, good |-> good])
       /\ UNCHANGED <<seq, cursor, staged, outstanding>>
    \/ /\ answers # <<>>
       /\ answers' = Tail(answers)
       /\ outstanding' = outstanding - 1
       /\ UNCHANGED <<seq, cursor, staged, requests>>

FlightMoves ==
    \/ inflight' \in {inflight, <<>>, Append(inflight, seq), Tail(Append(inflight, seq))}
    \/ inflight # <<>> /\ inflight' = Tail(inflight)

WaitMoves ==
    \/ wait' \in {wait, NoWait, [seq |-> seq, stale |-> 0, by |-> "flush"],
                  [seq |-> Head(Append(inflight, seq)), stale |-> 0, by |-> "full"]}
    \/ inflight # <<>> /\ wait' = [seq |-> Head(inflight), stale |-> 0, by |-> "drain"]
    \/ wait.stale < MaxStale /\ wait' = [wait EXCEPT !.stale = @ + 1]

PagerMoves ==
    \/ UNCHANGED <<mapped, window>>
    \/ /\ layer \in model.paged \ mapped
       /\ \/ Cardinality(mapped) < Budget
          \/ pc = "evict" /\ window = <<>>
       /\ mapped' = mapped \cup {layer}
       /\ window' = Append(window, layer)
    \/ /\ pc = "evict" /\ window # <<>>
       /\ mapped' = mapped \ {Head(window)}
       /\ window' = Tail(window)
       /\ UNCHANGED <<pending, requests>>

LEMMA Moves ==
    ASSUME NeedInv, Next
    PROVE  /\ PendingMoves /\ DspMoves /\ FlightMoves /\ WaitMoves /\ PagerMoves
           /\ UNCHANGED <<model, pinned>>
  <1> USE DEF Next, HostStep, QueueStep, FlushNothing, FlushTooLarge, FlushFits,
              FlushWraps, SendAfterWrap, Send, Await, BeginDrain, BeginFlush, DrainNext,
              DrainEnds, ErrorStatus, OkStatus, ReadOne, ReadCurrent, ReadStale,
              ReadTooStale, ReadTruncated, ReadTimesOut, WaitFails, QuiesceReads,
              Quiesced, QuiesceTimesOut, DspRuns, Refused, StartPass, Settled,
              StageInputs, EmitLayer, EmitFails, NeedsExperts, Map, PageIn,
              FinishPending, FinishedPending, FinishTimesOut, Evict, Evicted, Closing,
              PassSucceeds, PassFails, Unwinds, StartReset, ResetTimesOut, ResetKv,
              SettleTimesOut, Return, vars, queueVars, host, dsp, here, passVars,
              stateVars, paging, truth
  <1>1. PendingMoves
    BY SMTT(40) DEF PendingMoves
  <1>2. DspMoves
    <2>1. CASE FlushFits
      BY <2>1 DEF DspMoves, SentInPlace, Sent
    <2>2. CASE SendAfterWrap
      BY <2>2, SMTT(40) DEF DspMoves, SentInPlace, Sent
    <2>3. CASE DspRuns
      BY <2>3, ZenonT(40) DEF DspMoves
    <2>4. CASE ~(FlushFits \/ SendAfterWrap \/ DspRuns)
      BY <2>4 DEF DspMoves
    <2> QED BY <2>1, <2>2, <2>3, <2>4
  <1>3. FlightMoves
    BY DEF FlightMoves
  <1>4. WaitMoves
    BY DEF WaitMoves
  <1>5. PagerMoves
    BY DEF PagerMoves, NeedInv
  <1>6. UNCHANGED <<model, pinned>>
    OBVIOUS
  <1> QED BY <1>1, <1>2, <1>3, <1>4, <1>5, <1>6

(* A batch put into the staging buffer stays inside it.                    *)
LEMMA SentFits ==
    ASSUME IType, StageInv, SentInPlace
    PROVE  \E at \in 0 .. Staging : at + Len(pending) <= Staging /\ Sent(at)
  <1>1. Len(pending) \in Nat /\ cursor \in 0 .. Staging /\ Staging \in Nat
    BY LenProperties, QueueAssumption DEF IType, QueueType
  <1>2. CASE pc = "flush" /\ StageAt + Len(pending) <= Staging /\ Sent(StageAt)
    BY <1>1, <1>2 DEF StageAt
  <1>3. CASE pc = "stage" /\ Sent(0)
    BY <1>1, <1>3 DEF StageInv
  <1> QED BY <1>2, <1>3 DEF SentInPlace

LEMMA PendingStep ==
    ASSUME IType, PendingMoves
    PROVE  pending' \in Seq(Op)
  <1>1. pending \in Seq(Op) /\ <<>> \in Seq(Op)
    BY DEF IType, QueueType
  <1>2. CASE pending' \in {pending, <<>>}
    BY <1>1, <1>2
  <1>3. CASE layer <= Layers /\ pending' = Append(pending, <<pass, prefix, layer>>)
    <2>1. <<pass, prefix, layer>> \in Op
      BY <1>3, ModelAssumption DEF IType, ModelType, Op
    <2> QED BY <1>1, <1>3, <2>1, AppendProperties
  <1> QED BY <1>2, <1>3 DEF PendingMoves

LEMMA DspStep ==
    ASSUME IType, StageInv, OutstandingExact, DspMoves
    PROVE  /\ seq' \in Nat \ {0} /\ cursor' \in 0 .. Staging
           /\ staged' \in [0 .. Staging - 1 -> Nat]
           /\ requests' \in Seq(Request) /\ answers' \in Seq(Answer)
           /\ outstanding' \in Nat
           /\ OutstandingExact'
  <1>1. /\ seq \in Nat \ {0} /\ cursor \in 0 .. Staging
        /\ staged \in [0 .. Staging - 1 -> Nat]
        /\ requests \in Seq(Request) /\ answers \in Seq(Answer)
        /\ outstanding \in Nat /\ pending \in Seq(Op)
        /\ Staging \in Nat
        /\ outstanding = Len(requests) + Len(answers)
    BY QueueAssumption DEF IType, QueueType, OutstandingExact
  <1>2. Len(requests) \in Nat /\ Len(answers) \in Nat /\ Len(pending) \in Nat
    BY <1>1, LenProperties
  <1>3. CASE UNCHANGED <<seq, cursor, staged, requests, answers, outstanding>>
    BY <1>1, <1>3 DEF OutstandingExact
  <1>4. CASE SentInPlace
    <2>1. PICK at \in 0 .. Staging : at + Len(pending) <= Staging /\ Sent(at)
      BY <1>4, SentFits
    <2>2. seq' \in Nat \ {0} /\ cursor' \in 0 .. Staging /\ answers' = answers
      BY <1>1, <1>2, <2>1 DEF Sent
    <2>3. staged' = [k \in 0 .. Staging - 1 |->
                       IF k \in Region(at, Len(pending)) THEN seq ELSE staged[k]]
      BY <1>1, <2>1 DEF Sent
    <2>4. staged' \in [0 .. Staging - 1 -> Nat]
      BY <1>1, <2>3
    <2>5. [seq |-> seq, at |-> at, ops |-> pending] \in Request
      BY <1>1, <2>1 DEF Request
    <2>6. CASE UNCHANGED <<requests, outstanding>>
      BY <1>1, <2>2, <2>4, <2>6 DEF OutstandingExact
    <2>7. CASE /\ requests' = Append(requests, [seq |-> seq, at |-> at, ops |-> pending])
               /\ outstanding' = outstanding + 1
      <3>1. requests' \in Seq(Request) /\ Len(requests') = Len(requests) + 1
        BY <1>1, <2>5, <2>7, AppendProperties
      <3> QED BY SMTT(40), <1>1, <1>2, <2>2, <2>4, <2>7, <3>1 DEF OutstandingExact
    <2> QED BY <2>1, <2>6, <2>7 DEF Sent
  <1>5. ASSUME requests # <<>>, requests' = Tail(requests),
               NEW good \in BOOLEAN,
               answers' = Append(answers, [seq |-> Head(requests).seq, good |-> good]),
               UNCHANGED <<seq, cursor, staged, outstanding>>
        PROVE  /\ requests' \in Seq(Request) /\ answers' \in Seq(Answer)
               /\ OutstandingExact'
    <2>1. /\ Head(requests) \in Request /\ requests' \in Seq(Request)
          /\ Len(requests') = Len(requests) - 1
      BY <1>1, <1>5, HeadTailProperties
    <2>2. [seq |-> Head(requests).seq, good |-> good] \in Answer
      BY <2>1 DEF Request, Answer
    <2>3. answers' \in Seq(Answer) /\ Len(answers') = Len(answers) + 1
      BY <1>1, <1>5, <2>2, AppendProperties
    <2> QED BY <1>1, <1>2, <1>5, <2>1, <2>3 DEF OutstandingExact
  <1>6. CASE /\ answers # <<>> /\ answers' = Tail(answers)
             /\ outstanding' = outstanding - 1
             /\ UNCHANGED <<seq, cursor, staged, requests>>
    <2>1. answers' \in Seq(Answer) /\ Len(answers') = Len(answers) - 1
      BY <1>1, <1>6, HeadTailProperties
    <2>2. Len(answers') \in Nat
      BY <2>1, LenProperties
    <2> QED BY <1>1, <1>2, <1>6, <2>1, <2>2 DEF OutstandingExact
  <1> QED BY <1>1, <1>3, <1>4, <1>5, <1>6 DEF DspMoves

LEMMA FlightStep ==
    ASSUME IType, FlightMoves, WaitMoves
    PROVE  inflight' \in Seq(Nat) /\ wait' \in Waits
  <1> DEFINE flight == Append(inflight, seq)
  <1>1. inflight \in Seq(Nat) /\ seq \in Nat /\ wait \in Waits /\ MaxStale \in Nat
    BY QueueAssumption DEF IType, QueueType
  <1>2. flight \in Seq(Nat) /\ flight # <<>>
    BY <1>1, AppendProperties
  <1>3. Head(flight) \in Nat /\ Tail(flight) \in Seq(Nat)
    BY <1>2, HeadTailProperties
  <1>4. inflight # <<>> => Head(inflight) \in Nat /\ Tail(inflight) \in Seq(Nat)
    BY <1>1, HeadTailProperties
  <1> HIDE DEF flight
  <1>5. inflight' \in Seq(Nat)
    <2>1. \/ inflight' \in {inflight, <<>>, flight, Tail(flight)}
          \/ inflight # <<>> /\ inflight' = Tail(inflight)
      BY DEF FlightMoves, flight
    <2>2. <<>> \in Seq(Nat)
      OBVIOUS
    <2> QED BY <1>1, <1>2, <1>3, <1>4, <2>1, <2>2
  <1>6. CASE wait' \in {wait, NoWait}
    BY <1>1, <1>5, <1>6 DEF NoWait, Waits
  <1>7. CASE wait' \in {[seq |-> seq, stale |-> 0, by |-> "flush"],
                       [seq |-> Head(flight), stale |-> 0, by |-> "full"]}
    BY <1>1, <1>3, <1>5, <1>7 DEF Waits
  <1>8. CASE inflight # <<>> /\ wait' = [seq |-> Head(inflight), stale |-> 0, by |-> "drain"]
    BY <1>1, <1>4, <1>5, <1>8 DEF Waits
  <1>9. CASE wait.stale < MaxStale /\ wait' = [wait EXCEPT !.stale = @ + 1]
    <2>1. wait.seq \in Nat /\ wait.stale \in 0 .. MaxStale
          /\ wait.by \in {"none", "flush", "full", "drain"}
      BY <1>1 DEF Waits
    <2>2. wait.stale + 1 \in 0 .. MaxStale
      BY <1>1, <1>9, <2>1
    <2>3. wait' = [seq |-> wait.seq, stale |-> wait.stale + 1, by |-> wait.by]
      BY <1>1, <1>9 DEF Waits
    <2> QED BY <1>5, <2>1, <2>2, <2>3 DEF Waits
  <1> QED BY <1>6, <1>7, <1>8, <1>9 DEF WaitMoves, flight

(* Where the host is, what it holds, and the flags.                        *)
LEMMA ControlStep ==
    ASSUME IType, Next
    PROVE  /\ pc' \in Places /\ ret' \in Returns
           /\ after' \in {"flushed", "stage", "closed"}
           /\ sync' \in BOOLEAN /\ failed' \in BOOLEAN /\ ok' \in BOOLEAN
           /\ pipelined' \in BOOLEAN
           /\ torn' \in BOOLEAN /\ poisoned' \in BOOLEAN /\ piped0' \in BOOLEAN
           /\ dirty' \in BOOLEAN /\ clean' \in BOOLEAN
           /\ call' \in Calls /\ layer' \in 1 .. Layers + 1
           /\ pass' \in Nat /\ prefix' \in Nat /\ prefixes' \subseteq Nat
           /\ held' \subseteq model.paged
  <1> USE DEF Next, HostStep, QueueStep, FlushNothing, FlushTooLarge, FlushFits,
              FlushWraps, SendAfterWrap, Send, Fails, Await, BeginDrain, BeginFlush, DrainNext,
              DrainEnds, ErrorStatus, OkStatus, ReadOne, ReadCurrent, ReadStale,
              ReadTooStale, ReadTruncated, ReadTimesOut, WaitFails, QuiesceReads,
              Quiesced, QuiesceTimesOut, DspRuns, Refused, StartPass, Settled,
              StageInputs, EmitLayer, EmitFails, NeedsExperts, Map, PageIn,
              FinishPending, FinishedPending, FinishTimesOut, Evict, Evicted, Closing,
              PassSucceeds, PassFails, Unwinds, StartReset, ResetTimesOut, ResetKv,
              SettleTimesOut, Return, vars, queueVars, host, dsp, here, passVars,
              stateVars, paging, truth
  <1>1. pc' \in Places /\ ret' \in Returns /\ after' \in {"flushed", "stage", "closed"}
    <2>1. pc' \in Places
      BY DEF IType, QueueType, Places, Returns
    <2>2. ret' \in Returns
      BY SMTT(40) DEF IType, QueueType, Returns
    <2>3. after' \in {"flushed", "stage", "closed"}
      BY DEF IType, QueueType
    <2> QED BY <2>1, <2>2, <2>3, SMTT(40)
  <1>2. /\ sync' \in BOOLEAN /\ failed' \in BOOLEAN /\ ok' \in BOOLEAN
        /\ pipelined' \in BOOLEAN
    <2>1. sync' \in BOOLEAN
      BY DEF IType, QueueType
    <2>2. failed' \in BOOLEAN
      BY DEF IType, QueueType
    <2>3. ok' \in BOOLEAN
      BY DEF IType, QueueType
    <2>4. pipelined' \in BOOLEAN
      BY DEF IType, QueueType, ModelType, Encoding
    <2> QED BY <2>1, <2>2, <2>3, <2>4, SMTT(40)
  <1>3. /\ torn' \in BOOLEAN /\ poisoned' \in BOOLEAN /\ piped0' \in BOOLEAN
        /\ dirty' \in BOOLEAN /\ clean' \in BOOLEAN
    BY ZenonT(40) DEF IType, QueueType, ModelType, TornNow, Recurrent, Disturbed, Tears
  <1>4. call' \in Calls
    BY DEF IType, ModelType, Calls
  <1>5. layer' \in 1 .. Layers + 1
    BY ModelAssumption DEF IType, ModelType
  <1>6. pass' \in Nat /\ prefix' \in Nat /\ prefixes' \subseteq Nat
    BY DEF IType, ModelType
  <1>7. held' \subseteq model.paged
    BY DEF IType, ModelType, Released
  <1> QED BY <1>1, <1>2, <1>3, <1>4, <1>5, <1>6, <1>7

LEMMA PagerType ==
    ASSUME IType, PagerMoves, UNCHANGED <<model, pinned>>
    PROVE  /\ mapped' \subseteq model.paged /\ window' \in Seq(model.paged)
           /\ pinned' \subseteq model.paged
  <1>1. /\ mapped \subseteq model.paged /\ window \in Seq(model.paged)
        /\ pinned \subseteq model.paged
    BY DEF IType, ModelType
  <1>2. CASE layer \in model.paged /\ mapped' = mapped \cup {layer}
             /\ window' = Append(window, layer)
    BY <1>1, <1>2, AppendProperties
  <1>3. CASE window # <<>> /\ mapped' = mapped \ {Head(window)} /\ window' = Tail(window)
    BY <1>1, <1>3, HeadTailProperties
  <1> QED BY <1>1, <1>2, <1>3 DEF PagerMoves

LEMMA TypeStep ==
    ASSUME IInv, Next
    PROVE  IType' /\ OutstandingExact'
  <1>1. /\ PendingMoves /\ DspMoves /\ FlightMoves /\ WaitMoves /\ PagerMoves
        /\ UNCHANGED <<model, pinned>>
    BY Moves DEF IInv
  <1>2. QueueType'
    BY <1>1, PendingStep, DspStep, FlightStep, ControlStep DEF IInv, QueueType
  <1>3. ModelType'
    BY <1>1, ControlStep, PagerType DEF IInv, IType, ModelType
  <1>4. OutstandingExact'
    BY <1>1, DspStep DEF IInv
  <1> QED BY <1>2, <1>3, <1>4 DEF IType

(* The window's repeats and counts, whichever unmap was refused.           *)
LEMMA WindowStep ==
    ASSUME IType, WindowInv, PagerMoves, UNCHANGED <<model, pinned>>
    PROVE  WindowInv'
  <1>1. /\ window \in Seq(model.paged) /\ mapped \subseteq model.paged
        /\ pinned \subseteq model.paged
        /\ model.paged \subseteq 1 .. Layers /\ Budget \in Nat
        /\ Cardinality(model.paged) <= Budget \/ Budget >= 2
    BY ModelAssumption DEF IType, ModelType
  <1>2. IsFiniteSet(model.paged)
    <2>1. IsFiniteSet(1 .. Layers)
      BY ModelAssumption, FS_Interval
    <2> QED BY <1>1, <2>1, FS_Subset
  <1>3. /\ IsFiniteSet(mapped) /\ IsFiniteSet(pinned)
        /\ Cardinality(mapped) \in Nat /\ Cardinality(pinned) \in Nat
        /\ Cardinality(model.paged) \in Nat
    BY <1>1, <1>2, FS_Subset, FS_CardinalityType
  <1>4. Len(window) \in Nat /\ DOMAIN window = 1 .. Len(window)
    BY <1>1, LenProperties
  <1>5. CASE UNCHANGED <<mapped, window>>
    BY <1>5 DEF WindowInv, Range, Reserve
  <1>6. CASE /\ layer \in model.paged \ mapped
             /\ \/ Cardinality(mapped) < Budget
                \/ pc = "evict" /\ window = <<>>
             /\ mapped' = mapped \cup {layer}
             /\ window' = Append(window, layer)
    <2>1. Cardinality(mapped') = Cardinality(mapped) + 1
      BY <1>3, <1>6, FS_AddElement
    <2>2. /\ Len(window') = Len(window) + 1 /\ window' \in Seq(model.paged)
          /\ \A i \in 1 .. Len(window) : window'[i] = window[i]
          /\ window'[Len(window) + 1] = layer
      BY <1>1, <1>6, AppendProperties
    <2>3. DOMAIN window' = 1 .. Len(window) + 1
      BY <2>2, LenProperties
    <2>4. Range(window') = Range(window) \cup {layer}
      BY <1>4, <2>2, <2>3 DEF Range
    <2>5. layer \notin pinned \cup Range(window)
      BY <1>6 DEF WindowInv
    <2>6. \A i, j \in DOMAIN window' : window'[i] = window'[j] => i = j
      BY <1>4, <2>2, <2>3, <2>5 DEF WindowInv, Range
    <2>7. Cardinality(mapped') <= Budget
      <3>1. CASE Cardinality(mapped) < Budget
        BY <1>1, <1>3, <2>1, <3>1
      <3>2. CASE window = <<>>
        <4>1. Cardinality(mapped) = Cardinality(pinned)
          BY <1>3, <3>2 DEF WindowInv
        <4>2. CASE Cardinality(model.paged) <= Budget
          <5>1. mapped' \subseteq model.paged
            BY <1>1, <1>6
          <5> QED BY <1>1, <1>2, <1>3, <2>1, <4>2, <5>1, FS_Subset
        <4>3. CASE ~(Cardinality(model.paged) <= Budget)
          BY <1>1, <1>3, <2>1, <4>1, <4>3 DEF WindowInv, Reserve
        <4> QED BY <4>2, <4>3
      <3> QED BY <1>6, <3>1, <3>2
    <2> QED BY <1>3, <1>4, <1>6, <2>1, <2>2, <2>4, <2>5, <2>6, <2>7 DEF WindowInv, Reserve
  <1>7. CASE /\ window # <<>>
             /\ mapped' = mapped \ {Head(window)}
             /\ window' = Tail(window)
    <2>1. /\ Len(window') = Len(window) - 1 /\ window' \in Seq(model.paged)
          /\ \A i \in 1 .. Len(window') : window'[i] = window[i + 1]
      BY <1>1, <1>7, HeadTailProperties
    <2>2. Len(window') \in Nat /\ DOMAIN window' = 1 .. Len(window')
      BY <2>1, LenProperties
    <2>3. Len(window) # 0 /\ Head(window) = window[1]
      BY <1>1, <1>4, <1>7, EmptySeq
    <2>4. \A i \in 1 .. Len(window') : window'[i] # Head(window)
      BY <1>4, <2>1, <2>2, <2>3 DEF WindowInv
    <2>5. Range(window) = Range(window') \cup {Head(window)}
      <3>1. \A i \in 2 .. Len(window) : i - 1 \in 1 .. Len(window') /\ window'[i - 1] = window[i]
        BY <1>4, <2>1, <2>2
      <3>2. ASSUME NEW x \in Range(window) PROVE x \in Range(window') \cup {Head(window)}
        <4>1. PICK i \in 1 .. Len(window) : x = window[i]
          BY <1>4 DEF Range
        <4>2. CASE i = 1
          BY <2>3, <4>1, <4>2
        <4>3. CASE i \in 2 .. Len(window)
          BY <2>2, <3>1, <4>1, <4>3 DEF Range
        <4> QED BY <1>4, <4>2, <4>3
      <3>3. ASSUME NEW x \in Range(window') PROVE x \in Range(window)
        <4>1. PICK i \in 1 .. Len(window') : x = window'[i]
          BY <2>2 DEF Range
        <4>2. i + 1 \in 1 .. Len(window) /\ x = window[i + 1]
          BY <1>4, <2>1, <2>2, <4>1
        <4> QED BY <1>4, <4>2 DEF Range
      <3>4. Head(window) \in Range(window)
        BY <1>4, <2>3 DEF Range
      <3> QED BY <3>2, <3>3, <3>4
    <2>6. Head(window) \notin Range(window') /\ Head(window) \notin pinned
      BY <2>2, <2>4, <2>5 DEF WindowInv, Range
    <2>7. Cardinality(mapped') = Cardinality(mapped) - 1
      BY <1>3, <1>7, <2>5, FS_RemoveElement DEF WindowInv
    <2>8. \A i, j \in DOMAIN window' : window'[i] = window'[j] => i = j
      <3>1. \A i \in 1 .. Len(window') : i + 1 \in 1 .. Len(window)
        BY <1>4, <2>1, <2>2
      <3> QED BY <1>4, <2>1, <2>2, <3>1 DEF WindowInv
    <2>9. mapped' = pinned \cup Range(window') /\ pinned \cap Range(window') = {}
      BY <1>7, <2>5, <2>6 DEF WindowInv
    <2> QED BY <1>1, <1>3, <1>4, <2>1, <2>7, <2>8, <2>9 DEF WindowInv, Reserve
  <1> QED BY <1>5, <1>6, <1>7 DEF PagerMoves

(* What is pending, and why, where a flush, a drain or a wait returns to.  *)
LEMMA PlaceStep ==
    ASSUME IInv, Next
    PROVE  SentInv' /\ StageInv' /\ NeedInv'
  <1>1. /\ Len(pending) \in Nat /\ Staging \in Nat
        /\ outstanding = 0 => requests = <<>>
    <2>1. /\ pending \in Seq(Op) /\ requests \in Seq(Request) /\ answers \in Seq(Answer)
          /\ outstanding = Len(requests) + Len(answers)
      BY DEF IInv, IType, QueueType, OutstandingExact
    <2>2. Len(pending) \in Nat /\ Len(requests) \in Nat /\ Len(answers) \in Nat
      BY <2>1, LenProperties
    <2>3. requests # <<>> => Len(requests) # 0
      BY <2>1, EmptySeq
    <2> QED BY <2>1, <2>2, <2>3, QueueAssumption
  <1>2. /\ wait \in Waits /\ wait.by \in {"none", "flush", "full", "drain"}
        /\ pc \in Places /\ ret \in Returns /\ after \in {"flushed", "stage", "closed"}
    BY DEF IInv, IType, QueueType, Waits
  <1> DEFINE Placed == SentInv' /\ StageInv' /\ NeedInv'
             QueueOnly == UNCHANGED <<model, passVars, stateVars, paging, truth>>
  <1> USE DEF IInv, SentInv, StageInv, NeedInv, Places, Returns, Fails, Return,
              vars, queueVars, host, dsp, here, passVars, stateVars, paging, truth
  <1>3. ASSUME FlushNothing \/ FlushTooLarge \/ FlushWraps \/ DrainNext \/ DrainEnds,
               QueueOnly
        PROVE  Placed
    BY <1>1, <1>2, <1>3 DEF FlushNothing, FlushTooLarge, FlushWraps, DrainNext, DrainEnds,
                            BeginDrain, Await
  <1>4. ASSUME FlushFits \/ SendAfterWrap, QueueOnly
        PROVE  Placed
    BY <1>1, <1>2, <1>4 DEF FlushFits, SendAfterWrap, Send, Await, BeginDrain
  <1>5. ASSUME ReadCurrent, QueueOnly
        PROVE  Placed
    BY <1>1, <1>2, <1>5 DEF ReadCurrent, ReadOne, OkStatus, ErrorStatus
  <1>6. ASSUME ReadStale \/ QuiesceReads, QueueOnly
        PROVE  Placed
    <2>1. CASE ReadStale
      <3>1. wait'.by = wait.by /\ UNCHANGED <<pending, requests, pc, ret, after, mapped>>
        BY <1>2, <1>6, <2>1 DEF ReadStale, ReadOne, Waits
      <3> QED BY <1>6, <3>1
    <2>2. CASE QuiesceReads
      BY <1>1, <1>2, <1>6, <2>2 DEF QuiesceReads, ReadOne
    <2> QED BY <1>6, <2>1, <2>2
  <1>7. ASSUME ReadTooStale \/ ReadTruncated \/ ReadTimesOut, QueueOnly
        PROVE  Placed
    BY <1>1, <1>2, <1>7 DEF ReadTooStale, ReadTruncated, ReadTimesOut, ReadOne, WaitFails
  <1>8. CASE \/ Settled \/ SettleTimesOut \/ FinishedPending \/ FinishTimesOut
             \/ ResetKv \/ ResetTimesOut
    BY <1>1, <1>2, <1>8 DEF Settled, SettleTimesOut, FinishedPending, FinishTimesOut,
                            ResetKv, ResetTimesOut, Quiesced, QuiesceTimesOut
  <1>9. CASE StageInputs \/ EmitLayer \/ EmitFails \/ PageIn \/ FinishPending
    BY <1>1, <1>2, <1>9 DEF StageInputs, EmitLayer, EmitFails, PageIn, FinishPending,
                            BeginFlush, NeedsExperts, Map
  <1>10. CASE Evict \/ Evicted \/ DspRuns
    BY <1>1, <1>2, <1>10 DEF Evict, Evicted, DspRuns, Map
  <1>11. CASE \/ Closing \/ PassSucceeds \/ PassFails \/ StartPass \/ StartReset
              \/ Refused \/ Unwinds
    BY <1>1, <1>2, <1>11 DEF Closing, PassSucceeds, PassFails, StartPass, StartReset,
                             Refused, Unwinds, BeginDrain
  <1> QED BY <1>3, <1>4, <1>5, <1>6, <1>7, <1>8, <1>9, <1>10, <1>11
          DEF Next, HostStep, QueueStep

(* Pages only go while nothing is pending or asked of the DSP, and an      *)
(* operation only joins a batch with its layer mapped.                     *)
LEMMA MappedStep ==
    ASSUME IInv, Next
    PROVE  MappedWhileRead'
  <1> DEFINE Reads(ops, m) ==
               \A j \in DOMAIN ops : ops[j][3] \in model.paged => ops[j][3] \in m
  <1>1. /\ \A i \in DOMAIN requests : Reads(requests[i].ops, mapped)
        /\ Reads(pending, mapped)
        /\ pending \in Seq(Op) /\ requests \in Seq(Request)
    BY DEF IInv, MappedWhileRead, IType, QueueType
  <1>2. /\ PendingMoves /\ DspMoves /\ PagerMoves /\ model' = model
    BY Moves DEF IInv
  <1>3. (pc = "evict" => pending = <<>> /\ requests = <<>>) /\ StageInv /\ IType
    BY DEF IInv, SentInv
  <1>4. \/ mapped \subseteq mapped'
        \/ pending = <<>> /\ requests = <<>> /\ UNCHANGED <<pending, requests>>
    BY <1>2, <1>3 DEF PagerMoves
  <1>5. CASE mapped \subseteq mapped'
    <2>1. Reads(pending', mapped)
      <3>1. CASE pending' = Append(pending, <<pass, prefix, layer>>)
                 /\ layer <= Layers /\ (layer \in model.paged => layer \in mapped)
        <4>1. <<pass, prefix, layer>> \in Op
          BY <1>3, <3>1, ModelAssumption DEF IType, ModelType, Op
        <4>2. /\ pending' \in Seq(Op) /\ Len(pending') = Len(pending) + 1
              /\ \A j \in 1 .. Len(pending) : pending'[j] = pending[j]
              /\ pending'[Len(pending) + 1] = <<pass, prefix, layer>>
          BY <1>1, <3>1, <4>1, AppendProperties
        <4>3. /\ DOMAIN pending = 1 .. Len(pending) /\ DOMAIN pending' = 1 .. Len(pending')
              /\ Len(pending) \in Nat
          BY <1>1, <4>2, LenProperties
        <4> QED BY <1>1, <3>1, <4>2, <4>3
      <3>2. CASE pending' \in {pending, <<>>}
        BY <1>1, <3>2
      <3> QED BY <1>2, <3>1, <3>2 DEF PendingMoves
    <2>2. \A i \in DOMAIN requests' : Reads(requests'[i].ops, mapped)
      <3>1. CASE requests' = requests
        BY <1>1, <3>1
      <3>2. CASE SentInPlace
        <4>1. PICK at \in 0 .. Staging : Sent(at)
          BY <1>3, <3>2, SentFits
        <4>2. CASE requests' = Append(requests, [seq |-> seq, at |-> at, ops |-> pending])
          <5>1. [seq |-> seq, at |-> at, ops |-> pending] \in Request
            BY <1>3, QueueAssumption DEF IType, QueueType, Request
          <5>2. /\ requests' \in Seq(Request) /\ Len(requests') = Len(requests) + 1
                /\ \A i \in 1 .. Len(requests) : requests'[i] = requests[i]
                /\ requests'[Len(requests) + 1].ops = pending
            BY <1>1, <4>2, <5>1, AppendProperties
          <5>3. /\ DOMAIN requests = 1 .. Len(requests)
                /\ DOMAIN requests' = 1 .. Len(requests')
                /\ Len(requests) \in Nat
            BY <1>1, <5>2, LenProperties
          <5> QED BY <1>1, <5>2, <5>3
        <4> QED BY <3>1, <4>1, <4>2 DEF Sent
      <3>3. CASE requests # <<>> /\ requests' = Tail(requests)
        <4>1. /\ requests' \in Seq(Request) /\ Len(requests') = Len(requests) - 1
              /\ \A i \in 1 .. Len(requests') : requests'[i] = requests[i + 1]
          BY <1>1, <3>3, HeadTailProperties
        <4>2. /\ DOMAIN requests = 1 .. Len(requests)
              /\ DOMAIN requests' = 1 .. Len(requests')
              /\ Len(requests) \in Nat /\ Len(requests') \in Nat
          BY <1>1, <4>1, LenProperties
        <4>3. \A i \in DOMAIN requests' :
                 i + 1 \in DOMAIN requests /\ requests'[i] = requests[i + 1]
          BY <4>1, <4>2
        <4> HIDE DEF Reads
        <4> QED BY <1>1, <4>3
      <3> QED BY <1>2, <3>1, <3>2, <3>3 DEF DspMoves
    <2> QED BY <1>2, <1>5, <2>1, <2>2 DEF MappedWhileRead
  <1>6. CASE pending = <<>> /\ requests = <<>> /\ UNCHANGED <<pending, requests>>
    BY <1>6 DEF MappedWhileRead
  <1> QED BY <1>4, <1>5, <1>6

LEMMA InitInv == Init => IInv
  <1> SUFFICES ASSUME Init PROVE IInv
    OBVIOUS
  <1>1. IType
    BY InitType
  <1>2. OutstandingExact /\ SentInv /\ StageInv /\ NeedInv /\ MappedWhileRead
    BY DEF Init, QueueInit, OutstandingExact, SentInv, StageInv, NeedInv, MappedWhileRead
  <1>3. WindowInv
    <2>1. pinned \in Pinnings(model.paged) /\ mapped = pinned /\ window = <<>>
          /\ model \in Models
      BY DEF Init
    <2>2. Cardinality(pinned) <= Budget - Reserve(model.paged)
      BY <2>1 DEF Pinnings
    <2>3. Range(window) = {} /\ Len(window) = 0
      BY <2>1 DEF Range
    <2>4. IsFiniteSet(1 .. Layers)
      BY ModelAssumption, FS_Interval
    <2>5. Cardinality(pinned) \in Nat
      BY <2>1, <2>4, ModelAssumption, FS_Subset, FS_CardinalityType DEF Pinnings
    <2>6. Cardinality(pinned) <= Budget
      BY <2>2, <2>5, ModelAssumption DEF Reserve
    <2> QED BY <2>1, <2>2, <2>3, <2>5, <2>6 DEF WindowInv
  <1> QED BY <1>1, <1>2, <1>3 DEF IInv

LEMMA InvStep == IInv /\ [Next]_vars => IInv'
  <1> SUFFICES ASSUME IInv, [Next]_vars PROVE IInv'
    OBVIOUS
  <1>1. CASE Next
    <2>1. PagerMoves /\ UNCHANGED <<model, pinned>>
      BY <1>1, Moves DEF IInv
    <2>2. WindowInv'
      BY <2>1, WindowStep DEF IInv
    <2> QED BY <1>1, <2>2, TypeStep, PlaceStep, MappedStep DEF IInv
  <1>2. CASE UNCHANGED vars
    BY <1>2 DEF vars, queueVars, host, dsp, here, passVars, stateVars, paging, truth,
                IInv, IType, QueueType, ModelType, OutstandingExact, SentInv, StageInv,
                NeedInv, WindowInv, MappedWhileRead, Range, Reserve
  <1> QED BY <1>1, <1>2

LEMMA Inductive == Spec => []IInv
  BY InitInv, InvStep, PTL DEF Spec

(* Every count and index of the queue and the pager stays in its range.    *)
THEOREM HexagonType == Spec => []TypeOK
  <1>1. IInv => TypeOK
    BY DEF IInv, IType, QueueType, ModelType, Waits, TypeOK
  <1> QED BY <1>1, Inductive, PTL

(* The host's count of unanswered batches (HexagonQueueSession's           *)
(* outstanding) is exact through every failure, timeout and late answer.   *)
THEOREM HexagonOutstandingExact == Spec => []OutstandingExact
  <1>1. IInv => OutstandingExact
    BY DEF IInv
  <1> QED BY <1>1, Inductive, PTL

(* ExpertPager::page_in never unmaps what a built, sent or abandoned batch *)
(* has still to read.                                                      *)
THEOREM HexagonMappedWhileRead == Spec => []MappedWhileRead
  <1>1. IInv => MappedWhileRead
    BY DEF IInv
  <1> QED BY <1>1, Inductive, PTL

(* ExpertPager's window and pinned layers are what is mapped, each once,   *)
(* within the budget.                                                      *)
THEOREM HexagonWindowIsMapped == Spec => []WindowIsMapped
  <1>1. IInv => WindowIsMapped
    BY DEF IInv, WindowInv, WindowIsMapped
  <1> QED BY <1>1, Inductive, PTL

----------------------------------------------------------------------------
(* What the DSP owes, in the order in which it will be read.               *)
OwedOf(a, r) == [i \in DOMAIN a |-> a[i].seq] \o [i \in DOMAIN r |-> r[i].seq]
Owed == OwedOf(answers, requests)

Ascending(s) == \A i, j \in DOMAIN s : i < j => s[i] < s[j]

LEMMA OwedIs ==
    ASSUME NEW a \in Seq(Answer), NEW r \in Seq(Request)
    PROVE  LET o == OwedOf(a, r) IN
           /\ o \in Seq(Nat) /\ Len(o) = Len(a) + Len(r)
           /\ Len(a) \in Nat /\ Len(r) \in Nat
           /\ \A i \in 1 .. Len(a) : o[i] = a[i].seq
           /\ \A i \in 1 .. Len(r) : o[Len(a) + i] = r[i].seq
  <1> DEFINE x == [i \in DOMAIN a |-> a[i].seq]
             y == [i \in DOMAIN r |-> r[i].seq]
  <1>1. Len(a) \in Nat /\ DOMAIN a = 1 .. Len(a) /\ Len(r) \in Nat /\ DOMAIN r = 1 .. Len(r)
    BY LenProperties
  <1>2. ASSUME NEW i \in 1 .. Len(a) PROVE a[i].seq \in Nat
    <2>1. a[i] \in Answer
      BY ElementOfSeq
    <2> QED BY <2>1 DEF Answer
  <1>3. ASSUME NEW i \in 1 .. Len(r) PROVE r[i].seq \in Nat
    <2>1. r[i] \in Request
      BY ElementOfSeq
    <2> QED BY <2>1 DEF Request
  <1>4. x \in Seq(Nat) /\ Len(x) = Len(a) /\ \A i \in 1 .. Len(a) : x[i] = a[i].seq
    BY <1>1, <1>2
  <1>5. y \in Seq(Nat) /\ Len(y) = Len(r) /\ \A i \in 1 .. Len(r) : y[i] = r[i].seq
    BY <1>1, <1>3
  <1> HIDE DEF x, y
  <1>6. x \o y \in Seq(Nat) /\ Len(x \o y) = Len(x) + Len(y)
    BY <1>4, <1>5, ConcatProperties
  <1>7. \A i \in 1 .. Len(a) : (x \o y)[i] = x[i]
    BY <1>1, <1>4, <1>5, ConcatProperties
  <1>8. \A i \in 1 .. Len(r) : (x \o y)[Len(a) + i] = y[i]
    BY <1>1, <1>4, <1>5, ConcatProperties
  <1> QED BY <1>1, <1>4, <1>5, <1>6, <1>7, <1>8 DEF OwedOf, x, y

LEMMA OwedSent ==
    ASSUME NEW a \in Seq(Answer), NEW r \in Seq(Request), NEW q \in Request
    PROVE  OwedOf(a, Append(r, q)) = Append(OwedOf(a, r), q.seq)
  <1> DEFINE o == OwedOf(a, r)
             r2 == Append(r, q)
             p == OwedOf(a, r2)
             s == Append(o, q.seq)
  <1>1. r2 \in Seq(Request) /\ Len(r2) = Len(r) + 1 /\ r2[Len(r) + 1] = q
        /\ \A i \in 1 .. Len(r) : r2[i] = r[i]
    BY AppendProperties
  <1> HIDE DEF r2
  <1>2. /\ o \in Seq(Nat) /\ Len(o) = Len(a) + Len(r)
        /\ Len(a) \in Nat /\ Len(r) \in Nat
        /\ \A i \in 1 .. Len(a) : o[i] = a[i].seq
        /\ \A i \in 1 .. Len(r) : o[Len(a) + i] = r[i].seq
    BY OwedIs
  <1>3. /\ p \in Seq(Nat) /\ Len(p) = Len(a) + Len(r2)
        /\ \A i \in 1 .. Len(a) : p[i] = a[i].seq
        /\ \A i \in 1 .. Len(r2) : p[Len(a) + i] = r2[i].seq
    BY <1>1, OwedIs
  <1>4. q.seq \in Nat
    BY DEF Request
  <1> HIDE DEF o, p
  <1>5. s \in Seq(Nat) /\ Len(s) = Len(o) + 1 /\ s[Len(o) + 1] = q.seq
        /\ \A i \in 1 .. Len(o) : s[i] = o[i]
    BY <1>2, <1>4, AppendProperties
  <1> HIDE DEF s
  <1>6. Len(p) = Len(s)
    BY <1>1, <1>2, <1>3, <1>5
  <1>7. ASSUME NEW i \in 1 .. Len(p) PROVE p[i] = s[i]
    <2>1. CASE i <= Len(a)
      BY <1>2, <1>3, <1>5, <1>6, <2>1
    <2>2. CASE i > Len(a) /\ i <= Len(o)
      <3> DEFINE j == i - Len(a)
      <3>1. j \in 1 .. Len(r) /\ j \in 1 .. Len(r2) /\ i = Len(a) + j
        BY <1>1, <1>2, <2>2
      <3>2. p[i] = r2[j].seq /\ o[i] = r[j].seq /\ r2[j] = r[j]
        BY <1>1, <1>2, <1>3, <3>1
      <3> HIDE DEF j
      <3>3. i \in 1 .. Len(o)
        BY <1>2, <2>2
      <3>4. s[i] = o[i]
        BY <1>5, <3>3
      <3> QED BY <3>2, <3>4
    <2>3. CASE i = Len(o) + 1
      <3>1. Len(r) + 1 \in 1 .. Len(r2) /\ i = Len(a) + (Len(r) + 1)
        BY <1>1, <1>2, <2>3
      <3>2. p[i] = r2[Len(r) + 1].seq
        BY <1>3, <3>1
      <3> QED BY <1>1, <1>5, <2>3, <3>2
    <2>4. Len(a) \in Nat /\ Len(o) \in Nat /\ i \in Nat /\ i <= Len(o) + 1
      BY <1>2, <1>5, <1>6
    <2>5. i <= Len(a) \/ (i > Len(a) /\ i <= Len(o)) \/ i = Len(o) + 1
      BY <2>4
    <2> QED BY <2>1, <2>2, <2>3, <2>5
  <1>8. p = s
    BY <1>3, <1>5, <1>6, <1>7, SeqEqual
  <1> QED BY <1>8 DEF p, s, o, r2

LEMMA OwedRun ==
    ASSUME NEW a \in Seq(Answer), NEW r \in Seq(Request), r # <<>>, NEW g \in BOOLEAN
    PROVE  OwedOf(Append(a, [seq |-> Head(r).seq, good |-> g]), Tail(r)) = OwedOf(a, r)
  <1> DEFINE o == OwedOf(a, r)
             x == [seq |-> Head(r).seq, good |-> g]
             a2 == Append(a, x)
             r2 == Tail(r)
             p == OwedOf(a2, r2)
  <1>1. /\ Head(r) \in Request /\ Head(r) = r[1] /\ r2 \in Seq(Request)
        /\ Len(r2) = Len(r) - 1 /\ \A i \in 1 .. Len(r2) : r2[i] = r[i + 1]
        /\ Len(r) # 0
    BY HeadTailProperties, EmptySeq
  <1>2. x \in Answer /\ x.seq = r[1].seq
    BY <1>1 DEF Request, Answer
  <1> HIDE DEF x, r2
  <1>3. /\ a2 \in Seq(Answer) /\ Len(a2) = Len(a) + 1 /\ a2[Len(a) + 1] = x
        /\ \A i \in 1 .. Len(a) : a2[i] = a[i]
    BY <1>2, AppendProperties
  <1> HIDE DEF a2
  <1>4. /\ o \in Seq(Nat) /\ Len(o) = Len(a) + Len(r)
        /\ Len(a) \in Nat /\ Len(r) \in Nat
        /\ \A i \in 1 .. Len(a) : o[i] = a[i].seq
        /\ \A i \in 1 .. Len(r) : o[Len(a) + i] = r[i].seq
    BY OwedIs
  <1>5. /\ p \in Seq(Nat) /\ Len(p) = Len(a2) + Len(r2)
        /\ Len(r2) \in Nat
        /\ \A i \in 1 .. Len(a2) : p[i] = a2[i].seq
        /\ \A i \in 1 .. Len(r2) : p[Len(a2) + i] = r2[i].seq
    BY <1>1, <1>3, OwedIs
  <1> HIDE DEF o, p
  <1>6. Len(p) = Len(o)
    BY <1>1, <1>3, <1>4, <1>5
  <1>7. ASSUME NEW i \in 1 .. Len(p) PROVE p[i] = o[i]
    <2>1. CASE i <= Len(a)
      <3>1. i \in 1 .. Len(a) /\ i \in 1 .. Len(a2)
        BY <1>3, <1>4, <2>1
      <3>2. p[i] = a2[i].seq /\ o[i] = a[i].seq /\ a2[i] = a[i]
        BY <1>3, <1>4, <1>5, <3>1
      <3> QED BY <3>2
    <2>2. CASE i = Len(a) + 1
      <3>0. i \in 1 .. Len(a2)
        BY <1>3, <1>4, <2>2
      <3>1. p[i] = a2[i].seq /\ a2[i] = x
        BY <1>3, <1>5, <2>2, <3>0
      <3>2. 1 \in 1 .. Len(r)
        BY <1>1, <1>4
      <3>3. o[i] = r[1].seq
        BY <1>4, <2>2, <3>2
      <3> QED BY <1>2, <3>1, <3>3
    <2>3. CASE i > Len(a) + 1
      <3> DEFINE j == i - Len(a2)
      <3>0. /\ i \in Nat /\ i <= Len(a2) + Len(r2) /\ i > Len(a) + 1
            /\ Len(a2) = Len(a) + 1 /\ Len(r2) = Len(r) - 1
            /\ Len(a) \in Nat /\ Len(r) \in Nat /\ Len(r2) \in Nat
        BY <1>1, <1>3, <1>4, <1>5, <2>3
      <3>1. j \in 1 .. Len(r2) /\ j + 1 \in 1 .. Len(r) /\ i = Len(a2) + j /\ i = Len(a) + (j + 1)
        BY <3>0
      <3>2. p[i] = r2[j].seq /\ o[i] = r[j + 1].seq /\ r2[j] = r[j + 1]
        BY <1>1, <1>4, <1>5, <3>1
      <3> QED BY <3>2
    <2>4. Len(a) \in Nat /\ i \in Nat
      BY <1>4
    <2>5. i <= Len(a) \/ i = Len(a) + 1 \/ i > Len(a) + 1
      BY <2>4
    <2> QED BY <2>1, <2>2, <2>3, <2>5
  <1>8. p = o
    BY <1>4, <1>5, <1>6, <1>7, SeqEqual
  <1> QED BY <1>8 DEF p, o, a2, r2, x

LEMMA OwedRead ==
    ASSUME NEW a \in Seq(Answer), NEW r \in Seq(Request), a # <<>>
    PROVE  LET o == OwedOf(a, r) IN
           o # <<>> /\ Head(o) = Head(a).seq /\ OwedOf(Tail(a), r) = Tail(o)
  <1> DEFINE o == OwedOf(a, r)
             a2 == Tail(a)
             p == OwedOf(a2, r)
             s == Tail(o)
  <1>1. /\ Head(a) = a[1] /\ a2 \in Seq(Answer)
        /\ Len(a2) = Len(a) - 1 /\ \A i \in 1 .. Len(a2) : a2[i] = a[i + 1]
        /\ Len(a) # 0
    BY HeadTailProperties, EmptySeq
  <1> HIDE DEF a2
  <1>2. /\ o \in Seq(Nat) /\ Len(o) = Len(a) + Len(r)
        /\ Len(a) \in Nat /\ Len(r) \in Nat
        /\ \A i \in 1 .. Len(a) : o[i] = a[i].seq
        /\ \A i \in 1 .. Len(r) : o[Len(a) + i] = r[i].seq
    BY OwedIs
  <1>3. /\ p \in Seq(Nat) /\ Len(p) = Len(a2) + Len(r)
        /\ Len(a2) \in Nat
        /\ \A i \in 1 .. Len(a2) : p[i] = a2[i].seq
        /\ \A i \in 1 .. Len(r) : p[Len(a2) + i] = r[i].seq
    BY <1>1, OwedIs
  <1> HIDE DEF o, p
  <1>4. o # <<>> /\ Len(o) # 0
    BY <1>1, <1>2, EmptySeq
  <1>5. /\ s \in Seq(Nat) /\ Len(s) = Len(o) - 1 /\ Head(o) = o[1]
        /\ \A i \in 1 .. Len(s) : s[i] = o[i + 1]
    BY <1>2, <1>4, HeadTailProperties
  <1> HIDE DEF s
  <1>6. Len(p) = Len(s)
    BY <1>1, <1>2, <1>3, <1>5
  <1>7. ASSUME NEW i \in 1 .. Len(p) PROVE p[i] = s[i]
    <2>1. CASE i <= Len(a2)
      <3>1. i \in 1 .. Len(a2) /\ i + 1 \in 1 .. Len(a) /\ i \in 1 .. Len(s)
        BY <1>1, <1>2, <1>3, <1>6, <2>1
      <3> QED BY <1>1, <1>2, <1>3, <1>5, <3>1
    <2>2. CASE i > Len(a2)
      <3> DEFINE j == i - Len(a2)
      <3>1. j \in 1 .. Len(r) /\ i = Len(a2) + j /\ i + 1 = Len(a) + j /\ i \in 1 .. Len(s)
        BY SMTT(40), <1>1, <1>2, <1>3, <1>6, <2>2
      <3>2. p[i] = r[j].seq /\ o[i + 1] = r[j].seq /\ s[i] = o[i + 1]
        BY <1>2, <1>3, <1>5, <3>1
      <3> QED BY <3>2
    <2> QED BY <1>3, <2>1, <2>2
  <1>8. 1 \in 1 .. Len(a)
    BY <1>1, <1>2
  <1>9. Head(o) = Head(a).seq
    BY <1>1, <1>2, <1>5, <1>8
  <1>10. p = s
    BY <1>3, <1>5, <1>6, <1>7, SeqEqual
  <1> QED BY <1>4, <1>9, <1>10 DEF p, s, o, a2

LEMMA RangeNat ==
    ASSUME NEW s \in Seq(Nat), NEW n \in Range(s)
    PROVE  n \in Nat
  BY ElementOfSeq DEF Range

LEMMA AscendingAppend ==
    ASSUME NEW s \in Seq(Nat), NEW n \in Nat, Ascending(s), \A x \in Range(s) : x < n
    PROVE  LET t == Append(s, n) IN
           t \in Seq(Nat) /\ t # <<>> /\ Ascending(t) /\ Range(t) = Range(s) \cup {n}
  <1> DEFINE t == Append(s, n)
  <1>1. /\ t \in Seq(Nat) /\ Len(t) = Len(s) + 1 /\ t[Len(s) + 1] = n
        /\ \A i \in 1 .. Len(s) : t[i] = s[i]
    BY AppendProperties
  <1>2. Len(s) \in Nat /\ DOMAIN s = 1 .. Len(s) /\ DOMAIN t = 1 .. Len(s) + 1
    BY <1>1, LenProperties
  <1> HIDE DEF t
  <1>3. t # <<>>
    BY <1>1, <1>2, EmptySeq
  <1>4. \A i \in 1 .. Len(s) : s[i] < n
    BY <1>2 DEF Range
  <1>5. Ascending(t)
    BY SMTT(40), <1>1, <1>2, <1>4 DEF Ascending
  <1>6. Range(t) = Range(s) \cup {n}
    BY <1>1, <1>2 DEF Range
  <1> QED BY <1>1, <1>3, <1>5, <1>6 DEF t

LEMMA AscendingTail ==
    ASSUME NEW s \in Seq(Nat), s # <<>>, Ascending(s)
    PROVE  LET t == Tail(s) IN
           /\ t \in Seq(Nat) /\ Ascending(t)
           /\ Range(s) = Range(t) \cup {Head(s)}
           /\ \A x \in Range(t) : x > Head(s)
  <1> DEFINE t == Tail(s)
  <1>1. /\ t \in Seq(Nat) /\ Len(t) = Len(s) - 1 /\ Head(s) = s[1]
        /\ \A i \in 1 .. Len(t) : t[i] = s[i + 1]
        /\ Len(s) # 0
    BY HeadTailProperties, EmptySeq
  <1>2. Len(s) \in Nat /\ DOMAIN s = 1 .. Len(s) /\ DOMAIN t = 1 .. Len(t) /\ Len(t) \in Nat
    BY <1>1, LenProperties
  <1> HIDE DEF t
  <1>3. \A i \in 1 .. Len(t) : i + 1 \in 1 .. Len(s) /\ 1 \in 1 .. Len(s)
    BY <1>1, <1>2
  <1>4. Ascending(t)
    <2>1. ASSUME NEW i \in 1 .. Len(t), NEW j \in 1 .. Len(t), i < j PROVE t[i] < t[j]
      <3>1. i + 1 \in DOMAIN s /\ j + 1 \in DOMAIN s /\ i + 1 < j + 1
        BY <1>2, <1>3, <2>1
      <3>2. s[i + 1] < s[j + 1]
        BY <3>1 DEF Ascending
      <3> QED BY <1>1, <3>2
    <2> QED BY <1>2, <2>1 DEF Ascending
  <1>5. \A x \in Range(t) : x > Head(s)
    <2>1. ASSUME NEW i \in 1 .. Len(t) PROVE t[i] > s[1]
      <3>0. 1 \in DOMAIN s /\ i + 1 \in DOMAIN s /\ 1 < i + 1
        BY <1>2, <1>3
      <3>1. s[1] < s[i + 1]
        BY <3>0 DEF Ascending
      <3>2. s[1] \in Nat /\ s[i + 1] \in Nat
        BY <1>2, <1>3, ElementOfSeq
      <3> QED BY <1>1, <3>1, <3>2
    <2> QED BY <1>1, <1>2, <2>1 DEF Range
  <1>6. Range(s) = Range(t) \cup {Head(s)}
    <2>1. \A i \in 2 .. Len(s) : i - 1 \in 1 .. Len(t) /\ t[i - 1] = s[i]
      BY <1>1, <1>2
    <2>2. ASSUME NEW x \in Range(s) PROVE x \in Range(t) \cup {Head(s)}
      <3>1. PICK i \in 1 .. Len(s) : x = s[i]
        BY <1>2 DEF Range
      <3>2. CASE i = 1
        BY <1>1, <3>1, <3>2
      <3>3. CASE i \in 2 .. Len(s)
        BY <1>2, <2>1, <3>1, <3>3 DEF Range
      <3> QED BY <1>2, <3>2, <3>3
    <2>3. ASSUME NEW x \in Range(t) PROVE x \in Range(s)
      <3>1. PICK i \in 1 .. Len(t) : x = t[i]
        BY <1>2 DEF Range
      <3> QED BY <1>1, <1>2, <1>3, <3>1 DEF Range
    <2>4. Head(s) \in Range(s)
      BY <1>1, <1>2 DEF Range
    <2> QED BY <2>2, <2>3, <2>4
  <1> QED BY <1>1, <1>4, <1>5, <1>6 DEF t
(* A reset or a settling pass may find batches in flight that the queue    *)
(* gave up on: between failures and their cleanup, nothing is said of them. *)
Adrift ==
    \/ pc = "rest" /\ (torn \/ model.kind = "audio")
    \/ pc = "quiesce" /\ (call = "reset" \/ model.kind = "audio")

(* Where nothing is in flight, and who may wait.                           *)
FlightPlaces ==
    /\ ret \in {"closing", "quiesce"} => sync
    /\ pc = "await" => wait.by # "none"
    /\ pc = "await" /\ wait.by = "flush" => inflight = <<>>
    /\ pc = "stage" => inflight = <<>>
    /\ pc = "quiesce" /\ ~Adrift => inflight = <<>>
    /\ pc = "evict" => inflight = <<>>

(* Batches are owed, and in flight, in the order of their numbers.         *)
OrderInv ==
    /\ Ascending(Owed) /\ Ascending(inflight)
    /\ \A n \in Range(Owed) \cup Range(inflight) : n < seq

(* What is waited for, and then what is in flight, is still owed.          *)
AwaitInv ==
    /\ pc = "await" => wait.seq \in Range(Owed) /\ \A n \in Range(inflight) : n > wait.seq
    /\ ~Adrift => Range(inflight) \subseteq Range(Owed)

LEMMA FlightPlacesStep ==
    ASSUME IType, FlightPlaces, Next
    PROVE  FlightPlaces'
  <1>1. /\ wait \in Waits /\ wait.by \in {"none", "flush", "full", "drain"}
        /\ pc \in Places /\ ret \in Returns /\ after \in {"flushed", "stage", "closed"}
        /\ sync \in BOOLEAN
    BY DEF IType, QueueType, Waits
  <1> DEFINE QueueOnly == UNCHANGED <<model, passVars, stateVars, paging, truth>>
  <1> USE DEF FlightPlaces, Adrift, Places, Returns, Fails, Return, vars, queueVars, host,
              dsp, here, passVars, stateVars, paging, truth
  <1>2. ASSUME FlushNothing \/ FlushTooLarge \/ FlushWraps \/ DrainNext \/ DrainEnds,
               QueueOnly
        PROVE  FlightPlaces'
    BY <1>1, <1>2 DEF FlushNothing, FlushTooLarge, FlushWraps, DrainNext, DrainEnds,
                      BeginDrain, Await
  <1>3. ASSUME FlushFits \/ SendAfterWrap, QueueOnly
        PROVE  FlightPlaces'
    BY <1>1, <1>3 DEF FlushFits, SendAfterWrap, Send, Await, BeginDrain
  <1>4. ASSUME ReadCurrent, QueueOnly
        PROVE  FlightPlaces'
    BY <1>1, <1>4 DEF ReadCurrent, ReadOne, OkStatus, ErrorStatus
  <1>5. ASSUME ReadStale, QueueOnly
        PROVE  FlightPlaces'
    <2>1. wait'.by = wait.by /\ UNCHANGED <<inflight, pc, ret, sync>>
      BY <1>1, <1>5 DEF ReadStale, ReadOne, Waits
    <2> QED BY <1>1, <1>5, <2>1 DEF ReadStale
  <1>6. ASSUME QuiesceReads, QueueOnly
        PROVE  FlightPlaces'
    BY <1>1, <1>6 DEF QuiesceReads, ReadOne
  <1>7. ASSUME ReadTooStale \/ ReadTruncated \/ ReadTimesOut, QueueOnly
        PROVE  FlightPlaces'
    BY <1>1, <1>7 DEF ReadTooStale, ReadTruncated, ReadTimesOut, ReadOne, WaitFails
  <1>8. CASE \/ Settled \/ SettleTimesOut \/ FinishedPending \/ FinishTimesOut
             \/ ResetKv \/ ResetTimesOut
    BY <1>1, <1>8 DEF Settled, SettleTimesOut, FinishedPending, FinishTimesOut,
                      ResetKv, ResetTimesOut, Quiesced, QuiesceTimesOut
  <1>9. CASE StageInputs \/ EmitLayer \/ EmitFails \/ PageIn \/ FinishPending
    BY <1>1, <1>9 DEF StageInputs, EmitLayer, EmitFails, PageIn, FinishPending,
                      BeginFlush, NeedsExperts, Map
  <1>10. CASE Evict \/ Evicted \/ DspRuns
    BY <1>1, <1>10 DEF Evict, Evicted, DspRuns, Map
  <1>11. CASE \/ Closing \/ PassSucceeds \/ PassFails \/ StartPass \/ StartReset
              \/ Refused \/ Unwinds
    BY <1>1, <1>11 DEF Closing, PassSucceeds, PassFails, StartPass, StartReset,
                       Refused, Unwinds, BeginDrain
  <1> QED BY <1>2, <1>3, <1>4, <1>5, <1>6, <1>7, <1>8, <1>9, <1>10, <1>11
          DEF Next, HostStep, QueueStep

(* What a step does to the batches that are owed, in flight and waited for. *)
LeavesBatches ==
    /\ UNCHANGED <<seq, requests, answers>>
    /\ pc' # "await"
    /\ \/ inflight' = <<>> /\ (ok' => outstanding = 0)
       \/ inflight' = inflight /\ (Adrift => Adrift') /\ (pc = "await" => ~ok')

SendLost ==
    /\ seq' = seq + 1 /\ UNCHANGED <<inflight, requests, answers>>
    /\ pc' # "await" /\ ~Adrift /\ ~ok'

SendMade ==
    /\ seq' = seq + 1 /\ UNCHANGED answers
    /\ \E at \in 0 .. Staging :
          requests' = Append(requests, [seq |-> seq, at |-> at, ops |-> pending])
    /\ ~Adrift
    /\ \/ inflight = <<>> /\ inflight' = <<>> /\ pc' = "await" /\ wait'.seq = seq
       \/ inflight' = Append(inflight, seq) /\ pc' # "await"
       \/ /\ inflight' = Tail(Append(inflight, seq))
          /\ pc' = "await" /\ wait'.seq = Head(Append(inflight, seq))

OldestAwaited ==
    /\ UNCHANGED <<seq, requests, answers>>
    /\ inflight # <<>> /\ inflight' = Tail(inflight)
    /\ pc = "drain" /\ pc' = "await" /\ wait'.seq = Head(inflight)

AnswerRead ==
    /\ UNCHANGED <<seq, requests>>
    /\ answers # <<>> /\ answers' = Tail(answers)
    /\ \/ inflight' = <<>> /\ pc' # "await" /\ (pc = "quiesce" \/ ~ok')
       \/ pc = "await" /\ inflight' = inflight /\ Head(answers).seq = wait.seq /\ pc' # "await"
       \/ /\ pc = "await" /\ pc' = "await" /\ inflight' = inflight
          /\ Head(answers).seq < wait.seq /\ wait'.seq = wait.seq
       \/ Adrift /\ Adrift' /\ inflight' = inflight /\ pc' # "await"

BatchRun ==
    /\ UNCHANGED <<seq, inflight, pc, wait>> /\ Adrift' = Adrift
    /\ requests # <<>> /\ requests' = Tail(requests)
    /\ \E good \in BOOLEAN : answers' = Append(answers, [seq |-> Head(requests).seq, good |-> good])

LEMMA Batches ==
    ASSUME IType, StageInv, FlightPlaces, Next
    PROVE  LeavesBatches \/ SendLost \/ SendMade \/ OldestAwaited \/ AnswerRead \/ BatchRun
  <1>1. /\ wait \in Waits /\ wait.by \in {"none", "flush", "full", "drain"}
        /\ pc \in Places /\ ret \in Returns /\ after \in {"flushed", "stage", "closed"}
    BY DEF IType, QueueType, Waits
  <1> DEFINE QueueOnly == UNCHANGED <<model, passVars, stateVars, paging, truth>>
             Kinds == LeavesBatches \/ SendLost \/ SendMade \/ OldestAwaited \/ AnswerRead \/ BatchRun
  <1> USE DEF FlightPlaces, Adrift, Places, Returns, Fails, Return, vars, queueVars, host,
              dsp, here, passVars, stateVars, paging, truth
  <1>2. ASSUME FlushNothing \/ FlushTooLarge \/ FlushWraps \/ DrainEnds, QueueOnly
        PROVE  Kinds
    BY <1>1, <1>2 DEF FlushNothing, FlushTooLarge, FlushWraps, DrainEnds, BeginDrain,
                      LeavesBatches
  <1>3. ASSUME FlushFits \/ SendAfterWrap, QueueOnly
        PROVE  Kinds
    <2>1. ~Adrift
      BY <1>3 DEF FlushFits, SendAfterWrap
    <2>2. \E at \in 0 .. Staging : Send(at)
      BY <1>3, QueueAssumption DEF FlushFits, SendAfterWrap, StageAt, IType, QueueType
    <2>3. PICK at \in 0 .. Staging : Send(at)
      BY <2>2
    <2>4. seq' = seq + 1 /\ answers' = answers
      BY <2>3 DEF Send
    <2>5. CASE Fails /\ UNCHANGED <<inflight, requests>>
      BY <1>1, <2>1, <2>4, <2>5 DEF SendLost
    <2>6. CASE /\ requests' = Append(requests, [seq |-> seq, at |-> at, ops |-> pending])
               /\ \/ inflight = <<>> /\ inflight' = <<>> /\ Await(seq, "flush")
                  \/ /\ inflight' = Tail(Append(inflight, seq))
                     /\ Await(Head(Append(inflight, seq)), "full")
                  \/ inflight' = Append(inflight, seq) /\ (pc' = "drain" \/ pc' = ret)
      BY <1>1, <2>1, <2>4, <2>6 DEF SendMade, Await
    <2> QED BY <2>3, <2>5, <2>6 DEF Send, BeginDrain
  <1>4. ASSUME DrainNext, QueueOnly
        PROVE  Kinds
    BY <1>1, <1>4 DEF DrainNext, Await, OldestAwaited
  <1>5. ASSUME ReadCurrent, QueueOnly
        PROVE  Kinds
    BY <1>1, <1>5 DEF ReadCurrent, ReadOne, OkStatus, ErrorStatus, AnswerRead
  <1>6. ASSUME ReadStale, QueueOnly
        PROVE  Kinds
    <2>1. wait'.seq = wait.seq
      BY <1>1, <1>6 DEF ReadStale, Waits
    <2> QED BY <1>1, <1>6, <2>1 DEF ReadStale, ReadOne, AnswerRead
  <1>7. ASSUME QuiesceReads, QueueOnly
        PROVE  Kinds
    BY <1>1, <1>7 DEF QuiesceReads, ReadOne, AnswerRead
  <1>8. ASSUME ReadTooStale \/ ReadTruncated, QueueOnly
        PROVE  Kinds
    BY <1>1, <1>8 DEF ReadTooStale, ReadTruncated, ReadOne, WaitFails, AnswerRead
  <1>9. ASSUME ReadTimesOut, QueueOnly
        PROVE  Kinds
    BY <1>1, <1>9 DEF ReadTimesOut, WaitFails, LeavesBatches
  <1>10. CASE \/ Settled \/ SettleTimesOut \/ FinishedPending \/ FinishTimesOut
              \/ ResetKv \/ ResetTimesOut
    BY <1>1, <1>10 DEF Settled, SettleTimesOut, FinishedPending, FinishTimesOut,
                       ResetKv, ResetTimesOut, Quiesced, QuiesceTimesOut, LeavesBatches
  <1>11. CASE \/ StageInputs \/ EmitLayer \/ EmitFails \/ PageIn \/ FinishPending
              \/ Evict \/ Evicted
    BY <1>1, <1>11 DEF StageInputs, EmitLayer, EmitFails, PageIn, FinishPending,
                       BeginFlush, NeedsExperts, Map, Evict, Evicted, LeavesBatches
  <1>12. CASE DspRuns
    BY <1>1, <1>12 DEF DspRuns, BatchRun
  <1>13. CASE \/ Closing \/ PassSucceeds \/ PassFails \/ StartPass \/ StartReset
              \/ Refused \/ Unwinds
    BY <1>1, <1>13 DEF Closing, PassSucceeds, PassFails, StartPass, StartReset,
                       Refused, Unwinds, BeginDrain, LeavesBatches, TornNow
  <1> QED BY <1>2, <1>3, <1>4, <1>5, <1>6, <1>7, <1>8, <1>9, <1>10, <1>11, <1>12, <1>13
          DEF Next, HostStep, QueueStep
(* The numbers of the batches that are owed and in flight, at any step.    *)
LEMMA OrderStep ==
    ASSUME IType, OrderInv, AwaitInv,
           LeavesBatches \/ SendLost \/ SendMade \/ OldestAwaited \/ AnswerRead \/ BatchRun
    PROVE  OrderInv' /\ AwaitInv'
  <1> DEFINE o == Owed
             p == Owed'
             f == inflight
             g == inflight'
  <1>1. /\ requests \in Seq(Request) /\ answers \in Seq(Answer)
        /\ f \in Seq(Nat) /\ seq \in Nat /\ pending \in Seq(Op) /\ Staging \in Nat
    BY QueueAssumption DEF IType, QueueType
  <1>2. o \in Seq(Nat)
    BY <1>1, OwedIs DEF Owed
  <1>3. /\ Ascending(o) /\ Ascending(f)
        /\ \A n \in Range(o) : n < seq
        /\ \A n \in Range(f) : n < seq
    BY DEF OrderInv
  <1>4. /\ pc = "await" => wait.seq \in Range(o) /\ \A n \in Range(f) : n > wait.seq
        /\ ~Adrift => Range(f) \subseteq Range(o)
    BY DEF AwaitInv
  <1>5. (pc = "await" \/ pc = "drain") => ~Adrift
    BY DEF Adrift
  <1>6. (pc' = "await") => ~Adrift'
    BY DEF Adrift
  <1>7. Ascending(<<>>) /\ Range(<<>>) = {}
    BY DEF Ascending, Range
  <1> DEFINE Goal == /\ Ascending(p) /\ Ascending(g)
                     /\ \A n \in Range(p) : n < seq'
                     /\ \A n \in Range(g) : n < seq'
                     /\ pc' = "await" => wait'.seq \in Range(p) /\ \A n \in Range(g) : n > wait'.seq
                     /\ ~Adrift' => Range(g) \subseteq Range(p)
  <1>8. \A n \in Range(o) \cup Range(f) : n \in Nat
    BY <1>1, <1>2, RangeNat
  <1>9. CASE LeavesBatches
    <2>1. p = o /\ seq' = seq /\ pc' # "await"
      BY <1>9 DEF LeavesBatches, Owed
    <2>2. g = <<>> \/ (g = f /\ (Adrift => Adrift'))
      BY <1>9 DEF LeavesBatches
    <2> HIDE DEF o, p, f, g
    <2>3. Goal
      BY <1>3, <1>4, <1>7, <2>1, <2>2
    <2> QED BY <2>3 DEF OrderInv, AwaitInv, o, p, f, g
  <1>10. CASE SendLost
    <2>1. p = o /\ seq' = seq + 1 /\ pc' # "await" /\ g = f /\ ~Adrift
      BY <1>10 DEF SendLost, Owed
    <2> HIDE DEF o, p, f, g
    <2>2. \A n \in Range(o) \cup Range(f) : n < seq + 1
      BY <1>1, <1>3, <1>8
    <2>3. Goal
      BY <1>3, <1>4, <2>1, <2>2
    <2> QED BY <2>3 DEF OrderInv, AwaitInv, o, p, f, g
  <1>11. CASE SendMade
    <2>1. PICK at \in 0 .. Staging :
             requests' = Append(requests, [seq |-> seq, at |-> at, ops |-> pending])
      BY <1>11 DEF SendMade
    <2> DEFINE b == [seq |-> seq, at |-> at, ops |-> pending]
               h == Append(f, seq)
    <2>2. b \in Request /\ b.seq = seq
      BY <1>1 DEF Request
    <2> HIDE DEF b
    <2>3. p = Append(o, seq)
      <3>1. p = OwedOf(answers, Append(requests, b))
        BY <1>11, <2>1 DEF SendMade, Owed, b
      <3>2. OwedOf(answers, Append(requests, b)) = Append(o, b.seq)
        BY <1>1, <2>2, OwedSent DEF Owed
      <3> QED BY <2>2, <3>1, <3>2
    <2>4. /\ seq' = seq + 1 /\ ~Adrift
          /\ \/ f = <<>> /\ g = <<>> /\ wait'.seq = seq
             \/ g = h /\ pc' # "await"
             \/ g = Tail(h) /\ wait'.seq = Head(h)
      BY <1>11 DEF SendMade
    <2> HIDE DEF o, p, f, g
    <2>5. Ascending(p) /\ Range(p) = Range(o) \cup {seq}
      BY <1>1, <1>2, <1>3, <2>3, AscendingAppend
    <2>6. h \in Seq(Nat) /\ h # <<>> /\ Ascending(h) /\ Range(h) = Range(f) \cup {seq}
      BY <1>1, <1>3, AscendingAppend
    <2> HIDE DEF h
    <2>7. \A n \in Range(o) \cup Range(f) \cup {seq} : n < seq + 1
      BY <1>1, <1>3, <1>8
    <2>8. Range(h) \subseteq Range(p)
      BY <1>4, <2>4, <2>5, <2>6
    <2>9. CASE f = <<>> /\ g = <<>> /\ wait'.seq = seq
      <3>1. Goal
        BY <1>7, <2>4, <2>5, <2>7, <2>9
      <3> QED BY <3>1 DEF OrderInv, AwaitInv, o, p, f, g
    <2>10. CASE g = h /\ pc' # "await"
      <3>1. Goal
        BY <2>4, <2>5, <2>6, <2>7, <2>8, <2>10
      <3> QED BY <3>1 DEF OrderInv, AwaitInv, o, p, f, g
    <2>11. CASE g = Tail(h) /\ wait'.seq = Head(h)
      <3>1. /\ Ascending(g) /\ Range(h) = Range(g) \cup {wait'.seq}
            /\ \A n \in Range(g) : n > wait'.seq
        BY <2>6, <2>11, AscendingTail
      <3>2. Goal
        BY <2>4, <2>5, <2>6, <2>7, <2>8, <3>1
      <3> QED BY <3>2 DEF OrderInv, AwaitInv, o, p, f, g
    <2> QED BY <2>4, <2>9, <2>10, <2>11
  <1>12. CASE OldestAwaited
    <2>1. /\ p = o /\ seq' = seq /\ f # <<>> /\ g = Tail(f)
          /\ wait'.seq = Head(f) /\ ~Adrift
      BY <1>5, <1>12 DEF OldestAwaited, Owed
    <2> HIDE DEF o, p, f, g
    <2>2. /\ Ascending(g) /\ Range(f) = Range(g) \cup {wait'.seq}
          /\ \A n \in Range(g) : n > wait'.seq
      BY <1>1, <1>3, <2>1, AscendingTail
    <2>3. Goal
      BY <1>3, <1>4, <2>1, <2>2
    <2> QED BY <2>3 DEF OrderInv, AwaitInv, o, p, f, g
  <1>13. CASE AnswerRead
    <2>1. /\ o # <<>> /\ Head(o) = Head(answers).seq /\ p = Tail(o) /\ seq' = seq
      <3>1. answers # <<>> /\ p = OwedOf(Tail(answers), requests) /\ seq' = seq
        BY <1>13 DEF AnswerRead, Owed
      <3> QED BY <1>1, <3>1, OwedRead DEF Owed
    <2>2. \/ g = <<>> /\ pc' # "await"
          \/ pc = "await" /\ g = f /\ Head(o) = wait.seq /\ pc' # "await"
          \/ pc = "await" /\ g = f /\ Head(o) < wait.seq /\ wait'.seq = wait.seq
          \/ Adrift' /\ g = f /\ pc' # "await"
      BY <1>13, <2>1 DEF AnswerRead
    <2> HIDE DEF o, p, f, g
    <2>3. /\ Ascending(p) /\ Range(o) = Range(p) \cup {Head(o)}
          /\ \A n \in Range(p) : n > Head(o)
      BY <1>2, <1>3, <2>1, AscendingTail
    <2>4. CASE g = <<>> /\ pc' # "await"
      <3>1. Goal
        BY <1>3, <1>7, <2>1, <2>3, <2>4
      <3> QED BY <3>1 DEF OrderInv, AwaitInv, o, p, f, g
    <2>5. CASE pc = "await" /\ g = f /\ Head(o) = wait.seq /\ pc' # "await"
      <3>1. \A n \in Range(f) : n # Head(o)
        BY <1>4, <1>8, <2>3, <2>5
      <3>2. Range(f) \subseteq Range(p)
        BY <1>4, <1>5, <2>3, <2>5, <3>1
      <3>3. Goal
        BY <1>3, <2>1, <2>3, <2>5, <3>2
      <3> QED BY <3>3 DEF OrderInv, AwaitInv, o, p, f, g
    <2>6. CASE pc = "await" /\ g = f /\ Head(o) < wait.seq /\ wait'.seq = wait.seq
      <3>1. Head(o) \in Nat /\ wait.seq \in Nat
        BY <1>4, <1>8, <2>3, <2>6
      <3>2. wait.seq # Head(o) /\ \A n \in Range(f) : n # Head(o)
        BY <1>4, <1>8, <2>6, <3>1
      <3>3. wait.seq \in Range(p) /\ Range(f) \subseteq Range(p)
        BY <1>4, <1>5, <2>3, <2>6, <3>2
      <3>4. Goal
        BY <1>3, <1>4, <2>1, <2>3, <2>6, <3>3
      <3> QED BY <3>4 DEF OrderInv, AwaitInv, o, p, f, g
    <2>7. CASE Adrift' /\ g = f /\ pc' # "await"
      <3>1. Goal
        BY <1>3, <2>1, <2>3, <2>7
      <3> QED BY <3>1 DEF OrderInv, AwaitInv, o, p, f, g
    <2> QED BY <2>2, <2>4, <2>5, <2>6, <2>7
  <1>14. CASE BatchRun
    <2>1. p = o
      <3>1. PICK good \in BOOLEAN :
               answers' = Append(answers, [seq |-> Head(requests).seq, good |-> good])
        BY <1>14 DEF BatchRun
      <3>2. requests # <<>> /\ requests' = Tail(requests)
        BY <1>14 DEF BatchRun
      <3> QED BY <1>1, <3>1, <3>2, OwedRun DEF Owed
    <2>2. g = f /\ UNCHANGED <<seq, pc, wait>> /\ Adrift' = Adrift
      BY <1>14 DEF BatchRun
    <2> HIDE DEF o, p, f, g
    <2>3. Goal
      BY <1>3, <1>4, <2>1, <2>2
    <2> QED BY <2>3 DEF OrderInv, AwaitInv, o, p, f, g
  <1> QED BY <1>9, <1>10, <1>11, <1>12, <1>13, <1>14
(* The batches the host still counts on.                                   *)
Counted == Range(inflight) \cup (IF pc = "await" THEN {wait.seq} ELSE {})

(* They keep their descriptors, in front of where the next ones go.        *)
KeptInv ==
    \A i \in DOMAIN requests :
        requests[i].seq \in Counted =>
            Intact(requests[i]) /\ requests[i].at + Len(requests[i].ops) <= cursor

LEMMA RequestsOwed ==
    ASSUME IType, NEW i \in DOMAIN requests
    PROVE  requests[i].seq \in Range(Owed) /\ requests[i].seq \in Nat
  <1>1. requests \in Seq(Request) /\ answers \in Seq(Answer)
    BY DEF IType, QueueType
  <1>2. i \in 1 .. Len(requests)
    BY <1>1, LenProperties
  <1>3. /\ Owed \in Seq(Nat) /\ Len(Owed) = Len(answers) + Len(requests)
        /\ Len(answers) \in Nat /\ Len(requests) \in Nat
        /\ Owed[Len(answers) + i] = requests[i].seq
    BY <1>1, <1>2, OwedIs DEF Owed
  <1>4. Len(answers) + i \in DOMAIN Owed
    BY <1>2, <1>3, LenProperties
  <1>5. requests[i].seq \in Range(Owed)
    BY <1>3, <1>4 DEF Range
  <1> QED BY <1>3, <1>5, RangeNat

LEMMA KeptStep ==
    ASSUME IType, StageInv, FlightPlaces, OrderInv, KeptInv, Next, NeedInv
    PROVE  KeptInv'
  <1>1. /\ requests \in Seq(Request) /\ answers \in Seq(Answer)
        /\ inflight \in Seq(Nat) /\ seq \in Nat /\ pending \in Seq(Op) /\ Staging \in Nat
        /\ cursor \in 0 .. Staging /\ staged \in [0 .. Staging - 1 -> Nat]
    BY QueueAssumption DEF IType, QueueType
  <1>2. DspMoves
    BY Moves
  <1>3. Len(requests) \in Nat /\ DOMAIN requests = 1 .. Len(requests) /\ Len(pending) \in Nat
    BY <1>1, LenProperties
  <1>4. \A i \in DOMAIN requests :
           /\ requests[i].seq \in Range(Owed) /\ requests[i].seq \in Nat
           /\ requests[i].seq < seq /\ requests[i].at \in Nat /\ Len(requests[i].ops) \in Nat
    <2>1. ASSUME NEW i \in DOMAIN requests
          PROVE  /\ requests[i].seq \in Range(Owed) /\ requests[i].seq \in Nat
                 /\ requests[i].seq < seq /\ requests[i].at \in Nat /\ Len(requests[i].ops) \in Nat
      <3>1. requests[i] \in Request
        BY <1>1, <1>3, ElementOfSeq
      <3>2. requests[i].at \in Nat /\ Len(requests[i].ops) \in Nat
        BY <3>1, LenProperties DEF Request
      <3> QED BY <2>1, <3>2, RequestsOwed DEF OrderInv
    <2> QED BY <2>1
  <1>5. CASE /\ UNCHANGED <<requests, staged, cursor>> /\ Counted' \subseteq Counted
    BY <1>5 DEF KeptInv, Intact
  <1>6. CASE SendLost \/ SendMade
    <2>1. seq' = seq + 1
      BY <1>6 DEF SendLost, SendMade
    <2>2. SentInPlace
      BY <1>1, <1>2, <2>1 DEF DspMoves
    <2>3. PICK at \in 0 .. Staging :
             /\ at + Len(pending) <= Staging /\ Sent(at)
             /\ inflight # <<>> => at = cursor
      <3>1. CASE pc = "flush" /\ StageAt + Len(pending) <= Staging /\ Sent(StageAt)
        BY <1>1, <3>1 DEF StageAt
      <3>2. CASE pc = "stage" /\ Sent(0)
        BY <1>1, <1>3, <3>2 DEF FlightPlaces, StageInv
      <3> QED BY <2>2, <3>1, <3>2 DEF SentInPlace
    <2>4. pc # "await"
      BY <2>2 DEF SentInPlace
    <2>5. Counted' \subseteq Range(inflight) \cup {seq}
      <3> DEFINE h == Append(inflight, seq)
      <3>1. h \in Seq(Nat) /\ h # <<>> /\ Range(h) = Range(inflight) \cup {seq}
        BY <1>1, AscendingAppend DEF OrderInv
      <3>2. Ascending(h)
        BY <1>1, AscendingAppend DEF OrderInv
      <3> HIDE DEF h
      <3>3. Range(h) = Range(Tail(h)) \cup {Head(h)}
        BY <3>1, <3>2, AscendingTail
      <3>4. Range(<<>>) = {}
        BY DEF Range
      <3>5. CASE SendLost
        BY <3>5 DEF SendLost, Counted
      <3>6. CASE SendMade
        <4>1. \/ inflight' = <<>> /\ wait'.seq = seq
              \/ inflight' = h /\ pc' # "await"
              \/ inflight' = Tail(h) /\ wait'.seq = Head(h)
          BY <3>6 DEF SendMade, h
        <4> QED BY <3>1, <3>3, <3>4, <4>1 DEF Counted
      <3> QED BY <1>6, <3>5, <3>6
    <2>6. /\ cursor' = at + Len(pending)
          /\ staged' = [k \in 0 .. Staging - 1 |->
                          IF k \in Region(at, Len(pending)) THEN seq ELSE staged[k]]
      BY <1>1, <2>3 DEF Sent
    <2>7. ASSUME NEW i \in DOMAIN requests, requests[i].seq \in Counted'
          PROVE  /\ \A k \in Region(requests[i].at, Len(requests[i].ops)) :
                       staged'[k] = requests[i].seq
                 /\ requests[i].at + Len(requests[i].ops) <= cursor'
      <3>1. requests[i].seq \in Range(inflight)
        BY <1>1, <1>4, <2>5, <2>7
      <3>2. Intact(requests[i]) /\ requests[i].at + Len(requests[i].ops) <= cursor
        BY <3>1 DEF KeptInv, Counted
      <3>3. inflight # <<>> /\ at = cursor
        BY <2>3, <3>1 DEF Range
      <3> DEFINE x == requests[i].at
                 n == Len(requests[i].ops)
                 l == Len(pending)
      <3>8. x \in Nat /\ n \in Nat /\ l \in Nat
        BY <1>3, <1>4
      <3>9. cursor \in Nat /\ Staging \in Nat /\ cursor <= Staging
        BY <1>1
      <3>10. x + n <= cursor
        BY <3>2
      <3>11. cursor' = cursor + l
        BY <2>6, <3>3
      <3> HIDE DEF x, n, l
      <3>4. ASSUME NEW k \in Region(x, n)
            PROVE  k \in 0 .. Staging - 1 /\ k \notin Region(at, l)
        <4>1. k \in x .. x + n - 1 /\ Region(at, l) = cursor .. cursor + l - 1
          BY <3>3 DEF Region
        <4> QED BY <3>8, <3>9, <3>10, <4>1
      <3>5. \A k \in Region(x, n) : staged'[k] = staged[k]
        BY <2>6, <3>4 DEF l
      <3>12. x + n <= cursor'
        BY <3>8, <3>9, <3>10, <3>11
      <3>6. requests[i].at + Len(requests[i].ops) <= cursor'
        BY <3>12 DEF x, n
      <3>7. \A k \in Region(requests[i].at, Len(requests[i].ops)) : staged'[k] = requests[i].seq
        BY <3>2, <3>5 DEF Intact, x, n
      <3> QED BY <3>6, <3>7
    <2>8. CASE UNCHANGED <<requests, outstanding>>
      BY <2>7, <2>8 DEF KeptInv, Intact
    <2>9. CASE requests' = Append(requests, [seq |-> seq, at |-> at, ops |-> pending])
      <3> DEFINE b == [seq |-> seq, at |-> at, ops |-> pending]
      <3>1. b \in Request /\ b.seq = seq /\ b.at = at /\ b.ops = pending
        BY <1>1, <2>3 DEF Request
      <3> HIDE DEF b
      <3>2. /\ Len(requests') = Len(requests) + 1 /\ requests'[Len(requests) + 1] = b
            /\ requests' \in Seq(Request)
            /\ \A i \in 1 .. Len(requests) : requests'[i] = requests[i]
        BY <1>1, <2>9, <3>1, AppendProperties DEF b
      <3>3. DOMAIN requests' = 1 .. Len(requests) + 1
        BY <3>2, LenProperties
      <3>4. /\ \A k \in Region(b.at, Len(b.ops)) : staged'[k] = b.seq
            /\ b.at + Len(b.ops) <= cursor'
        <4>1. Region(at, Len(pending)) \subseteq 0 .. Staging - 1
          BY SMTT(40), <1>1, <1>3, <2>3 DEF Region
        <4> QED BY <1>1, <1>3, <2>6, <3>1, <4>1
      <3>5. ASSUME NEW i \in DOMAIN requests', requests'[i].seq \in Counted'
            PROVE  /\ \A k \in Region(requests'[i].at, Len(requests'[i].ops)) :
                         staged'[k] = requests'[i].seq
                   /\ requests'[i].at + Len(requests'[i].ops) <= cursor'
        <4>1. CASE i \in 1 .. Len(requests)
          <5>1. requests'[i] = requests[i] /\ i \in DOMAIN requests
            BY <1>3, <3>2, <4>1
          <5> QED BY <2>7, <3>5, <5>1 DEF Intact
        <4>2. CASE i = Len(requests) + 1
          BY <3>2, <3>4, <4>2
        <4> QED BY <1>3, <3>3, <4>1, <4>2
      <3> QED BY <3>5 DEF KeptInv, Intact
    <2> QED BY <2>3, <2>8, <2>9 DEF Sent
  <1>7. CASE LeavesBatches
    <2>1. UNCHANGED <<requests, staged, cursor>>
      BY <1>1, <1>2, <1>7 DEF LeavesBatches, DspMoves, SentInPlace, Sent
    <2>2. Counted' \subseteq Counted
      BY <1>7 DEF LeavesBatches, Counted, Range
    <2> QED BY <1>5, <2>1, <2>2
  <1>8. CASE OldestAwaited
    <2>1. UNCHANGED <<requests, staged, cursor>>
      BY <1>1, <1>2, <1>8 DEF OldestAwaited, DspMoves, SentInPlace, Sent
    <2>2. inflight # <<>> /\ inflight' = Tail(inflight) /\ wait'.seq = Head(inflight)
      BY <1>8 DEF OldestAwaited
    <2>3. Range(inflight) = Range(inflight') \cup {wait'.seq}
      BY <1>1, <2>2, AscendingTail DEF OrderInv
    <2>4. Counted' \subseteq Counted
      BY <2>3 DEF Counted
    <2> QED BY <1>5, <2>1, <2>4
  <1>9. CASE AnswerRead
    <2>1. UNCHANGED <<requests, staged, cursor>>
      BY <1>1, <1>2, <1>9 DEF AnswerRead, DspMoves, SentInPlace, Sent
    <2>2. Counted' \subseteq Counted
      BY <1>9 DEF AnswerRead, Counted, Range
    <2> QED BY <1>5, <2>1, <2>2
  <1>10. CASE BatchRun
    <2>1. UNCHANGED <<staged, cursor>>
      BY <1>1, <1>2, <1>10 DEF BatchRun, DspMoves, SentInPlace, Sent
    <2>2. Counted' = Counted
      BY <1>10 DEF BatchRun, Counted
    <2>3. /\ requests' \in Seq(Request) /\ Len(requests') = Len(requests) - 1
          /\ \A i \in 1 .. Len(requests') : requests'[i] = requests[i + 1]
      BY <1>1, <1>10, HeadTailProperties DEF BatchRun
    <2>4. \A i \in DOMAIN requests' : i + 1 \in DOMAIN requests /\ requests'[i] = requests[i + 1]
      <3>1. DOMAIN requests' = 1 .. Len(requests') /\ Len(requests') \in Nat
        BY <2>3, LenProperties
      <3> QED BY <1>3, <2>3, <3>1
    <2> QED BY <2>1, <2>2, <2>4 DEF KeptInv, Intact
  <1> QED BY <1>6, <1>7, <1>8, <1>9, <1>10, Batches
BatchInv == FlightPlaces /\ OrderInv /\ AwaitInv /\ KeptInv

LEMMA InitBatches == Init => BatchInv
  <1> SUFFICES ASSUME Init PROVE BatchInv
    OBVIOUS
  <1>1. /\ inflight = <<>> /\ requests = <<>> /\ answers = <<>> /\ pc = "rest" /\ ret = "rest"
    BY DEF Init, QueueInit
  <1>2. Owed = <<>>
    <2>1. answers \in Seq(Answer) /\ requests \in Seq(Request)
      BY InitType DEF IType, QueueType
    <2>2. Owed \in Seq(Nat) /\ Len(Owed) = Len(answers) + Len(requests)
      BY <2>1, OwedIs DEF Owed
    <2>3. Len(answers) = 0 /\ Len(requests) = 0
      BY <1>1
    <2> QED BY <2>2, <2>3, EmptySeq
  <1>3. Range(<<>>) = {} /\ Ascending(<<>>)
    BY DEF Range, Ascending
  <1> QED BY <1>1, <1>2, <1>3 DEF BatchInv, FlightPlaces, OrderInv, AwaitInv, KeptInv

LEMMA BatchStep == IInv /\ BatchInv /\ [Next]_vars => BatchInv'
  <1> SUFFICES ASSUME IInv, BatchInv, [Next]_vars PROVE BatchInv'
    OBVIOUS
  <1>1. IType /\ StageInv /\ NeedInv
    BY DEF IInv
  <1>2. CASE Next
    BY <1>1, <1>2, FlightPlacesStep, Batches, OrderStep, KeptStep DEF BatchInv
  <1>3. CASE UNCHANGED vars
    BY <1>3 DEF vars, queueVars, host, dsp, here, passVars, stateVars, paging, truth,
                BatchInv, FlightPlaces, Adrift, OrderInv, AwaitInv, KeptInv, Owed, Counted,
                Intact
  <1> QED BY <1>2, <1>3

LEMMA BatchesInductive == Spec => [](IInv /\ BatchInv)
  <1>1. Init => IInv /\ BatchInv
    BY InitInv, InitBatches
  <1>2. IInv /\ BatchInv /\ [Next]_vars => (IInv /\ BatchInv)'
    BY InvStep, BatchStep
  <1> QED BY <1>1, <1>2, PTL DEF Spec

(* HexagonQueueSession never attributes an answer to another batch: what   *)
(* await_response waits for is owed, and older answers come first.         *)
THEOREM HexagonAwaitedIsOwed == Spec => []AwaitedIsOwed
  <1>1. IInv /\ BatchInv => AwaitedIsOwed
    <2> SUFFICES ASSUME IInv, BatchInv, pc = "await"
                 PROVE  /\ wait.seq \in Range(Owed)
                        /\ \A i \in DOMAIN inflight :
                              inflight[i] \in Range(Owed) /\ inflight[i] > wait.seq
      BY DEF AwaitedIsOwed, Owed, OwedOf
    <2>1. ~Adrift
      BY DEF Adrift
    <2>2. \A i \in DOMAIN inflight : inflight[i] \in Range(inflight)
      BY DEF Range
    <2> QED BY <2>1, <2>2 DEF BatchInv, AwaitInv
  <1> QED BY <1>1, BatchesInductive, PTL

(* reserve_stage never gives a region away before its batch has answered,  *)
(* as long as the host counts on that batch.                               *)
THEOREM HexagonRegionsKept == Spec => []RegionsKept
  <1>1. IInv /\ BatchInv => RegionsKept
    BY DEF BatchInv, KeptInv, RegionsKept, Counted
  <1> QED BY <1>1, BatchesInductive, PTL

----------------------------------------------------------------------------
(* What a pass may rely on.  From the staging of its inputs to its end ... *)
Staged == pc \notin {"rest", "begin"} /\ ~(pc = "quiesce" /\ Adrift)

(* ... of which the last part is its cleanup.                              *)
Ending == pc \in {"closing", "closed"} \/ (pc \in {"drain", "await"} /\ after = "closed")

(* Where the parts of a pass return to, and how it ends.                   *)
PassPlaces ==
    /\ pc = "rest" => call = "none"
    /\ call = "reset" => pc = "quiesce"
    /\ call # "rows" => prefix = 0
    /\ model.kind = "audio" => call \in {"none", "prefill"}
    /\ IF Staged THEN ret = "closing" => layer = Layers + 1 ELSE ret = "rest" /\ ok
    /\ \/ pc \in {"flush", "stage"}
       \/ pc \in {"drain", "await"} /\ after # "closed"
       => ret # "rest"
    /\ after = "closed" => pc \in {"drain", "await", "closed"}
    /\ after = "closed" /\ pc = "await" => ~ok /\ wait.by = "drain"
    /\ Ending /\ ok => inflight = <<>> /\ pending = <<>> /\ layer = Layers + 1
    /\ failed => ~ok \/ pc = "drain" \/ (pc = "await" /\ wait.by = "drain")

LEMMA PassPlacesStep ==
    ASSUME IInv, FlightPlaces, PassPlaces, Next
    PROVE  PassPlaces'
  <1>1. /\ wait \in Waits /\ wait.by \in {"none", "flush", "full", "drain"}
        /\ pc \in Places /\ ret \in Returns /\ after \in {"flushed", "stage", "closed"}
        /\ sync \in BOOLEAN /\ failed \in BOOLEAN /\ ok \in BOOLEAN
        /\ call \in Calls
    BY DEF IInv, IType, QueueType, ModelType, Waits
  <1>2. layer \in 1 .. Layers + 1 /\ Layers \in Nat \ {0}
    BY ModelAssumption DEF IInv, IType, ModelType
  <1>3. model.kind = "audio" => model.paged = {}
    BY ModelAssumption DEF IInv, IType, ModelType
  <1>4. NeedInv /\ SentInv
    BY DEF IInv
  <1> DEFINE QueueOnly == UNCHANGED <<model, passVars, stateVars, paging, truth>>
  <1> USE DEF PassPlaces, FlightPlaces, Staged, Adrift, Ending, Places, Returns, Fails, Return,
              vars, queueVars, host, dsp, here, passVars, stateVars, paging, truth
  <1>5. ASSUME FlushNothing \/ FlushTooLarge \/ FlushWraps \/ DrainNext \/ DrainEnds,
               QueueOnly
        PROVE  PassPlaces'
    <2>1. CASE FlushNothing
      BY <1>1, <1>3, <1>4, <1>5, <2>1 DEF FlushNothing, BeginDrain, NeedInv
    <2>2. CASE FlushTooLarge \/ FlushWraps
      BY <1>1, <1>5, <2>2 DEF FlushTooLarge, FlushWraps, BeginDrain
    <2>3. CASE DrainNext
      BY <1>1, <1>5, <2>3 DEF DrainNext, Await
    <2>4. CASE DrainEnds
      <3>1. CASE failed
        BY <1>1, <1>5, <2>4, <3>1 DEF DrainEnds
      <3>2. CASE ~failed /\ after = "flushed"
        BY <1>1, <1>3, <1>4, <1>5, <2>4, <3>2 DEF DrainEnds, NeedInv, SentInv
      <3>3. CASE ~failed /\ after # "flushed"
        BY <1>1, <1>5, <2>4, <3>3 DEF DrainEnds
      <3> QED BY <3>1, <3>2, <3>3
    <2> QED BY <1>5, <2>1, <2>2, <2>3, <2>4
  <1>6. ASSUME FlushFits \/ SendAfterWrap, QueueOnly
        PROVE  PassPlaces'
    BY <1>1, <1>3, <1>4, <1>6 DEF FlushFits, SendAfterWrap, Send, Await, BeginDrain, NeedInv
  <1>7. ASSUME ReadCurrent, QueueOnly
        PROVE  PassPlaces'
    <2>1. CASE OkStatus
      <3>1. CASE wait.by = "drain" \/ (wait.by = "full" /\ sync)
        BY <1>1, <1>7, <2>1, <3>1 DEF ReadCurrent, ReadOne, OkStatus
      <3>2. CASE ~(wait.by = "drain" \/ (wait.by = "full" /\ sync))
        BY <1>1, <1>3, <1>4, <1>7, <2>1, <3>2 DEF ReadCurrent, ReadOne, OkStatus, NeedInv, SentInv
      <3> QED BY <3>1, <3>2
    <2>2. CASE ErrorStatus /\ UNCHANGED after
      BY <1>1, <1>7, <2>2 DEF ReadCurrent, ReadOne, ErrorStatus
    <2> QED BY <1>7, <2>1, <2>2 DEF ReadCurrent
  <1>8. ASSUME ReadStale, QueueOnly
        PROVE  PassPlaces'
    <2>1. wait'.by = wait.by
      BY <1>1, <1>8 DEF ReadStale, ReadOne, Waits
    <2> QED BY <1>1, <1>8, <2>1 DEF ReadStale
  <1>9. ASSUME QuiesceReads, QueueOnly
        PROVE  PassPlaces'
    BY <1>1, <1>9 DEF QuiesceReads, ReadOne
  <1>10. ASSUME ReadTooStale \/ ReadTruncated \/ ReadTimesOut, QueueOnly
         PROVE  PassPlaces'
    BY <1>1, <1>10 DEF ReadTooStale, ReadTruncated, ReadTimesOut, ReadOne, WaitFails
  <1>11. CASE \/ Settled \/ SettleTimesOut \/ FinishedPending \/ FinishTimesOut
              \/ ResetKv \/ ResetTimesOut
    BY <1>1, <1>11 DEF Settled, SettleTimesOut, FinishedPending, FinishTimesOut,
                       ResetKv, ResetTimesOut, Quiesced, QuiesceTimesOut
  <1>12. CASE StageInputs
    BY <1>1, <1>2, <1>12 DEF StageInputs
  <1>13. CASE EmitLayer
    BY <1>1, <1>2, <1>13 DEF EmitLayer, BeginFlush
  <1>14. CASE EmitFails \/ PageIn \/ FinishPending
    BY <1>1, <1>14 DEF EmitFails, PageIn, FinishPending, BeginFlush, NeedsExperts, Map
  <1>15. CASE Evict \/ Evicted \/ DspRuns
    BY <1>1, <1>15 DEF Evict, Evicted, DspRuns, Map
  <1>16. CASE StartPass \/ StartReset
    BY <1>1, <1>16 DEF StartPass, StartReset
  <1>17. CASE \/ Closing \/ PassSucceeds \/ PassFails \/ Refused \/ Unwinds
    BY <1>1, <1>17 DEF Closing, PassSucceeds, PassFails, Refused, Unwinds, BeginDrain, Encoding
  <1> QED BY <1>5, <1>6, <1>7, <1>8, <1>9, <1>10, <1>11, <1>12, <1>13, <1>14, <1>15, <1>16,
             <1>17 DEF Next, HostStep, QueueStep
(* A pass goes on with what it staged, ...                                 *)
GoesOn ==
    /\ Staged /\ (ok' => ok)
    /\ UNCHANGED <<clean, seq0, pass, prefix, call, torn, poisoned, dirty, prefixes, resident>>
    /\ DspRuns \/ UNCHANGED <<ran, inputs, holds>>

LEMMA PassGoesOn ==
    ASSUME IInv, FlightPlaces, PassPlaces, Next, Staged', ~StageInputs
    PROVE  GoesOn
  <1>1. /\ pc \in Places /\ ret \in Returns /\ after \in {"flushed", "stage", "closed"}
        /\ ok \in BOOLEAN /\ call \in Calls
    BY DEF IInv, IType, QueueType, ModelType
  <1> DEFINE QueueOnly == UNCHANGED <<model, passVars, stateVars, paging, truth>>
  <1> USE DEF GoesOn, PassPlaces, FlightPlaces, Staged, Adrift, Fails, Return, vars, queueVars, host, dsp,
              here, passVars, stateVars, paging, truth
  <1>2. ASSUME FlushNothing \/ FlushTooLarge \/ FlushWraps \/ DrainNext \/ DrainEnds,
               QueueOnly
        PROVE  GoesOn
    BY <1>1, <1>2 DEF FlushNothing, FlushTooLarge, FlushWraps, DrainNext, DrainEnds
  <1>3. ASSUME FlushFits \/ SendAfterWrap, QueueOnly
        PROVE  GoesOn
    BY <1>1, <1>3 DEF FlushFits, SendAfterWrap, Send
  <1>4. ASSUME ReadCurrent \/ ReadStale \/ QuiesceReads, QueueOnly
        PROVE  GoesOn
    BY <1>1, <1>4 DEF ReadCurrent, OkStatus, ErrorStatus, ReadStale, QuiesceReads
  <1>5. ASSUME ReadTooStale \/ ReadTruncated \/ ReadTimesOut, QueueOnly
        PROVE  GoesOn
    BY <1>1, <1>5 DEF ReadTooStale, ReadTruncated, ReadTimesOut, ReadOne, WaitFails
  <1>6. CASE \/ Settled \/ SettleTimesOut \/ FinishedPending \/ FinishTimesOut
             \/ ResetKv \/ ResetTimesOut
    BY <1>1, <1>6 DEF Settled, SettleTimesOut, FinishedPending, FinishTimesOut,
                      ResetKv, ResetTimesOut, Quiesced, QuiesceTimesOut
  <1>7. CASE EmitLayer \/ EmitFails \/ PageIn \/ FinishPending \/ Evict \/ Evicted
    <2>1. ASSUME EmitLayer \/ EmitFails \/ PageIn \/ FinishPending PROVE pc = "emit"
      BY <2>1 DEF EmitLayer, EmitFails, PageIn, FinishPending, NeedsExperts
    <2>2. CASE EmitLayer
      BY <2>1, <2>2 DEF EmitLayer
    <2>4. CASE EmitFails
      BY <2>1, <2>4 DEF EmitFails
    <2>5. CASE PageIn
      <3>1. UNCHANGED <<passVars, stateVars, truth>>
        BY <2>5 DEF PageIn
      <3>2. ok' => ok
        BY <2>5 DEF PageIn, Map
      <3> QED BY <2>1, <2>5, <3>1, <3>2
    <2>6. CASE FinishPending
      BY <2>1, <2>6 DEF FinishPending
    <2>3. CASE Evict \/ Evicted
      BY <1>1, <2>3 DEF Evict, Evicted, Map
    <2> QED BY <1>7, <2>2, <2>3, <2>4, <2>5, <2>6
  <1>8. CASE DspRuns
    BY <1>1, <1>8 DEF DspRuns
  <1>9. CASE \/ Closing \/ PassSucceeds \/ PassFails \/ StartPass \/ StartReset
              \/ Refused \/ Unwinds
    BY <1>1, <1>9 DEF Closing, PassSucceeds, PassFails, StartPass, StartReset,
                      Refused, Unwinds
  <1> QED BY <1>2, <1>3, <1>4, <1>5, <1>6, <1>7, <1>8, <1>9 DEF Next, HostStep, QueueStep

(* ... and what is between passes is begun, refused or ended.              *)
LEMMA PassStops ==
    ASSUME IInv, FlightPlaces, PassPlaces, Next, ~Staged'
    PROVE  \/ DspRuns /\ ~Staged
           \/ ~Staged /\ UNCHANGED <<model, passVars, stateVars, paging, truth, pc, seq>>
           \/ StartPass \/ StartReset \/ Refused \/ Settled \/ SettleTimesOut
           \/ PassSucceeds \/ PassFails \/ Unwinds \/ ResetKv \/ ResetTimesOut
  <1>1. /\ pc \in Places /\ ret \in Returns /\ after \in {"flushed", "stage", "closed"}
        /\ ok \in BOOLEAN /\ call \in Calls /\ wait \in Waits
        /\ wait.by \in {"none", "flush", "full", "drain"}
    BY DEF IInv, IType, QueueType, ModelType, Waits
  <1>2. model.kind = "audio" => model.paged = {}
    BY ModelAssumption DEF IInv, IType, ModelType
  <1>3. NeedInv
    BY DEF IInv
  <1> DEFINE QueueOnly == UNCHANGED <<model, passVars, stateVars, paging, truth>>
             Goal == ~Staged /\ UNCHANGED <<model, passVars, stateVars, paging, truth, pc, seq>>
  <1> USE DEF PassPlaces, FlightPlaces, Staged, Adrift, Returns, Fails, Return, vars, queueVars, host,
              dsp, here, passVars, stateVars, paging, truth
  <1>4. ASSUME FlushNothing \/ FlushTooLarge \/ FlushWraps \/ DrainNext \/ DrainEnds,
               QueueOnly
        PROVE  Goal
    BY <1>1, <1>2, <1>3, <1>4 DEF FlushNothing, FlushTooLarge, FlushWraps, DrainNext, DrainEnds,
       BeginDrain, Await, NeedInv
  <1>5. ASSUME FlushFits \/ SendAfterWrap, QueueOnly
        PROVE  Goal
    BY <1>1, <1>2, <1>3, <1>5 DEF FlushFits, SendAfterWrap, Send, BeginDrain, Await, NeedInv
  <1>6. ASSUME ReadCurrent, QueueOnly
        PROVE  Goal
    BY <1>1, <1>2, <1>3, <1>6 DEF ReadCurrent, OkStatus, ErrorStatus, NeedInv
  <1>7. ASSUME ReadStale \/ QuiesceReads, QueueOnly
        PROVE  Goal
    BY <1>1, <1>7 DEF ReadStale, QuiesceReads
  <1>8. ASSUME ReadTooStale \/ ReadTruncated \/ ReadTimesOut, QueueOnly
        PROVE  Goal
    BY <1>1, <1>8 DEF ReadTooStale, ReadTruncated, ReadTimesOut, ReadOne, WaitFails
  <1>9. ~(FinishedPending \/ FinishTimesOut)
    BY <1>1 DEF FinishedPending, FinishTimesOut, Quiesced, QuiesceTimesOut
  <1>10. ~(StageInputs \/ EmitLayer \/ EmitFails \/ PageIn \/ FinishPending \/ Evict \/ Evicted)
    BY <1>1 DEF StageInputs, EmitLayer, EmitFails, PageIn, FinishPending, NeedsExperts, Map,
                Evict, Evicted, BeginFlush
  <1>11. ~Closing
    BY <1>1 DEF Closing, BeginDrain
  <1>12. ASSUME DspRuns
         PROVE  ~Staged
    BY <1>12 DEF DspRuns
  <1> QED BY <1>4, <1>5, <1>6, <1>7, <1>8, <1>9, <1>10, <1>11, <1>12
          DEF Next, HostStep, QueueStep
----------------------------------------------------------------------------
LEMMA OwedEmpty ==
    ASSUME IType
    PROVE  /\ Owed = <<>> <=> requests = <<>> /\ answers = <<>>
           /\ Range(Owed) = {} <=> Owed = <<>>
           /\ OutstandingExact /\ outstanding = 0 => Owed = <<>>
           /\ Owed \in Seq(Nat)
  <1>1. /\ requests \in Seq(Request) /\ answers \in Seq(Answer)
    BY DEF IType, QueueType
  <1>2. /\ Owed \in Seq(Nat) /\ Len(Owed) = Len(answers) + Len(requests)
        /\ Len(answers) \in Nat /\ Len(requests) \in Nat
    BY <1>1, OwedIs DEF Owed
  <1>3. /\ requests = <<>> <=> Len(requests) = 0
        /\ answers = <<>> <=> Len(answers) = 0
        /\ Owed = <<>> <=> Len(Owed) = 0
    BY <1>1, <1>2, EmptySeq
  <1>4. ASSUME Owed # <<>> PROVE Range(Owed) # {}
    <2>1. Len(Owed) \in Nat /\ Len(Owed) # 0 /\ DOMAIN Owed = 1 .. Len(Owed)
      BY <1>2, <1>3, <1>4, LenProperties
    <2>2. Owed[1] \in Range(Owed)
      BY <2>1 DEF Range
    <2> QED BY <2>2
  <1>5. Range(<<>>) = {}
    BY DEF Range
  <1>6. Owed = <<>> <=> requests = <<>> /\ answers = <<>>
    BY <1>2, <1>3
  <1>7. ASSUME OutstandingExact, outstanding = 0 PROVE Owed = <<>>
    BY <1>2, <1>3, <1>7 DEF OutstandingExact
  <1> QED BY <1>2, <1>4, <1>5, <1>6, <1>7

(* What is owed after a step.                                              *)
OwedMoves ==
    \/ Owed' = Owed /\ (LeavesBatches \/ SendLost \/ OldestAwaited)
    \/ SendMade /\ Range(Owed') = Range(Owed) \cup {seq}
    \/ /\ AnswerRead /\ Owed # <<>>
       /\ Range(Owed) = Range(Owed') \cup {Head(answers).seq}
       /\ \A n \in Range(Owed') : n > Head(answers).seq
    \/ BatchRun /\ Owed' = Owed /\ Owed # <<>>

LEMMA OwedStep ==
    ASSUME IInv, BatchInv, Next
    PROVE  OwedMoves
  <1>1. /\ requests \in Seq(Request) /\ answers \in Seq(Answer) /\ seq \in Nat
        /\ pending \in Seq(Op) /\ Owed \in Seq(Nat) /\ Ascending(Owed)
        /\ \A n \in Range(Owed) : n < seq
    BY OwedEmpty, QueueAssumption DEF IInv, IType, QueueType, BatchInv, OrderInv
  <1>2. LeavesBatches \/ SendLost \/ SendMade \/ OldestAwaited \/ AnswerRead \/ BatchRun
    BY Batches DEF IInv, BatchInv
  <1>3. CASE LeavesBatches \/ SendLost \/ OldestAwaited
    BY <1>3 DEF LeavesBatches, SendLost, OldestAwaited, Owed, OwedMoves
  <1>4. CASE SendMade
    <2>1. PICK at \in 0 .. Staging :
             requests' = Append(requests, [seq |-> seq, at |-> at, ops |-> pending])
      BY <1>4 DEF SendMade
    <2> DEFINE b == [seq |-> seq, at |-> at, ops |-> pending]
    <2>2. b \in Request /\ b.seq = seq
      BY <1>1, QueueAssumption DEF Request
    <2> HIDE DEF b
    <2>3. Owed' = OwedOf(answers, Append(requests, b))
      BY <1>4, <2>1 DEF SendMade, Owed, b
    <2>4. Owed' = Append(Owed, seq)
      BY <1>1, <2>2, <2>3, OwedSent DEF Owed
    <2>5. Range(Owed') = Range(Owed) \cup {seq}
      BY <1>1, <2>4, AscendingAppend
    <2> QED BY <1>4, <2>5 DEF OwedMoves
  <1>5. CASE AnswerRead
    <2>1. answers # <<>> /\ Owed' = OwedOf(Tail(answers), requests)
      BY <1>5 DEF AnswerRead, Owed
    <2>2. Owed # <<>> /\ Head(Owed) = Head(answers).seq /\ Owed' = Tail(Owed)
      BY <1>1, <2>1, OwedRead DEF Owed
    <2>3. /\ Range(Owed) = Range(Owed') \cup {Head(answers).seq}
          /\ \A n \in Range(Owed') : n > Head(answers).seq
      BY <1>1, <2>2, AscendingTail
    <2> QED BY <1>5, <2>2, <2>3 DEF OwedMoves
  <1>6. CASE BatchRun
    <2>1. PICK good \in BOOLEAN :
             answers' = Append(answers, [seq |-> Head(requests).seq, good |-> good])
      BY <1>6 DEF BatchRun
    <2>2. requests # <<>> /\ requests' = Tail(requests)
      BY <1>6 DEF BatchRun
    <2>3. Owed' = Owed
      BY <1>1, <2>1, <2>2, OwedRun DEF Owed
    <2>4. Owed # <<>>
      BY <2>2, OwedEmpty DEF IInv
    <2> QED BY <1>6, <2>3, <2>4 DEF OwedMoves
  <1> QED BY <1>2, <1>3, <1>4, <1>5, <1>6

(* While a clean pass goes well, nothing is owed but what it counts on.    *)
AllCounted == Staged /\ clean /\ ok => Range(Owed) \subseteq Counted

LEMMA AllCountedStep ==
    ASSUME IInv, BatchInv, PassPlaces, AllCounted, Next
    PROVE  AllCounted'
  <1> SUFFICES ASSUME Staged', clean', ok' PROVE Range(Owed') \subseteq Counted'
    BY DEF AllCounted
  <1>1. OwedMoves
    BY OwedStep
  <1>2. /\ IType /\ FlightPlaces /\ OutstandingExact
    BY DEF IInv, BatchInv
  <1>3. inflight \in Seq(Nat) /\ seq \in Nat /\ Ascending(inflight)
        /\ \A n \in Range(inflight) : n < seq
    BY <1>2 DEF IType, QueueType, BatchInv, OrderInv
  <1>4. CASE StageInputs
    <2>1. requests = <<>> /\ answers = <<>> /\ UNCHANGED <<requests, answers>>
      BY <1>4 DEF StageInputs, dsp
    <2>2. Owed' = <<>>
      BY <1>2, <2>1, OwedEmpty DEF Owed
    <2> QED BY <2>2 DEF Range
  <1>5. CASE ~StageInputs
    <2>1. Staged /\ clean /\ ok
      BY <1>2, <1>5, PassGoesOn DEF GoesOn
    <2>2. Range(Owed) \subseteq Counted
      BY <2>1 DEF AllCounted
    <2>3. CASE LeavesBatches /\ Owed' = Owed
      <3>1. CASE inflight' = <<>> /\ outstanding = 0
        BY <1>2, <2>3, <3>1, OwedEmpty
      <3>2. CASE inflight' = inflight /\ pc # "await"
        BY <2>2, <2>3, <3>2 DEF Counted
      <3> QED BY <2>3, <3>1, <3>2 DEF LeavesBatches
    <2>4. ~SendLost
      BY DEF SendLost
    <2>5. CASE OldestAwaited /\ Owed' = Owed
      <3>1. /\ inflight # <<>> /\ inflight' = Tail(inflight) /\ pc = "drain" /\ pc' = "await"
            /\ wait'.seq = Head(inflight)
        BY <2>5 DEF OldestAwaited
      <3>2. Range(inflight) = Range(inflight') \cup {wait'.seq}
        BY <1>3, <3>1, AscendingTail
      <3> QED BY <2>2, <2>5, <3>1, <3>2 DEF Counted
    <2>6. CASE SendMade /\ Range(Owed') = Range(Owed) \cup {seq}
      <3> DEFINE h == Append(inflight, seq)
      <3>1. h \in Seq(Nat) /\ h # <<>> /\ Range(h) = Range(inflight) \cup {seq} /\ Ascending(h)
        BY <1>3, AscendingAppend
      <3> HIDE DEF h
      <3>2. Range(h) = Range(Tail(h)) \cup {Head(h)}
        BY <3>1, AscendingTail
      <3>3. /\ pc # "await"
            /\ \/ inflight = <<>> /\ inflight' = <<>> /\ pc' = "await" /\ wait'.seq = seq
               \/ inflight' = h /\ pc' # "await"
               \/ inflight' = Tail(h) /\ pc' = "await" /\ wait'.seq = Head(h)
        <4>1. SentInPlace
          <5>1. DspMoves
            BY Moves DEF IInv
          <5>2. seq' # seq
            BY <1>3, <2>6 DEF SendMade
          <5> QED BY <5>1, <5>2 DEF DspMoves
        <4> QED BY <2>6, <4>1 DEF SendMade, SentInPlace, h
      <3> QED BY <2>2, <2>6, <3>1, <3>2, <3>3 DEF Counted
    <2>7. CASE /\ AnswerRead /\ Owed # <<>>
               /\ Range(Owed) = Range(Owed') \cup {Head(answers).seq}
               /\ \A n \in Range(Owed') : n > Head(answers).seq
      <3>1. CASE pc = "quiesce" \/ Adrift
        <4>1. inflight = <<>> /\ pc # "await"
          BY <2>1, <3>1 DEF Staged, Adrift, FlightPlaces, BatchInv
        <4>2. Counted = {}
          BY <4>1 DEF Counted, Range
        <4> QED BY <2>2, <2>7, <4>2
      <3>2. CASE pc = "await" /\ inflight' = inflight /\ Head(answers).seq = wait.seq /\ pc' # "await"
        <4>1. \A n \in Range(Owed') : n # wait.seq
          <5>1. \A n \in Range(Owed) : n \in Nat
            BY <1>2, OwedEmpty, RangeNat
          <5> QED BY <2>7, <3>2, <5>1
        <4> QED BY <2>2, <2>7, <3>2, <4>1 DEF Counted
      <3>3. CASE /\ pc = "await" /\ pc' = "await" /\ inflight' = inflight /\ wait'.seq = wait.seq
        BY <2>2, <2>7, <3>3 DEF Counted
      <3> QED BY <2>7, <3>1, <3>2, <3>3 DEF AnswerRead
    <2>8. CASE BatchRun /\ Owed' = Owed
      BY <2>2, <2>8 DEF BatchRun, Counted
    <2> QED BY <1>1, <2>3, <2>4, <2>5, <2>6, <2>7, <2>8 DEF OwedMoves
  <1> QED BY <1>4, <1>5
(* What the pass's own dispatches are, and when none of an earlier one is  *)
(* still to run.                                                           *)
StartedInv ==
    /\ Staged => seq0 \in Nat /\ seq0 <= seq
    /\ Staged /\ clean /\ (ran # <<>> \/ Owed # <<>>) => seq # seq0
    /\ Staged /\ model.kind # "attention" => clean
    /\ Recurrent /\ (pc = "begin" \/ (pc = "rest" /\ ~torn /\ ~poisoned)) => Owed = <<>>
    /\ model.kind = "audio" /\ pc = "begin" => Owed = <<>>

(* Disturbed recurrent state is marked, and no pass starts over it.        *)
TornInv ==
    /\ dirty => Recurrent /\ (torn \/ poisoned)
    /\ torn => pc = "rest" \/ call = "reset"
    /\ poisoned => pc = "rest"

(* A resident prefix is the last thing the queue worked on.                *)
ResidentInv ==
    /\ resident \in [prefix : Nat, seq : Nat]
    /\ resident.seq <= seq
    /\ model.kind = "audio" => resident = None
    /\ Recurrent /\ resident.prefix # 0 /\ resident.seq = seq
         => Owed = <<>> /\ holds = resident.prefix

LEMMA QueueQuiet ==
    ASSUME IInv, PassPlaces, AllCounted, StartedInv, pc = "closed", ok,
           clean \/ model.kind # "attention"
    PROVE  Owed = <<>> /\ Staged /\ clean /\ layer = Layers + 1 /\ pending = <<>>
  <1>1. Staged
    BY DEF Staged, Adrift
  <1>2. clean
    BY <1>1 DEF StartedInv
  <1>3. inflight = <<>> /\ layer = Layers + 1 /\ pending = <<>>
    BY DEF PassPlaces, Ending
  <1>4. Counted = {}
    BY <1>3 DEF Counted, Range
  <1>5. Range(Owed) = {}
    BY <1>1, <1>2, <1>4 DEF AllCounted
  <1> QED BY <1>1, <1>2, <1>3, <1>5, OwedEmpty DEF IInv

(* A batch number is used up with every send, whether or not it is made.   *)
LEMMA OwedSeq ==
    ASSUME IInv, BatchInv, Next
    PROVE  /\ seq' \in Nat /\ seq <= seq' /\ (seq' = seq \/ seq' = seq + 1)
           /\ Owed' # <<>> => Owed # <<>> \/ seq' = seq + 1
           /\ Owed = <<>> /\ seq' = seq => Owed' = <<>>
  <1>1. OwedMoves
    BY OwedStep
  <1>2. seq \in Nat
    BY DEF IInv, IType, QueueType
  <1>3. seq' \in {seq, seq + 1}
    BY <1>1 DEF OwedMoves, LeavesBatches, SendLost, OldestAwaited, SendMade, AnswerRead, BatchRun
  <1>4. seq' = seq => Owed' = Owed \/ Owed # <<>>
    BY <1>1, <1>2 DEF OwedMoves, SendMade
  <1> QED BY <1>1, <1>2, <1>3, <1>4 DEF OwedMoves, SendMade, SendLost

LEMMA StartedStep ==
    ASSUME IInv, BatchInv, PassPlaces, AllCounted, StartedInv, TornInv, ResidentInv, Next
    PROVE  StartedInv'
  <1>1. OwedMoves
    BY OwedStep
  <1>2. /\ IType /\ FlightPlaces /\ OutstandingExact /\ seq \in Nat
        /\ model.kind \in {"recurrent", "attention", "audio"}
    BY ModelAssumption DEF IInv, BatchInv, IType, QueueType, ModelType
  <1>3. /\ seq' \in Nat /\ seq <= seq' /\ (seq' = seq \/ seq' = seq + 1)
        /\ Owed' # <<>> => Owed # <<>> \/ seq' = seq + 1
        /\ Owed = <<>> /\ seq' = seq => Owed' = <<>>
    BY OwedSeq
  <1>4. model' = model
    BY Moves DEF IInv
  <1>5. ASSUME outstanding = 0, UNCHANGED <<requests, answers>> PROVE Owed' = <<>>
    BY <1>2, <1>5, OwedEmpty DEF Owed
  <1>6. CASE StageInputs
    <2>1. /\ pc = "begin" /\ pc' = "emit" /\ seq' = seq /\ seq0' = seq /\ ran' = <<>>
          /\ clean' = (requests = <<>> /\ answers = <<>> /\ (IsResident => holds = prefix))
          /\ UNCHANGED <<requests, answers>>
      BY <1>6 DEF StageInputs, dsp
    <2>2. requests = <<>> /\ answers = <<>> => Owed = <<>> /\ Owed' = <<>>
      BY <1>2, <2>1, OwedEmpty DEF Owed
    <2>3. ASSUME model.kind # "attention" PROVE clean'
      <3>1. Owed = <<>>
        BY <1>2, <2>1, <2>3 DEF StartedInv, Recurrent
      <3>2. requests = <<>> /\ answers = <<>>
        BY <1>2, <3>1, OwedEmpty
      <3>3. IsResident => holds = prefix
        <4> SUFFICES ASSUME IsResident PROVE holds = prefix
          OBVIOUS
        <4>1. resident.prefix = prefix /\ resident.seq = seq /\ prefix # 0
          BY DEF IsResident
        <4>2. model.kind # "audio"
          BY <4>1 DEF ResidentInv, None
        <4> QED BY <1>2, <2>3, <4>1, <4>2 DEF ResidentInv, Recurrent
      <3> QED BY <2>1, <3>2, <3>3
    <2>4. clean' => Owed' = <<>>
      BY <2>1, <2>2
    <2>5. pc' = "emit" /\ seq0' = seq /\ seq' = seq /\ ran' = <<>>
      BY <2>1
    <2> QED BY <1>2, <1>4, <2>3, <2>4, <2>5 DEF StartedInv, Recurrent
  <1>7. CASE Staged' /\ ~StageInputs
    <2>1. GoesOn
      BY <1>2, <1>7, PassGoesOn
    <2>2. pc' # "rest" /\ pc' # "begin"
      BY <1>7 DEF Staged
    <2>3. seq0' = seq0 /\ clean' = clean /\ Staged
      BY <2>1 DEF GoesOn
    <2>4. ASSUME clean', ran' # <<>> \/ Owed' # <<>> PROVE seq' # seq0'
      <3>1. CASE seq' = seq + 1
        BY <1>2, <2>3, <3>1 DEF StartedInv
      <3>2. CASE seq' = seq
        <4>1. ran # <<>> \/ Owed # <<>>
          <5>1. CASE DspRuns
            <6>1. requests # <<>>
              BY <5>1 DEF DspRuns
            <6> QED BY <1>2, <6>1, OwedEmpty
          <5>2. CASE ran' = ran
            BY <1>3, <2>4, <3>2, <5>2
          <5> QED BY <2>1, <5>1, <5>2 DEF GoesOn
        <4> QED BY <2>3, <2>4, <3>2, <4>1 DEF StartedInv
      <3> QED BY <1>3, <3>1, <3>2
    <2> QED BY <1>2, <1>3, <1>4, <2>2, <2>3, <2>4 DEF StartedInv
  <1>8. ASSUME ~Staged',
               Recurrent /\ (pc' = "begin" \/ (pc' = "rest" /\ ~torn' /\ ~poisoned')) => Owed' = <<>>,
               model.kind = "audio" /\ pc' = "begin" => Owed' = <<>>
        PROVE  StartedInv'
    BY <1>4, <1>8 DEF StartedInv, Recurrent
  <1>9. CASE ~Staged'
    <2>1. CASE DspRuns
      <3>1. UNCHANGED <<pc, torn, poisoned>> /\ Owed' = Owed
        <4>1. UNCHANGED <<pc, torn, poisoned, seq>>
          BY <2>1 DEF DspRuns, here, host, stateVars
        <4>2. Owed' = Owed
          BY <1>1, <1>2, <2>1, <4>1
             DEF DspRuns, OwedMoves, SendMade, AnswerRead, BatchRun, host
        <4> QED BY <4>1, <4>2
      <3> QED BY <1>8, <1>9, <3>1 DEF StartedInv
    <2>2. CASE ~Staged /\ UNCHANGED <<model, passVars, stateVars, paging, truth, pc, seq>>
      BY <1>3, <1>8, <1>9, <2>2 DEF StartedInv, stateVars
    <2>3. CASE StartPass
      <3>1. /\ pc = "rest" /\ ~TornNow /\ UNCHANGED <<requests, answers>>
            /\ pc' = IF model.kind = "audio" THEN "quiesce" ELSE "begin"
        BY <2>3 DEF StartPass, dsp
      <3>2. Recurrent => Owed' = <<>>
        BY <3>1 DEF StartedInv, TornNow, Recurrent, Owed
      <3> QED BY <1>8, <1>9, <3>1, <3>2
    <2>4. CASE StartReset
      BY <1>8, <1>9, <2>4 DEF StartReset
    <2>5. CASE Refused
      <3>1. pc' = "rest" /\ (Recurrent => torn')
        BY <2>5 DEF Refused, queueVars, here
      <3> QED BY <1>8, <1>9, <3>1
    <2>6. CASE Settled
      BY <1>5, <1>8, <1>9, <2>6 DEF Settled, Quiesced, dsp
    <2>7. CASE SettleTimesOut
      BY <1>8, <1>9, <2>7 DEF SettleTimesOut, Return, Recurrent
    <2>8. CASE PassSucceeds
      <3>1. pc = "closed" /\ ok /\ pc' = "rest" /\ UNCHANGED <<requests, answers>>
        BY <2>8 DEF PassSucceeds, Return, dsp
      <3>2. Recurrent => Owed = <<>>
        BY <3>1, QueueQuiet DEF Recurrent
      <3> QED BY <1>8, <1>9, <3>1, <3>2 DEF Owed
    <2>9. CASE PassFails
      <3>1. /\ pc = "closed" /\ pc' = "rest" /\ UNCHANGED <<requests, answers>>
            /\ torn' = (torn \/ (Recurrent /\ Tears))
        BY <2>9 DEF PassFails, Return, dsp
      <3>2. Recurrent /\ ~torn' => Owed = <<>>
        BY <3>1 DEF StartedInv, Staged, Adrift, Tears, Recurrent
      <3> QED BY <1>8, <1>9, <3>1, <3>2 DEF Owed
    <2>10. CASE Unwinds
      BY <1>8, <1>9, <2>10 DEF Unwinds, Return
    <2>11. CASE ResetKv
      BY <1>5, <1>8, <1>9, <2>11 DEF ResetKv, Quiesced, Return, dsp
    <2>12. CASE ResetTimesOut
      BY <1>8, <1>9, <2>12 DEF ResetTimesOut, Return
    <2> QED BY <1>2, <1>9, <2>1, <2>2, <2>3, <2>4, <2>5, <2>6, <2>7, <2>8, <2>9, <2>10, <2>11,
               <2>12, PassStops
  <1> QED BY <1>6, <1>7, <1>9

LEMMA TornStep ==
    ASSUME IInv, BatchInv, PassPlaces, StartedInv, TornInv, Next
    PROVE  TornInv'
  <1>1. IType /\ FlightPlaces
    BY DEF IInv, BatchInv
  <1>2. model' = model
    BY Moves DEF IInv
  <1>3. torn \in BOOLEAN /\ poisoned \in BOOLEAN /\ dirty \in BOOLEAN
    BY <1>1 DEF IType, ModelType
  <1>4. CASE StageInputs
    BY <1>2, <1>4 DEF StageInputs, TornInv, Recurrent
  <1>5. CASE Staged' /\ ~StageInputs
    <2>1. GoesOn
      BY <1>1, <1>5, PassGoesOn
    <2>2. ~torn /\ ~poisoned
      BY <1>5, <2>1 DEF GoesOn, TornInv, PassPlaces, Staged, Adrift
    <2> QED BY <1>2, <2>1, <2>2 DEF GoesOn, TornInv, Recurrent
  <1>6. CASE ~Staged'
    <2>1. CASE DspRuns
      BY <1>2, <2>1 DEF DspRuns, TornInv, Recurrent, here, stateVars, passVars
    <2>2. CASE ~Staged /\ UNCHANGED <<model, passVars, stateVars, paging, truth, pc, seq>>
      BY <2>2 DEF TornInv, Recurrent, stateVars, passVars, truth
    <2>3. CASE StartPass
      <3>1. /\ ~torn /\ ~poisoned' /\ torn' = torn /\ dirty' = dirty
            /\ poisoned => ~Recurrent
        BY <2>3 DEF StartPass, TornNow, Recurrent, truth
      <3> QED BY <1>2, <3>1 DEF TornInv, Recurrent
    <2>4. CASE StartReset
      <3>1. /\ torn' = TornNow /\ ~poisoned' /\ dirty' = dirty /\ call' = "reset"
        BY <2>4 DEF StartReset, truth
      <3> QED BY <1>2, <3>1 DEF TornInv, Recurrent, TornNow
    <2>5. CASE Refused
      <3>1. /\ torn' = (torn \/ Recurrent) /\ dirty' = dirty /\ pc' = "rest"
        BY <2>5 DEF Refused, truth, queueVars, here
      <3> QED BY <1>2, <3>1 DEF TornInv, Recurrent
    <2>6. CASE Settled
      <3>1. ~torn /\ ~poisoned
        BY <2>6 DEF Settled, Quiesced, TornInv, PassPlaces
      <3> QED BY <1>2, <2>6, <3>1 DEF Settled, TornInv, Recurrent, stateVars, truth
    <2>7. CASE SettleTimesOut
      BY <1>2, <2>7 DEF SettleTimesOut, Return, TornInv, Recurrent, stateVars
    <2>8. CASE PassSucceeds
      BY <1>2, <2>8 DEF PassSucceeds, Return, TornInv, Recurrent
    <2>9. CASE PassFails
      <3>1. /\ pc = "closed" /\ pc' = "rest" /\ poisoned' = poisoned
            /\ torn' = (torn \/ (Recurrent /\ Tears)) /\ dirty' = (dirty \/ Disturbed)
        BY <2>9 DEF PassFails, Return
      <3>2. Disturbed => Recurrent /\ Tears
        <4> SUFFICES ASSUME Disturbed PROVE Recurrent /\ Tears
          OBVIOUS
        <4>1. Staged /\ Recurrent /\ clean
          BY <3>1 DEF Disturbed, Staged, Adrift, StartedInv, Recurrent
        <4>2. ran # <<>> \/ requests # <<>>
          BY DEF Disturbed, MayHaveRun
        <4>3. ran # <<>> \/ Owed # <<>>
          BY <1>1, <4>2, OwedEmpty
        <4> QED BY <4>1, <4>3 DEF StartedInv, Tears
      <3> QED BY <1>2, <3>1, <3>2 DEF TornInv, Recurrent
    <2>10. CASE Unwinds
      <3>1. pc' = "rest" /\ poisoned' /\ dirty' = (dirty \/ (pc = "emit" /\ Disturbed))
        BY <2>10 DEF Unwinds, Return
      <3> QED BY <1>2, <3>1 DEF TornInv, Recurrent, Disturbed
    <2>11. CASE ResetKv
      BY <2>11 DEF ResetKv, Return, TornInv, Quiesced
    <2>12. CASE ResetTimesOut
      BY <1>2, <2>12 DEF ResetTimesOut, Return, TornInv, Recurrent
    <2> QED BY <1>1, <1>6, <2>1, <2>2, <2>3, <2>4, <2>5, <2>6, <2>7, <2>8, <2>9, <2>10, <2>11,
               <2>12, PassStops
  <1> QED BY <1>4, <1>5, <1>6
----------------------------------------------------------------------------
(* How many layers have run, or were asked for, up to the i-th request.    *)
UpTo(done, asked, i) ==
    IF i = 0 THEN Len(done) ELSE asked[i].ops[1][3] + Len(asked[i].ops) - 1

(* Layers follow each other from what has run, through what is asked for,  *)
(* to what is next.                                                        *)
InOrder(p, q, done, asked, next) ==
    /\ done \in Seq(Op)
    /\ \A j \in DOMAIN done : done[j] = <<p, q, j>>
    /\ \A i \in DOMAIN asked :
          /\ asked[i].ops # <<>>
          /\ \A j \in DOMAIN asked[i].ops :
                asked[i].ops[j] = <<p, q, UpTo(done, asked, i - 1) + j>>
    /\ \A j \in DOMAIN next : next[j] = <<p, q, UpTo(done, asked, Len(asked)) + j>>

(* They are the layers up to the l-th.                                     *)
Chain(p, q, done, asked, next, l) ==
    /\ InOrder(p, q, done, asked, next)
    /\ UpTo(done, asked, Len(asked)) + Len(next) = l - 1

(* Every request asks for something, ...                                   *)
LEMMA InOrderAsks ==
    ASSUME NEW p \in Nat, NEW q \in Nat, NEW done, NEW asked \in Seq(Request),
           NEW next \in Seq(Op), InOrder(p, q, done, asked, next), NEW i \in 1 .. Len(asked)
    PROVE  /\ asked[i].ops \in Seq(Op) /\ Len(asked[i].ops) \in Nat \ {0}
           /\ 1 \in DOMAIN asked[i].ops /\ DOMAIN asked[i].ops = 1 .. Len(asked[i].ops)
           /\ asked[i].ops[1][3] \in Nat
  <1>1. DOMAIN asked = 1 .. Len(asked)
    BY LenProperties
  <1>2. asked[i] \in Request
    BY <1>1, ElementOfSeq
  <1> DEFINE s == asked[i].ops
  <1>3. s \in Seq(Op) /\ s # <<>>
    BY <1>1, <1>2 DEF Request, InOrder
  <1> HIDE DEF s
  <1>4. Len(s) \in Nat \ {0} /\ DOMAIN s = 1 .. Len(s)
    BY <1>3, EmptySeq, LenProperties
  <1>5. 1 \in DOMAIN s /\ s[1] \in Op
    BY <1>3, <1>4, ElementOfSeq
  <1>6. s[1][3] \in Nat
    BY <1>5, ModelAssumption DEF Op
  <1> QED BY <1>2, <1>3, <1>4, <1>5, <1>6 DEF s

(* ... and every count is a number.                                        *)
LEMMA InOrderCounts ==
    ASSUME NEW p \in Nat, NEW q \in Nat, NEW done, NEW asked \in Seq(Request),
           NEW next \in Seq(Op), InOrder(p, q, done, asked, next)
    PROVE  /\ Len(done) \in Nat /\ DOMAIN done = 1 .. Len(done)
           /\ Len(asked) \in Nat /\ DOMAIN asked = 1 .. Len(asked)
           /\ Len(next) \in Nat /\ DOMAIN next = 1 .. Len(next)
           /\ \A i \in 0 .. Len(asked) : UpTo(done, asked, i) \in Nat
           /\ UpTo(done, asked, Len(asked)) \in Nat
  <1>1. /\ Len(done) \in Nat /\ DOMAIN done = 1 .. Len(done)
        /\ Len(asked) \in Nat /\ DOMAIN asked = 1 .. Len(asked)
        /\ Len(next) \in Nat /\ DOMAIN next = 1 .. Len(next)
    BY LenProperties DEF InOrder
  <1>2. ASSUME NEW i \in 0 .. Len(asked) PROVE UpTo(done, asked, i) \in Nat
    <2>1. CASE i = 0
      BY <1>1, <2>1 DEF UpTo
    <2>2. CASE i # 0
      <3>1. i \in 1 .. Len(asked)
        BY <1>1, <2>2
      <3> DEFINE a == asked[i].ops[1][3]
                 b == Len(asked[i].ops)
      <3>2. a \in Nat /\ b \in Nat \ {0}
        BY <3>1, InOrderAsks
      <3>3. UpTo(done, asked, i) = a + b - 1
        BY <2>2 DEF UpTo
      <3> HIDE DEF a, b
      <3> QED BY <3>2, <3>3
    <2> QED BY <2>1, <2>2
  <1>3. Len(asked) \in 0 .. Len(asked)
    BY <1>1
  <1> QED BY <1>1, <1>2, <1>3

(* The next layer joins what is next.                                      *)
LEMMA InOrderEmits ==
    ASSUME NEW p \in Nat, NEW q \in Nat, NEW done, NEW asked \in Seq(Request),
           NEW next \in Seq(Op), InOrder(p, q, done, asked, next),
           NEW l \in 1 .. Layers, UpTo(done, asked, Len(asked)) + Len(next) = l - 1
    PROVE  /\ InOrder(p, q, done, asked, Append(next, <<p, q, l>>))
           /\ Len(Append(next, <<p, q, l>>)) = Len(next) + 1
  <1> DEFINE x == <<p, q, l>>
             u == UpTo(done, asked, Len(asked))
             t == Append(next, x)
  <1>1. x \in Op /\ l \in Nat
    BY ModelAssumption DEF Op
  <1>2. u \in Nat /\ Len(next) \in Nat /\ DOMAIN next = 1 .. Len(next) /\ u + Len(next) = l - 1
    BY InOrderCounts
  <1>3. \A j \in DOMAIN next : next[j] = <<p, q, u + j>>
    BY DEF InOrder
  <1>4. x = <<p, q, l>>
    OBVIOUS
  <1> HIDE DEF x, u
  <1>5. /\ t \in Seq(Op) /\ Len(t) = Len(next) + 1
        /\ \A j \in 1 .. Len(next) : t[j] = next[j]
        /\ t[Len(next) + 1] = x
    BY <1>1, AppendProperties
  <1>6. DOMAIN t = 1 .. Len(next) + 1
    BY <1>5, LenProperties
  <1> HIDE DEF t
  <1>7. ASSUME NEW j \in DOMAIN t PROVE t[j] = <<p, q, u + j>>
    <2>1. j \in 1 .. Len(next) \/ (j = Len(next) + 1 /\ u + j = l)
      BY <1>1, <1>2, <1>6
    <2> QED BY <1>2, <1>3, <1>4, <1>5, <2>1
  <1> QED BY <1>5, <1>7 DEF InOrder, t, u, x

(* What is next becomes a request.                                         *)
LEMMA InOrderSends ==
    ASSUME NEW p \in Nat, NEW q \in Nat, NEW done, NEW asked \in Seq(Request),
           NEW b \in Request, Len(b.ops) # 0, NEW l, Chain(p, q, done, asked, b.ops, l),
           NEW none \in Seq(Op), Len(none) = 0
    PROVE  Chain(p, q, done, Append(asked, b), none, l)
  <1> DEFINE more == Append(asked, b)
             n == Len(asked)
             next == b.ops
  <1>0. next \in Seq(Op) /\ next # <<>> /\ InOrder(p, q, done, asked, next) /\ b.ops = next
    <2>1. next \in Seq(Op)
      BY DEF Request
    <2> QED BY <2>1, EmptySeq DEF Chain
  <1> HIDE DEF next
  <1>1. /\ more \in Seq(Request) /\ Len(more) = n + 1
        /\ \A i \in 1 .. n : more[i] = asked[i]
        /\ more[n + 1] = b
    BY AppendProperties
  <1>2. /\ n \in Nat /\ DOMAIN asked = 1 .. n /\ DOMAIN more = 1 .. n + 1
        /\ Len(next) \in Nat /\ DOMAIN next = 1 .. Len(next)
        /\ UpTo(done, asked, n) \in Nat
        /\ Len(none) = 0 /\ DOMAIN none = {}
    BY <1>0, <1>1, InOrderCounts, LenProperties
  <1>3. \A i \in DOMAIN asked :
           /\ asked[i].ops # <<>>
           /\ \A j \in DOMAIN asked[i].ops :
                 asked[i].ops[j] = <<p, q, UpTo(done, asked, i - 1) + j>>
    BY <1>0 DEF InOrder
  <1>4. \A j \in DOMAIN next : next[j] = <<p, q, UpTo(done, asked, n) + j>>
    BY <1>0 DEF InOrder
  <1> HIDE DEF more, n
  <1>5. ASSUME NEW i \in 0 .. n PROVE UpTo(done, more, i) = UpTo(done, asked, i)
    <2>1. i = 0 \/ more[i] = asked[i]
      BY <1>1, <1>2
    <2> QED BY <2>1 DEF UpTo
  <1>6. ASSUME NEW i \in DOMAIN more
        PROVE  /\ more[i].ops # <<>>
               /\ \A j \in DOMAIN more[i].ops :
                     more[i].ops[j] = <<p, q, UpTo(done, more, i - 1) + j>>
    <2>1. i - 1 \in 0 .. n /\ (i \in 1 .. n \/ i - 1 = n)
      BY <1>2
    <2>2. UpTo(done, more, i - 1) = UpTo(done, asked, i - 1)
      BY <1>5, <2>1
    <2>3. CASE i \in 1 .. n
      BY <1>1, <1>2, <1>3, <2>2, <2>3
    <2>4. CASE i - 1 = n
      <3>1. more[i].ops = next
        BY <1>0, <1>1, <1>2, <2>4
      <3> QED BY <1>0, <1>4, <2>2, <2>4, <3>1
    <2> QED BY <2>1, <2>3, <2>4
  <1>7. UpTo(done, more, n + 1) = UpTo(done, asked, n) + Len(next)
    <2>1. n + 1 # 0
      BY <1>2
    <2>2. UpTo(done, more, n + 1) = next[1][3] + Len(next) - 1
      BY <1>0, <1>1, <2>1 DEF UpTo
    <2>3. Len(next) # 0
      BY <1>0, EmptySeq
    <2>4. 1 \in DOMAIN next
      BY <1>2, <2>3
    <2>5. next[1][3] = UpTo(done, asked, n) + 1
      BY <1>4, <2>4
    <2> QED BY <1>2, <2>2, <2>5
  <1>8. InOrder(p, q, done, more, none)
    BY <1>0, <1>2, <1>6 DEF InOrder
  <1>9. UpTo(done, more, Len(more)) + Len(none) = UpTo(done, asked, n) + Len(next)
    BY <1>1, <1>2, <1>7
  <1>10. UpTo(done, asked, n) + Len(next) = l - 1
    BY DEF Chain, n, next
  <1>11. UpTo(done, more, Len(more)) + Len(none) = l - 1
    BY <1>9, <1>10
  <1> QED BY <1>8, <1>11 DEF Chain, more

(* The oldest request is run.                                              *)
LEMMA InOrderRuns ==
    ASSUME NEW p \in Nat, NEW q \in Nat, NEW done, NEW asked \in Seq(Request), asked # <<>>,
           NEW next \in Seq(Op), InOrder(p, q, done, asked, next)
    PROVE  LET done2 == done \o asked[1].ops
               rest == Tail(asked)
           IN  /\ InOrder(p, q, done2, rest, next)
               /\ UpTo(done2, rest, Len(rest)) = UpTo(done, asked, Len(asked))
  <1> DEFINE s == asked[1].ops
             done2 == done \o s
             rest == Tail(asked)
             m == Len(done)
             n == Len(asked)
  <1>1. /\ rest \in Seq(Request) /\ Len(rest) = n - 1
        /\ \A i \in 1 .. n - 1 : rest[i] = asked[i + 1]
    BY HeadTailProperties
  <1>2. /\ n \in Nat \ {0} /\ DOMAIN asked = 1 .. n /\ m \in Nat /\ DOMAIN done = 1 .. m
        /\ 1 \in 1 .. n
    BY InOrderCounts, EmptySeq
  <1>3. /\ s \in Seq(Op) /\ Len(s) \in Nat \ {0} /\ 1 \in DOMAIN s /\ DOMAIN s = 1 .. Len(s)
    <2>1. ASSUME NEW i \in 1 .. Len(asked)
          PROVE  /\ asked[i].ops \in Seq(Op) /\ Len(asked[i].ops) \in Nat \ {0}
                 /\ 1 \in DOMAIN asked[i].ops /\ DOMAIN asked[i].ops = 1 .. Len(asked[i].ops)
      BY InOrderAsks
    <2> QED BY <1>2, <2>1
  <1>4. DOMAIN rest = 1 .. n - 1
    BY <1>1, LenProperties
  <1>5. \A j \in DOMAIN s : s[j] = <<p, q, m + j>>
    <2>1. \A j \in DOMAIN s : s[j] = <<p, q, UpTo(done, asked, 1 - 1) + j>>
      BY <1>2 DEF InOrder
    <2>2. UpTo(done, asked, 1 - 1) = m
      BY DEF UpTo
    <2> QED BY <2>1, <2>2
  <1>6. \A i \in DOMAIN asked :
           /\ asked[i].ops # <<>>
           /\ \A j \in DOMAIN asked[i].ops :
                 asked[i].ops[j] = <<p, q, UpTo(done, asked, i - 1) + j>>
    BY DEF InOrder
  <1>7. /\ \A j \in DOMAIN done : done[j] = <<p, q, j>>
        /\ \A j \in DOMAIN next : next[j] = <<p, q, UpTo(done, asked, n) + j>>
        /\ done \in Seq(Op)
    BY DEF InOrder
  <1>8. UpTo(done, asked, 1) = s[1][3] + Len(s) - 1
    BY DEF UpTo
  <1> HIDE DEF s
  <1>9. /\ done2 \in Seq(Op) /\ Len(done2) = m + Len(s)
        /\ \A j \in 1 .. m : done2[j] = done[j]
        /\ \A j \in 1 .. Len(s) : done2[m + j] = s[j]
    BY <1>3, <1>7, ConcatProperties
  <1>10. DOMAIN done2 = 1 .. m + Len(s)
    BY <1>9, LenProperties
  <1> HIDE DEF done2, rest, m, n
  <1>11. ASSUME NEW j \in DOMAIN done2 PROVE done2[j] = <<p, q, j>>
    <2>1. j \in 1 .. m \/ (j - m \in 1 .. Len(s) /\ m + (j - m) = j)
      BY <1>2, <1>3, <1>10
    <2>2. CASE j \in 1 .. m
      BY <1>2, <1>7, <1>9, <2>2
    <2>3. CASE j - m \in 1 .. Len(s) /\ m + (j - m) = j
      <3>1. s[j - m] = <<p, q, m + (j - m)>> /\ done2[m + (j - m)] = s[j - m]
        BY <1>3, <1>5, <1>9, <2>3
      <3> QED BY <2>3, <3>1
    <2> QED BY <2>1, <2>2, <2>3
  <1>12. ASSUME NEW i \in 0 .. n - 1 PROVE UpTo(done2, rest, i) = UpTo(done, asked, i + 1)
    <2>1. CASE i = 0
      <3>1. s[1][3] = m + 1
        BY <1>3, <1>5
      <3>2. UpTo(done2, rest, i) = m + Len(s)
        BY <1>9, <2>1 DEF UpTo
      <3>3. i + 1 = 1
        BY <2>1
      <3> QED BY <1>2, <1>3, <1>8, <3>1, <3>2, <3>3
    <2>2. CASE i # 0
      <3>1. i + 1 # 0 /\ rest[i] = asked[i + 1]
        BY <1>1, <1>2, <2>2
      <3> QED BY <2>2, <3>1 DEF UpTo
    <2> QED BY <2>1, <2>2
  <1>13. ASSUME NEW i \in DOMAIN rest
         PROVE  /\ rest[i].ops # <<>>
                /\ \A j \in DOMAIN rest[i].ops :
                      rest[i].ops[j] = <<p, q, UpTo(done2, rest, i - 1) + j>>
    <2>1. /\ i \in 1 .. n - 1 /\ i - 1 \in 0 .. n - 1 /\ i + 1 \in 1 .. n
          /\ (i - 1) + 1 = i /\ (i + 1) - 1 = i
      BY <1>2, <1>4
    <2>2. UpTo(done2, rest, i - 1) = UpTo(done, asked, i) /\ rest[i] = asked[i + 1]
      BY <1>1, <1>12, <2>1
    <2> QED BY <1>2, <1>6, <2>1, <2>2
  <1>14. UpTo(done2, rest, Len(rest)) = UpTo(done, asked, n)
    <2>1. n - 1 \in 0 .. n - 1 /\ (n - 1) + 1 = n
      BY <1>2
    <2> QED BY <1>1, <1>12, <2>1
  <1>15. InOrder(p, q, done2, rest, next)
    BY <1>7, <1>9, <1>11, <1>13, <1>14 DEF InOrder
  <1> QED BY <1>14, <1>15 DEF done2, rest, s, n

(* Nothing of the pass has failed, as far as the DSP knows.                *)
Good == ok /\ ~failed /\ \A i \in DOMAIN answers : answers[i].good

RunInOrder == Chain(pass, prefix, ran, requests, pending, layer)

(* A clean pass that went well so far was computed so far as asked.        *)
RunInv ==
    Staged /\ clean /\ Good =>
        inputs = pass /\ (prefix # 0 => holds = prefix) /\ RunInOrder

(* What a step of a good pass does to what is asked for.                   *)
RunMoves ==
    \/ /\ UNCHANGED <<ran, requests, inputs, holds, pass, prefix>>
       /\ \/ UNCHANGED <<pending, layer>>
          \/ /\ layer \in 1 .. Layers /\ layer' = layer + 1
             /\ pending' = Append(pending, <<pass, prefix, layer>>)
    \/ /\ UNCHANGED <<ran, layer, inputs, holds, pass, prefix>>
       /\ pending # <<>> /\ pending' = <<>>
       /\ \E at \in 0 .. Staging :
             requests' = Append(requests, [seq |-> seq, at |-> at, ops |-> pending])
    \/ DspRuns

LEMMA RunMovesStep ==
    ASSUME IInv, BatchInv, PassPlaces, Next, Staged', ok', ~StageInputs
    PROVE  RunMoves
  <1>1. GoesOn
    BY PassGoesOn DEF IInv, BatchInv
  <1>2. layer \in 1 .. Layers + 1 /\ Layers \in Nat \ {0}
    BY ModelAssumption DEF IInv, IType, ModelType
  <1>3. pending \in Seq(Op) /\ Len(pending) \in Nat
    BY LenProperties DEF IInv, IType, QueueType
  <1> DEFINE QueueOnly == UNCHANGED <<model, passVars, stateVars, paging, truth>>
             Same == UNCHANGED <<ran, requests, inputs, holds, pass, prefix, pending, layer>>
  <1>4. ASSUME Same PROVE RunMoves
    BY <1>4 DEF RunMoves
  <1> USE DEF host, dsp, here, passVars, stateVars, paging, truth, queueVars
  <1>5. ASSUME FlushNothing \/ FlushTooLarge \/ FlushWraps \/ DrainNext \/ DrainEnds,
               QueueOnly
        PROVE  Same
    BY <1>5 DEF FlushNothing, FlushTooLarge, FlushWraps, DrainNext, DrainEnds, Fails
  <1>6. ASSUME FlushFits \/ SendAfterWrap, QueueOnly
        PROVE  RunMoves
    <2>1. PICK at \in 0 .. Staging : Send(at)
      BY <1>6, QueueAssumption
         DEF FlushFits, SendAfterWrap, StageAt, IInv, IType, QueueType
    <2>2. Len(pending) # 0
      BY <1>6, QueueAssumption DEF FlushFits, SendAfterWrap, IInv, StageInv
    <2>3. pending # <<>>
      BY <1>3, <2>2, EmptySeq
    <2> QED BY <1>6, <2>1, <2>3 DEF Send, Fails, RunMoves
  <1>7. ASSUME ReadCurrent \/ ReadStale \/ QuiesceReads, QueueOnly
        PROVE  Same
    BY <1>7 DEF ReadCurrent, ReadStale, QuiesceReads
  <1>8. ASSUME ReadTooStale \/ ReadTruncated \/ ReadTimesOut, QueueOnly
        PROVE  Same
    BY <1>8 DEF ReadTooStale, ReadTruncated, ReadTimesOut, WaitFails
  <1>9. CASE Settled \/ FinishedPending \/ FinishTimesOut
    BY <1>4, <1>9 DEF Settled, FinishedPending, FinishTimesOut, Quiesced
  <1>10. CASE EmitLayer
    BY <1>2, <1>10 DEF EmitLayer, RunMoves
  <1>11. CASE EmitFails \/ PageIn \/ FinishPending \/ Evict \/ Evicted \/ Closing
    BY <1>4, <1>11 DEF EmitFails, PageIn, FinishPending, Evict, Evicted, Closing
  <1>12. CASE DspRuns
    BY <1>12 DEF RunMoves
  <1>13. ~(\/ SettleTimesOut \/ ResetKv \/ ResetTimesOut \/ PassSucceeds \/ PassFails
           \/ StartPass \/ StartReset \/ Refused \/ Unwinds)
    BY DEF SettleTimesOut, ResetKv, ResetTimesOut, PassSucceeds, PassFails, StartPass,
           StartReset, Refused, Unwinds, Return, Staged, Adrift
  <1> QED BY <1>4, <1>5, <1>6, <1>7, <1>8, <1>9, <1>10, <1>11, <1>12, <1>13
          DEF Next, HostStep, QueueStep

(* A pass that is still good was good: an answer that told of a failure is *)
(* not read past.                                                          *)
LEMMA GoodBefore ==
    ASSUME IInv, BatchInv, PassPlaces, AllCounted, Next, Staged', clean', Good', ~StageInputs
    PROVE  Good
  <1>1. GoesOn /\ ok'
    BY PassGoesOn DEF IInv, BatchInv, Good
  <1>2. Staged /\ clean /\ ok
    BY <1>1 DEF GoesOn
  <1>3. Range(Owed) \subseteq Counted
    BY <1>2 DEF AllCounted
  <1>4. /\ requests \in Seq(Request) /\ answers \in Seq(Answer) /\ wait \in Waits
        /\ failed \in BOOLEAN /\ ok \in BOOLEAN /\ after \in {"flushed", "stage", "closed"}
        /\ wait.by \in {"none", "flush", "full", "drain"}
    BY DEF IInv, IType, QueueType, Waits
  <1>5. ~failed' /\ \A i \in DOMAIN answers' : answers'[i].good
    BY DEF Good
  <1> DEFINE QueueOnly == UNCHANGED <<model, passVars, stateVars, paging, truth>>
  <1>6. ~failed
    <2> SUFFICES ASSUME failed PROVE FALSE
      OBVIOUS
    <2>1. pc = "drain" \/ (pc = "await" /\ wait.by = "drain")
      BY <1>2 DEF PassPlaces
    <2> USE DEF here, Fails, queueVars
    <2>2. ~(FlushNothing \/ FlushTooLarge \/ FlushWraps \/ FlushFits \/ SendAfterWrap)
      BY <2>1 DEF FlushNothing, FlushTooLarge, FlushWraps, FlushFits, SendAfterWrap
    <2>3. ~(DrainNext \/ DrainEnds)
      BY <1>1, <1>5 DEF DrainNext, DrainEnds
    <2>4. ~(ReadCurrent \/ ReadStale \/ ReadTooStale \/ ReadTruncated \/ ReadTimesOut)
      BY <1>1, <1>5, <2>1 DEF ReadCurrent, OkStatus, ErrorStatus, ReadStale, ReadTooStale, ReadTruncated,
         ReadTimesOut, WaitFails
    <2>5. ~QuiesceReads
      BY <2>1 DEF QuiesceReads
    <2>6. ~DspRuns
      BY <1>5 DEF DspRuns
    <2>7. ~(\/ Settled \/ SettleTimesOut \/ FinishedPending \/ FinishTimesOut
            \/ ResetKv \/ ResetTimesOut)
      BY <2>1 DEF Settled, SettleTimesOut, FinishedPending, FinishTimesOut, ResetKv,
                  ResetTimesOut, Quiesced, QuiesceTimesOut
    <2>8. ~(EmitLayer \/ EmitFails \/ PageIn \/ FinishPending \/ Evict \/ Evicted \/ Closing)
      BY <2>1 DEF EmitLayer, EmitFails, PageIn, FinishPending, NeedsExperts, Evict, Evicted,
                  Closing
    <2>9. ~(PassSucceeds \/ PassFails \/ StartPass \/ StartReset \/ Refused \/ Unwinds)
      BY <2>1 DEF PassSucceeds, PassFails, StartPass, StartReset, Refused, Unwinds
    <2> QED BY <2>2, <2>3, <2>4, <2>5, <2>6, <2>7, <2>8, <2>9 DEF Next, HostStep, QueueStep
  <1>7. \A i \in DOMAIN answers : answers[i].good
    <2>1. OwedMoves
      BY OwedStep
    <2>2. CASE answers' = answers
      BY <1>5, <2>2
    <2>3. CASE BatchRun
      <3>1. PICK good \in BOOLEAN :
               answers' = Append(answers, [seq |-> Head(requests).seq, good |-> good])
        BY <2>3 DEF BatchRun
      <3>2. Head(requests) \in Request
        BY <1>4, <2>3, HeadTailProperties DEF BatchRun
      <3>3. [seq |-> Head(requests).seq, good |-> good] \in Answer
        BY <3>2 DEF Request, Answer
      <3>4. /\ answers' \in Seq(Answer) /\ Len(answers') = Len(answers) + 1
            /\ \A i \in 1 .. Len(answers) : answers'[i] = answers[i]
        BY <1>4, <3>1, <3>3, AppendProperties
      <3>5. DOMAIN answers = 1 .. Len(answers) /\ DOMAIN answers' = 1 .. Len(answers')
            /\ Len(answers) \in Nat
        BY <1>4, <3>4, LenProperties
      <3> QED BY <1>5, <3>4, <3>5
    <2>4. CASE AnswerRead
      <3>1. answers # <<>> /\ answers' = Tail(answers)
        BY <2>4 DEF AnswerRead
      <3>2. Head(answers).good
        <4>1. ~ReadCurrent \/ Head(answers).good
          BY <1>1, <1>5 DEF ReadCurrent, ErrorStatus, Fails
        <4>2. ~ReadStale /\ ~QuiesceReads /\ pc # "quiesce"
          <5>0. Owed # <<>> /\ Head(answers).seq \in Range(Owed)
            <6>1. Owed # <<>> /\ Head(Owed) = Head(answers).seq /\ Owed \in Seq(Nat)
              BY <1>4, <3>1, OwedRead, OwedEmpty DEF Owed, IInv
            <6>2. Ascending(Owed)
              BY DEF BatchInv, OrderInv
            <6> QED BY <6>1, <6>2, AscendingTail
          <5>1. Head(answers).seq \in Counted
            BY <1>3, <5>0
          <5>2. ~ReadStale
            <6> SUFFICES ASSUME ReadStale PROVE FALSE
              OBVIOUS
            <6>1. pc = "await" /\ Head(answers).seq < wait.seq
              BY DEF ReadStale
            <6>2. wait.seq \in Nat /\ Head(answers).seq \in Nat
              <7>1. \A n \in Range(Owed) : n \in Nat
                BY OwedEmpty, RangeNat DEF IInv
              <7> QED BY <1>4, <5>0, <7>1 DEF Waits
            <6>3. \A n \in Range(inflight) : n > wait.seq
              BY <6>1 DEF BatchInv, AwaitInv
            <6> QED BY <5>1, <6>1, <6>2, <6>3 DEF Counted
          <5>3. pc # "quiesce"
            <6> SUFFICES ASSUME pc = "quiesce" PROVE FALSE
              OBVIOUS
            <6>1. inflight = <<>>
              BY <1>2 DEF Staged, FlightPlaces, BatchInv
            <6> QED BY <5>1, <6>1 DEF Counted, Range
          <5> QED BY <5>2, <5>3 DEF QuiesceReads
        <4>3. ~(ReadTooStale \/ ReadTruncated \/ ReadTimesOut)
          BY <1>1 DEF ReadTooStale, ReadTruncated, ReadTimesOut, WaitFails, Fails
        <4>4. ReadCurrent
          <5>1. answers' # answers
            <6>1. Len(answers') = Len(answers) - 1 /\ Len(answers) \in Nat
              BY <1>4, <3>1, HeadTailProperties, LenProperties
            <6> QED BY <6>1
          <5>2. requests' = requests
            BY <2>4 DEF AnswerRead
          <5> USE DEF host, dsp, queueVars, here
          <5>3. ~(FlushNothing \/ FlushTooLarge \/ FlushWraps \/ DrainNext \/ DrainEnds)
            BY <5>1 DEF FlushNothing, FlushTooLarge, FlushWraps, DrainNext, DrainEnds
          <5>4. ~(FlushFits \/ SendAfterWrap)
            BY <5>1 DEF FlushFits, SendAfterWrap, Send
          <5>5. ~(\/ Settled \/ SettleTimesOut \/ FinishedPending \/ FinishTimesOut
                  \/ ResetKv \/ ResetTimesOut)
            BY <5>1 DEF Settled, SettleTimesOut, FinishedPending, FinishTimesOut, ResetKv,
                        ResetTimesOut, Quiesced, QuiesceTimesOut
          <5>6. ~(EmitLayer \/ EmitFails \/ PageIn \/ FinishPending \/ Evict \/ Evicted \/ Closing)
            BY <5>1 DEF EmitLayer, EmitFails, PageIn, FinishPending, NeedsExperts, Evict, Evicted,
                        Closing
          <5>7. ~(PassSucceeds \/ PassFails \/ StartPass \/ StartReset \/ Refused \/ Unwinds)
            BY <5>1 DEF PassSucceeds, PassFails, StartPass, StartReset, Refused, Unwinds
          <5>8. ~DspRuns
            <6>1. ASSUME DspRuns PROVE FALSE
              <7>1. requests # <<>> /\ requests' = Tail(requests)
                BY <6>1 DEF DspRuns
              <7>2. Len(requests') = Len(requests) - 1 /\ Len(requests) \in Nat
                BY <1>4, <7>1, HeadTailProperties, LenProperties
              <7> QED BY <5>2, <7>2
            <6> QED BY <6>1
          <5> QED BY <4>2, <4>3, <5>3, <5>4, <5>5, <5>6, <5>7, <5>8 DEF Next, HostStep, QueueStep
        <4> QED BY <4>1, <4>4
      <3>3. /\ Head(answers) = answers[1] /\ answers' \in Seq(Answer)
            /\ Len(answers') = Len(answers) - 1 /\ Len(answers') \in Nat
            /\ \A i \in 1 .. Len(answers') : answers'[i] = answers[i + 1]
        BY <1>4, <3>1, HeadTailProperties, LenProperties
      <3>4. DOMAIN answers = 1 .. Len(answers) /\ DOMAIN answers' = 1 .. Len(answers')
            /\ Len(answers) \in Nat
        BY <1>4, <3>3, LenProperties
      <3>5. ASSUME NEW i \in DOMAIN answers PROVE answers[i].good
        <4>1. CASE i = 1
          BY <3>2, <3>3, <4>1
        <4>2. CASE i # 1
          <5>1. i - 1 \in DOMAIN answers' /\ answers'[i - 1] = answers[i]
            BY <3>3, <3>4, <4>2
          <5> QED BY <1>5, <5>1
        <4> QED BY <4>1, <4>2
      <3> QED BY <3>5
    <2> QED BY <2>1, <2>2, <2>3, <2>4
            DEF OwedMoves, LeavesBatches, SendLost, OldestAwaited, SendMade
  <1> QED BY <1>2, <1>6, <1>7 DEF Good
(* The DSP computes what was asked of a clean, good pass.                  *)
LEMMA OldestAsAsked ==
    ASSUME IInv, BatchInv, AllCounted, RunInv, Staged, clean, Good, requests # <<>>
    PROVE  LET r == requests[1] IN
           /\ AsAsked(Head(requests)) /\ Head(requests) = r /\ r \in Request
           /\ r.ops # <<>> /\ r.ops[1] = <<pass, prefix, Len(ran) + 1>>
  <1> DEFINE r == requests[1]
  <1>1. requests \in Seq(Request) /\ r \in Request /\ Head(requests) = r
        /\ 1 \in DOMAIN requests
    <2>1. requests \in Seq(Request)
      BY DEF IInv, IType, QueueType
    <2>2. Len(requests) \in Nat /\ Len(requests) # 0 /\ DOMAIN requests = 1 .. Len(requests)
      BY <2>1, EmptySeq, LenProperties
    <2>3. 1 \in 1 .. Len(requests)
      BY <2>2
    <2> QED BY <2>1, <2>2, <2>3, ElementOfSeq, HeadTailProperties
  <1>2. /\ inputs = pass /\ (prefix # 0 => holds = prefix)
        /\ InOrder(pass, prefix, ran, requests, pending)
    BY DEF RunInv, RunInOrder, Chain
  <1>3. r.ops # <<>> /\ \A j \in DOMAIN r.ops : r.ops[j] = <<pass, prefix, Len(ran) + j>>
    <2>1. /\ r.ops # <<>>
          /\ \A j \in DOMAIN r.ops : r.ops[j] = <<pass, prefix, UpTo(ran, requests, 1 - 1) + j>>
      BY <1>1, <1>2 DEF InOrder
    <2>2. UpTo(ran, requests, 1 - 1) = Len(ran)
      BY DEF UpTo
    <2> QED BY <2>1, <2>2
  <1>4. 1 \in DOMAIN r.ops
    <2>1. r.ops \in Seq(Op)
      BY <1>1 DEF Request
    <2>2. Len(r.ops) \in Nat /\ Len(r.ops) # 0 /\ DOMAIN r.ops = 1 .. Len(r.ops)
      BY <1>3, <2>1, EmptySeq, LenProperties
    <2> QED BY <2>2
  <1>5. Intact(r)
    <2>1. r.seq \in Counted
      BY <1>1, RequestsOwed DEF IInv, AllCounted, Good
    <2> QED BY <1>1, <2>1 DEF BatchInv, KeptInv
  <1>6. \A j \in DOMAIN r.ops : r.ops[j][3] \in model.paged => r.ops[j][3] \in mapped
    BY <1>1 DEF IInv, MappedWhileRead
  <1>7. AsAsked(r)
    BY <1>2, <1>3, <1>5, <1>6 DEF AsAsked
  <1> QED BY <1>1, <1>3, <1>4, <1>7

LEMMA RunStep ==
    ASSUME IInv, BatchInv, PassPlaces, AllCounted, RunInv, Next
    PROVE  RunInv'
  <1> SUFFICES ASSUME Staged', clean', Good'
               PROVE  (inputs = pass)' /\ (prefix' # 0 => holds' = prefix') /\ RunInOrder'
    BY DEF RunInv
  <1>1. /\ requests \in Seq(Request) /\ pending \in Seq(Op) /\ Layers \in Nat \ {0}
        /\ layer \in 1 .. Layers + 1 /\ pass \in Nat /\ prefix \in Nat /\ seq \in Nat
        /\ Staging \in Nat
    BY ModelAssumption, QueueAssumption DEF IInv, IType, QueueType, ModelType
  <1>2. IType'
    BY TypeStep DEF IInv
  <1>3. CASE StageInputs
    <2>1. /\ inputs' = pass /\ pass' = pass /\ prefix' = prefix /\ ran' = <<>> /\ pending' = <<>>
          /\ layer' = 1 /\ requests' = requests
          /\ clean' = (requests = <<>> /\ answers = <<>> /\ (IsResident => holds = prefix))
      BY <1>3 DEF StageInputs, dsp
    <2>2. requests' = <<>>
      BY <2>1
    <2>3. ASSUME prefix # 0 PROVE holds' = prefix
      <3>1. call = "rows"
        BY <2>3 DEF PassPlaces
      <3>2. holds' = IF IsResident THEN holds ELSE prefix
        BY <1>3, <2>3, <3>1 DEF StageInputs
      <3> QED BY <2>1, <3>2
    <2>4. /\ ran' \in Seq(Op) /\ DOMAIN ran' = {} /\ DOMAIN pending' = {} /\ DOMAIN requests' = {}
          /\ Len(ran') = 0 /\ Len(pending') = 0 /\ Len(requests') = 0
      BY <2>1, <2>2
    <2>5. RunInOrder'
      BY <2>1, <2>4 DEF RunInOrder, Chain, InOrder, UpTo
    <2> QED BY <2>1, <2>3, <2>5
  <1>4. CASE ~StageInputs
    <2>1. GoesOn /\ Staged /\ clean /\ ok' /\ pass' = pass /\ prefix' = prefix
      BY <1>4, PassGoesOn DEF GoesOn, IInv, BatchInv, Good
    <2>2. Good
      BY <1>4, GoodBefore
    <2>3. inputs = pass /\ (prefix # 0 => holds = prefix) /\ RunInOrder
      BY <2>1, <2>2 DEF RunInv
    <2>4. RunMoves
      BY <1>4, <2>1, RunMovesStep
    <2>5. /\ Chain(pass, prefix, ran, requests, pending, layer)
          /\ InOrder(pass, prefix, ran, requests, pending)
          /\ UpTo(ran, requests, Len(requests)) + Len(pending) = layer - 1
      BY <2>3 DEF RunInOrder, Chain
    <2>6. UpTo(ran, requests, Len(requests)) \in Nat /\ Len(pending) \in Nat
      BY <1>1, <2>5, InOrderCounts
    <2>7. CASE /\ UNCHANGED <<ran, requests, inputs, holds, pass, prefix>>
               /\ UNCHANGED <<pending, layer>>
      BY <2>3, <2>7 DEF RunInOrder
    <2>8. CASE /\ UNCHANGED <<ran, requests, inputs, holds, pass, prefix>>
               /\ layer \in 1 .. Layers /\ layer' = layer + 1
               /\ pending' = Append(pending, <<pass, prefix, layer>>)
      <3>1. /\ InOrder(pass, prefix, ran, requests, pending')
            /\ Len(pending') = Len(pending) + 1
        BY <1>1, <2>5, <2>8, InOrderEmits
      <3>2. UpTo(ran, requests, Len(requests)) + Len(pending') = layer' - 1
        <4> DEFINE u == UpTo(ran, requests, Len(requests))
        <4>1. u \in Nat /\ u + Len(pending) = layer - 1 /\ layer \in Nat
          BY <1>1, <2>5, <2>6
        <4> HIDE DEF u
        <4>2. u + Len(pending') = layer' - 1
          BY <2>6, <2>8, <3>1, <4>1
        <4> QED BY <4>2 DEF u
      <3>3. RunInOrder'
        BY <2>8, <3>1, <3>2 DEF RunInOrder, Chain
      <3> QED BY <2>3, <2>8, <3>3
    <2>9. CASE /\ UNCHANGED <<ran, layer, inputs, holds, pass, prefix>>
               /\ pending # <<>> /\ pending' = <<>>
               /\ \E at \in 0 .. Staging :
                     requests' = Append(requests, [seq |-> seq, at |-> at, ops |-> pending])
      <3>1. PICK at \in 0 .. Staging :
               requests' = Append(requests, [seq |-> seq, at |-> at, ops |-> pending])
        BY <2>9
      <3> DEFINE b == [seq |-> seq, at |-> at, ops |-> pending]
      <3>2. b \in Request /\ b.ops = pending
        BY <1>1 DEF Request
      <3>3. requests' = Append(requests, b)
        BY <3>1
      <3> HIDE DEF b
      <3>4. pending' \in Seq(Op)
        BY <1>2 DEF IType, QueueType
      <3>5. Chain(pass, prefix, ran, requests', pending', layer)
        <4> DEFINE none == pending'
        <4>1. none \in Seq(Op) /\ Len(none) = 0
          BY <2>9, <3>4
        <4> HIDE DEF none
        <4>2. Chain(pass, prefix, ran, requests, b.ops, layer)
          BY <2>5, <3>2
        <4>3. Len(b.ops) # 0
          BY <1>1, <2>9, <3>2, EmptySeq
        <4>4. Chain(pass, prefix, ran, Append(requests, b), none, layer)
          BY <1>1, <3>2, <4>1, <4>2, <4>3, InOrderSends
        <4> QED BY <3>3, <4>4 DEF none
      <3>6. RunInOrder'
        BY <2>9, <3>5 DEF RunInOrder
      <3> QED BY <2>3, <2>9, <3>6
    <2>10. CASE DspRuns
      <3>1. /\ requests # <<>> /\ requests' = Tail(requests) /\ UNCHANGED <<pending, layer>>
        BY <2>10 DEF DspRuns, host, passVars
      <3> DEFINE r == requests[1]
      <3>2. /\ AsAsked(Head(requests)) /\ Head(requests) = r /\ r.ops # <<>>
            /\ r.ops[1] = <<pass, prefix, Len(ran) + 1>> /\ r \in Request
        BY <2>1, <2>2, <3>1, OldestAsAsked
      <3>3. PICK good \in BOOLEAN :
               /\ answers' = Append(answers, [seq |-> r.seq, good |-> good])
               /\ ran' = ran \o [i \in DOMAIN r.ops |-> IF good /\ AsAsked(r) THEN r.ops[i]
                                                        ELSE Garbled]
               /\ inputs' = IF r.ops[1][1] = inputs THEN inputs ELSE 0
               /\ holds' = IF r.ops[1][2] # 0 THEN holds ELSE 0
        BY <2>10, <3>2 DEF DspRuns
      <3>4. good = TRUE
        <4> DEFINE x == [seq |-> r.seq, good |-> good]
        <4>1. answers \in Seq(Answer) /\ x \in Answer /\ x.good = good
          BY <3>2 DEF IInv, IType, QueueType, Request, Answer
        <4> HIDE DEF x
        <4>2. /\ answers' \in Seq(Answer) /\ Len(answers') = Len(answers) + 1
              /\ answers'[Len(answers) + 1] = x
          BY <3>3, <4>1, AppendProperties DEF x
        <4>3. Len(answers) \in Nat /\ DOMAIN answers' = 1 .. Len(answers')
          BY <4>1, <4>2, LenProperties
        <4>4. Len(answers) + 1 \in DOMAIN answers'
          BY <4>2, <4>3
        <4>5. x.good
          BY <4>2, <4>4 DEF Good
        <4> QED BY <4>1, <4>5
      <3>5. ran' = ran \o r.ops
        <4>1. [i \in DOMAIN r.ops |-> IF good /\ AsAsked(r) THEN r.ops[i] ELSE Garbled]
              = [i \in DOMAIN r.ops |-> r.ops[i]]
          BY <3>2, <3>4
        <4> DEFINE s == r.ops
        <4>2. s \in Seq(Op)
          BY <3>2 DEF Request
        <4> HIDE DEF s
        <4>3. [i \in DOMAIN s |-> s[i]] = s
          BY <4>2, LenProperties
        <4> QED BY <3>3, <4>1, <4>3 DEF s
      <3>6. /\ InOrder(pass, prefix, ran', requests', pending)
            /\ UpTo(ran', requests', Len(requests')) = UpTo(ran, requests, Len(requests))
        BY <1>1, <2>5, <3>1, <3>5, InOrderRuns
      <3>7. RunInOrder'
        BY <2>1, <2>5, <3>1, <3>6 DEF RunInOrder, Chain
      <3>8. inputs' = inputs /\ holds' = IF prefix # 0 THEN holds ELSE 0
        BY <2>3, <3>2, <3>3
      <3> QED BY <2>1, <2>3, <3>7, <3>8
    <2> QED BY <2>4, <2>7, <2>8, <2>9, <2>10 DEF RunMoves
  <1> QED BY <1>3, <1>4

LEMMA ResidentStep ==
    ASSUME IInv, BatchInv, PassPlaces, AllCounted, StartedInv, ResidentInv, RunInv, Next
    PROVE  ResidentInv'
  <1>1. /\ IType /\ FlightPlaces /\ seq \in Nat /\ pass \in Nat /\ prefix \in Nat
        /\ seq' \in Nat /\ seq <= seq'
        /\ Owed = <<>> /\ seq' = seq => Owed' = <<>>
    BY OwedSeq DEF IInv, BatchInv, IType, QueueType, ModelType
  <1>2. model' = model
    BY Moves DEF IInv
  <1>3. None \in [prefix : Nat, seq : Nat] /\ None.prefix = 0 /\ None.seq = 0
    BY DEF None
  <1>4. ASSUME resident' = None PROVE ResidentInv'
    BY <1>1, <1>3, <1>4 DEF ResidentInv
  <1>5. ASSUME resident' = resident, Owed # <<>> \/ seq' # seq \/ holds' = holds
        PROVE  ResidentInv'
    BY <1>1, <1>2, <1>5 DEF ResidentInv, Recurrent
  <1>6. CASE DspRuns
    <2>1. requests # <<>> /\ resident' = resident
      BY <1>6 DEF DspRuns, stateVars
    <2>2. Owed # <<>>
      BY <1>1, <2>1, OwedEmpty
    <2> QED BY <1>5, <2>1, <2>2
  <1>7. CASE StageInputs
    <2>1. resident' = None \/ UNCHANGED <<resident, holds>>
      BY <1>7 DEF StageInputs
    <2> QED BY <1>4, <1>5, <2>1
  <1>8. CASE Staged' /\ ~StageInputs
    <2>1. resident' = resident /\ (DspRuns \/ holds' = holds)
      BY <1>1, <1>8, PassGoesOn DEF GoesOn
    <2> QED BY <1>5, <1>6, <2>1
  <1>9. CASE PassSucceeds
    <2>1. /\ pc = "closed" /\ ok /\ UNCHANGED <<requests, answers, seq>>
          /\ \/ /\ call = "prefix" /\ holds' = pass
                /\ resident' = [prefix |-> pass, seq |-> seq]
             \/ /\ call = "rows" /\ holds' = holds
                /\ resident' = IF prefix = 0 THEN None ELSE [prefix |-> prefix, seq |-> seq]
             \/ UNCHANGED <<resident, holds>>
      BY <1>9 DEF PassSucceeds, host, dsp
    <2>2. Recurrent => Owed = <<>> /\ Staged /\ clean
      BY <2>1, QueueQuiet DEF Recurrent
    <2>3. Owed' = Owed
      BY <2>1 DEF Owed
    <2>4. ASSUME NEW p \in Nat, resident' = [prefix |-> p, seq |-> seq], Recurrent => holds' = p,
                 model.kind # "audio"
          PROVE  ResidentInv'
      BY <1>1, <1>2, <2>1, <2>2, <2>3, <2>4 DEF ResidentInv, Recurrent
    <2>5. call \in {"prefix", "rows"} => model.kind # "audio"
      BY DEF PassPlaces
    <2>6. ASSUME Recurrent, prefix # 0 PROVE holds = prefix
      <3>1. requests = <<>> /\ answers = <<>>
        BY <1>1, <2>2, <2>6, OwedEmpty
      <3>2. ~failed
        BY <2>1 DEF PassPlaces
      <3>3. Good
        BY <2>1, <3>1, <3>2 DEF Good
      <3> QED BY <2>2, <2>6, <3>3 DEF RunInv
    <2>7. CASE call = "prefix" /\ holds' = pass /\ resident' = [prefix |-> pass, seq |-> seq]
      BY <1>1, <2>4, <2>5, <2>7
    <2>8. CASE /\ call = "rows" /\ holds' = holds
               /\ resident' = IF prefix = 0 THEN None ELSE [prefix |-> prefix, seq |-> seq]
      BY <1>1, <1>4, <2>4, <2>5, <2>6, <2>8
    <2>9. CASE UNCHANGED <<resident, holds>>
      BY <1>5, <2>9
    <2> QED BY <2>1, <2>7, <2>8, <2>9
  <1>10. ASSUME \/ StartPass \/ StartReset \/ Refused \/ Settled \/ SettleTimesOut
                \/ PassFails \/ Unwinds \/ ResetTimesOut
         PROVE  UNCHANGED <<resident, holds>>
    BY <1>10 DEF StartPass, StartReset, Refused, Settled, SettleTimesOut, PassFails, Unwinds,
       ResetTimesOut, stateVars, truth
  <1>11. CASE ResetKv
    BY <1>4, <1>11 DEF ResetKv
  <1>12. CASE UNCHANGED <<stateVars, truth>>
    BY <1>5, <1>12 DEF stateVars, truth
  <1> QED BY <1>1, <1>5, <1>6, <1>7, <1>8, <1>9, <1>10, <1>11, <1>12, PassStops

(* What a pass may rely on, together.                                      *)
PassInv ==
    /\ PassPlaces /\ AllCounted /\ StartedInv
    /\ TornInv /\ ResidentInv /\ RunInv

LEMMA InitPass == Init => PassInv
  <1> SUFFICES ASSUME Init PROVE PassInv
    OBVIOUS
  <1>1. /\ pc = "rest" /\ ret = "rest" /\ ok = TRUE /\ after = "flushed" /\ failed = FALSE
        /\ call = "none" /\ prefix = 0 /\ dirty = FALSE /\ torn = FALSE /\ poisoned = FALSE
        /\ resident = None /\ requests = <<>> /\ answers = <<>> /\ seq \in Nat
    BY DEF Init, QueueInit
  <1>2. Owed = <<>>
    BY <1>1, InitType, OwedEmpty
  <1>3. ~Staged
    BY <1>1 DEF Staged
  <1>4. PassPlaces /\ AllCounted /\ RunInv
    BY <1>1, <1>3 DEF PassPlaces, Ending, AllCounted, RunInv
  <1>5. StartedInv /\ TornInv
    BY <1>1, <1>2, <1>3 DEF StartedInv, TornInv
  <1>6. ResidentInv
    BY <1>1 DEF ResidentInv, None
  <1> QED BY <1>4, <1>5, <1>6 DEF PassInv

LEMMA PassStep == IInv /\ BatchInv /\ PassInv /\ [Next]_vars => PassInv'
  <1> SUFFICES ASSUME IInv, BatchInv, PassInv, [Next]_vars PROVE PassInv'
    OBVIOUS
  <1>1. CASE Next
    BY <1>1, PassPlacesStep, AllCountedStep, StartedStep, TornStep, ResidentStep, RunStep
       DEF PassInv, BatchInv
  <1>2. CASE UNCHANGED vars
    <2> USE <1>2 DEF vars, queueVars, host, dsp, here, passVars, stateVars, paging, truth
    <2>1. (PassPlaces /\ AllCounted)'
      BY DEF PassInv, PassPlaces, AllCounted, Staged, Adrift, Ending, Counted, Owed
    <2>2. (StartedInv /\ TornInv /\ ResidentInv)'
      BY DEF PassInv, StartedInv, TornInv, ResidentInv, Staged, Adrift, Recurrent, Owed
    <2>3. RunInv'
      BY DEF PassInv, RunInv, RunInOrder, Good, Staged, Adrift
    <2> QED BY <2>1, <2>2, <2>3 DEF PassInv
  <1> QED BY <1>1, <1>2

(* The batch and pass invariants hold throughout.                          *)
LEMMA PassesInductive == Spec => [](IInv /\ BatchInv /\ PassInv)
  <1>1. Init => PassInv
    BY InitPass
  <1>2. IInv /\ BatchInv /\ PassInv /\ [Next]_vars => PassInv'
    BY PassStep
  <1>3. Spec => [](IInv /\ BatchInv)
    BY BatchesInductive
  <1> QED BY <1>1, <1>2, <1>3, PTL DEF Spec

(* What the host believes of the memory the DSP writes is never better     *)
(* than the truth (state_torn, encoder_resident): a failed, panicked or    *)
(* timed out pass over recurrent state leaves it marked, and a prefix that *)
(* is taken to be resident is.                                             *)
THEOREM HexagonBeliefsHold == Spec => []BeliefsHold
  <1>1. IInv /\ BatchInv /\ PassInv => BeliefsHold
    <2> SUFFICES ASSUME IInv, PassInv PROVE BeliefsHold
      OBVIOUS
    <2>1. TornCoversDirty
      BY DEF PassInv, TornInv, TornCoversDirty
    <2>2. model.kind \in {"recurrent", "attention", "audio"}
      BY ModelAssumption DEF IInv, IType, ModelType
    <2>3. ResidentIsReal
      BY <2>2 DEF PassInv, ResidentInv, ResidentIsReal, Recurrent, None
    <2> QED BY <2>1, <2>3 DEF BeliefsHold
  <1> QED BY <1>1, PassesInductive, PTL

(* A pass that returns Ok was computed as asked: every layer once, in      *)
(* order, over its own descriptors, inputs, prefix and experts, whichever  *)
(* pass before it failed or was given up on (commit, finish, ensure_state_ *)
(* intact and reset_recurrent_state together).                             *)
THEOREM HexagonOkIsAsked == Spec => OkIsAsked
  <1> DEFINE Claim == Succeeds /\ (clean \/ model.kind # "attention") => ran = Asked
  <1>1. IInv /\ PassInv => Claim
    <2> SUFFICES ASSUME IInv, PassInv, Succeeds, clean \/ model.kind # "attention"
                 PROVE  ran = Asked
      OBVIOUS
    <2>1. pc = "closed" /\ ok
      BY DEF Succeeds
    <2>2. Owed = <<>> /\ Staged /\ clean /\ layer = Layers + 1 /\ pending = <<>>
      BY <2>1, QueueQuiet DEF PassInv
    <2>3. requests = <<>> /\ answers = <<>>
      BY <2>2, OwedEmpty DEF IInv
    <2>4. ~failed
      BY <2>1 DEF PassInv, PassPlaces
    <2>5. Good
      BY <2>1, <2>3, <2>4 DEF Good
    <2>6. Chain(pass, prefix, ran, requests, pending, layer)
      BY <2>2, <2>5 DEF PassInv, RunInv, RunInOrder
    <2>7. Layers \in Nat
      BY ModelAssumption
    <2>8. ran \in Seq(Op) /\ Len(ran) \in Nat /\ DOMAIN ran = 1 .. Len(ran)
          /\ \A j \in DOMAIN ran : ran[j] = <<pass, prefix, j>>
      BY <2>6, LenProperties DEF Chain, InOrder
    <2>9. Len(ran) = Layers
      <3>1. Len(requests) = 0 /\ Len(pending) = 0
        BY <2>2, <2>3
      <3>2. UpTo(ran, requests, Len(requests)) = Len(ran)
        BY <3>1 DEF UpTo
      <3> DEFINE u == UpTo(ran, requests, Len(requests))
                 k == Len(pending)
      <3>3. u + k = layer - 1
        BY <2>6 DEF Chain
      <3>4. u = Len(ran) /\ k = 0 /\ layer = Layers + 1
        BY <2>2, <3>1, <3>2
      <3>5. u \in Nat /\ Layers \in Nat /\ Len(ran) \in Nat
        BY <2>7, <2>8, <3>4
      <3> HIDE DEF u, k
      <3>6. u + 0 = (Layers + 1) - 1
        BY <3>3, <3>4
      <3>7. u = Layers
        BY <3>5, <3>6
      <3> QED BY <3>4, <3>7
    <2>10. ran = [j \in DOMAIN ran |-> ran[j]]
      BY <2>8
    <2> QED BY <2>8, <2>9, <2>10 DEF Asked
  <1>2. Spec => [](IInv /\ BatchInv /\ PassInv)
    BY PassesInductive
  <1>3. IInv /\ BatchInv /\ PassInv /\ [Next]_vars => [Claim]_vars
    BY <1>1
  <1> QED BY <1>2, <1>3, PTL DEF Spec, OkIsAsked
=============================================================================
