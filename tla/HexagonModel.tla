---------------------------- MODULE HexagonModel ----------------------------
(***************************************************************************)
(* A model on the Hexagon DSP: its passes, its reset and the paging of its *)
(* expert weights (cera/src/model/hexagon_lfm2.rs, hexagon_lfm2/encoder.rs,*)
(* hexagon_lfm2/pager.rs; for `audio` models audio_encoder_hexagon.rs)     *)
(* over the command queue.  The model's device lock makes passes and       *)
(* resets exclude each other.                                              *)
(*                                                                         *)
(* A pass stages its inputs in scratch memory, emits its layers one after  *)
(* another, flushing whenever a cap is reached, and ends with a flush.  An *)
(* operation is the tuple of its pass, the encoder prefix it builds on (0: *)
(* none) and its layer.  `ran`, `inputs`, `holds` and `dirty` are          *)
(* auxiliary: they say what the DSP's memory really is.                    *)
(***************************************************************************)
EXTENDS HexagonQueue, FiniteSets

CONSTANTS
    Layers,    \* number of layers
    Models,    \* [kind, paged]: "recurrent", "attention" or "audio", and the
               \* layers whose experts are paged
    Budget,    \* layers' expert buffers that may be mapped
    MaxPasses  \* bound: passes in one behaviour, by kind of model

ASSUME ModelAssumption ==
    /\ Layers \in Nat \ {0} /\ Budget \in Nat
    /\ MaxPasses \in [{"recurrent", "attention", "audio"} -> Nat]
    /\ \A m \in Models : /\ m.kind \in {"recurrent", "attention", "audio"}
                         /\ m.paged \subseteq 1 .. Layers
                         /\ m.kind = "audio" => m.paged = {}
                         /\ Cardinality(m.paged) <= Budget \/ Budget >= 2

VARIABLES
    model,       \* the model that was loaded
    torn,        \* state_torn
    poisoned,    \* a panic went through the device lock
    call,        \* what holds the lock: "none", "reset" or a kind of pass
    pass, prefix, layer, \* the pass: its number, its prefix, the next layer
    seq0, piped0, \* its dispatches_before, and pipelined before it
    prefixes,    \* encoder prefixes captured so far
    resident,    \* encoder_resident: [prefix, seq]
    mapped,      \* paged layers mapped into the DSP
    pinned,      \* those mapped for good
    window,      \* ExpertPager::window
    held,        \* buffers the DSP keeps a reference to
    inputs,      \* the pass whose inputs scratch holds, 0 when damaged
    holds,       \* the prefix at the start of the KV buffer, 0 when other
    dirty,       \* a failed pass may have moved the recurrent state
    clean,       \* the pass staged its inputs clear of abandoned batches
    ran          \* operations the DSP ran since then

passVars  == <<call, pass, prefix, layer, seq0, piped0>>
stateVars == <<torn, poisoned, prefixes, resident>>
paging    == <<mapped, pinned, window, held>>
truth     == <<inputs, holds, dirty, clean, ran>>
vars == <<queueVars, model, passVars, stateVars, paging, truth>>

Recurrent == model.kind = "recurrent"
Encoding == call \in {"prefix", "rows"}
None == [prefix |-> 0, seq |-> 0]
Garbled == <<0, 0, 0>>

(* A call returns: its locals are gone.                                    *)
Return ==
    /\ pc' = "rest" /\ call' = "none"
    /\ prefix' = 0 /\ layer' = 1 /\ seq0' = 0 /\ piped0' = FALSE
    /\ ret' = "rest" /\ sync' = TRUE /\ after' = "flushed"
    /\ wait' = NoWait /\ failed' = FALSE /\ ok' = TRUE
    /\ clean' = TRUE /\ ran' = <<>>

(* ExpertPager::new: room for two layers is kept back unless all fit.  The *)
(* DSP may refuse a mapping the budget allows.                             *)
Reserve(paged) == IF Cardinality(paged) <= Budget THEN 0 ELSE 2
Pinnings(paged) ==
    {P \in SUBSET paged : /\ Cardinality(P) <= Budget - Reserve(paged)
                          /\ \A g \in P, h \in paged : h < g => h \in P}

Init ==
    /\ QueueInit
    /\ model \in Models
    /\ torn = FALSE /\ poisoned = FALSE
    /\ call = "none" /\ pass = 0 /\ prefix = 0 /\ layer = 1
    /\ seq0 = 0 /\ piped0 = FALSE
    /\ prefixes = {} /\ resident = None
    /\ pinned \in Pinnings(model.paged) /\ mapped = pinned
    /\ window = <<>> /\ held = {}
    /\ inputs = 0 /\ holds = 0
    /\ dirty = FALSE /\ clean = TRUE
    /\ ran = <<>>

----------------------------------------------------------------------------
(* The DSP runs the oldest request and answers it.  What it computes is    *)
(* what was asked only over its own descriptors and inputs, with every     *)
(* buffer mapped, on the prefix it counts on.                              *)
AsAsked(r) ==
    /\ Intact(r)
    /\ \A i \in DOMAIN r.ops :
          /\ r.ops[i][1] = inputs
          /\ r.ops[i][2] \in {0, holds}
          /\ r.ops[i][3] \in model.paged => r.ops[i][3] \in mapped

DspRuns ==
    /\ requests # <<>>
    /\ LET r == Head(requests) IN
       \E good \in BOOLEAN :
          /\ answers' = Append(answers, [seq |-> r.seq, good |-> good])
          /\ ran' = ran \o [i \in DOMAIN r.ops |->
                              IF good /\ AsAsked(r) THEN r.ops[i] ELSE Garbled]
          /\ inputs' = IF r.ops[1][1] = inputs THEN inputs ELSE 0
          /\ holds' = IF r.ops[1][2] # 0 THEN holds ELSE 0
          /\ held' = held \cup ({r.ops[i][3] : i \in DOMAIN r.ops} \cap model.paged)
    /\ requests' = Tail(requests)
    /\ UNCHANGED <<host, staged, here, model, passVars, stateVars, mapped, pinned,
                   window, dirty, clean>>

----------------------------------------------------------------------------
(* lock_device: a lock poisoned by a panic marks recurrent state torn; the *)
(* audio models fail closed instead.                                       *)
TornNow == torn \/ (poisoned /\ model.kind # "attention")

(* ensure_state_intact, and fail-closed locks.                             *)
Refused ==
    /\ pc = "rest" /\ TornNow
    /\ torn' = (torn \/ Recurrent)
    /\ poisoned' = (poisoned /\ model.kind = "audio")
    /\ UNCHANGED <<queueVars, model, passVars, prefixes, resident, paging, truth>>

(* Mutant of StartPass: an audio model does not settle first.              *)
StartPassUnsettled ==
    /\ pc = "rest" /\ ~TornNow
    /\ pass < MaxPasses[model.kind]
    /\ poisoned' = FALSE
    /\ pass' = pass + 1
    /\ call' \in IF model.kind = "audio" THEN {"prefill"} ELSE {"prefill", "prefix", "rows"}
    /\ prefix' \in IF call' = "rows" THEN {0} \cup prefixes ELSE {0}
    /\ pc' = "begin"
    /\ UNCHANGED <<host, staged, dsp, ret, sync, after, wait, failed, ok, model,
                   layer, seq0, piped0, torn, prefixes, resident, paging, truth>>

(* A pass takes the lock.  Only an audio model waits for an idle queue     *)
(* (`settled`) before it stages anything.                                  *)
StartPass ==
    /\ pc = "rest" /\ ~TornNow
    /\ pass < MaxPasses[model.kind]
    /\ poisoned' = FALSE
    /\ pass' = pass + 1
    /\ call' \in IF model.kind = "audio" THEN {"prefill"} ELSE {"prefill", "prefix", "rows"}
    /\ prefix' \in IF call' = "rows" THEN {0} \cup prefixes ELSE {0}
    /\ pc' = IF model.kind = "audio" THEN "quiesce" ELSE "begin"
    /\ UNCHANGED <<host, staged, dsp, ret, sync, after, wait, failed, ok, model,
                   layer, seq0, piped0, torn, prefixes, resident, paging, truth>>

Settled ==
    /\ Quiesced /\ model.kind = "audio"
    /\ pc' = "begin"
    /\ UNCHANGED <<ret, sync, after, wait, failed, ok, model, passVars, stateVars, paging, truth>>

(* The device's prefix is this pass's, and nothing was dispatched since.   *)
IsResident == prefix # 0 /\ resident = [prefix |-> prefix, seq |-> seq]

(* The host writes the pass's inputs.  A prefill from position 0 zeroes    *)
(* the recurrent layers; an encoder pass restores its prefix, unless it is *)
(* resident.                                                               *)
StageInputs ==
    /\ pc = "begin"
    /\ inputs' = pass
    /\ clean' = (requests = <<>> /\ answers = <<>> /\ (IsResident => holds = prefix))
    /\ ran' = <<>>
    /\ \/ /\ call = "prefill"
          /\ \/ Recurrent /\ resident' = None /\ holds' = 0
             \/ UNCHANGED <<resident, holds>>
       \/ /\ Encoding
          /\ resident' = None
          /\ holds' = IF prefix = 0 THEN 0 ELSE IF IsResident THEN holds ELSE prefix
    /\ pending' = <<>>
    /\ pipelined' = (pipelined \/ Encoding)
    /\ piped0' = pipelined
    /\ seq0' = seq
    /\ layer' = 1
    /\ ok' = TRUE /\ after' = "flushed"
    /\ pc' = "emit"
    /\ UNCHANGED <<seq, inflight, outstanding, cursor, staged, dsp, ret, sync, wait,
                   failed, model, call, pass, prefix, torn, poisoned, prefixes,
                   paging, dirty>>

(* A layer's operations join the batch; a cap may flush it at its end, and *)
(* the pass ends with a flush.                                             *)
EmitLayer ==
    /\ pc = "emit" /\ layer <= Layers
    /\ layer \in model.paged => layer \in mapped
    /\ pending' = Append(pending, <<pass, prefix, layer>>)
    /\ layer' = layer + 1
    /\ \/ layer < Layers /\ UNCHANGED <<pc, ret, sync>>
       \/ layer < Layers /\ BeginFlush(~pipelined, "emit")
       \/ layer = Layers /\ BeginFlush(TRUE, "closing")
    /\ UNCHANGED <<seq, inflight, outstanding, cursor, pipelined, staged, dsp, after,
                   wait, failed, ok, model, call, pass, prefix, seq0, piped0,
                   stateVars, paging, truth>>

(* An operation is refused before it joins the batch (a shape, an index).  *)
EmitFails ==
    /\ pc = "emit" /\ layer <= Layers
    /\ Fails
    /\ UNCHANGED <<host, staged, dsp, ret, sync, after, wait, failed, model,
                   passVars, stateVars, paging, truth>>
----------------------------------------------------------------------------
(* ExpertPager::page_in, before the operations that read a layer's experts. *)
NeedsExperts == pc = "emit" /\ layer <= Layers /\ layer \in model.paged \ mapped

Map ==
    \/ /\ mapped' = mapped \cup {layer}
       /\ window' = Append(window, layer)
       /\ pc' = "emit"
       /\ UNCHANGED ok
    \/ /\ Fails
       /\ UNCHANGED <<mapped, window>>

PageIn ==
    /\ NeedsExperts
    /\ Cardinality(mapped) < Budget
    /\ Map
    /\ UNCHANGED <<host, staged, dsp, ret, sync, after, wait, failed, model,
                   passVars, stateVars, pinned, held, truth>>

(* Mutant of FinishPending: the flush is left out.                         *)
FinishWithoutFlush ==
    /\ NeedsExperts
    /\ Cardinality(mapped) >= Budget
    /\ pc' = "quiesce" /\ UNCHANGED <<sync, ret>>
    /\ UNCHANGED <<host, staged, dsp, after, wait, failed, ok, model,
                   passVars, stateVars, paging, truth>>

(* The window is full: every batch that may read it has to finish.         *)
FinishPending ==
    /\ NeedsExperts
    /\ Cardinality(mapped) >= Budget
    /\ BeginFlush(TRUE, "quiesce")
    /\ UNCHANGED <<host, staged, dsp, after, wait, failed, ok, model,
                   passVars, stateVars, paging, truth>>

FinishedPending ==
    /\ Quiesced /\ model.kind # "audio" /\ call # "reset"
    /\ pc' = "evict"
    /\ UNCHANGED <<ret, sync, after, wait, failed, ok, model, passVars, stateVars, paging, truth>>

FinishTimesOut ==
    /\ QuiesceTimesOut
    /\ model.kind # "audio" /\ call # "reset"
    /\ Fails
    /\ UNCHANGED <<host, staged, dsp, ret, sync, after, wait, failed, model,
                   passVars, stateVars, paging, truth>>

(* release_dsp_reference: skipped while a batch is unanswered.             *)
Released == IF outstanding = 0 THEN held \ {Head(window)} ELSE held

(* Mutant of Evict: the layer leaves the window whether or not the driver  *)
(* unmaps it.                                                              *)
EvictForgetting ==
    /\ pc = "evict" /\ window # <<>>
    /\ held' = Released
    /\ window' = Tail(window)
    /\ \/ /\ Head(window) \notin Released
          /\ mapped' = mapped \ {Head(window)}
          /\ UNCHANGED <<pc, ok>>
       \/ /\ Fails
          /\ UNCHANGED mapped
    /\ UNCHANGED <<host, staged, dsp, ret, sync, after, wait, failed, model,
                   passVars, stateVars, pinned, truth>>

(* A layer leaves the window only once its unmap has succeeded; the driver *)
(* refuses to unmap what the DSP holds, and may refuse for its own reasons. *)
Evict ==
    /\ pc = "evict" /\ window # <<>>
    /\ held' = Released
    /\ \/ /\ Head(window) \notin Released
          /\ mapped' = mapped \ {Head(window)}
          /\ window' = Tail(window)
          /\ UNCHANGED <<pc, ok>>
       \/ /\ Fails
          /\ UNCHANGED <<mapped, window>>
    /\ UNCHANGED <<host, staged, dsp, ret, sync, after, wait, failed, model,
                   passVars, stateVars, pinned, truth>>

Evicted ==
    /\ pc = "evict" /\ window = <<>>
    /\ Map
    /\ UNCHANGED <<host, staged, dsp, ret, sync, after, wait, failed, model,
                   passVars, stateVars, pinned, held, truth>>

----------------------------------------------------------------------------
(* The end of a pass.  An encoder pass reads whatever is still in flight;  *)
(* every failed pass drops its batch, and marks recurrent state torn if a  *)
(* dispatch was attempted.                                                 *)
Closing ==
    /\ pc = "closing"
    /\ IF Encoding
       THEN BeginDrain("closed") /\ pipelined' = piped0
       ELSE pc' = "closed" /\ UNCHANGED <<after, failed, pipelined>>
    /\ UNCHANGED <<pending, seq, inflight, outstanding, cursor, staged, dsp, ret, sync,
                   wait, ok, model, passVars, stateVars, paging, truth>>

(* note_resident, and for a prefix its capture.                            *)
PassSucceeds ==
    /\ pc = "closed" /\ ok
    /\ Return
    /\ \/ /\ call = "prefix"
          /\ prefixes' = prefixes \cup {pass}
          /\ resident' = [prefix |-> pass, seq |-> seq]
          /\ holds' = pass
       \/ /\ call = "rows"
          /\ resident' = IF prefix = 0 THEN None ELSE [prefix |-> prefix, seq |-> seq]
          /\ UNCHANGED <<prefixes, holds>>
       \/ call = "prefill" /\ UNCHANGED <<prefixes, resident, holds>>
    /\ UNCHANGED <<host, staged, dsp, model, pass, torn, poisoned, paging, inputs, dirty>>

MayHaveRun == \E i \in DOMAIN requests : requests[i].seq >= seq0
Disturbed == Recurrent /\ (MayHaveRun \/ ran # <<>>)

(* Mutant of Tears: torn only if an answer told of it.                     *)
TearsIfAnswered == outstanding = 0 /\ seq # seq0

Tears == seq # seq0

PassFails ==
    /\ pc = "closed" /\ ~ok
    /\ Return
    /\ pending' = <<>>
    /\ torn' = (torn \/ (Recurrent /\ Tears))
    /\ dirty' = (dirty \/ Disturbed)
    /\ UNCHANGED <<seq, inflight, outstanding, cursor, pipelined, staged, dsp, model,
                   pass, poisoned, prefixes, resident, paging, inputs, holds>>

(* A panic of the code that stages and emits a pass unwinds through the    *)
(* device lock; the queue keeps what it was doing.                         *)
Unwinds ==
    /\ pc \in {"begin", "emit"}
    /\ Return
    /\ poisoned' = TRUE
    /\ dirty' = (dirty \/ (pc = "emit" /\ Disturbed))
    /\ UNCHANGED <<host, staged, dsp, model, pass, torn, prefixes, resident, paging,
                   inputs, holds>>

----------------------------------------------------------------------------
(* try_reset_kv and truncate_kv(0), over reset_recurrent_state.            *)
StartReset ==
    /\ pc = "rest" /\ model.kind # "audio"
    /\ torn' = TornNow /\ poisoned' = FALSE
    /\ pc' = "quiesce" /\ call' = "reset"
    /\ UNCHANGED <<host, staged, dsp, ret, sync, after, wait, failed, ok, model, pass,
                   prefix, layer, seq0, piped0, prefixes, resident, paging, truth>>

(* Mutant of ResetTimesOut: the reset keeps on waiting.                    *)
ResetWaitsOn ==
    /\ QuiesceTimesOut /\ call = "reset"
    /\ torn' = TRUE
    /\ UNCHANGED <<host, staged, dsp, here, model, passVars, poisoned, prefixes, resident,
                   paging, truth>>

ResetTimesOut ==
    /\ QuiesceTimesOut /\ call = "reset"
    /\ torn' = TRUE
    /\ Return
    /\ UNCHANGED <<host, staged, dsp, model, pass, poisoned, prefixes, resident, paging,
                   inputs, holds, dirty>>

ResetKv ==
    /\ Quiesced /\ call = "reset"
    /\ Return
    /\ torn' = FALSE /\ dirty' = FALSE
    /\ resident' = None
    /\ holds' = 0
    /\ UNCHANGED <<model, pass, poisoned, prefixes, paging, inputs>>

SettleTimesOut ==
    /\ QuiesceTimesOut /\ model.kind = "audio"
    /\ Return
    /\ UNCHANGED <<host, staged, dsp, model, pass, stateVars, paging, inputs, holds, dirty>>

HostStep ==
    \/ QueueStep /\ UNCHANGED <<model, passVars, stateVars, paging, truth>>
    \/ Settled \/ SettleTimesOut \/ StageInputs \/ EmitLayer \/ EmitFails
    \/ PageIn \/ FinishPending \/ FinishedPending \/ FinishTimesOut \/ Evict \/ Evicted
    \/ Closing \/ PassSucceeds \/ PassFails
    \/ ResetKv \/ ResetTimesOut

Next ==
    \/ HostStep \/ DspRuns
    \/ StartPass \/ StartReset \/ Refused \/ Unwinds

Spec == Init /\ [][Next]_vars

(* The host thread runs; every read of the queue ends, by its hang guard   *)
(* if the DSP does not answer, so nothing is asked of the DSP.             *)
FairSpec == Spec /\ WF_vars(HostStep)

----------------------------------------------------------------------------
Calls == {"none", "reset", "prefill", "prefix", "rows"}

(* Every count and index stays in its range, at every step of the host     *)
(* (HexagonQueueSession, ExpertPager, the locks' flags).                   *)
TypeOK ==
    /\ seq \in Nat \ {0} /\ outstanding \in Nat
    /\ cursor \in 0 .. Staging
    /\ {pipelined, sync, failed, ok, torn, poisoned, piped0, dirty, clean} \subseteq BOOLEAN
    /\ staged \in [0 .. Staging - 1 -> Nat]
    /\ wait.seq \in Nat /\ wait.stale \in 0 .. MaxStale
    /\ call \in Calls /\ layer \in 1 .. Layers + 1
    /\ mapped \subseteq model.paged /\ held \subseteq model.paged

(* The host's count of unanswered batches is right at every step, through  *)
(* write failures, timeouts, late and truncated answers and panics: it is  *)
(* what quiesce and the release of buffers rely on.                        *)
OutstandingExact == outstanding = Len(requests) + Len(answers)

(* Whoever waits for an answer waits for one that is owed, and no answer   *)
(* of a newer batch comes before it: status is never attributed to another *)
(* batch, and the desync error is never raised.                            *)
AwaitedIsOwed ==
    pc = "await" =>
        LET owed == [i \in DOMAIN answers |-> answers[i].seq]
                    \o [i \in DOMAIN requests |-> requests[i].seq]
        IN  /\ wait.seq \in Range(owed)
            /\ \A i \in DOMAIN inflight : inflight[i] \in Range(owed) /\ inflight[i] > wait.seq

(* A batch the host still counts on keeps its staging region until it has  *)
(* answered (reserve_stage), whatever wraps or fails in between.           *)
RegionsKept ==
    \A i \in DOMAIN requests :
        \/ Intact(requests[i])
        \/ pc # "await" /\ requests[i].seq \notin Range(inflight)
        \/ pc = "await" /\ requests[i].seq \notin Range(inflight) \cup {wait.seq}

(* No expert buffer is unmapped while a batch that reads it, built, sent   *)
(* or given up on, has not run.                                            *)
MappedWhileRead ==
    /\ \A i \in DOMAIN requests : \A j \in DOMAIN requests[i].ops :
          requests[i].ops[j][3] \in model.paged => requests[i].ops[j][3] \in mapped
    /\ \A j \in DOMAIN pending :
          pending[j][3] \in model.paged => pending[j][3] \in mapped

(* The window and the pinned layers are what is mapped, without repeats    *)
(* and within the budget, whichever map or unmap was refused on the way.   *)
WindowIsMapped ==
    /\ mapped = pinned \cup Range(window)
    /\ Len(window) + Cardinality(pinned) = Cardinality(mapped)
    /\ Cardinality(mapped) <= Budget

(* Recurrent state a failed or panicked pass may have moved, now or by a   *)
(* batch that is still to run, is marked, so that no pass runs over it.    *)
TornCoversDirty == pc = "rest" /\ dirty => torn \/ poisoned

(* What encoder_resident names is at the start of the KV buffer, if no     *)
(* batch was dispatched since.                                             *)
ResidentIsReal ==
    pc = "rest" /\ resident.prefix # 0 /\ resident.seq = seq /\ model.kind # "attention"
        => holds = resident.prefix

(* What the host believes of the memory the DSP writes is never better     *)
(* than the truth, whichever pass failed, unwound or was given up on.      *)
BeliefsHold == TornCoversDirty /\ ResidentIsReal

Asked == [i \in 1 .. Layers |-> <<pass, prefix, i>>]
Succeeds == pc = "closed" /\ pc' = "rest" /\ ok /\ ~poisoned'

(* A pass that returns Ok was computed as asked: every layer once, in      *)
(* order, over its own descriptors, inputs, prefix and experts.  Torn      *)
(* recurrent state, and settling, keep a pass waiting until the batches a  *)
(* timeout gave up on have answered; on an attention-only model nothing    *)
(* does, so it is held to this when it staged its inputs clear of them:    *)
(* none was owed, and none had run into the prefix that is still there.    *)
OkIsAsked == [][Succeeds /\ (clean \/ model.kind # "attention") => ran = Asked]_vars

(* hexagon_lfm2.rs, state_torn: attention-only models recompute their KV   *)
(* slots idempotently, so a pass after a failed one is as good as any.     *)
OkIsExact == [][Succeeds => ran = Asked]_vars

(* Every pass and every reset returns, whatever the DSP does not answer.   *)
CallReturns == pc # "rest" ~> pc = "rest"
=============================================================================
