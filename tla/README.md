# A formal model of cera

cera runs language, vision and audio models on the user's own machine. This
directory is the verification project beside its code: TLA+ modules of the parts
in which control, concurrency or failure is hard to test, TLC runs that check
them on small instances, and TLAPS proofs for every instance.

Every definition is translated from the Rust source; `PROJECT.json` maps each one
to its file, lines and symbol, lists the runs with their properties, one mutant
per property (a plausible bug of the code that the property catches), the
hazards and the theorems. Source paths below start at `cera/src/`.

## 1. What the system is made of

| component | state it keeps | operations | what is hard about it | what makes it correct |
|---|---|---|---|---|
| **Row pool** `backend/threadpool.rs` | dispatch lock, job cell, row cursor, (epoch, active) word, `pending`, `parked_count`, panic flag and payload, shutdown flag; per worker the word it saw last | `dispatch_rows*`, `worker_loop`, `Drop` | raw pointers to a caller's stack behind a hand-made barrier; spin, park and unpark; panics on any thread; two barrier shapes | no pointer outlives its dispatch; the barrier counts exactly the workers still owed; every row runs once; no lost wakeup; every call ends |
| **Process-wide pools, pinning** `backend/threadpool.rs` | the slots of the prefill and decode pool, `CallerPin` | `set_pool_widths`, `resize`, `pin_caller_once` | a swap while another thread dispatches into the old pool | a pool in use is never replaced; a pinned caller is restored |
| **Bundle cache** `bundle/repo.rs`, `bundle/download.rs` | cached file, `.sha256` sidecar, `.partial`, the in-process download guard | `resolve_url`, `clear_cache`, `download_to` | resumed downloads of a file the server replaced, lost hash headers, crashes between two file operations, two threads on one entry | what is answered is what was asked for; what is installed was verified; no state of the disk wedges the entry |
| **Session** `session.rs` | KV state, position and its published copy, token history, last logits, usable flag, cancel flag, last recovery report | append, generate, reset, checkpoint, restore, cancel | chunks interrupted by cancellation and device errors; stale logits; context shift | position, cache, history and logits describe the same context |
| **Session recovery** `session/recovery.rs` | the checkpoint of one message's ingestion | `Ingestion::recover`, `drop` | whether a rewind is exact is decided before and after; device errors during the repair; panics | "restored" means restored; otherwise reset or condemned |
| **Speculative decoding** `spec.rs`, `session.rs` | drafts, accepted prefix | `verify_draft_observed`, `generate_greedy_spec` | rewinds of a batch; limits of the snapshot ring; error slot drained late | the cache holds exactly the kept tokens |
| **KV cache and rewind** `kv_cache.rs`, `model/mod.rs`, `model/hexagon_lfm2.rs` | attention rows, convolution buffer, ring of 64 snapshots, `state_torn` | forward, `truncate_to`, `check_truncate_to`, shift, snapshot, restore | a convolution cannot be rewound without a snapshot; a failed device pass leaves it half advanced | a check that passes means an exact rewind |
| **Chat** `session/chat.rs` | phase, whether the last reply was ended (`terminal_committed`), both as of a checkpoint | `ingest_messages`, `replace_messages`, `generate_into`, `reset`, `raw`, checkpoint, restore | a turn fails in the middle and is undone, reset or condemned; what is still to be written after a reply has to survive all of that | a phase that says the conversation can go on is true of the cache; every turn is ended once; no half turn |
| **Hexagon command queue** `backend/hexagon/queue.rs` | the batch being built, sequence number, batches in flight, `outstanding`, staging cursor, `pipelined` | `flush_with`, `dispatch_batch_*`, `complete_oldest`, `drain`, `await_response`, `quiesce` | a read times out and the DSP goes on with the batch: late, stale, truncated answers; a staging buffer that wraps | the host's counts are exact, an answer is never taken for another batch's, no descriptor is overwritten before it was read |
| **Hexagon passes, reset, resident prefix** `model/hexagon_lfm2.rs`, `hexagon_lfm2/encoder.rs`, `audio_encoder_hexagon.rs` | `state_torn`, the poisoned device lock, `encoder_resident` | prefill, encoder pass, audio pass, `try_reset_kv` | passes fail or panic after some of their batches ran | a pass that returns Ok computed what was asked; moved state is marked |
| **Hexagon memory, expert pager** `hexagon_lfm2/pager.rs` | pinned layers, window, mapped flags | `page_in`: flush, quiesce, release, unmap, map | eviction with batches built, queued or given up on; refused maps and unmaps | no mapped buffer in use is evicted; the window is what is mapped |
| **Session handles** `cera-ffi/src/lib.rs`, `cera-ffi/src/chat.rs` | per handle a mutex around an optional session, `moved`, a share of the cancel flag; per asynchronous call a task and an armed guard | open, generate, stream, cancel, clear, reset, `into_chat`, `into_session`, drop of a handle or future | the flag is stored without the mutex, while the session changes owner; futures dropped at any moment; callbacks into the session | one owner of a session; a cancel stops the decode it is meant for; a stream's end is told once; no call waits for itself |
| **Model session gate** `model/session_gate.rs` | one lease per GPU model | acquire, release | two sessions over device-resident KV; leases lost on an error path | at most one holder, and no lease without one |
| **Audio pipeline, VAD, hotword** `audio_pipeline.rs`, `vad.rs`, `hotword.rs` | state, pre-roll history, utterance, the clocks of pipeline, voice detector, wake detector and diarizer, the wake detector's ring | `process_chunk`, `flush`, `reset`, `take_last_utterance` | onsets that reach back over detector resets, wake pre-roll and splits; a detector paused during speech; a transcription that fails in the middle of a chunk | an utterance is the audio it reports; the four clocks agree; wake words stay a cooldown apart |
| **Speaker labels** `audio_pipeline.rs`, `speaker_labeler.rs`, `live_diarizer.rs` | granted utterances, queue and parked answers, window of frames | register, push audio, poll, `finish_and_restart`, reset, fail | frames lag behind the audio; queues at their cap; utterances registered across a restart | every granted label is answered, from all of its frames |
| **Engine and loading** | loaded model, delegation | load, check modality | little state of its own | |
| **Grammar, sampler, tokenizer** | parser stack, RNG | accept, sample, encode | sequential; covered by unit and parity tests | |
| **Bundle listing, cache keys** | none | parse URLs and manifests | formatting | |
| **Model implementations, kernels** | weights, scratch | matrix kernels | floating point | parity with reference output |
| **GGUF and conversion** | none after load | parse, quantise | offline, sequential | |
| **CLI, client, other bindings** | HTTP retries | front ends | retry of requests | |

How they interact. The front ends hold a `Session`, mostly through a `Chat`. A
session appends and generates by calling the forward passes of its `Model`; those
read and advance the KV state and, on the CPU, cut every matrix product into rows
that the row pool distributes (prefill and decode have a pool each). On Hexagon
the pass becomes batches in a command queue, which a DSP runs on its own time over
memory both sides see; what a batch reads is staged by the pass and, for experts,
mapped by the pager. A pass that fails late is noticed by the session, which asks the
recovery code to rewind, reset or condemn, and the chat draws its conclusion from that.
Another thread only touches a session through its cancel
flag and published position. Foreign hosts hold handles: a conversion moves the
session from one handle to another, a future's drop reaches it through the same cancel
flag, and a session over a GPU model carries that model's one lease until it is
destroyed. The audio pipeline stands apart: it feeds each chunk to the wake or the voice
detector, cuts the stream at what they say, hands an utterance to Whisper inside the
call, and lets a diarizer, which lags, label it later. The engine obtains model files through the bundle
cache, which talks to an HTTP server and to a directory that outlives the process.

The hazards these interactions create are listed one by one, at the line where
each bites, under "hazards" in `PROJECT.json`. Those without a property say why.

## 2. The modules

| module | extends | models |
|---|---|---|
| `RowDispatch.tla` | | what `dispatch_rows` promises: every row of a call runs exactly once before it returns, or the call raises a panic of one of its own closures |
| `RowPool.tla` | | the pool that keeps that promise; one action per access to shared memory |
| `RowPoolProofs.tla` | `RowPool` | the theorems about it |
| `BundleCache.tla` | | one cache entry, the threads of one process, the server, crashes |
| `BundleProofs.tla` | `BundleCache` | the theorems about it |
| `KvState.tla` | | the KV state as a value, with the functions that append, rewind, shift, snapshot (no variables) |
| `Session.tla` | `KvState` | one session over it: raw appends, recovering ingestion, generation, speculation, reset, checkpoint, cancellation |
| `SessionProofs.tla` | `Session` | the theorems about it |
| `Transcript.tla` | | what a chat promises: a text that grows by whole messages and whole replies |
| `Chat.tla` | `Session` | the coordinator that keeps that promise, composed with the session: its phases, and what it concludes from how a call ends |
| `ChatProofs.tla` | `Chat`, `SessionProofs` | the theorems about it |
| `HexagonQueue.tla` | | the command queue, step by step of the host thread |
| `HexagonModel.tla` | `HexagonQueue` | composed with it: the DSP, passes, reset, resident prefix and the expert pager |
| `HexagonProofs.tla` | `HexagonModel` | the theorems about queue, pager and passes |
| `AudioPipeline.tla` | | the streaming pipeline with both detectors' iterators |
| `AudioProofs.tla` | `AudioPipeline` | the theorems about it |
| `Diarizer.tla` | | speaker labels: the pipeline's diarizer and the labeler in its live session |
| `DiarizerProofs.tla` | `Diarizer` | the theorems about it |
| `Handles.tla` | | the host's handles, calls and futures over a model that admits one session |
| `HandlesProofs.tla` | `Handles` | the theorems about it |
| `MCRowPool.tla`, `MCBundleCache.tla`, `MCSession.tla`, `MCChat.tla`, `MCHexagon.tla`, `MCAudioPipeline.tla`, `MCDiarizer.tla`, `MCHandles.tla` | | the constants of the instances TLC checks |

Definitions introduced by "Mutant of X" are plausible bugs of X. No specification
uses them; they are what a property has to be able to tell from the code. A module's
`TypeOK` is its type invariant; those of the pool, the cache, the session, the chat and the
Hexagon model are theorems (section 4); the others say no more than the invariants proved
beside them, and no run keeps them.

### RowPool and the code

State: `lock` is `dispatch_lock`, and `job`, `nextRow`, `state`, `pending`,
`parkedCount`, `panicked`, `payload`, `shutdown` are the fields of `Shared`. `state`
is the packed word taken apart. `token` is each thread's unpark token. `held` is the
range a thread has claimed and not yet run. `payload` names the epoch in which it
was caught, so that a property can say whose it is. `ran`, `failed`, `outcome` are
history variables.

| code | actions |
|---|---|
| `dispatch_inner`, `dispatch_body` up to the lock | `Call`, `TryLock`, `RunSerial` |
| publishing a job | `ClearStalePanic`, `WriteJob`, `SetPending`, `BumpState`, `WakeParked` |
| `steal_and_run` | `CallerClaim`, `CallerRun`, `CallerPanic`; `WorkerClaim`, `WorkerRun`, `WorkerPanic` |
| `DrainGuard::drop`, re-raise, return | `Drain`, `CheckPanic`, `Leave` |
| `worker_loop`: shutdown, epoch, spinning | `CheckShutdown`, `SeeState`, `Spin` |
| parking with `ParkedGuard` | `EnterParked`, `LookAgain`, `Park`, `Unpark`, `SpuriousUnpark`, `LeaveParked` |
| skip, copy of the job, panic capture, decrement | `SkipDispatch`, `ReadJob`, `StorePayload`, `FlagPanic`, `Decrement` |
| `RowPool::drop` | `BeginDrop`, `DropBump`, `DropUnpark`, `Join` |

A row closure may dispatch into the pool again (`Reenters`). The nested call is part of
the step that runs the row: it finds the lock held by the dispatch the row belongs to, runs
its own rows serially and returns, or panics as the row. `NestedEnds` is that step's guard:
it asks that the lock be held, which `NoUseAfterReturn` and `LockInv` show it always is, and
in its mutant, a nested call that waits for the lock, the row never ends. A row of a serial
call holds no lock, so its nested call is like one of a caller.

A caller goes idle → lock → stale → job → pending → bump → wake → (steal ⇄ run) →
drain → check → return or raise, or takes the serial path when the lock is held. A
worker goes top → load → seen → dispatched → (steal ⇄ run) → done → top, with a
detour caught → flag on a panic, and idle → parking → doubt → parked → unparked when
its spins are used up. `ActiveBarrier` selects the prefill pool (only workers below
the packed active count answer) or the decode pool (all of them do).

Coarser than the code: memory is sequentially consistent (the code uses acquire,
release and SeqCst so that it may be read that way; that argument is not checked);
the loop of `unpark` calls is one step; a poisoned lock is a free lock, as
`idle_guard` makes it; epochs do not wrap; the length of a spin is any. The callers'
width caps (tail rows, work per worker, statistics, pinning) appear only as
`ActiveCaps`. `dispatch_range_inner` follows the same protocol and is not repeated.

### BundleCache and the code

State: `dest`, `sidecar`, `partial` are the three files of an entry; `active` is
`ActiveDownloadGuard`; `req` and `dl` are locals of `resolve_url` and `download_to`;
`server` is the version published now. A file is a sequence of blocks tagged with
the version that sent them, which makes a splice of two versions visible, and stands
for its own SHA-256 (taken to be injective).

| code | actions |
|---|---|
| `resolve_url`, `head_info` | `Resolve`, `ProbeHead`, `Look` |
| `cache_hit_valid`, `hash_matches` | `TrustSidecar`, `RejectSidecar`, `Rehash`, `RepairSidecar`, `CheckSize` |
| `ActiveDownloadGuard`, `wait_for_active_download` | `Acquire`, `WaitForActive` |
| one attempt of `download_to`, by the answer it gets | `ServeRest` (206), `ServeWhole` (200), `RangeNotSatisfiable` (416), `BadRange`, `RequestFails`, `RequestRefused` |
| body, verification, installation | `Receive`, `StreamBreaks`, `Verify`, `UnlinkDest`, `Rename`, `RenameFails`, `PersistSidecar` |
| `clear_cache` | `ClearCache` |
| environment | `Publish`, `Crash` |

A crash forgets every local and the guard and keeps the disk. A sidecar write may
fail and leave the old one, or one cut short, which reads as none. `pins` is
what the callers of a behaviour pin, chosen at the start and never changed: where all of
them pin the same version (`OnePin`) more is promised than where they differ. There is one
process: another on the same store would share `.partial` outside the guard (listed
as a hazard without a property). Paths, cache keys and manifests are left out.

### KvState, Session and the code

A KV state is a record: `cells` (one per context position, for all attention
layers), `conv` (the last `Taps` rows, for all convolution layers), `ring` (the
snapshots of `ConvHistory`), `torn` (the accelerator's `state_torn`), and `backend`, whose
state it is: chosen when a session is made, it decides whether a rewind is checked or
counted on and whether a shift or a failure is possible. Two auxiliary
facts that no code reads make damage visible: a cell is `clean` if the convolutions
had its true predecessors when it was computed, and `dropped` says that a context
shift took rows out of the middle, after which the code admits a transient.
`InTune`, `Sound` and `Context` say when a state is what an undisturbed pass leaves,
and what the next pass reads.

`Session.tla` keeps `kv`, `pos` (`current_pos`), `published` (`position_atomic`), `history`
(`token_history`), `logits` (`last_logits`, as the context they follow from),
`usable`, `cancel`, `report` (`last_ingest_recovery`), `stored` (a checkpoint) and
`call`, the operation in progress with its locals. `hole` is auxiliary: the code has
returned an error, or an unproven rewind, and the damage is still there.

| code | actions |
|---|---|
| `append_tokens`, `append_embeddings`, `ensure_rows_fit` | `StartAppend`, `RefuseSegment`, `BeginSegment`, `BeginShifted`, `PrefillChunk`, `EmbeddingChunk`, `ChunkFaults` |
| `with_ingest_recovery`, `Ingestion::recover`, `Ingestion::drop` | `StartIngest`, `LeaveUnchanged`, `RewindToBefore`, `ResetInstead`, `GiveUp`, `IngestUnwinds` |
| `generate*` | `GenerateNothing`, `StartGenerate`, `DecodeStep`, `DecodeStops`, `DecodeFaults` |
| `generate_greedy_spec`, `verify_draft_observed` | `SpecStops`, `SpecSingle`, `SpecSingleFaults`, `SpecRound`, `VerificationFaults` |
| `reset`, `checkpoint`, `restore`, the cancel handle | `Reset`, `ResetFails`, `Checkpoint`, `Restore`, `Cancel`, `ClearCancel` |

Interleaving: the owner makes one call at a time; `Cancel` can come between any two
steps of it. A forward pass, the bookkeeping after it and the next look at the cancel
flag are one step: a request that falls between them shows up a chunk later, like one
that came after the look. Device failures strike any pass, before or after a batch
was dispatched, and after any of its rows.

Coarser than the code: one attention and one convolution layer stand for all of a
kind; which token a model prefers, what is drafted and how much of it is accepted are
arbitrary, which covers every model and drafter; numbers, RoPE, f16 and TurboQuant
storage are not represented. Not modelled: the decode loop of audio output, grammar,
the sampler's random stream, the drafter's own state, hidden-state calls, adapters,
panics out of a raw call, Mamba-2 and DeltaNet layers, and the Metal and wgpu
backends, whose state lives in their kernels.

### HexagonQueue, HexagonModel and the code

The host is one thread: the model's device lock makes passes and resets exclude each
other, and `call` says what holds it. `pc` is where that thread is, `ret` where a flush
returns to, `after` where a drain does; `wait` holds the locals of `await_response`.
The DSP (`DspRuns`) runs and answers the oldest request between any two host steps, or
never. An operation is a tuple of its pass, the encoder prefix it builds on and its
layer. Five auxiliary variables say what the DSP's memory is: whose `inputs` scratch
holds, which prefix the KV buffer starts with (`holds`), what the DSP `ran`, whether a
failed pass may have moved recurrent state (`dirty`), and whether the pass had a `clean`
start (nothing asked or unread, and a prefix that is taken for resident is what the KV buffer
holds). A batch that runs over descriptors, inputs, experts or a prefix other
than its own leaves `Garbled` in `ran`.

| code | actions |
|---|---|
| `flush_with`, `reserve_stage`, `dispatch_batch_buffer`, `dispatch_batch_async` | `FlushNothing`, `FlushTooLarge`, `FlushFits`, `FlushWraps`, `SendAfterWrap` |
| `drain`, `complete_oldest` | `DrainNext`, `DrainEnds` |
| `await_response` | `ReadCurrent`, `ReadStale`, `ReadTooStale`, `ReadTruncated`, `ReadTimesOut` |
| `quiesce` | `QuiesceReads`, and `Quiesced`, `QuiesceTimesOut` within its callers' steps |
| `lock_device`, `ensure_state_intact`, `settled` | `StartPass`, `Refused`, `Settled`, `SettleTimesOut` |
| a pass: staging, layers, cleanup, `note_resident`, a panic | `StageInputs`, `EmitLayer`, `EmitFails`, `Closing`, `PassSucceeds`, `PassFails`, `Unwinds` |
| `ExpertPager::new`, `page_in`, `release_dsp_reference` | `Init`, `PageIn`, `FinishPending`, `FinishedPending`, `FinishTimesOut`, `Evict`, `Evicted` |
| `try_reset_kv`, `reset_recurrent_state` | `StartReset`, `ResetKv`, `ResetTimesOut` |

Coarser than the code: a layer is one operation of size one; a cap on descriptors,
tensors or bytes is any flush between two layers; decode is a prefill that may start at
any position. Not modelled: templates resident on the DSP (each decode drops and builds
them again), staged batches that are exported and loaded, encoder passes longer than
one chunk, profiling and step mode, allocation, the drop of a pager.

### Chat, Transcript and the code

`Chat.tla` extends `Session.tla`: a chat's call begins one of the session's, the
session's own steps run, and when they end the phase follows from what the session
reports. `phase` is `SessionPhase`, `terminal` is `terminal_committed`, `turn` holds
the locals of the call in progress, `kept` what a checkpoint stores of both.

| code | actions |
|---|---|
| `ingest_messages`, `prepare` | `ChatIngest`, then `Ingesting` until `IngestEnds` |
| `replace_messages` | `ChatReplace`, `ChatReplaceFails`, then `Ingesting` |
| `generate_into`, `DecodeGuard`, the observations of a decode | `ChatGenerateNothing`, `ChatGenerate`, `Replying`, `ReplyUnwinds` |
| `reset`, `raw`, checkpoint, restore | `ChatReset`, `ChatResetFails`, `Raw`, `RawAppend`, `ChatCheckpoint`, `ChatRestore` |

`IngestEnds` takes the four outcomes of `Ingestion::recover` apart as `chat.rs` does;
over a replacement, "unchanged" and "restored" mean the emptied context. What the
template puts between two turns is the end token and a newline; everything else a
template, tool or grammar renders is a message from `Turns`. Raw access is `raw()`
followed by appends: `session_mut` hands out the session without marking the phase, so
whoever uses it takes over the promise, and it is not an action. Checkpoint files and
the JSON helpers are left out.

`Transcript` has no calls in progress: under the refinement the caller's view changes
when a call ends, by the whole message with the ends it needs, or the whole reply, or
not at all, or to nothing.

### AudioPipeline, Diarizer and the code

In `AudioPipeline` time is counted in samples and a sample is named by its place in the
accepted stream, so that `history`, `utterance`, `last` and the wake detector's ring show
a gap, an overlap or old audio. `vad` and `hot` are the fields of the two iterators,
`pausedAt` and `vadOffset` the pipeline's notes about their clocks; `call` is the call in
progress with what is left of its chunk, `ending` an utterance on its way through
`end_utterance`. `diarizer` is only where its session began and how much it heard.

| code | actions |
|---|---|
| `process_chunk`, one round of `process_chunk_inner` | `ProcessChunk`, then `ListenForHotword`, `SpeakWithoutVad`, `ListenOn`, `SpeechStarts`, `SpeechEnds`, `Split` by state and verdict |
| `end_utterance`, `finish_utterance` | `FinishSilently`, `Transcribed`, `TranscriptionFails` |
| the diarizer's turn, the end of a call | `ChunkReturns`, `FlushReturns` |
| `flush`, `reset`, `take_last_utterance` | `Flush`, `Reset`, `TakeLastUtterance` |

What a network says of a window is any verdict, so every model is covered; the
hysteresis, padding and cooldown around it are the code's. A transcription that was
cancelled is one that returned.

`Diarizer` takes utterances as inputs: those the pipeline transcribed, which lie on the stream
and end by now, and those a caller registers with any pair of finite times (`Spans`) or with a
time that is none (`Unplaceable`). A span is moved to its session's clock, where nothing is
before 0 (`SessionLocal`), and a reversed one becomes the point at its start (`Clamped`), while
the pipeline reports the times it was given. `queue`,
`parked` and `lost` are the labeler's, `pending` and `nextId` the pipeline's, and a frame
is its number: a label is the set of frames that were weighed for it.

| code | actions |
|---|---|
| `register_transcribed`, `add_utterance` | `Transcribed`, `Add` |
| `push_audio`, `poll`, and their failure | `Hear`, `HearFails`, `HearWithoutDiarizer` |
| `finish_and_restart`, `reset` | `Flush`, `FlushFails`, `Reset` |

Not modelled: errors of the networks themselves, the wake detector's own voice gate, the
queue of 128 events, the latch that cancels a transcription, the builder's options, 8 kHz
detectors, a wake detector that is attached but not required; the diarizer's network,
caches and choice among speakers.

### Handles and the code

A handle's record is its mutex (`holder`, `poisoned`), the session in it (`core`, or
None), `moved`, the share of the cancel flag (`flag`) and whether the host still `held`
it. A call's record is where its thread, worker or queued task is (`pc`), its `future`,
and how its generation went; `told`, `extra` and `owed` are auxiliary and follow the
cancels.

| code | actions |
|---|---|
| `new_session`: the gate, then `Session::new` | `BeginOpen`, `Acquire`, `Build` |
| the method's call, `spawn_blocking` | `Begin`, `Start` |
| `lock_inner`, release of the guard | `Lock`, `Unlock` |
| `generate_inner` | `Unready`, `Enter`, `Loop`, `Forward`, `Exit` (its `CancelGuard`) |
| `notify_done`, with a callback into the session | `OnDone` |
| `reset` | `Reset` |
| `from_session`, `into_session` | `Take`, then `Validate` or `ReclaimClear`, `Hand` |
| `cancel`, `clear_cancel` | `Check`, then `StoreCancel` or `StoreClear` |
| the future of an asynchronous call: resolved, dropped | `Resolve`; `DropFuture`, `GuardCheck`, `GuardStore` |
| a call's end, an `Arc` let go of, the last one gone | `Forget`, `Release`, `DropHandle` |

Coarser than the code: a session is its identity (what it holds is the subject of
`Session.tla`); `reset` stands for every method that takes the mutex and clears the flag
when it succeeds; options that do not parse are a refusal; sink callbacks within a
generation do not take the mutex, as the documentation demands of them; an aborted task's
closure, with its share of the handle, is dropped when a worker comes to it (tokio's
behaviour). Not modelled: appends and the other methods under the mutex, which hold it and
move nothing; `phase` and `recovery_status`, which only try it; `new_chat_session`; the
constructors' guard, which aborts and cancels nothing.

## 3. What is checked

| run | properties | shows |
|---|---|---|
| `rowpool_prefill` | `NoUseAfterReturn`, `BarrierCountsDebtors`, `NoSleepingDebtor`, `RaisesOwnPayload`, `ImplementsDispatch` | the prefill pool keeps RowDispatch's promise; its barrier, claims, parking and panics are right |
| `rowpool_decode` | `CallEnds`, `DropEnds` | the decode pool, whose barrier waits for every worker: every call ends though another caller contends and row closures dispatch again; dropping the pool joins every worker |
| `bundle` | `InstallIsVerified`, `ServedIsWanted`, `DestIsWhole`, `Recovers`, `ResolveEnds` | a known hash is always enforced; with one pinned hash nothing else is ever answered or left on disk; no disk state wedges the entry |
| `session` | `FrontierAgrees`, `SeedMatchesContext`, `RestoredIsExact`, `CancelledIsResumable` | cache, position, history and logits agree through cancels, shifts, undone ingestions, speculation and restores, on the CPU and on a device that fails in any pass and may not answer a reset |
| `hexagon` | `OutstandingExact`, `AwaitedIsOwed`, `RegionsKept`, `MappedWhileRead`, `WindowIsMapped`, `BeliefsHold`, `OkIsAsked`, `CallReturns` | queue, passes and pager against a DSP that answers late, wrongly or never: counts, regions, mappings and marks stay true, Ok means computed as asked, and every call returns |
| `chat` | `PhaseIsTrue`, `TurnsAreClosed`, `ImplementsTranscript` | phases are true of the cache, turns are ended exactly once, every call is atomic to its caller |
| `audio_pipeline` | `BuffersAreSpans`, `VadClockAgrees`, `DiarizerClockAgrees`, `OnsetIsPlaced`, `WakesApart` | for every chunking and verdict an utterance is the audio it reports, the clocks agree after any error, flush or split, the onset is kept, wake words stay apart |
| `speaker_labels` | `EveryGrantIsHeld`, `WholeSpanIsWeighed` | a granted label is never lost and is drawn from all of its utterance's frames, with the queues at their cap and the diarizer lagging, stopped or restarted |
| `handles` | `MovedIsEmpty`, `GateGuardsModel`, `SinkHearsTheEnd`, `CancelStopsDecode`, `HolderNeverWaits`, `CancelIsSpent` | two calls at a time, with refusals, panics and dropped futures: one owner of a session, the gate taken exactly while there is one, a stream's end told once on every path, a cancel that stops the decode within a token and is spent on one, and nobody waiting while holding a mutex |
| `bundle_repin`, `spec_ring`, `stale_cancel` | `ServedIsPinned`, `GeneratedIsResident`, `OnlyTheCallUnderWay`, violated | section 5 |

Three names stand for conjunctions of what is told apart in the module: `BeliefsHold` for
`TornCoversDirty` and `ResidentIsReal`, `BuffersAreSpans` for `UtteranceIsItsSpan`,
`LastIsReported` and `HistoryIsRecent`, `OnsetIsPlaced` for `OnsetNotClipped` and
`SpeechAfterWake`.

### Bounds

* **Pool.** Prefill: two callers (one inside a dispatch, one that contends), three
  threads (the caller, a worker that takes part and one that may sit out), worker 1 at
  half weight so that claims are scaled, two calls so that a second dispatch meets the
  leftovers of the first: late workers, stale panics, parked threads. Three rows are
  enough for every thread to hold a range while one is left; `ActiveCaps` {2, 3} lets
  the width differ between the two calls, where the barrier shapes differ. Decode: two
  callers that contend or follow each other, three threads, of which one worker is idle in a
  dispatch two wide but has to come by all the same; two rows, one for each of the others.
  In both runs every row closure dispatches again (`Reenters`).
* **Bundle.** Two resolvers, two versions of one and two blocks (so that a partial is
  shorter than, equal to or longer than the remote file), `MaxAttempts` 2 instead of 5
  (a first and a last attempt), at most `MaxFaults` = 3 failures of any kind, enough
  for a crash, a lost sidecar and a broken request together; `PinSets` of callers that all
  pin the new version, that pin it or nothing, and that differ.
* **Session.** Four positions, of which a shift keeps one; a prompt of one row, an image
  of two and a message of three, in chunks of one; a ring of two snapshots instead of 64
  (unused on the device); replies and drafts of two tokens. A segment can fit, just fit,
  overflow by one, need a shift, be refused; the ring can hold the snapshot or have evicted
  it; and a verification batch of three outgrows both ring and convolution, which empties the
  state under a position that runs on. A session of either backend never becomes one of the
  other. A text prompt of two rows, cancelled half-way, does not fit this instance; the
  theorems cover it.
* **Hexagon.** Four layers with two that fit the budget, so that one pass rotates the
  window twice; a staging buffer of two operations and two batches in flight, so that a
  flush can fit behind another, wrap, and meet the cap; one stale answer tolerated,
  which two batches given up on exceed; three passes on the recurrent model (a prefix,
  a pass that finds it resident or not, and one after a failure), two on the others.
  The kinds of model never mix in one behaviour.
* **Chat.** Eight positions: a text turn, its reply, its end, and a second turn with an
  image, in chunks of two rows. A ring of two snapshots and drafts of two, so that a
  verification batch of three outgrows the ring, in the proportion of 65 rows to 64. All
  three backends: on the CPU the ways an ingestion can end are the most, a device can
  fail in any pass and may not answer a reset, and the defaults cannot rewind.
* **Audio.** Eleven samples in chunks of one and three, shorter and longer than the
  windows of two; an utterance of at most five, so that the stream is split and a second
  utterance or wake word follows; a ring of four and a pre-roll cap of three, which both
  fill; five sets of attached models.
* **Speaker labels.** A stream of five, two utterances with any two times from one before it to its
  end, reversed pairs and points included, frames of two and a history of one frame, so that an utterance is cut off unless it is waited for; `max_pending` 0, 1
  and 2.
* **Handles.** Two calls at a time, one in the way of the other, and `Budget` = 4 host
  calls: enough to open, convert and convert back, to decode and cancel what decodes, or to
  drop a future and use what it leaves. Two handles are what a conversion needs, a slot
  whose handle was dropped being free for the next; two sessions, the second of which the
  gate must refuse while the first lives; two tokens, so that one more after a cancel can
  be told from two. Of the two generations the run takes the one with a sink.
* `spec_ring` has the proportion of ring and draft that `chat` has; `stale_cancel` one
  handle and only generations.

Callers are symmetric in `rowpool_prefill`, handles, sessions and calls in the two runs of
the handles, none of which checks liveness. Distinct states: `rowpool_prefill` 1.6 million,
`rowpool_decode` 0.44, `bundle` 0.35, `session` 3.9, `hexagon` 0.73, `chat` 0.89,
`audio_pipeline` 0.14, `speaker_labels` 0.22, `handles` 2.7 million.

Deadlock is checked except in `hexagon`, where after the last of the bounded passes nothing
is left to do, and in the runs of the handles, whose host stops after its last call.

### Fairness

* **Pool.** Weak fairness on each caller's own steps, on each worker's and on the
  rest of a drop that has begun: the operating system runs every thread that can run.
  None on `SpuriousUnpark` (nobody is owed one, and a proof of progress must not lean
  on it), on `Call`, or on `BeginDrop`. A parked thread without a token has no step,
  so a lost wakeup shows as a call that never ends. Liveness is checked for the decode
  barrier; for the prefill barrier `NoSleepingDebtor` says, as an invariant, that
  nobody who is waited for sleeps without a wakeup on its way.
* **Bundle.** Weak fairness on each resolver's step and on resolving again. The server
  need not publish, and the failures are finitely many: `Recovers` and `ResolveEnds`
  speak about the time after the newest version is out, when the retries are over, and
  about callers that ask for what can be had (`Obtainable`).
* **Hexagon.** Weak fairness on the host thread alone: `CallReturns` asks nothing of the
  DSP. That is what the hang guard of 30 s on every read buys; in the model it is
  `ReadTimesOut` and `QuiesceTimesOut`, enabled exactly when there is nothing to read.
* **Session, Chat, audio, speaker labels, handles.** No liveness is claimed. The calls of
  the first four are loops bounded by their input; where handles could wait for each other,
  `HolderNeverWaits` says that none does. (`AudioPipeline` states weak fairness on the steps
  of a call that has begun, since it is one thread; no property leans on it.)

## 4. What is proved

### Row pool

`RowPoolProofs.tla` holds theorems for any number of callers and workers, any rows,
weights, floors, caps and calls, and both barrier shapes. The first are about the barrier:

* `RowPoolType`: `Spec => []TypeOK`. The arithmetic behind it: a dispatch that needs
  the pool is between 2 and `NumThreads` wide, a chunk and a claim are never empty.
* `RowPoolBarrier`: `Spec => []BarrierInv`, the inductive invariant.
* `RowPoolNoUseAfterReturn`: `Spec => []NoUseAfterReturn`, the safety argument of the
  raw pointers in `Job`.
* `RowPoolBarrierCountsDebtors`: `Spec => []BarrierCountsDebtors`, `pending` is at
  every moment the number of workers the dispatch still waits for.

They rest on `PoolAssumption` (a pool has a thread; weights are between 1 and full;
the "no caller" mark is no caller) and `ArgumentAssumption` (floors are positive,
caps at most the pool's width). TLC evaluates both in every pool run.

Neither property is inductive: that a worker holding a job is waited for depends on
the count being right, the count on who has seen which epoch, and that on dispatches
excluding each other. `BarrierInv` says all of it at once:

| conjunct | says | needed because |
|---|---|---|
| `TypeOK` | every variable has its type | arithmetic on counts and epochs |
| `LockInv` | whoever publishes holds the lock, and the job cell and active count are its own | two dispatches never mix their job, count and word |
| `DropInv` | a drop starts after the last call | the drop bumps the word without a barrier |
| `EpochInv` | no worker is ahead of the word, and one epoch is one word | a bump makes every worker unequal to the word, hence a debtor |
| `ServingInv` | a worker that has seen its epoch serves the dispatch in flight, with its job | this is what a late worker would break |
| `QuietInv` | between dispatches nobody owes | the next dispatch may set `pending` from scratch |
| `PendingInv` | `pending` counts the debtors, or those about to be made | the drain reads a number, not a set |

Each conjunct has its own step lemma, with one case per action that can disturb it.
The two that carry the argument: at `BumpState` the debtors are exactly the workers
the barrier shape waits for (`BumpDebtors`), and at `Drain` a zero count means an
empty set of debtors, so nobody holds the job (`DrainedPool`).

On `BarrierInv` rest the promise to the caller and the wakeups:

* `RowPoolImplementsDispatch`: `Spec => ImplementsDispatch`, the refinement of
  `RowDispatch` under the mapping the run checks: the initial states map to its initial
  states, rows that run, or panic, to `RunRows`, the end of a call to `Return` or `Raise`,
  every other step to a stutter.
* `RowPoolRaisesOwnPayload`: `Spec => []RaisesOwnPayload`. A call never raises the payload
  of a panic of an earlier one.
* `RowPoolDispatchInv`: `Spec => []DispatchInv`, the invariant of both: below the cursor
  every row of the call in flight has run, or is held by exactly one thread, or a panic has
  taken it (`FreshInv`, `HeldInv`, `ClaimInv`); the flag and the payload are those of this
  dispatch (`PanicInv`); and how a call ends follows from what its rows did (`EndInv`).
  Exactly once follows from the claims being disjoint, all of them from the drain: at zero
  debtors nobody holds a range, and the cursor is past the last row.
* `RowPoolNoSleepingDebtor`: `Spec => []NoSleepingDebtor`. Who is waited for never sleeps
  without a wakeup on its way. `SleepInv` counts the workers inside `ParkedGuard` exactly,
  and gives a token to every debtor that got past its second look before it owed: the store
  of `parked_count` and the bump of the word cannot both be missed.

### Session

`SessionProofs.tla` holds theorems for any backend, number of taps, ring, context length,
chunk, draft and reply length, any prompts and messages, and any tokens:

* `SessionFrontierAgrees`: `Spec => []FrontierAgrees`. Between calls position, published
  position and cache agree, and the cache is what one undisturbed pass leaves.
* `SessionSeedMatchesContext`: `Spec => []SeedMatchesContext`. Logits never outlive the
  context they follow from.
* `SessionRestoredIsExact`: `Spec => RestoredIsExact`. "Restored" means the context,
  position, history and logits of before the call, with a pending cancel still pending.
* `SessionCancelledIsResumable`: `Spec => CancelledIsResumable`. A cancelled append says
  how many of its rows are in, and exactly those are.
* `SessionTypeOK` and `SessionInvariant`: `Spec => []TypeOK`, `Spec => []SessionInv`.

They rest on `KvAssumption` (the three backends; at least one tap and one snapshot) and
`SessionAssumption` (segments are well-formed, a message has one; a context and a chunk
have room for a row). The rewinds, shifts and failures of `KvState` are functions of a
state, so each has a lemma that says what it leaves (`Reaches`, `CanTake`, `Faithful`,
`RingTop`), and the step lemmas never open a state again. `SessionInv`, stated at the end
of `Session.tla`:

| conjunct | says | needed because |
|---|---|---|
| `StateTyped`, `CallTyped` | every variable and the locals of the call have their types; a state is `Marked`, each cell tells whether the convolutions had its true predecessors | the functions of `KvState` are applied within their domains |
| `RoomInv` | what is left of a begun segment fits | a chunk never runs past the context |
| `EdgeInv` | the cache stands where the next row goes: at the position, at a soft segment's first missing row, at the next token of a reply; on the CPU it may be behind, never ahead, and a device never behind | a rewind to the position is possible or is seen not to be; `FrontierAgrees` is its case at rest |
| `SeedInv` | logits that may start or continue a generation are those of the state | `SeedMatchesContext` is its case at rest |
| `GuardInv` | the checkpoint of an ingestion describes a state the session rested in; while rows were only appended, the state still begins with it and the ring still reaches it | the repair decides by `check_truncate_to`, and only this makes its answer right |
| `SegmentInv` | how much of a raw segment is in | the contract of a cancelled append |
| `StoredInv` | a stored checkpoint describes a state a session rested in | `Restore` brings back all of the above |

Each action has one lemma that all conjuncts hold after it; what several share (an append
returns, a generation returns, the state is emptied) is a lemma about that end. The
property `hole` excuses nothing but what the run excuses (section 5).

### Chat

`ChatProofs.tla` extends `SessionProofs.tla` and holds theorems for any backend, messages,
context length, chunk, draft and reply length:

* `ChatPhaseIsTrue`: `ChatSpec => []PhaseIsTrue`. A phase that says the conversation can go
  on is true of the session.
* `ChatImplementsTranscript`: `ChatSpec => ImplementsTranscript`, the refinement of
  `Transcript` under the mapping the run checks: the call's last step maps to one step of
  the promise, every other to a stutter.
* `ChatTurnsAreClosed`: `ChatSpec => []TurnsAreClosed`. Every end of a turn has its newline
  and the next message behind it, every message but the first an end before it.
* `ChatInvariant` and `ChatTypesOK`: `ChatSpec => []ChatInv`, `ChatSpec => []ChatTypeOK`.

They rest on the assumptions of the session, on `ChatAssumption` (`n_keep` is 0, which
`Chat::new` demands; what Chat renders, alone or behind the end of a turn, is among the
messages the session may be asked to ingest; a model's tokens are neither of the two rows
only Chat writes) and on `NothingAssumption` (None is told apart from what it stands beside).
`ChatTurnsAreClosed` alone also uses `MarkerAssumption`: a row tells whether it opens a
message, ends a turn or is anything else. A rendered message may well spell an end of turn
itself; Chat and the session never look at the rows they carry, so the rows may be taken as
labelled with who wrote them, and the property counts the ends Chat writes.
`ChatInv`, stated at the end of `Chat.tla`, is the session's invariant and

| conjunct | says | needed because |
|---|---|---|
| `PhaseInv` | what each phase says of the session at rest; during a call of Chat the session is its own and the phase is `unusable` | `PhaseIsTrue` follows from it with `SessionInv` |
| `KeptInv` | what is stored is as the phase stored with it says | a restore brings the phase back with the session |
| `IngestInv` | what is in the cache and what is left of the message make up the text before, its end, and one message; the session's checkpoint is that text | an ingestion that completes has appended a whole message, one that is undone is back at the text |
| `ReplyInv` | the cache is the prompt and as many tokens as were emitted; before the first, the logits are the prompt's | a reply that ends, is cancelled or fails has appended what it said, and none at all leaves the prompt ready |

Every call of a chat is shown to keep `SessionInv` first (`ChatSession`): most are calls of
the session, and replacing the history and unwinding a reply have lemmas of their own. What
is added is about the text. `ReplySays` says what a round of a reply, single or speculated,
leaves in the cache; `IngestSteps` takes a step of an ingestion apart into the five ways it
can go (on, to its end, back, to nothing, to nothing known); with these each conjunct has a
lemma per call. The refinement then has one lemma per promised step (`AsIngest`, `AsReplace`,
`AsReply`, `AsFail`, `AsReset`, `AsRaw`) and one per call for when the caller sees it. Nothing
of the session's insides is opened again: that a message grows by whole chunks in order, over
shifts that cannot happen with `n_keep` 0, is `AppendKeeps`. That turns are closed then
follows from the promise alone: `ToldOn` shows it of every step of `Transcript`, of the text
and of the stored one.

### Queue, pager and passes

`HexagonProofs.tla` holds theorems for any set of models, any number of layers,
budget, staging size, number of batches in flight and of stale answers, and any number
of passes, whatever the DSP answers and the driver refuses. The first four are about the counts and the pager:

* `HexagonType`: `Spec => []TypeOK`.
* `HexagonOutstandingExact`: `Spec => []OutstandingExact`. `outstanding` is the number
  of batches written and unanswered at every step of the host; `quiesce` and the release
  of a buffer rest on it.
* `HexagonMappedWhileRead`: `Spec => []MappedWhileRead`. No buffer is unmapped under a
  batch that reads it.
* `HexagonWindowIsMapped`: `Spec => []WindowIsMapped`. The window and the pinned layers
  are what is mapped, each once, within the budget.

They rest on `QueueAssumption` (a staging buffer and a flight of at least one) and
`ModelAssumption` (the experts of all layers fit, or at least those of two: what
`ExpertPager::new` makes sure of). The inductive invariant `IInv` adds to the four, and
to the types of the sequences:

| conjunct | says | needed because |
|---|---|---|
| `SentInv` | where a flush returns, nothing is pending; where an eviction starts, nothing is asked of the DSP either | the pager unmaps after a flush and a quiesce, and only their order makes that safe |
| `StageInv` | a batch that waits for the staging buffer to drain fits it | it is sent to offset 0 without another look |
| `NeedInv` | a flush for the pager's sake, with the drains and waits inside it, is for a layer that is paged and not mapped | the map at its end adds a new layer to the window |
| `WindowInv` | window and pinned layers are disjoint, the window repeats nothing, and the pinned layers leave room for two unless all fit | an emptied window has room for one more |

The lemma `Moves` says what any step may do to the batch, the staging buffer, the
requests and answers, the flight, the wait and the window; the step lemmas for types,
counts, window and mappings argue from those few moves, and only `PlaceStep`, about
where the host is, goes action by action. TLC checked each conjunct first, with a
budget of two and of three layers.

On `IInv` rest two more invariants and the theorems about answers and passes:

* `HexagonAwaitedIsOwed`: `Spec => []AwaitedIsOwed`. The answer a wait is for is among
  those still to come, so no wait takes another batch's for it.
* `HexagonRegionsKept`: `Spec => []RegionsKept`. No batch the host still counts on has its
  descriptors overwritten before it was read.
* `HexagonBeliefsHold`: `Spec => []BeliefsHold`. Recurrent state that a failed pass may have
  moved is marked, and what `encoder_resident` names is there.
* `HexagonOkIsAsked`: `Spec => OkIsAsked`. A pass that returns Ok was computed as asked.

`BatchInv` says that answers, requests and flight together ascend (`OrderInv`), that what is
awaited, and then what is in flight, is still owed (`AwaitInv`), where nothing is in
flight (`FlightPlaces`), and that counted batches lie in front of the cursor with their
descriptors whole (`KeptInv`). `PassInv` says when none of an earlier pass's batches is left
to run (`StartedInv`), that disturbed state is marked (`TornInv`), what a resident prefix is
worth (`ResidentInv`), and that the layers a good pass has emitted, requested and had run
make up, in this order, all of them so far (`RunInv`). `OkIsAsked` did not follow at first:
its premise, that the pass found the queue idle, was too weak for a prefix taken for
resident (section 5), which no instance small enough for TLC shows.

### Bundle cache

`BundleProofs.tla` holds theorems for any number of threads, versions of any
size, attempts and failures:

* `BundleType`: `Spec => []TypeOK`.
* `BundleHashCoversPartial`: `Spec => []HashCoversPartial`. What is hashed is what is
  renamed.
* `BundleInstallIsVerified`: `Spec => []InstallIsVerified`. A rename installs only what
  has the expected hash.
* `BundleDestIsWhole` and `BundleServedIsWanted`: `Spec => []DestIsWhole` and
  `Spec => []ServedIsWanted`. When every caller pins the same version (`OnePin`, the
  premise within both), the entry is that version or absent and every answer is the one
  asked for. The premise is needed: with two pins `bundle_repin` refutes it (section 5).

They rest on `CacheAssumption` (a version has a positive length; `Nothing` is neither a
thread nor the content of a file). The inductive invariant `IInv` adds to types and
`HashCoversPartial`: `GuardInv`, whoever is between taking the guard and leaving is its
holder, so no other thread touches the partial (`OthersKept`); `StreamInv`, a body in
progress belongs to a published version; `VerifiedInv`, past the verification the hash
is the expected one, if there is one; `InstallIsVerified` says so of the file after the
rename. `OnePinInv` adds, for one pin, that every request and every expectation is for it.

### Audio pipeline

`AudioProofs.tla` holds theorems for any windows, strides, limits, chunks, length of
the stream and sets of models, whatever the networks say:

* `AudioDiarizerClock`: `Spec => []DiarizerClockAgrees`. Whatever part of a chunk was
  accepted before a failed transcription, the diarizer heard exactly that.
* `AudioWakesApart`: `Spec => WakesApart`. Two wake words are a cooldown apart.
* `AudioBuffersAreSpans`: `Spec => []BuffersAreSpans`. The utterance, the last one and the
  pre-roll history are the audio between the times they are reported with.
* `AudioVadClock`: `Spec => []VadClockAgrees`. The voice detector's clock, from where it was
  reset, is the stream's.
* `AudioOnset`: `Spec => OnsetIsPlaced`. An onset that was heard is in the utterance, and
  speech comes after its wake word.

They rest on `AudioAssumption` (windows are positive, a stride is at most a window, a
window is shorter than the longest utterance; None is no time, event or ending). `IInv` is the types of what is counted,
`DiarizerInv` (during a chunk the diarizer is where the call began, so the property holds
again when it has been fed what the call took) and `WakeInv` (the cooldown, kept on a clock
that stands still during speech, reaches as far as it would on the stream's: by what is
left of it while listening, by all of it while paused). `Places` is the second half: in
every state of the pipeline it names the stretch of the stream each buffer holds (`SpeechInv`,
`HistoryInv`, `RingInv`), ties the voice detector's clock and buffered tail to the stream
(`VadInv`), orders wake word, horizon and onset (`WakeOrder`), and says which of these hold in
the middle of a call, while an utterance is on its way through `end_utterance` (`ShapeInv`).

### Speaker labels

`DiarizerProofs.tla` holds theorems for any frame length, history, `max_pending`, chunks,
length of the stream and number of utterances:

* `DiarizerGrantsHeld`: `Spec => []EveryGrantIsHeld`. A granted label is neither lost nor
  answered twice.
* `DiarizerWholeSpan`: `Spec => []WholeSpanIsWeighed`. It is drawn from all of its
  utterance's frames and from no other, whatever pair of times a caller gives: a reversed one
  is the point at its start (`Ending`).
* `DiarizerInvariant`: `Spec => []IInv`, with the labeler's queues as part of it: every
  granted utterance is in one of the two queues, once (`Holds`); what is queued has its span's
  start and `Ending` on the session's clock (`SpansAre`); the frames of what was registered in time are
  still kept (`FramesAreKept`), which is what trimming the window has to respect.

They rest on `DiarizerAssumption` (a frame, a history and a chunk are positive; a caller's
times are integers, those of the stream among them; None is no time). Answering and dropping filter the queue, so the lemmas say what a filter keeps
(`OnlyIs`) and that keeping and dropping split a queue (`SplitIs`).

### Handles

`HandlesProofs.tla` holds theorems for any handles, sessions, calls, methods and
lengths of generations:

* `HandlesGate`: `Spec => []GateGuardsModel`. The gate is taken exactly while one session
  exists or is being built, in a handle or in the hands of a call.
* `HandlesMoved`: `Spec => []MovedIsEmpty`. An unlocked handle is empty exactly when moved.
* `HandlesNoWait`: `Spec => []HolderNeverWaits`. Who waits for a mutex holds none, so no
  call waits for itself or for a ring of others.
* `HandlesSinkHears`: `Spec => []SinkHearsTheEnd`. A stream's sink is told of the end once.
* `HandlesCancelStops`: `Spec => []CancelStopsDecode`. A decode makes at most the token it is
  at after a cancel.
* `HandlesCancelIsSpent`: `Spec => CancelIsSpent`. One cancel ends at most one generation.

They rest on `HandlesAssumption` (which methods there are; None is no handle, session or
call). `IInv` is the types with both properties and

| conjunct | says | needed because |
|---|---|---|
| `LockInv` | the mutex of a handle is held by the one call that is between lock and unlock on it | a conversion is undisturbed between taking the session and handing it on; `HolderNeverWaits` follows, since a call that waits is not in between |
| `LiveInv` | what a call or future refers to is a live handle, and a dead one is blank | a dropped handle's slot is reused without a session in it |
| `HandInv` | a call carries a session exactly from `Take` to `Hand` or the refusal, and one that uses it under the lock has it there | the session is counted once, where it is |
| `MovedInv` | a handle is empty exactly when moved, but while a chat validates its session | the refusal puts it back into a handle that was not marked |

Two lemmas, `QuietStep` and `OneCallMoves`, cover the many steps that move a call and
nothing else; `ConversionKeeps` the three that carry a session; the rest go one by one. The
last three theorems add to `IInv` what a call has told and been told (`CallsOk`), that a decode
which was told finds the flag set at its next look (`ToldInv`), and that a flag that is set
answers a cancel which stopped nothing yet, or is about to be cleared (`OwedInv`).

### What stays with TLC

Every invariant and action property the passing runs check is proved; liveness is not.
Out of the prover's reach: liveness under fairness (`CallEnds`, `DropEnds`, `Recovers`,
`ResolveEnds`, `CallReturns`) and ENABLED; and the library's induction theorems, which take an
operator as a parameter. Where a recursive function had to be reasoned about (the batches of
rows of `KvState`, the filter of `Diarizer`), the proofs go by a least counterexample
instead (lemma `Least`, from `WFMin`). No module here uses a RECURSIVE operator; `Chat`
folds with the community modules.

## 5. Disagreements between code and documentation

Each is the shortest behaviour TLC finds, for a sentence the repository says about
itself (paths and quotations are in `PROJECT.json`).

* **`bundle_repin`.** `download_to` renames the verified file into place and then
  writes its sidecar. If the process dies in between, the previous file's sidecar
  stays beside the new file, and a resolve pinned to the previous hash trusts it and
  answers with the wrong file. `repo.rs:457` says "trust the sidecar. We wrote it
  ourselves after the last successful verification".
* **`spec_ring`.** A verification batch of 1 + k = 65 rows evicts the snapshot its own
  rewind needs from a ring of 64. `truncate_to` clears the state, and the generation
  counts on from the old position. `spec.rs:118` says "on return the KV holds exactly
  the guaranteed token plus the accepted drafts".
* **`stale_cancel`.** A future dropped when its task is still queued, or has finished and was
  not polled, leaves the flag set; `generate` honours a flag it finds set, and the next
  generation ends before a token. `cera-ffi/src/lib.rs:3434` says "an already-completed task
  ignores both", because `generate` "resets the cancel atomic on entry".

`FrontierAgrees`, `RestoredIsExact` and `CancelledIsResumable` set the session's
behaviours aside with `hole`, which is raised only where the code has returned an error
or could have seen, by its own check, that a rewind was not exact; without it they would
show the same findings again instead of everything else.

Five more sentences of the documentation are stated as properties in the modules, and are
not kept either. They have no run of their own; put into a configuration as named, TLC
refutes each:

* `SeedIsSound` (`Session`, a Hexagon session of four positions). The second chunk of a raw
  append fails before any dispatch, so nothing is torn; the retry feeds the first chunk
  through the convolutions a second time and ends with logits that follow from it.
  `hexagon_lfm2.rs:1475` says such a failure "left the recurrent state untouched, so the
  session stays usable".
* `OkIsExact` (`HexagonModel`, `Models <- MCAttention`, three layers). A read times out and
  the batch is given up on while the DSP may still run it. `mark_state_torn` does nothing on
  a model without recurrent layers, and no pass but an audio one quiesces, so the next pass
  writes its inputs into scratch and its descriptors at offset 0 under that batch; it returns
  Ok over what was computed in between. `hexagon_lfm2.rs:1351` says such "models recompute
  their KV slots idempotently and never set it". `OkIsAsked` sets this aside by holding an
  attention-only pass to its promise only when it had a `clean` start.
* `LabelIsOfItsSpan` (`Diarizer`, `MCDiarizer.cfg`). An utterance registered by hand after a
  flush, which ended before it, is clamped to the start of the diarizer's new session and
  labeled from its first frame, by whoever speaks then. `audio_pipeline.rs:107` says the
  label is the most active speaker of the span, or none.
* `MovedCannotCancel` (`Handles`, `MCHandles.cfg`). `cancel` reads `moved` and then stores
  the shared flag; a conversion in between makes it the cancel of the session's new owner.
  `cera-ffi/src/lib.rs:3271` says "A moved Session handle cannot cancel its new owner".
* `DroppedNeverDecodes` (`Handles`, `Ops <- Dropping`). A task that waits for the mutex is
  past being aborted, and its cancel is read and cleared by the decode that holds the mutex;
  then it decodes in full. `cera-ffi/src/lib.rs:3511` says "a not-yet-started decode never
  runs".

Seen while modelling and proving:

* On an attention-only model a batch that was given up on may still write into the KV buffer
  after a later pass made a prefix resident. The next encoder pass over the same prefix, which
  finds the queue idle, skips the restore and builds on it, although `encoder_resident` is
  documented (`hexagon_lfm2.rs:1373`) to be set when "the last encoder pass left the device
  holding exactly that prefix's K/V rows". It takes four passes, more than the run has; the
  proof of `OkIsAsked` failed on it, and `clean` now leaves such a pass out.
* A cache miss is decided before the download guard is taken and not looked at again
  after it. A second thread downloads once more and unlinks the file while the first, or
  a third, answers with its path; for a moment the path names nothing.
* A device failure in a verification pass leaves the position where it was;
  `verify_draft` rewinds to beyond it, and the assertion in `truncate_kv` panics before
  the error slot is drained (`VerificationFaults`, which ends the modelled process; in a
  chat it is `ReplyUnwinds`, after which the session is unusable).
* `MAX_CONSECUTIVE_STALE` and `MAX_INFLIGHT` are both 32: two timeouts over a full
  flight leave more stale answers than one wait tolerates, so a flush fails once more
  although the DSP has recovered.
* `flush_with` returns an error of `reserve_stage` without dropping the batch; the
  pass's own cleanup drops it.
* `truncate_kv(0)` on an attention-only Hexagon model does not quiesce.
* An utterance cut to no length leaves `last_utterance` showing the one before it, and
  without a wake word a pre-roll may reach into the previous utterance.
* The documentation of `generate_streaming` promises `on_done` "regardless of how the call
  exits"; a panic unwinds past it (`SinkHearsTheEnd` leaves it out).
* `Session::cancel` is documented to stay set until `clear_cancel` or `reset`; the first
  generation that sees it clears it.

## 6. Plan

Done: every component of section 2 is modelled and checked, and every safety and action
property of the passing runs is proved, the refinements of `RowDispatch` and `Transcript`
among them. Next:

1. A second process in `BundleCache`: an append to a `.partial` another process renames.
2. Encoder passes of several chunks in `HexagonModel`, and staged batches.
3. `Diarizer` composed with `AudioPipeline`, whose transcribed utterances it takes as any.
4. Appends in `Handles`, which look at the cancel flag too, and the observers that only try
   the mutex.
5. The client's HTTP retry (`cera-client`).

## 7. What is not modelled, and why

* **Pool slots and pinning.** `set_pool_widths` swaps an `Arc`; a dispatch into the old
  pool keeps it alive, so the interleaving has one outcome. Pinning is system calls.
* **Epoch and width limits of the pool.** The packed word overflows after 2^48
  dispatches or with 2^16 threads.
* **Model implementations, kernels, quantisation.** The value of a sum is not something
  TLC can tell apart; the repository tests parity against references.
* **Metal and wgpu sessions.** The KV state lives in device buffers and both refuse
  checked rewinds, so what remains is the session's `default` branch.
* **Grammar, sampler, tokenizer, GGUF parsing, conversion, cache keys, manifests.**
  Sequential, stateless between calls, covered by unit and parity tests.
* **Engine, CLI, client, WASM bindings.** Delegation; the client's retry is a candidate.
* **The networks behind the audio pipeline.** Voice, wake word, speaker and transcription
  models are any verdict; what is left out around them is listed in section 2.

## 8. Running

    tlc -workers 2 -config MCRowPoolPrefill.cfg MCRowPool.tla
    tlc -workers 2 -config MCBundleCache.cfg MCBundleCache.tla
    tlc -workers 2 -config MCSession.cfg MCSession.tla
    tlc -workers 2 -config MCHexagon.cfg MCHexagon.tla
    tlc -workers 2 -config MCChat.cfg MCChat.tla
    tlc -workers 2 -config MCAudioPipeline.cfg MCAudioPipeline.tla
    tlc -workers 2 -config MCDiarizer.cfg MCDiarizer.tla
    tlc -workers 2 -config MCHandles.cfg MCHandles.tla
    tlapm RowPoolProofs.tla
    tlapm HexagonProofs.tla
    tlapm BundleProofs.tla
    tlapm AudioProofs.tla
    tlapm HandlesProofs.tla
    tlapm SessionProofs.tla
    tlapm ChatProofs.tla
    tlapm DiarizerProofs.tla

and likewise for the other `.cfg` files; every run ends within a minute or two.
