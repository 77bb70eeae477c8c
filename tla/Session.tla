------------------------------ MODULE Session ------------------------------
(***************************************************************************)
(* One inference session (cera/src/session.rs, session/recovery.rs, and    *)
(* the verification round of spec.rs): text and media are appended to the  *)
(* context in chunks, replies are generated from it, and another thread    *)
(* may ask at any time for the work to be cancelled.                       *)
(*                                                                         *)
(* Two ways in: the raw append calls, which leave a partial prefix behind  *)
(* when they stop early, and the recovering ingestion of a whole message   *)
(* (append_user_message, and every Chat turn), which undoes itself.  The   *)
(* owner calls one operation at a time; a forward pass, the bookkeeping    *)
(* after it and the look at the cancel flag that follows are one step.     *)
(***************************************************************************)
EXTENDS KvState

CONSTANTS
    Tokens,     \* the vocabulary, end-of-sequence and stop tokens left out
    Prompts,    \* segments a raw append may be given
    Messages,   \* sequences of segments an ingestion may be given
    MaxSeqLen,  \* the session's max_seq_len
    NKeep,      \* SessionConfig::n_keep
    Ubatch,     \* SessionConfig::ubatch_size
    MaxNew,     \* bound: the largest GenerateOpts::max_tokens
    MaxDraft,   \* SpecDecode::k; 0 turns speculation off
    None        \* no logits, nothing stored

(* A segment is text, or rows that an encoder made; a fused prompt has     *)
(* text rows among the encoder's.                                          *)
IsSegment(seg) ==
    /\ seg \in [soft : BOOLEAN, rows : Seq({seg.rows[i] : i \in DOMAIN seg.rows})]
    /\ seg.rows # <<>>

ASSUME SessionAssumption ==
    /\ \A seg \in Prompts : IsSegment(seg)
    /\ \A m \in Messages :
          /\ m \in Seq({m[i] : i \in DOMAIN m}) /\ m # <<>>
          /\ \A i \in DOMAIN m : IsSegment(m[i])
    /\ {MaxSeqLen, Ubatch} \subseteq Nat \ {0}
    /\ {NKeep, MaxNew, MaxDraft} \subseteq Nat

VARIABLES
    kv,         \* the model's and the session's key-value state
    pos,        \* current_pos
    published,  \* position_atomic, read by other threads
    history,    \* token_history, what speculation drafts from
    logits,     \* last_logits: the context they follow from, or None
    usable,
    cancel,     \* the cancel flag, shared with its handles
    report,     \* the outcome in last_ingest_recovery, or None
    stored,     \* a SessionCheckpoint the owner keeps, or None
    call,       \* the operation in progress and its locals
    hole        \* auxiliary: damage that was reported, and is not repaired

vars == <<kv, pos, published, history, logits, usable, cancel, report, stored, call, hole>>

Outcomes == {"unchanged", "restored", "reset", "unusable"}

AtRest == call.op = "rest"
Rest == [op |-> "rest"]
Aborted == [op |-> "aborted"]
TextOf(rows) ==
    LET text[i \in 0 .. Len(rows)] ==
            IF i = 0 THEN <<>>
            ELSE IF rows[i] \in Tokens THEN Append(text[i - 1], rows[i]) ELSE text[i - 1]
    IN  text[Len(rows)]
DropHistory(h, from, n) == First(h, IF from < Len(h) THEN from ELSE Len(h))
                           \o SubSeq(h, from + n + 1, Len(h))

Init ==
    /\ \E backend \in Backends : kv = Pristine(backend)
    /\ pos = 0 /\ published = 0
    /\ history = <<>>
    /\ logits = None
    /\ usable = TRUE
    /\ cancel = FALSE
    /\ report = None
    /\ stored = None
    /\ call = Rest
    /\ hole = FALSE

----------------------------------------------------------------------------
(* Appending.  The locals: the segments still to do; whether the first of  *)
(* them has its room; rows of it already fed; ingest_mutation; the         *)
(* Checkpoint of recovery.rs (kv in it is auxiliary); and, also auxiliary, *)
(* the frontier from which this segment is fed.                            *)
Before ==
    [pos |-> pos, history |-> history, logits |-> logits,
     rewindable |-> CheckRewind(kv, pos), kv |-> kv]

Appending(guarded, todo) ==
    [op |-> "append", guarded |-> guarded, todo |-> todo, begun |-> FALSE,
     fed |-> 0, mutation |-> "none", before |-> IF guarded THEN Before ELSE None,
     base |-> None]

StartAppend ==
    /\ AtRest /\ usable
    /\ \E seg \in Prompts : call' = Appending(FALSE, <<seg>>)
    /\ UNCHANGED <<kv, pos, published, history, logits, usable, cancel, report, stored, hole>>

Ingests(m) ==
    /\ AtRest /\ usable
    /\ call' = Appending(TRUE, m)
    /\ UNCHANGED <<kv, pos, published, history, logits, usable, cancel, report, stored, hole>>

StartIngest == \E m \in Messages : Ingests(m)

Rows == Head(call.todo).rows
Soft == Head(call.todo).soft
Fails == call' = IF call.guarded THEN [call EXCEPT !.op = "recovering"] ELSE Rest

(* A token outside the vocabulary, media that does not decode, a segment   *)
(* that does not fit and cannot be made to: nothing was touched yet.       *)
RefuseSegment ==
    /\ call.op = "append" /\ ~call.begun
    /\ Fails
    /\ UNCHANGED <<kv, pos, published, history, logits, usable, cancel, report, stored, hole>>

(* ensure_rows_fit: rows that have to go to make room.                     *)
Over == IF pos + Len(Rows) > MaxSeqLen THEN pos + Len(Rows) - MaxSeqLen ELSE 0

Begun(mutation, from, cells) ==
    call' = [call EXCEPT !.begun = TRUE, !.mutation = mutation,
                         !.base = [pos |-> from, cells |-> cells]]

BeginSegment ==
    /\ call.op = "append" /\ ~call.begun
    /\ Over = 0
    /\ Begun(IF call.mutation = "none" THEN "tail" ELSE call.mutation, pos, kv.cells)
    /\ UNCHANGED <<kv, pos, published, history, logits, usable, cancel, report, stored, hole>>

(* The context shift: the oldest rows after the pinned prefix make room.   *)
BeginShifted ==
    /\ call.op = "append" /\ ~call.begun
    /\ Over > 0 /\ CanShift(kv, NKeep, pos, Over) /\ HasToDrop(kv, NKeep, Over)
    /\ kv' = Shift(kv, NKeep, Over)
    /\ pos' = pos - Over
    /\ published' = pos'
    /\ history' = DropHistory(history, NKeep, Over)
    /\ logits' = None
    /\ Begun("destructive", pos', kv'.cells)
    /\ UNCHANGED <<usable, cancel, report, stored, hole>>

(* The position ran ahead of the cache: the shift's assertion fails, and   *)
(* an ingestion, which had called the change destructive, is condemned.    *)
ShiftPanics ==
    /\ call.op = "append" /\ ~call.begun
    /\ Over > 0 /\ CanShift(kv, NKeep, pos, Over) /\ ~HasToDrop(kv, NKeep, Over)
    /\ IF call.guarded
       THEN usable' = FALSE /\ logits' = None /\ report' = "unusable" /\ call' = Rest
       ELSE call' = Aborted /\ UNCHANGED <<usable, logits, report>>
    /\ UNCHANGED <<kv, pos, published, history, cancel, stored, hole>>

Chunk == SubSeq(Rows, call.fed + 1,
                IF call.fed + Ubatch < Len(Rows) THEN call.fed + Ubatch ELSE Len(Rows))
FedAfter == call.fed + Len(Chunk)
Frontier == IF Soft THEN pos ELSE pos + call.fed

(* The segment is complete: on to the next one, or the call returns.       *)
SegmentDone ==
    /\ logits' = Context(kv')
    /\ call' = IF Len(call.todo) = 1 THEN Rest
               ELSE [call EXCEPT !.todo = Tail(@), !.begun = FALSE, !.fed = 0]
    /\ report' = IF Len(call.todo) = 1 /\ call.guarded THEN None ELSE report

(* Mutant of StopShort: the seed of an earlier append survives.            *)
StopShortKeepingSeed == UNCHANGED logits /\ Fails

(* Rows are left over: nothing may be generated from half a segment.       *)
StopShort == logits' = None /\ Fails

(* append_tokens: the position moves once, over all that was consumed; the *)
(* flag counts only while rows remain.                                     *)
PrefillChunk ==
    /\ call.op = "append" /\ call.begun /\ ~Soft
    /\ CanFeed(kv)
    /\ kv' = Feed(kv, Chunk, Frontier)
    /\ \/ /\ FedAfter = Len(Rows)
          /\ pos' = pos + FedAfter
          /\ history' = history \o Rows
          /\ SegmentDone
       \/ /\ FedAfter < Len(Rows) /\ cancel
          /\ pos' = pos + FedAfter
          /\ history' = history \o First(Rows, FedAfter)
          /\ StopShort
          /\ UNCHANGED report
       \/ /\ FedAfter < Len(Rows) /\ ~cancel
          /\ call' = [call EXCEPT !.fed = FedAfter]
          /\ UNCHANGED <<pos, history, logits, report>>
    /\ published' = pos'
    /\ UNCHANGED <<usable, cancel, stored, hole>>

(* append_embeddings: the position moves with every chunk; the text of a   *)
(* fused prompt joins the drafting history only when all of it is in.      *)
EmbeddingChunk ==
    /\ call.op = "append" /\ call.begun /\ Soft
    /\ CanFeed(kv)
    /\ kv' = Feed(kv, Chunk, Frontier)
    /\ pos' = pos + Len(Chunk)
    /\ published' = pos'
    /\ \/ /\ FedAfter = Len(Rows)
          /\ history' = history \o TextOf(Rows)
          /\ SegmentDone
       \/ /\ FedAfter < Len(Rows) /\ cancel
          /\ StopShort
          /\ UNCHANGED <<history, report>>
       \/ /\ FedAfter < Len(Rows) /\ ~cancel
          /\ call' = [call EXCEPT !.fed = FedAfter]
          /\ UNCHANGED <<history, logits, report>>
    /\ UNCHANGED <<usable, cancel, stored, hole>>

(* check_decode_error_clearing_logits: the chunk left an error in the slot *)
(* and what this step would have accounted for is not accounted for.       *)
ChunkFaults ==
    /\ call.op = "append" /\ call.begun
    /\ kv' \in FaultedFeeds(kv, Chunk, Frontier)
    /\ logits' = None
    /\ Fails
    /\ hole' = (hole \/ ~call.guarded)
    /\ UNCHANGED <<pos, published, history, usable, cancel, report, stored>>

----------------------------------------------------------------------------
(* Ingestion::recover.  No step of it reads or writes the cancel flag.     *)
Recovering == call.op = "recovering"

(* Mutant of CanRewind: a context shift is taken for an append.            *)
CanRewindShifted ==
    /\ call.mutation # "none"
    /\ call.before.rewindable
    /\ CheckRewind(kv, call.before.pos)

CanRewind ==
    /\ call.mutation = "tail"
    /\ call.before.rewindable
    /\ CheckRewind(kv, call.before.pos)

RewindUnanswered == OnDevice(kv) /\ call.before.pos = 0

LeaveUnchanged ==
    /\ Recovering /\ call.mutation = "none"
    /\ report' = "unchanged"
    /\ call' = Rest
    /\ UNCHANGED <<kv, pos, published, history, logits, usable, cancel, stored, hole>>

RewindToBefore ==
    /\ Recovering /\ CanRewind
    /\ kv' = Truncate(kv, call.before.pos)
    /\ pos' = call.before.pos
    /\ published' = pos'
    /\ history' = First(history, Len(call.before.history))
    /\ logits' = call.before.logits
    /\ report' = "restored"
    /\ call' = Rest
    /\ UNCHANGED <<usable, cancel, stored, hole>>

(* clear_execution_metadata over a fresh state.                            *)
Cleared ==
    /\ kv' = Pristine(kv.backend)
    /\ pos' = 0 /\ published' = 0
    /\ history' = <<>>
    /\ logits' = None
    /\ hole' = FALSE

MustReset == Recovering /\ call.mutation # "none" /\ (~CanRewind \/ RewindUnanswered)

ResetInstead ==
    /\ MustReset /\ ChecksReset(kv)
    /\ Cleared
    /\ usable' = TRUE
    /\ report' = "reset"
    /\ call' = Rest
    /\ UNCHANGED <<cancel, stored>>

GiveUp ==
    /\ MustReset
    /\ kv' \in {kv, Unanswered(kv)}
    /\ usable' = FALSE
    /\ logits' = None
    /\ report' = "unusable"
    /\ call' = Rest
    /\ UNCHANGED <<pos, published, history, cancel, stored, hole>>

(* A panic out of a pass, of the rewind or of the reset, caught above the  *)
(* session: Ingestion::drop condemns it.                                   *)
IngestUnwinds ==
    /\ call.op \in {"append", "recovering"} /\ call.guarded
    /\ call.mutation # "none"
    /\ kv' = Wrecked(kv)
    /\ usable' = FALSE
    /\ logits' = None
    /\ report' = "unusable"
    /\ call' = Rest
    /\ UNCHANGED <<pos, published, history, cancel, stored, hole>>

AppendStep ==
    \/ RefuseSegment \/ BeginSegment \/ BeginShifted \/ ShiftPanics
    \/ PrefillChunk \/ EmbeddingChunk \/ ChunkFaults
    \/ LeaveUnchanged \/ RewindToBefore \/ ResetInstead \/ GiveUp \/ IngestUnwinds

----------------------------------------------------------------------------
(* Generating.  The locals: the mode of the call, its budget of tokens and *)
(* how many of them are out, the logits it took and whether they still     *)
(* belong to the state, and the loop's own position (the speculative loop  *)
(* moves current_pos itself).  Which token a model prefers is any token.   *)
(* CancelGuard lowers the flag on every way out.                           *)
Modes == {"greedy", "sampled"} \cup (IF MaxDraft > 0 THEN {"spec"} ELSE {})

(* Cancelled before it began, nothing asked for, no room, no logits.       *)
GenerateNothing ==
    /\ AtRest /\ usable
    /\ cancel' = FALSE
    /\ UNCHANGED <<kv, pos, published, history, logits, usable, report, stored, call, hole>>

StartGenerate ==
    /\ AtRest /\ usable
    /\ ~cancel /\ pos < MaxSeqLen /\ logits # None
    /\ \E mode \in Modes, budget \in 1 .. MaxNew :
          call' = [op |-> "generate", mode |-> mode, budget |-> budget, emitted |-> 0,
                   taken |-> logits, fresh |-> TRUE, at |-> pos]
    /\ logits' = None
    /\ UNCHANGED <<kv, pos, published, history, usable, cancel, report, stored, hole>>

Decoding(speculative) == call.op = "generate" /\ (call.mode = "spec") = speculative
MayStep(at) == ~cancel /\ call.emitted < call.budget /\ at < MaxSeqLen

GenerateReturns(at, kept) ==
    /\ pos' = at
    /\ published' = at
    /\ logits' = kept
    /\ cancel' = FALSE
    /\ call' = Rest

(* Mutant of DecodeStops: the logits are put back even when stale.         *)
DecodeStopsKeeping ==
    /\ Decoding(FALSE)
    /\ GenerateReturns(call.at, call.taken)
    /\ UNCHANGED <<kv, history, report, stored, hole>>

(* Cancelled, budget or context used up, a stop token, a dead end of the   *)
(* grammar.  The logits are put back while they describe the state.        *)
DecodeStops ==
    /\ Decoding(FALSE)
    /\ GenerateReturns(call.at,
                       IF (call.mode = "sampled" \/ call.emitted = 0) /\ call.fresh
                       THEN call.taken ELSE None)
    /\ UNCHANGED <<kv, history, report, stored, hole>>

DecodeStep ==
    /\ Decoding(FALSE) /\ MayStep(call.at)
    /\ CanFeed(kv)
    /\ \E t \in Tokens :
          /\ kv' = Feed(kv, <<t>>, call.at)
          /\ history' = Append(history, t)
    /\ call' = [call EXCEPT
                  !.emitted = @ + 1,
                  !.at = @ + 1,
                  !.taken = IF call.mode = "sampled" THEN Context(kv') ELSE @,
                  !.fresh = (call.mode = "sampled")]
    /\ published' = call.at + 1
    /\ UNCHANGED <<pos, logits, cancel, report, stored, hole>>

(* sync_frontier_on_err: the verified tokens stay, this one is forgotten.  *)
DecodeFaults ==
    /\ Decoding(FALSE) /\ MayStep(call.at)
    /\ \E t \in Tokens : kv' \in FaultedFeeds(kv, <<t>>, call.at)
    /\ GenerateReturns(call.at, None)
    /\ hole' = TRUE
    /\ UNCHANGED <<history, report, stored>>

----------------------------------------------------------------------------
(* The speculative loop: a token the model chose, and with it a draft that *)
(* one pass verifies.  Accepted drafts stay up to the first the caller's   *)
(* policy keeps out (a stop token, the budget, the cancel flag).           *)
SpecStops ==
    /\ Decoding(TRUE)
    /\ GenerateReturns(pos, IF call.emitted = 0 THEN call.taken ELSE None)
    /\ UNCHANGED <<kv, history, report, stored, hole>>

Room == MaxSeqLen - (pos + 1)

(* The last token of the budget, or one without a draft.                   *)
SpecSingle ==
    /\ Decoding(TRUE) /\ MayStep(pos)
    /\ CanFeed(kv)
    /\ \E t \in Tokens :
          /\ kv' = Feed(kv, <<t>>, pos)
          /\ history' = Append(history, t)
    /\ IF call.emitted + 1 = call.budget
       THEN GenerateReturns(pos + 1, None)
       ELSE /\ pos' = pos + 1
            /\ published' = pos'
            /\ call' = [call EXCEPT !.emitted = @ + 1]
            /\ UNCHANGED <<logits, cancel>>
    /\ UNCHANGED <<report, stored, hole>>

SpecSingleFaults ==
    /\ Decoding(TRUE) /\ MayStep(pos)
    /\ \E t \in Tokens : kv' \in FaultedFeeds(kv, <<t>>, pos)
    /\ GenerateReturns(pos, None)
    /\ hole' = TRUE
    /\ UNCHANGED <<history, report, stored>>

Drafts == UNION {[1 .. n -> Tokens] : n \in 1 .. (IF MaxDraft < Room THEN MaxDraft ELSE Room)}

(* A round fed at the end of the cache, wherever that is: back over the    *)
(* drafts that were rejected, and again over those the policy keeps out.   *)
(* It is proven when both rewinds were checked and each landed; the second *)
(* one fails its assertion when the first has left the cache too short.    *)
Round(k, at, rows, accepted, kept) ==
    LET old      == Len(k.cells)
        fed      == Feed(k, rows, old)
        verified == Truncate(fed, old + 1 + accepted)
        stopped  == kept < accepted
        panics   == stopped /\ ~CanTruncate(verified, at + 1 + kept)
        final    == IF stopped /\ ~panics THEN Truncate(verified, at + 1 + kept) ELSE verified
    IN  [final  |-> final,
         panics |-> panics,
         proven |-> /\ CheckRewind(fed, old + 1 + accepted)
                    /\ Len(verified.cells) = old + 1 + accepted
                    /\ stopped => /\ CheckRewind(verified, at + 1 + kept)
                                  /\ Len(final.cells) = at + 1 + kept]

SpecRound ==
    /\ Decoding(TRUE) /\ MayStep(pos)
    /\ call.emitted + 1 < call.budget
    /\ CanFeed(kv)
    /\ \E t \in Tokens, draft \in Drafts :
       \E accepted \in 0 .. Len(draft) :
       \E kept \in 0 .. accepted :
          LET round == Round(kv, pos, <<t>> \o draft, accepted, kept)
          IN  /\ call.emitted + 1 + kept <= call.budget
              /\ kv' = round.final
              /\ history' = history \o <<t>> \o First(draft, kept)
              /\ hole' = (hole \/ ~round.proven)
              /\ IF round.panics
                 THEN /\ call' = Aborted
                      /\ cancel' = FALSE
                      /\ UNCHANGED <<pos, published, logits>>
                 ELSE IF kept < accepted
                 THEN GenerateReturns(pos + 1 + kept, None)
                 ELSE /\ pos' = pos + 1 + kept
                      /\ published' = pos'
                      /\ call' = [call EXCEPT !.emitted = @ + 1 + kept]
                      /\ UNCHANGED <<logits, cancel>>
    /\ UNCHANGED <<report, stored>>

(* The device fails in the verification pass (one batch: k is below 64).   *)
(* The pass answers with zeros and the position stays; verify_draft goes   *)
(* on to rewind to a position the cache never reached.                     *)
VerificationFaults ==
    /\ Decoding(TRUE) /\ MayStep(pos)
    /\ call.emitted + 1 < call.budget /\ Drafts # {}
    /\ \E t \in Tokens : kv' \in FaultedFeeds(kv, <<t>>, Len(kv.cells))
    /\ ~CanTruncate(kv', Len(kv.cells) + 1)
    /\ call' = Aborted
    /\ cancel' = FALSE
    /\ UNCHANGED <<pos, published, history, logits, report, stored, hole>>

(* A call that fails leaves a raw session usable; Chat condemns it.        *)
Generating ==
    \/ DecodeStep \/ DecodeStops \/ DecodeFaults
    \/ SpecStops \/ SpecSingle \/ SpecSingleFaults \/ SpecRound \/ VerificationFaults

----------------------------------------------------------------------------
(* The owner's other calls, and the holders of a cancel handle.            *)
Reset ==
    /\ AtRest
    /\ Cleared
    /\ usable' = TRUE
    /\ report' = None
    /\ cancel' = FALSE
    /\ UNCHANGED <<stored, call>>

ResetFails ==
    /\ AtRest
    /\ kv' \in {kv, Unanswered(kv)}
    /\ usable' = FALSE
    /\ logits' = None
    /\ UNCHANGED <<pos, published, history, cancel, report, stored, call, hole>>

(* Only state the session itself owns can be checkpointed.                 *)
Checkpoint ==
    /\ AtRest /\ usable /\ ~OnDevice(kv)
    /\ stored' = [pos |-> pos, history |-> history, logits |-> logits,
                  kv |-> Snapshot(kv), hole |-> hole]
    /\ UNCHANGED <<kv, pos, published, history, logits, usable, cancel, report, call, hole>>

Restore ==
    /\ AtRest /\ ~OnDevice(kv) /\ stored # None
    /\ stored.pos <= MaxSeqLen
    /\ stored.pos = Len(stored.kv.cells)
    /\ kv' = RestoredFrom(stored.kv)
    /\ pos' = stored.pos
    /\ published' = pos'
    /\ history' = stored.history
    /\ logits' = stored.logits
    /\ usable' = TRUE
    /\ cancel' = FALSE
    /\ report' = None
    /\ hole' = stored.hole
    /\ UNCHANGED <<stored, call>>

Cancel ==
    /\ cancel' = TRUE
    /\ UNCHANGED <<kv, pos, published, history, logits, usable, report, stored, call, hole>>

ClearCancel ==
    /\ AtRest
    /\ cancel' = FALSE
    /\ UNCHANGED <<kv, pos, published, history, logits, usable, report, stored, call, hole>>

Next ==
    \/ StartAppend \/ StartIngest \/ AppendStep
    \/ GenerateNothing \/ StartGenerate
    \/ Generating /\ UNCHANGED usable
    \/ Reset \/ ResetFails \/ Checkpoint \/ Restore \/ Cancel \/ ClearCancel

Spec == Init /\ [][Next]_vars

----------------------------------------------------------------------------
(* The counters stay within the context, and a report is one of the four   *)
(* outcomes of a failed ingestion (InferenceState, RecoveryOutcome).       *)
TypeOK ==
    /\ pos \in 0 .. MaxSeqLen /\ published \in 0 .. MaxSeqLen
    /\ Len(kv.cells) <= MaxSeqLen + 1 /\ Len(kv.ring) <= Window
    /\ {usable, cancel, hole} \subseteq BOOLEAN
    /\ report \in Outcomes \cup {None}
    /\ call.op \in {"rest", "append", "recovering", "generate", "aborted"}

(* Between calls a usable session stands where its cache ends, tells other *)
(* threads the same position, and holds what one undisturbed pass over its *)
(* rows would have left (short of the transient a context shift admits):   *)
(* whatever was cancelled, failed, undone, verified, reset or restored on  *)
(* the way, unless an error, or to Chat an unproven rewind, has told of     *)
(* damage that is still there.                                             *)
FrontierAgrees ==
    AtRest /\ usable /\ ~hole =>
        /\ pos = Len(kv.cells)
        /\ published = pos
        /\ kv.dropped \/ Sound(kv)

(* Logits a generation may start from follow from the state it starts in:  *)
(* no append that stopped early, no undone ingestion, no reset and no      *)
(* earlier generation leaves older ones behind.                            *)
SeedMatchesContext ==
    AtRest /\ usable /\ logits # None => logits = Context(kv)

(* When a failed ingestion reports that the pre-call state was restored,   *)
(* the context, position, drafting history and logits are those of before  *)
(* the call (the owner's unrepaired damage may be healed on the way), and  *)
(* a cancel request that came meanwhile is still pending.                  *)
RestoredIsExact ==
    [][Recovering /\ AtRest' /\ report' = "restored" /\ ~hole =>
         /\ Context(kv') = Context(call.before.kv)
         /\ pos' = call.before.pos
         /\ history' = call.before.history
         /\ logits' = call.before.logits
         /\ cancel' = cancel]_vars

(* The contract of a cancelled raw append: its position says how many rows *)
(* of the segment are in the context, exactly those are, and nothing can   *)
(* be generated before the rest is appended.                               *)
CancelledIsResumable ==
    [][call.op = "append" /\ call.begun /\ ~call.guarded /\ AtRest' /\ ~hole' =>
         LET rows == Rows
             done == pos' - call.base.pos
         IN  /\ RowsOf(kv'.cells) = RowsOf(call.base.cells) \o First(rows, done)
             /\ done < Len(rows) => cancel /\ logits' = None]_vars

(* spec.rs: after a verification round the cache holds exactly the tokens  *)
(* that were kept, so a session at rest stands where its cache ends.       *)
GeneratedIsResident == AtRest /\ usable => pos = Len(kv.cells)

(* hexagon_lfm2.rs, state_torn: a retry after a failed pass never computes *)
(* over convolutions that have moved on; a failure that tore nothing left  *)
(* them untouched.  So what a generation may start from is what the rows   *)
(* in the context compute.                                                 *)
SeedIsSound == AtRest /\ usable /\ logits # None => Sound(kv)
----------------------------------------------------------------------------
(* What the calls rely on from step to step, and keep: the parts of the    *)
(* inductive invariant behind the properties above.                        *)
Segments == Prompts \cup UNION {{m[i] : i \in DOMAIN m} : m \in Messages}
AnyRow == Tokens \cup {Junk}
          \cup UNION {{seg.rows[i] : i \in DOMAIN seg.rows} : seg \in Segments}

IsAppend(c) ==
    /\ c = [op |-> c.op, guarded |-> c.guarded, todo |-> c.todo, begun |-> c.begun,
            fed |-> c.fed, mutation |-> c.mutation, before |-> c.before, base |-> c.base]
    /\ c.op \in {"append", "recovering"}
    /\ c.guarded \in BOOLEAN /\ c.begun \in BOOLEAN
    /\ c.todo \in Seq(Segments) /\ c.todo # <<>>
    /\ c.fed \in Nat
    /\ c.mutation \in {"none", "tail", "destructive"}

IsGenerate(c) ==
    /\ c = [op |-> "generate", mode |-> c.mode, budget |-> c.budget,
            emitted |-> c.emitted, taken |-> c.taken, fresh |-> c.fresh, at |-> c.at]
    /\ c.mode \in Modes
    /\ {c.budget, c.emitted, c.at} \subseteq Nat
    /\ c.fresh \in BOOLEAN

Appends == call.op \in {"append", "recovering"}

CallTyped ==
    CASE Appends -> IsAppend(call) /\ usable /\ (call.op = "append" \/ call.guarded)
      [] call.op = "generate" -> IsGenerate(call) /\ usable
      [] OTHER -> call \in {Rest, Aborted}

StateTyped ==
    /\ kv \in Kvs(AnyRow) /\ Marked(kv)
    /\ Len(kv.ring) <= Window /\ Len(kv.cells) <= MaxSeqLen + 1
    /\ {pos, published} \subseteq 0 .. MaxSeqLen
    /\ history \in Seq(AnyRow)
    /\ {usable, cancel, hole} \subseteq BOOLEAN
    /\ report \in Outcomes \cup {None}

(* Where the next row goes.                                                *)
Edge ==
    CASE call.op = "append" -> Frontier
      [] call.op = "generate" -> IF call.mode = "spec" THEN pos ELSE call.at
      [] OTHER -> pos

(* Rows of a segment are fed only while all of it fits.                    *)
RoomInv ==
    /\ usable => Len(kv.cells) <= MaxSeqLen
    /\ call.op = "append" =>
          /\ call.fed < Len(Rows)
          /\ IF call.begun THEN Frontier + Len(Rows) - call.fed <= MaxSeqLen /\ call.mutation # "none"
             ELSE call.fed = 0
    /\ call.op = "generate" => call.at \in 1 .. MaxSeqLen /\ pos > 0

(* A shift has been begun and no row has gone in after it.                 *)
Shifted == call.op = "append" /\ call.begun /\ call.mutation = "destructive" /\ call.fed = 0

(* The cache against the position it is extended at.                       *)
EdgeInv ==
    usable /\ call.op # "aborted" =>
        /\ call.op # "recovering" =>
              /\ Shifted \/ Reaches(kv, Edge)
              /\ OnDevice(kv) => Len(kv.cells) >= Edge
              /\ ~OnDevice(kv) => Len(kv.cells) <= Edge
              /\ published = IF call.op = "generate" THEN Edge ELSE pos
              /\ ~hole => Faithful(kv, Edge)
        /\ call.op = "recovering" =>
              /\ published = pos
              /\ ~OnDevice(kv) => Len(kv.cells) <= pos /\ RingTop(kv, pos)
              /\ ~hole /\ ~OnDevice(kv) => Faithful(kv, pos)

(* Logits that may be used describe the state, which then has rows.        *)
IsSeed(l, k, at) ==
    l # None => /\ l = Context(k) /\ at > 0
                /\ OnDevice(k) => Len(k.cells) = at

SeedInv ==
    /\ usable /\ (AtRest \/ (call.op = "append" /\ ~call.begun)) => IsSeed(logits, kv, pos)
    /\ call.op = "generate" =>
          /\ OnDevice(kv) => Len(kv.cells) = Edge
          /\ IF call.mode = "spec" THEN call.emitted = 0 => IsSeed(call.taken, kv, pos)
             ELSE call.fresh => IsSeed(call.taken, kv, call.at)

(* The checkpoint of an ingestion describes a state the session rested in, *)
(* and while the context has only been appended to, that state is still    *)
(* its beginning.                                                          *)
IsBefore(b) ==
    /\ b.pos \in 0 .. MaxSeqLen
    /\ b.kv \in Kvs(AnyRow) /\ Marked(b.kv) /\ Len(b.kv.ring) <= Window /\ Len(b.kv.cells) <= MaxSeqLen
    /\ b.history \in Seq(AnyRow)
    /\ b.rewindable = CheckRewind(b.kv, b.pos)
    /\ IsSeed(b.logits, b.kv, b.pos)
    /\ Reaches(b.kv, b.pos)
    /\ ~hole => Faithful(b.kv, b.pos)

Extends(k, b) ==
    /\ Len(k.cells) >= b.pos /\ First(k.cells, b.pos) = b.kv.cells
    /\ Len(k.cells) > b.pos \/ k.torn \/ k = b.kv
    /\ ~OnDevice(k) => TopAt(k, b.pos, b.kv.conv)

GuardInv ==
    Appends /\ call.guarded =>
        LET b == call.before IN
        /\ IsBefore(b)
        /\ call.mutation = "none" =>
              kv = b.kv /\ pos = b.pos /\ history = b.history /\ logits = b.logits
        /\ call.mutation = "tail" =>
              /\ Len(history) >= Len(b.history)
              /\ First(history, Len(b.history)) = b.history
              /\ kv.backend = b.kv.backend /\ kv.dropped = b.kv.dropped
              /\ call.op = "append" => Edge >= b.pos
              /\ b.rewindable /\ Len(b.kv.cells) = b.pos => Extends(kv, b)

(* What has gone in of a segment that was begun.                           *)
SegmentInv ==
    call.op = "append" /\ call.begun /\ ~call.guarded =>
        /\ call.base.pos \in Nat
        /\ call.base.cells \in Seq([row : AnyRow, clean : BOOLEAN])
        /\ pos = call.base.pos + IF Soft THEN call.fed ELSE 0
        /\ ~hole => RowsOf(kv.cells) = RowsOf(call.base.cells) \o First(Rows, call.fed)

StoredInv ==
    stored # None =>
        LET k == RestoredFrom(stored.kv) IN
        /\ stored.pos \in 0 .. MaxSeqLen /\ stored.hole \in BOOLEAN
        /\ stored.history \in Seq(AnyRow)
        /\ k \in Kvs(AnyRow) /\ Marked(k) /\ ~OnDevice(k)
        /\ IsSeed(stored.logits, k, stored.pos)
        /\ ~stored.hole => Faithful(k, stored.pos)

SessionInv ==
    /\ StateTyped /\ CallTyped /\ RoomInv /\ EdgeInv /\ SeedInv
    /\ GuardInv /\ SegmentInv /\ StoredInv
============================================================================
