--------------------------- MODULE AudioPipeline ---------------------------
(***************************************************************************)
(* The streaming audio pipeline (cera/src/audio_pipeline.rs) with the      *)
(* voice detector's VadIterator and the wake-word detector's               *)
(* HotwordIterator: how a stream that arrives in chunks of any length is   *)
(* cut at the detectors' boundaries, which audio an utterance holds, and   *)
(* what the clocks of the four listeners say.                              *)
(*                                                                         *)
(* Time is counted in samples.  A sample is named by its place in the      *)
(* audio the pipeline has accepted, so a buffer is a sequence of numbers   *)
(* and shows a gap, an overlap or old audio.  What the networks say of a   *)
(* window is any verdict.                                                  *)
(***************************************************************************)
EXTENDS Integers, Sequences, FiniteSetsExt

CONSTANTS
    Builds,       \* what a builder may attach: sets of "vad", "hotword", "whisper"
    Window, Stride, Pad, MinSilence,  \* the voice detector's window, hop, padding and patience
    Hop, Ring, Cooldown,              \* the wake detector's hop, ring capacity and debounce
    PreRoll, WakePreRollCap, MaxUtterance,
    Chunks,       \* lengths of chunk a caller passes
    MaxStream,    \* bound: samples of a stream
    None

ASSUME AudioAssumption ==
    /\ {Window, Stride, Hop, Ring, MaxUtterance} \subseteq Nat \ {0}
    /\ Stride <= Window /\ Window < MaxUtterance
    /\ {Pad, MinSilence, Cooldown, PreRoll, WakePreRollCap} \subseteq Nat
    /\ Chunks \subseteq Nat \ {0} /\ MaxStream \in Nat
    \* None is no time, no event of a detector and no end of an utterance.
    /\ None \notin Int \cup [kind : {"start", "end"}, at : Int] \cup [to : Int, continues : BOOLEAN]

VARIABLES
    parts,     \* the attached models, fixed by the builder
    state,     \* AudioPipelineState
    now,       \* current_sample
    pausedAt, vadOffset,   \* hotword_paused_at, vad_sample_offset
    history, utterance, last, start,
               \* speech_history, utterance_buffer, last_utterance,
               \* current_utterance_start_sample
    vad,       \* VadIterator: current_sample, triggered, temp_end, and how much is buffered
    hot,       \* HotwordIterator: current_sample, last_eval_sample,
               \* cooldown_until_sample, ring_buffer
    diarizer,  \* NoSession, or where its session began and how much it has heard
    call,      \* the call in progress: its kind, where it began, what is left of the chunk
    ending,    \* end_utterance in progress: its end, and whether speech continues
    said,      \* auxiliary: the open start, the last utterance, the last wake
    horizon    \* auxiliary: audio before it is not to be reached back for

buffers   == <<history, utterance, last, start>>
detectors == <<vad, vadOffset, hot, pausedAt>>
history_  == <<said, horizon>>
vars == <<parts, state, now, buffers, detectors, diarizer, call, ending, history_>>

Idle == [kind |-> "idle"]
NoSession == [live |-> FALSE]
Fresh(origin) == [live |-> TRUE, origin |-> origin, heard |-> 0]
ResetVad == [clock |-> 0, triggered |-> FALSE, tempEnd |-> None, buffered |-> 0]
ResetHot == [clock |-> 0, lastEval |-> 0, cooldownUntil |-> 0, ring |-> <<>>]
NothingSaid == [open |-> None, from |-> 0, to |-> 0, wake |-> None]

HasVad == "vad" \in parts
WakesFirst == "hotword" \in parts
Listening == IF WakesFirst THEN "ListeningForHotword" ELSE "ListeningForSpeech"

Init ==
    /\ parts \in Builds
    /\ state = Listening /\ now = 0 /\ pausedAt = 0 /\ vadOffset = 0
    /\ history = <<>> /\ utterance = <<>> /\ last = <<>> /\ start = 0
    /\ vad = ResetVad /\ hot = ResetHot
    /\ diarizer = Fresh(0) /\ call = Idle /\ ending = None
    /\ said = NothingSaid /\ horizon = 0

Minus(a, b) == Max({0, a - b})
Span(from, to) == [i \in 1 .. to - from |-> from + i]
Newest(s, n) == SubSeq(s, Len(s) - n + 1, Len(s))
Clamp(x, lo, hi) == Min({hi, Max({lo, x})})

----------------------------------------------------------------------------
(* The voice detector: one verdict per window, advancing by a stride.      *)
Verdicts == {"speech", "unsure", "silence"}

Silenced(v) == IF v.tempEnd = None THEN v.clock ELSE v.tempEnd

(* Mutant of Hopped: the clock advances by the window, not by the stride.  *)
HoppedByWindow(v, heard) == [v EXCEPT !.clock = @ + Window, !.buffered = heard - Stride]

Hopped(v, heard) == [v EXCEPT !.clock = @ + Stride, !.buffered = heard - Stride]

VadStep(v, n, verdict) ==
    LET heard == v.buffered + n
        hop == Hopped(v, heard) IN
    IF heard < Window
    THEN [vad |-> [v EXCEPT !.buffered = heard], event |-> None]
    ELSE CASE verdict = "speech" /\ ~v.triggered ->
                [vad |-> [hop EXCEPT !.triggered = TRUE, !.tempEnd = None],
                 event |-> [kind |-> "start", at |-> Minus(v.clock, Pad)]]
           [] verdict = "speech" /\ v.triggered ->
                [vad |-> [hop EXCEPT !.tempEnd = None], event |-> None]
           [] verdict = "silence" /\ v.triggered /\ v.clock - Silenced(v) >= MinSilence ->
                [vad |-> [hop EXCEPT !.triggered = FALSE, !.tempEnd = None],
                 event |-> [kind |-> "end", at |-> Min({Silenced(v) + Pad, hop.clock})]]
           [] verdict = "silence" /\ v.triggered /\ v.clock - Silenced(v) < MinSilence ->
                [vad |-> [hop EXCEPT !.tempEnd = Silenced(v)], event |-> None]
           [] OTHER -> [vad |-> hop, event |-> None]

SamplesUntilWindow == Max({1, Window - vad.buffered})

(* The wake detector: its ring keeps what it has heard since its last      *)
(* reset; a hop that ends outside the cooldown may detect the word.        *)
SamplesUntilHop == Max({1, Hop - (hot.clock - hot.lastEval)})

Hearing(n) ==
    LET ring == hot.ring \o Span(now, now + n)
        clock == hot.clock + n IN
    [hot EXCEPT !.clock = clock,
                !.lastEval = IF clock - @ >= Hop THEN clock ELSE @,
                !.ring = Newest(ring, Min({Ring, Len(ring)}))]

(* Mutant of ResumeAfterPause: the cooldown is forgotten too.              *)
ResumeAfterPauseForgets(skipped) == ResetHot

ResumeAfterPause(skipped) ==
    [ResetHot EXCEPT !.cooldownUntil = Minus(Minus(hot.cooldownUntil, hot.clock), skipped)]

----------------------------------------------------------------------------
(* process_chunk, one iteration of its loop at a time.                     *)
Full == state = "SpeechActive" /\ Len(utterance) >= MaxUtterance
Looping == call.kind = "chunk" /\ call.left > 0 /\ ending = None /\ ~Full

ProcessChunk(n) ==
    /\ call = Idle /\ now + n <= MaxStream
    /\ call' = [kind |-> "chunk", before |-> now, left |-> n]
    /\ UNCHANGED <<parts, state, now, buffers, detectors, diarizer, ending, history_>>

Advance(n) == now' = now + n /\ call' = [call EXCEPT !.left = @ - n]

ListenForHotword(detected) ==
    LET n == Min({call.left, SamplesUntilHop})
        h == Hearing(n) IN
    /\ Looping /\ state = "ListeningForHotword"
    /\ Advance(n)
    /\ IF detected
       THEN LET preRoll == Min({PreRoll, WakePreRollCap, MaxUtterance - Window, now + n,
                                Len(h.ring)}) IN
            /\ h.lastEval = h.clock /\ h.clock >= hot.cooldownUntil
            /\ hot' = [h EXCEPT !.cooldownUntil = h.clock + Cooldown]
            /\ pausedAt' = now + n
            /\ history' = Newest(h.ring, preRoll) /\ utterance' = <<>>
            /\ vad' = ResetVad /\ vadOffset' = now + n
            /\ state' = "ListeningForSpeech"
            /\ said' = [said EXCEPT !.wake = now + n] /\ horizon' = now + n - preRoll
       ELSE /\ hot' = h
            /\ UNCHANGED <<pausedAt, history, utterance, vad, vadOffset, state, history_>>
    /\ UNCHANGED <<parts, last, start, diarizer, ending>>

(* Without a voice detector, everything that is heard is speech.           *)
SpeakWithoutVad ==
    /\ Looping /\ state = "ListeningForSpeech" /\ ~HasVad
    /\ start' = Minus(now, Len(history))
    /\ utterance' = utterance \o history /\ history' = <<>>
    /\ state' = "SpeechActive" /\ said' = [said EXCEPT !.open = start']
    /\ UNCHANGED <<parts, now, last, detectors, diarizer, call, ending, horizon>>

(* A part of the chunk: at most up to the next window, and to the cap.     *)
Part ==
    Min({call.left}
        \cup (IF HasVad THEN {SamplesUntilWindow} ELSE {})
        \cup (IF state = "SpeechActive" THEN {MaxUtterance - Len(utterance)} ELSE {}))

(* Mutant of HistoryLimit: the window that sounded like speech is forgotten. *)
HistoryLimitNoWindow == PreRoll + Pad

HistoryLimit == PreRoll + Pad + Window

Remembered(n) ==
    LET h == history \o Span(now, now + n) IN Newest(h, Min({HistoryLimit, Len(h)}))

Listens ==
    /\ Looping /\ state \in {"ListeningForSpeech", "SpeechActive"}
    /\ HasVad \/ state = "SpeechActive"

Spoken(n) ==
    IF state = "SpeechActive" THEN utterance \o Span(now, now + n) ELSE utterance

(* Mutant of OnsetFrom: no farther back than the audio is not enforced.    *)
OnsetFromUnclamped(at, to, heard) == Minus(vadOffset + at, PreRoll)

(* The start the pipeline reports for a speech onset heard up to `to`.     *)
OnsetFrom(at, to, heard) ==
    Max({Minus(vadOffset + at, PreRoll), Minus(to, Len(heard)), Minus(to, MaxUtterance)})

(* end_utterance, up to the transcription it may need.                     *)
EndUtterance(buffer, from, to, continues) ==
    /\ ending' = [to |-> to, continues |-> continues]
    /\ said' = [said EXCEPT !.open = None, !.from = from, !.to = to]
    /\ IF buffer = <<>> THEN utterance' = buffer /\ UNCHANGED last
                        ELSE utterance' = <<>> /\ last' = buffer
    /\ state' = IF buffer # <<>> /\ "whisper" \in parts THEN "Transcribing" ELSE state

ListenOn(verdict) ==
    LET n == Part
        step == VadStep(vad, n, verdict) IN
    /\ Listens /\ Advance(n)
    /\ IF HasVad THEN step.event = None /\ vad' = step.vad /\ history' = Remembered(n)
                 ELSE UNCHANGED <<vad, history>>
    /\ utterance' = Spoken(n)
    /\ UNCHANGED <<parts, state, last, start, vadOffset, hot, pausedAt, diarizer,
                   ending, history_>>

SpeechStarts(verdict) ==
    LET n == Part
        step == VadStep(vad, n, verdict)
        heard == Remembered(n) IN
    /\ Listens /\ HasVad /\ Advance(n)
    /\ step.event # None /\ step.event.kind = "start"
    /\ vad' = step.vad /\ history' = heard
    /\ start' = OnsetFrom(step.event.at, now + n, heard)
    /\ utterance' = Newest(heard, Min({now + n - start', Len(heard)}))
    /\ state' = "SpeechActive" /\ said' = [said EXCEPT !.open = start']
    /\ UNCHANGED <<parts, last, vadOffset, hot, pausedAt, diarizer, ending, horizon>>

SpeechEnds(verdict) ==
    LET n == Part
        step == VadStep(vad, n, verdict) IN
    /\ Listens /\ HasVad /\ state = "SpeechActive" /\ Advance(n)
    /\ step.event # None /\ step.event.kind = "end"
    /\ vad' = step.vad /\ history' = Remembered(n)
    /\ LET to == Clamp(vadOffset + step.event.at, start, now + n) IN
       EndUtterance(SubSeq(Spoken(n), 1, Min({to - start, Len(Spoken(n))})), start, to, FALSE)
    /\ UNCHANGED <<parts, start, vadOffset, hot, pausedAt, diarizer, horizon>>

(* The cap: the utterance ends here and, where a voice detector still      *)
(* hears speech, another begins.                                           *)
Split ==
    /\ call.kind = "chunk" /\ ending = None /\ Full
    /\ EndUtterance(utterance, start, now, HasVad)
    /\ UNCHANGED <<parts, now, history, start, detectors, diarizer, call, horizon>>

(* finish_utterance after the transcription: its result decides nothing    *)
(* but whether the call goes on.                                           *)
Finished ==
    /\ ending' = None
    /\ IF ending.continues
       THEN /\ state' = "SpeechActive" /\ start' = ending.to
            /\ said' = [said EXCEPT !.open = ending.to]
            /\ UNCHANGED <<hot, history>>
       ELSE /\ state' = Listening
            /\ hot' = IF WakesFirst THEN ResumeAfterPause(now - pausedAt) ELSE hot
            /\ history' = IF WakesFirst THEN <<>> ELSE history
            /\ UNCHANGED <<start, said>>
    /\ UNCHANGED <<parts, now, utterance, last, vad, vadOffset, pausedAt,
                   diarizer, horizon>>

FinishSilently ==
    /\ ending # None /\ state # "Transcribing"
    /\ Finished /\ UNCHANGED call

(* Whisper returns a text, or gives up because its cancel latch was set,   *)
(* which the pipeline takes for an utterance without a text.               *)
Transcribed ==
    /\ ending # None /\ state = "Transcribing"
    /\ Finished /\ UNCHANGED call

(* Mutant of TranscriptionFails: the error is returned before the diarizer *)
(* has heard what was accepted.                                            *)
TranscriptionFailsAtOnce ==
    /\ ending # None /\ state = "Transcribing"
    /\ Finished /\ call' = Idle

(* Any other error of Whisper ends the call; the rest of the chunk is      *)
(* not accepted.                                                           *)
TranscriptionFails ==
    /\ ending # None /\ state = "Transcribing"
    /\ Finished
    /\ call' = IF call.kind = "chunk" THEN [call EXCEPT !.left = 0] ELSE call

(* The diarizer hears what was accepted; it stops for good if it fails.    *)
ChunkReturns ==
    /\ call.kind = "chunk" /\ call.left = 0 /\ ending = None /\ ~Full
    /\ diarizer' \in {NoSession,
                      IF diarizer.live THEN [diarizer EXCEPT !.heard = @ + now - call.before]
                                       ELSE diarizer}
    /\ call' = Idle
    /\ UNCHANGED <<parts, state, now, buffers, detectors, ending, history_>>

----------------------------------------------------------------------------
(* flush: the utterance in progress ends, and the diarizer's session too.  *)
FlushEnd(clock) ==
    IF HasVad /\ vad.triggered
    THEN Clamp(vadOffset + Min({Pad + IF vad.tempEnd = None THEN clock ELSE vad.tempEnd, clock}),
               start, now)
    ELSE now

Flush ==
    LET clock == vad.clock + vad.buffered
        to == FlushEnd(clock) IN
    /\ call = Idle /\ call' = [kind |-> "flush", closes |-> state = "SpeechActive"]
    /\ IF state = "SpeechActive"
       THEN /\ EndUtterance(SubSeq(utterance, 1, Min({to - start, Len(utterance)})),
                            start, to, FALSE)
            /\ vad' = IF HasVad THEN [ResetVad EXCEPT !.clock = clock] ELSE vad
       ELSE UNCHANGED <<state, utterance, last, ending, said, vad>>
    /\ UNCHANGED <<parts, now, history, start, vadOffset, hot, pausedAt, diarizer, horizon>>

FlushReturns ==
    /\ call.kind = "flush" /\ ending = None
    /\ diarizer' \in {NoSession, IF diarizer.live THEN Fresh(now) ELSE diarizer}
    /\ call' = Idle
    /\ IF call.closes
       THEN vad' = ResetVad /\ vadOffset' = now /\ history' = <<>> /\ horizon' = now
       ELSE UNCHANGED <<vad, vadOffset, history, horizon>>
    /\ UNCHANGED <<parts, state, now, utterance, last, start, hot, pausedAt, ending, said>>

(* reset: a new stream, and a diarizer again if one can be started.        *)
Reset ==
    /\ call = Idle
    /\ state' = Listening /\ now' = 0 /\ pausedAt' = 0 /\ vadOffset' = 0
    /\ history' = <<>> /\ utterance' = <<>> /\ last' = <<>> /\ start' = 0
    /\ vad' = ResetVad /\ hot' = ResetHot
    /\ diarizer' \in {NoSession, Fresh(0)}
    /\ said' = NothingSaid /\ horizon' = 0
    /\ UNCHANGED <<parts, call, ending>>

TakeLastUtterance ==
    /\ call = Idle /\ last # <<>> /\ last' = <<>>
    /\ UNCHANGED <<parts, state, now, history, utterance, start, detectors, diarizer, call,
                   ending, history_>>

Step ==
    \/ SpeakWithoutVad \/ Split \/ FinishSilently \/ Transcribed \/ TranscriptionFails
    \/ \E detected \in BOOLEAN : ListenForHotword(detected)
    \/ \E verdict \in Verdicts :
          ListenOn(verdict) \/ SpeechStarts(verdict) \/ SpeechEnds(verdict)
    \/ ChunkReturns \/ FlushReturns

Next == Step \/ Flush \/ Reset \/ TakeLastUtterance \/ \E n \in Chunks : ProcessChunk(n)

(* A call runs until it returns; no one is bound to make one.              *)
Spec == Init /\ [][Next]_vars /\ WF_vars(Step)

----------------------------------------------------------------------------
States == {"ListeningForHotword", "ListeningForSpeech", "SpeechActive", "Transcribing"}
Samples == 1 .. MaxStream

(* Every variable has its type, and no buffer passes its bound.            *)
TypeOK ==
    /\ parts \in Builds /\ state \in States /\ now \in 0 .. MaxStream
    /\ {pausedAt, vadOffset, start, horizon} \subseteq 0 .. now
    /\ \A b \in {history, utterance, last, hot.ring} : \A i \in DOMAIN b : b[i] \in Samples
    /\ Len(history) <= Max({HistoryLimit, WakePreRollCap}) /\ Len(hot.ring) <= Ring
    /\ Len(utterance) <= MaxUtterance /\ Len(last) <= MaxUtterance
    /\ vad.clock \in 0 .. now /\ vad.triggered \in BOOLEAN /\ vad.buffered \in 0 .. Window - 1
    /\ vad.tempEnd \in 0 .. vad.clock \cup {None}
    /\ hot.clock \in 0 .. now /\ hot.lastEval \in 0 .. hot.clock /\ hot.cooldownUntil \in Nat
    /\ diarizer.live => diarizer.origin + diarizer.heard <= now
    /\ call.kind \in {"idle", "chunk", "flush"}
    /\ call = Idle => ending = None /\ state # "Transcribing"

(* The utterance being heard is the audio from its reported start to now.  *)
UtteranceIsItsSpan ==
    state = "SpeechActive" /\ ending = None =>
        /\ said.open = start /\ utterance = Span(start, now)

(* An utterance whose end has been reported and that has any audio is what *)
(* last_utterance shows, from its start to its end, until it is taken.     *)
LastIsReported ==
    said.from < said.to => last \in {<<>>, Span(said.from, said.to)}

(* The history a speech onset reaches back into is all the audio since the *)
(* stream, the wake word's pre-roll or a flush, as far as the limit.       *)
HistoryIsRecent ==
    HasVad /\ state \in {"ListeningForSpeech", "SpeechActive"} /\ ending = None =>
        history = Span(Max({horizon, now - HistoryLimit}), now)

(* "Event sample offsets and timestamps use the stream's global clock      *)
(* across utterances" (docs/API_0_6.md): every buffer of audio is exactly  *)
(* the stretch of the stream it is reported as, wherever pre-roll, the     *)
(* wake detector's ring, a split, a flush or a reset detector clock put    *)
(* its start.                                                              *)
BuffersAreSpans == UtteranceIsItsSpan /\ LastIsReported /\ HistoryIsRecent

(* Between windows the voice detector's clock, its buffered tail and the   *)
(* offset it was reset at add up to the stream's clock, and it hears       *)
(* speech exactly while the pipeline keeps an utterance.                   *)
VadClockAgrees ==
    HasVad /\ state \in {"ListeningForSpeech", "SpeechActive"} /\ ending = None =>
        /\ vadOffset + vad.clock + vad.buffered = now
        /\ vad.triggered = (state = "SpeechActive")

(* "feeding nothing would skew every later label until flush, feeding the  *)
(* whole chunk would run it ahead" (process_chunk): between calls the      *)
(* diarizer has heard the stream from its origin to now.                   *)
DiarizerClockAgrees == call = Idle /\ diarizer.live => diarizer.origin + diarizer.heard = now

(* Pre-roll "so trailing speech onset is never clipped" (README.md): an    *)
(* utterance starts a padding and a pre-roll before the window that        *)
(* sounded like speech, unless the audio does not go back that far or the  *)
(* utterance would be too long.                                            *)
OnsetNotClipped ==
    [][\A verdict \in Verdicts : SpeechStarts(verdict) =>
          start' <= Max({Minus(vadOffset + vad.clock, Pad + PreRoll), horizon,
                         now' - MaxUtterance})]_vars

(* With a wake word required, no utterance starts before the word, less    *)
(* its pre-roll, or reaches back into one that has ended: "Resuming wake   *)
(* listening clears discontinuous old audio" (docs/API_0_6.md).            *)
SpeechAfterWake ==
    WakesFirst /\ said.open # None =>
        /\ said.wake # None /\ said.open >= said.wake - PreRoll
        /\ said.open >= said.to

(* So an utterance starts neither too late nor too early.                  *)
OnsetIsPlaced == OnsetNotClipped /\ []SpeechAfterWake

(* "preserving unexpired cooldown" (docs/API_0_6.md): on the stream's      *)
(* clock two wake words are a cooldown apart, whatever was said between.   *)
WakesApart ==
    [][said'.wake \notin {said.wake, None} /\ said.wake # None =>
          said'.wake - said.wake >= Cooldown]_vars

=============================================================================
