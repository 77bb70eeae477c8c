------------------------------ MODULE Diarizer ------------------------------
(***************************************************************************)
(* Speaker labels for the audio pipeline's utterances: the pipeline's      *)
(* PipelineDiarizer (cera/src/audio_pipeline.rs), the live session it      *)
(* drives (live_diarizer.rs) and the SpeakerLabeler in that session        *)
(* (speaker_labeler.rs), which keeps an utterance until the diarizer's     *)
(* frames, which lag behind the audio, cover it.                           *)
(*                                                                         *)
(* Frame f of a session is final activity for the audio from               *)
(* origin + f * Frame on.  What the network says of a frame is left out:   *)
(* a label is the set of frames that were weighed for it.                  *)
(***************************************************************************)
EXTENDS Integers, Sequences, FiniteSetsExt, SequencesExt

CONSTANTS
    Frame,          \* length of a diarizer frame
    History,        \* SpeakerLabelerConfig::history_ms
    MaxPendings,    \* values a caller may give max_pending
    Chunks,         \* lengths of chunk the pipeline accepts
    Times,          \* finite times a caller of add_utterance may give
    MaxTime,        \* bound: length of the stream
    MaxUtterances,  \* bound: utterances granted
    None

ASSUME DiarizerAssumption ==
    /\ {Frame, History} \subseteq Nat \ {0} /\ MaxPendings \subseteq Nat
    /\ Chunks \subseteq Nat \ {0} /\ {MaxTime, MaxUtterances} \subseteq Nat
    /\ 0 .. MaxTime \subseteq Times /\ Times \subseteq Int /\ None \notin Int

VARIABLES
    maxPending,       \* fixed by the builder
    now,              \* the pipeline's current sample
    live, origin,     \* is there a session, and the stream's time at its sample 0
    fed, first, received,  \* audio it was fed; its frames first .. received-1 are kept
    queue, parked, lost,   \* SpeakerLabeler: pending, dropped, lost
    pending, nextId,  \* PipelineDiarizer: the utterances granted a label, by id
    events            \* what the last call answered: UtteranceLabeled events

stream == <<now, live, origin, fed, first, received>>
labeler == <<queue, parked, lost>>
vars == <<maxPending, stream, labeler, pending, nextId, events>>

(* Any pair of times: before the stream or past it, reversed or a point.   *)
Spans == [from : Times, to : Times]
Unplaceable == [from |-> None, to |-> None]  \* a time is NaN or infinite
Nothing == [id \in {} |-> Unplaceable]

Minus(a, b) == Max({0, a - b})
Cap == Max({1, maxPending})
Ceil(n) == (n + Frame - 1) \div Frame

Init ==
    /\ maxPending \in MaxPendings
    /\ now = 0 /\ live = TRUE /\ origin = 0 /\ fed = 0 /\ first = 0 /\ received = 0
    /\ queue = <<>> /\ parked = <<>> /\ lost = 0
    /\ pending = Nothing /\ nextId = 0 /\ events = {}

----------------------------------------------------------------------------
(* The labeler.  A call is a function from its state to its state.         *)
Labeler == [queue |-> queue, parked |-> parked, lost |-> lost, first |-> first,
            received |-> received]

Become(l) ==
    /\ queue' = l.queue /\ parked' = l.parked /\ lost' = l.lost
    /\ first' = l.first /\ received' = l.received

EmptyLabeler == [queue |-> <<>>, parked |-> <<>>, lost |-> 0, first |-> 0, received |-> 0]

Covered(l) == l.received * Frame

(* Those of a queue who are in S, in their order.                          *)
Only(us, S) ==
    LET kept[i \in 0 .. Len(us)] ==
            IF i = 0 THEN <<>>
            ELSE IF us[i] \in S THEN Append(kept[i - 1], us[i]) ELSE kept[i - 1]
    IN  kept[Len(us)]

(* Utterances given up on wait for the next poll; too many are lost.       *)
Park(l, us) ==
    LET all == l.parked \o us
        excess == Minus(Len(all), Cap) IN
    [l EXCEPT !.parked = SubSeq(all, excess + 1, Len(all)), !.lost = @ + excess]

(* A reversed span is queued as the point at its start.                    *)
Clamped(u) == [u EXCEPT !.to = Max({u.from, @})]

(* add_utterance: the oldest beyond max_pending are given up.              *)
AddUtterance(l, u) ==
    IF u.from = None THEN Park(l, <<u>>)
    ELSE LET all == Append(l.queue, Clamped(u))
             excess == Minus(Len(all), maxPending) IN
         Park([l EXCEPT !.queue = SubSeq(all, excess + 1, Len(all))], SubSeq(all, 1, excess))

(* The diarizer has not reached the end, and the start is a history old.   *)
Stuck(l, u) == u.to > Covered(l) /\ u.from < Covered(l) - History

KeptFrames == Ceil(History)

(* Mutant of OldestNeeded: nobody's frames are kept alive.                 *)
OldestNeededByNone(l) == l.received

(* Frames before this one may go, as far as those who wait are concerned.  *)
OldestNeeded(l) == Min({u.from \div Frame : u \in ToSet(l.queue)} \cup {l.received})

PushFrames(l, k) ==
    LET m == [l EXCEPT !.received = @ + k]
        stuck == {u \in ToSet(m.queue) : Stuck(m, u)}
        gone == Park([m EXCEPT !.queue = Only(@, ToSet(@) \ stuck)], Only(m.queue, stuck)) IN
    [gone EXCEPT !.first = Max({@, Min({gone.received - KeptFrames, OldestNeeded(gone)})})]

(* A point needs the frame it falls in, so it is covered only past it.     *)
Ready(l, u) == u.to <= Covered(l) /\ (u.from < u.to \/ u.from < Covered(l))

(* label: the frames that overlap the span and that there are.             *)
Weighed(l, u) ==
    LET last == IF u.from = u.to THEN u.from \div Frame ELSE (u.to - 1) \div Frame IN
    Max({l.first, u.from \div Frame}) .. Min({l.received - 1, last})

GivenUp(u) == [u |-> u, dropped |-> TRUE, frames |-> {}, until |-> 0]
Labeled(l, u) == [u |-> u, dropped |-> FALSE, frames |-> Weighed(l, u), until |-> l.received]

(* poll: the parked, and all who are covered, not the head only.           *)
Due(l) == {u \in ToSet(l.queue) : Ready(l, u)}

PollAnswers(l) ==
    {GivenUp(u) : u \in ToSet(l.parked)} \cup {Labeled(l, u) : u \in Due(l)}

Poll(l) == [l EXCEPT !.parked = <<>>, !.queue = Only(@, ToSet(@) \ Due(l))]

(* flush: the rest is labeled with the frames that exist.                  *)
FlushAnswers(l) ==
    PollAnswers(l) \cup {Labeled(l, u) : u \in ToSet(Poll(l).queue)}

----------------------------------------------------------------------------
(* The pipeline's side.                                                    *)
SessionLocal(time) == IF time = None THEN None ELSE Minus(time, origin)

(* Mutant of Full: no grant is refused.                                    *)
FullNever(p) == FALSE

Full(p) == Cardinality(DOMAIN p) >= Cap

(* register: refused once as many wait as the labeler can park.  An        *)
(* utterance remembers (for the properties) whether its first frame was    *)
(* still there, or yet to come.                                            *)
Registered(s) ==
    LET from == SessionLocal(s.from) IN
    [id |-> nextId, from |-> from, to |-> SessionLocal(s.to),
     kept |-> from # None /\ from >= first * Frame]

Grants(s) == live /\ ~Full(pending) /\ nextId < MaxUtterances

Granted(s) == [id \in DOMAIN pending \cup {nextId} |-> IF id = nextId THEN s ELSE pending[id]]

Without(p, answers) == Restrict(p, DOMAIN p \ {a.u.id : a \in answers})

(* An answer becomes an event if the pipeline still waits for it.          *)
Events(p, answers) ==
    {[span |-> p[a.u.id], kept |-> a.u.kept, dropped |-> a.dropped, frames |-> a.frames,
      origin |-> origin, until |-> a.until] : a \in {b \in answers : b.u.id \in DOMAIN p}}

(* add_utterance: the caller's own recogniser has a text.                  *)
Add(s) ==
    /\ Grants(s)
    /\ Become(AddUtterance(Labeler, Registered(s)))
    /\ pending' = Granted(s) /\ nextId' = nextId + 1 /\ events' = {}
    /\ UNCHANGED <<maxPending, now, live, origin, fed>>

(* What a call registers first: an utterance transcribed meanwhile, or     *)
(* nothing.  It is on the stream, ends by `end`, and in this session: a    *)
(* flush has ended all that came before.                                   *)
Transcribed(end) ==
    {s \in Spans : 0 <= s.from /\ s.from < s.to /\ origin < s.to /\ s.to <= end}
        \cup {None}

AfterRegister(s) ==
    IF s # None /\ Grants(s)
    THEN [l |-> AddUtterance(Labeler, Registered(s)), p |-> Granted(s), n |-> nextId + 1]
    ELSE [l |-> Labeler, p |-> pending, n |-> nextId]

(* process_chunk: register, push_audio, poll.                              *)
Hear(n, s, k) ==
    LET r == AfterRegister(s)
        l == PushFrames(r.l, k) IN
    /\ live /\ now + n <= MaxTime /\ s \in Transcribed(now + n)
    /\ k \in 0 .. ((fed + n) \div Frame) - received
    /\ now' = now + n /\ fed' = fed + n /\ nextId' = r.n
    /\ Become(Poll(l))
    /\ pending' = Without(r.p, PollAnswers(l)) /\ events' = Events(r.p, PollAnswers(l))
    /\ UNCHANGED <<maxPending, live, origin>>

(* A session that fails stops the diarizer, and whoever waits waits no more. *)
Stopped ==
    /\ live' = FALSE /\ Become(EmptyLabeler) /\ fed' = 0 /\ pending' = Nothing

HearFails(n, s) ==
    /\ live /\ now + n <= MaxTime /\ s \in Transcribed(now + n)
    /\ now' = now + n /\ Stopped
    /\ nextId' = AfterRegister(s).n /\ events' = {}
    /\ UNCHANGED <<maxPending, origin>>

HearWithoutDiarizer(n) ==
    /\ ~live /\ now + n <= MaxTime /\ now' = now + n /\ events' = {}
    /\ UNCHANGED <<maxPending, live, origin, fed, first, received, labeler, pending, nextId>>

(* flush: register, finish (the frames that are due arrive, perhaps a last *)
(* short one), and a new session that starts here, if one can be opened.   *)
Flush(s, k) ==
    LET r == AfterRegister(s)
        l == PushFrames(r.l, k) IN
    /\ live /\ s \in Transcribed(now)
    /\ k \in (fed \div Frame) - received .. Ceil(fed) - received
    /\ Become(EmptyLabeler) /\ fed' = 0 /\ origin' = now /\ nextId' = r.n
    /\ events' = Events(r.p, FlushAnswers(l))
    /\ \/ live' = TRUE /\ pending' = Without(r.p, FlushAnswers(l))
       \/ live' = FALSE /\ pending' = Nothing
    /\ UNCHANGED <<maxPending, now>>

FlushFails(s) ==
    /\ live /\ s \in Transcribed(now) /\ Stopped
    /\ nextId' = AfterRegister(s).n /\ events' = {}
    /\ UNCHANGED <<maxPending, now, origin>>

(* reset: a new stream and, if it can be opened, a new session.            *)
Reset ==
    /\ now' = 0 /\ origin' = 0 /\ fed' = 0 /\ Become(EmptyLabeler)
    /\ live' \in BOOLEAN /\ pending' = Nothing /\ events' = {}
    /\ UNCHANGED <<maxPending, nextId>>

Next ==
    \/ \E s \in Spans \cup {Unplaceable} : Add(s)
    \/ \E n \in Chunks, s \in Spans \cup {None} :
          HearFails(n, s) \/ \E k \in 0 .. Ceil(MaxTime) : Hear(n, s, k)
    \/ \E n \in Chunks : HearWithoutDiarizer(n)
    \/ \E s \in Spans \cup {None} :
          FlushFails(s) \/ \E k \in 0 .. Ceil(MaxTime) : Flush(s, k)
    \/ Reset

Spec == Init /\ [][Next]_vars

----------------------------------------------------------------------------
Registrations == [id : 0 .. nextId - 1, from : Nat, to : Nat, kept : BOOLEAN]
Unplaced == [id : 0 .. nextId - 1, from : {None}, to : {None}, kept : {FALSE}]

(* Every variable has its type; the labeler's times are on its session's   *)
(* clock, which starts at 0, and its queues are within their caps.         *)
TypeOK ==
    /\ maxPending \in MaxPendings /\ now \in 0 .. MaxTime /\ live \in BOOLEAN
    /\ origin \in 0 .. now /\ (live => fed = now - origin)
    /\ first \in 0 .. received /\ received * Frame <= fed
    /\ \A u \in ToSet(queue) : u \in Registrations /\ u.from <= u.to
    /\ Len(queue) <= maxPending
    /\ ToSet(parked) \subseteq Registrations \cup Unplaced /\ Len(parked) <= Cap
    /\ nextId \in 0 .. MaxUtterances /\ DOMAIN pending \subseteq 0 .. nextId - 1
    /\ \A id \in DOMAIN pending : pending[id] \in Spans \cup {Unplaceable}
    /\ \A e \in events : e.frames \subseteq 0 .. MaxTime /\ e.origin \in 0 .. MaxTime

(* register "Returns whether a diarizer will label it": an utterance the   *)
(* pipeline waits for is in exactly one of the labeler's two queues and is *)
(* never lost, and when the diarizer has stopped nobody waits.             *)
EveryGrantIsHeld ==
    /\ lost = 0
    /\ ~live => pending = Nothing
    /\ live => /\ {u.id : u \in ToSet(queue) \cup ToSet(parked)} = DOMAIN pending
               /\ Len(queue) + Len(parked) = Cardinality(DOMAIN pending)

(* A reversed span is the point at its start.                              *)
Ending(span) == Max({span.from, span.to})

(* The audio a frame stands for, on the stream's clock.                    *)
Overlaps(f, span, at) ==
    LET from == at + f * Frame  to == from + Frame IN
    IF span.from = Ending(span) THEN from <= span.from /\ span.from < to
                                ELSE from < span.to /\ span.from < to

(* "pending utterances keep their frames alive until released"             *)
(* (push_frames): an utterance that reaches into its session and was       *)
(* registered while its first frame was kept is labeled from all the       *)
(* frames of its own audio and from no other, however long it waited and   *)
(* whatever pair of times the caller gave (speaker_labeler.rs's test       *)
(* registration_clamps_a_negative_start_and_a_reversed_span).              *)
WholeSpanIsWeighed ==
    \A e \in events :
        ~e.dropped /\ e.kept /\ Ending(e.span) > e.origin =>
            e.frames = {f \in 0 .. e.until - 1 : Overlaps(f, e.span, e.origin)}

(* LabeledUtterance::label is "`None` when the diarizer found no speaker   *)
(* active over the span (or had no frames for it)" (speaker_labeler.rs):   *)
(* no label is drawn from audio outside the utterance.                     *)
LabelIsOfItsSpan ==
    \A e \in events : \A f \in e.frames : Overlaps(f, e.span, e.origin)
=============================================================================
