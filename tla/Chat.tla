-------------------------------- MODULE Chat --------------------------------
(***************************************************************************)
(* The chat coordinator over a session (cera/src/session/chat.rs): the     *)
(* phases of a conversation, what is written between a reply and the next  *)
(* message, and what a failed call makes of both.  The calls are those of  *)
(* Session; this module says when Chat makes them, and what it concludes   *)
(* from how they end.                                                      *)
(*                                                                         *)
(* Rows of text are vocabulary entries, with two that only Chat writes:    *)
(* the end of a turn and the newline after it.                             *)
(***************************************************************************)
EXTENDS Session

CONSTANTS
    Turns,  \* rendered messages: sequences of segments
    Eos, Newline

(* A message that goes on after another starts with the end of that one.   *)
Continued(m, closing) == <<[soft |-> FALSE, rows |-> closing \o m[1].rows]>> \o Tail(m)

(* What a session may be asked to ingest is what Chat renders.             *)
ASSUME ChatAssumption ==
    /\ NKeep = 0
    /\ \A m \in Turns : {m, Continued(m, <<Eos, Newline>>)} \subseteq Messages
    /\ Eos \notin Tokens /\ Newline \notin Tokens

VARIABLES
    phase,    \* SessionPhase
    terminal, \* terminal_committed: FALSE after a reply that ended itself, or None
    turn,     \* locals of the ingestion or generation in progress, or None:
              \* prior_phase, prior_terminal, replace, and, auxiliary, the text
    kept      \* phase and terminal_committed of the stored checkpoint

chatVars == <<phase, terminal, turn, kept>>
allVars  == <<vars, chatVars>>

Phases == {"idle", "prompt", "turn", "interrupted", "raw", "unusable"}
Known == {"idle", "prompt", "turn", "interrupted"}

Ends == [phase : Phases, terminal : {None, FALSE}]
Texts == [phase : Phases, text : Seq(AnyRow)]
Locals ==
    [prior : Phases, terminal : {None, FALSE}, replacing : BOOLEAN, text : Seq(AnyRow)]

(* None is told apart from what it stands beside.                          *)
ASSUME NothingAssumption ==
    /\ None \notin Outcomes /\ None \notin BOOLEAN
    /\ None \notin Ends /\ None \notin Texts /\ None \notin Locals

TextIn(p) == IF p \in Known THEN RowsOf(kv.cells) ELSE <<>>

ChatInit ==
    /\ Init
    /\ phase = "idle" /\ terminal = None /\ turn = None /\ kept = None

----------------------------------------------------------------------------
(* prepare: a message that goes on after a reply starts with the reply's   *)
(* end, unless that is in the context already, and a newline.              *)
Closing ==
    IF terminal = FALSE THEN <<Eos, Newline>> ELSE <<Newline>>

Rendered(m, initial) == IF initial THEN m ELSE Continued(m, Closing)

(* Media take one marker each here; their rows are counted when they are   *)
(* appended.                                                               *)
Required(m) == FoldSeq(LAMBDA seg, n : n + IF seg.soft THEN 1 ELSE Len(seg.rows), 0, m)

Occupied(replacing) ==
    /\ turn' = [prior |-> phase, terminal |-> terminal, replacing |-> replacing,
                text |-> TextIn(phase)]
    /\ phase' = "unusable"
    /\ UNCHANGED kept

ChatIngest ==
    /\ phase \in {"idle", "turn"}
    /\ \E t \in Turns :
          LET m == Rendered(t, phase = "idle") IN
          /\ Required(m) <= MaxSeqLen - pos
          /\ Ingests(m)
    /\ Occupied(FALSE) /\ terminal' = None

Emptied ==
    LET fresh == Pristine(kv.backend)
    IN  [pos |-> 0, history |-> <<>>, logits |-> None,
         rewindable |-> CheckRewind(fresh, 0), kv |-> fresh]

(* replace_messages: an implicit reset, which leaves a pending cancel      *)
(* pending, and the ingestion.                                             *)
ChatReplace ==
    /\ phase # "unusable"
    /\ AtRest /\ usable
    /\ \E m \in Turns :
          /\ Required(m) <= MaxSeqLen
          /\ call' = [Appending(TRUE, m) EXCEPT !.before = Emptied]
    /\ Cleared
    /\ report' = None
    /\ UNCHANGED <<usable, cancel, stored>>
    /\ Occupied(TRUE) /\ terminal' = None

ChatReplaceFails ==
    /\ phase # "unusable"
    /\ usable /\ ResetFails
    /\ phase' = "unusable" /\ terminal' = None
    /\ UNCHANGED <<turn, kept>>

(* How an ingestion ended; over an implicit reset, undone means empty.     *)
Outcome ==
    IF turn.replacing /\ report' \in {"unchanged", "restored"} THEN "reset" ELSE report'

(* Mutants of IngestEnds: the reply's end is forgotten when the message    *)
(* after it is undone; what a replacement undid is taken for untouched.    *)
IngestEndsForgetting ==
    /\ turn' = None
    /\ CASE report' = None -> phase' = "prompt"
         [] Outcome \in {"unchanged", "restored"} -> phase' = turn.prior
         [] Outcome = "reset" -> phase' = "idle"
         [] Outcome = "unusable" -> phase' = "unusable"
    /\ UNCHANGED <<terminal, kept>>

IngestEndsUntouched ==
    /\ turn' = None
    /\ CASE report' = None -> phase' = "prompt" /\ UNCHANGED terminal
         [] report' \in {"unchanged", "restored"} ->
              phase' = turn.prior /\ terminal' = turn.terminal
         [] report' = "reset" -> phase' = "idle" /\ UNCHANGED terminal
         [] report' = "unusable" -> phase' = "unusable" /\ UNCHANGED terminal
    /\ UNCHANGED kept

IngestEnds ==
    /\ turn' = None
    /\ CASE report' = None -> phase' = "prompt" /\ UNCHANGED terminal
         [] Outcome \in {"unchanged", "restored"} ->
              phase' = turn.prior /\ terminal' = turn.terminal
         [] Outcome = "reset" -> phase' = "idle" /\ UNCHANGED terminal
         [] Outcome = "unusable" -> phase' = "unusable" /\ UNCHANGED terminal
    /\ UNCHANGED kept

Ingesting ==
    /\ turn # None
    /\ AppendStep
    /\ IF AtRest' THEN IngestEnds ELSE UNCHANGED chatVars

----------------------------------------------------------------------------
(* generate_into.  Without progress the prompt stays ready; an error that  *)
(* changed nothing leaves the context to its owner.                        *)
ChatGenerateNothing ==
    /\ phase = "prompt"
    /\ GenerateNothing
    /\ phase' = IF ~cancel /\ pos < MaxSeqLen /\ logits = None THEN "raw" ELSE phase
    /\ UNCHANGED <<terminal, turn, kept>>

ChatGenerate ==
    /\ phase = "prompt"
    /\ StartGenerate
    /\ Occupied(FALSE) /\ UNCHANGED terminal

(* A token the loop looked at was the turn's end, or another stop token.   *)
LooksAtToken ==
    \/ SpecRound
    \/ SpecStops /\ MayStep(pos)
    \/ DecodeStops /\ MayStep(call.at)

Verdict(p) ==
    /\ turn' = None
    /\ phase' = p
    /\ terminal' = IF p = "turn" THEN FALSE ELSE terminal
    /\ UNCHANGED kept

(* Mutant of Condemned: an error of the decode loop is another way to stop. *)
NotCondemned == Verdict("interrupted") /\ UNCHANGED usable

(* An error, or a rewind that was not proven: DecodeGuard.                 *)
Condemned == Verdict("unusable") /\ usable' = FALSE

Replying ==
    /\ turn # None
    /\ \/ Generating /\ ~AtRest' /\ UNCHANGED <<usable, chatVars>>
       \/ Generating /\ AtRest' /\ hole' /\ Condemned
       \/ /\ Generating /\ AtRest' /\ ~hole'
          /\ Verdict(IF cancel /\ call.emitted = 0 THEN "prompt" ELSE "interrupted")
          /\ UNCHANGED usable
       \/ LooksAtToken /\ AtRest' /\ ~hole' /\ Verdict("turn") /\ UNCHANGED usable

(* A panic of the model or of the caller's sink unwinds through the guards *)
(* of the call.                                                            *)
ReplyUnwinds ==
    /\ turn # None
    /\ call.op \in {"generate", "aborted"}
    /\ kv' \in {kv, Wrecked(kv)}
    /\ usable' = FALSE /\ logits' = None /\ cancel' = FALSE
    /\ call' = Rest /\ turn' = None
    /\ UNCHANGED <<pos, published, history, report, stored, hole, phase, terminal, kept>>

----------------------------------------------------------------------------
ChatReset ==
    /\ Reset
    /\ phase' = "idle" /\ terminal' = None
    /\ UNCHANGED <<turn, kept>>

ChatResetFails ==
    /\ ResetFails
    /\ phase' = "unusable" /\ terminal' = None
    /\ UNCHANGED <<turn, kept>>

(* raw: the session is the caller's, who appends to it behind Chat's back. *)
Raw ==
    /\ AtRest /\ phase \notin {"raw", "unusable"}
    /\ phase' = "raw" /\ terminal' = None
    /\ UNCHANGED <<vars, turn, kept>>

RawAppend ==
    /\ phase = "raw"
    /\ StartAppend \/ AppendStep
    /\ UNCHANGED chatVars

ChatCheckpoint ==
    /\ Checkpoint
    /\ kept' = [phase |-> phase, terminal |-> terminal]
    /\ UNCHANGED <<phase, terminal, turn>>

ChatRestore ==
    /\ Restore
    /\ kept.phase # "unusable"
    /\ phase' = kept.phase
    /\ terminal' = IF kept.terminal = None /\ kept.phase = "turn" THEN FALSE ELSE kept.terminal
    /\ UNCHANGED <<turn, kept>>

ChatNext ==
    \/ ChatIngest \/ ChatReplace \/ ChatReplaceFails \/ Ingesting
    \/ ChatGenerateNothing \/ ChatGenerate \/ Replying \/ ReplyUnwinds
    \/ ChatReset \/ ChatResetFails \/ Raw \/ RawAppend
    \/ ChatCheckpoint \/ ChatRestore
    \/ (Cancel \/ ClearCancel) /\ UNCHANGED chatVars

ChatSpec == ChatInit /\ [][ChatNext]_allVars

----------------------------------------------------------------------------
(* The phases and what goes with them (SessionPhase, terminal_committed).  *)
ChatTypeOK ==
    /\ TypeOK
    /\ phase \in Phases
    /\ terminal \in {None, FALSE} /\ (terminal = FALSE <=> phase = "turn")
    /\ turn # None => phase = "unusable" /\ ~AtRest

(* A conversation a caller may go on with stands on a usable session whose *)
(* cache is what its text computes, with nothing unproven in it; idle is   *)
(* empty, and a ready prompt has the logits of its last row.               *)
PhaseIsTrue ==
    AtRest /\ phase \in Known =>
        /\ usable /\ ~hole
        /\ pos = Len(kv.cells) /\ Sound(kv)
        /\ phase = "idle" => pos = 0
        /\ phase = "prompt" => logits = Context(kv)

(* Every turn but the last is ended exactly once: whatever was undone,     *)
(* replaced or restored, each end of turn has its newline and the next     *)
(* message after it, and none is missing or written twice.                 *)
Opening == {m[1].rows[1] : m \in Turns}

Alternates(rows) ==
    LET opened == {i \in DOMAIN rows : rows[i] \in Opening}
    IN  /\ rows # <<>> => 1 \in opened
        /\ \A i \in opened : i = 1 \/ (i > 2 /\ rows[i - 2] = Eos)
        /\ \A i \in DOMAIN rows : rows[i] = Eos =>
              i + 2 \in opened /\ rows[i + 1] = Newline
        /\ \A i \in DOMAIN rows : rows[i] = Newline => i > 1 /\ rows[i - 1] = Eos

TurnsAreClosed == AtRest /\ phase \in Known => Alternates(RowsOf(kv.cells))

(* To its caller each call happens at once: the text grows by a whole      *)
(* message with the ends it needs or by a whole reply, or a call that is   *)
(* refused, cancelled or fails leaves it, empties it or condemns it.       *)
FlatRows(m) == FlattenSeq([i \in DOMAIN m |-> m[i].rows])

(* Rows tell who wrote them: a message opens with a row that is nowhere    *)
(* else, and the ends of turns are Chat's.                                 *)
ASSUME MarkerAssumption ==
    /\ Opening \cap Tokens = {} /\ Eos # Newline
    /\ \A m \in Turns : \A i \in DOMAIN FlatRows(m) :
          /\ FlatRows(m)[i] \notin {Eos, Newline}
          /\ FlatRows(m)[i] \in Opening => i = 1

Reported == IF turn = None THEN phase ELSE turn.prior
Visible == IF turn = None THEN TextIn(phase) ELSE turn.text
Stored ==
    IF kept = None THEN None
    ELSE [phase |-> kept.phase,
          text |-> IF kept.phase \in Known THEN RowsOf(stored.kv.cells) ELSE <<>>]

Promise == INSTANCE Transcript WITH
    Messages <- {FlatRows(m) : m \in Turns},
    Replies <- UNION {[1 .. n -> Tokens] : n \in 0 .. MaxNew},
    Closing <- <<Eos, Newline>>,
    phase <- Reported, text <- Visible, saved <- Stored

ImplementsTranscript == Promise!Spec
----------------------------------------------------------------------------
(* What the calls rely on from step to step, and keep: the parts of the    *)
(* inductive invariant behind PhaseIsTrue and ImplementsTranscript.        *)
Ended(t, p) == t \in {None, FALSE} /\ (t = FALSE <=> p = "turn")

(* Where nothing is in progress the phase is the conversation's, and while *)
(* a call of Chat is, nobody else has the session.                         *)
PhaseInv ==
    /\ phase \in Phases /\ Ended(terminal, phase)
    /\ ~kv.dropped
    /\ turn # None =>
          /\ turn \in Locals /\ turn.prior # "unusable" /\ Ended(turn.terminal, turn.prior)
          /\ phase = "unusable" /\ ~AtRest /\ usable
    /\ turn = None /\ ~AtRest => phase = "raw" /\ call.op = "append" /\ ~call.guarded
    /\ AtRest /\ phase = "unusable" => ~usable
    /\ AtRest /\ phase \in Known =>
          /\ usable /\ ~hole
          /\ phase = "idle" => pos = 0
          /\ phase = "prompt" => logits = Context(kv)

(* What is stored is as the phase stored with it says.                     *)
KeptInv ==
    /\ kept = None => stored = None
    /\ kept # None => kept \in Ends /\ kept.phase # "unusable" /\ Ended(kept.terminal, kept.phase)
    /\ stored # None =>
          /\ ~stored.kv.dropped
          /\ kept.phase \in Known => ~stored.hole
          /\ kept.phase = "idle" => stored.pos = 0
          /\ kept.phase = "prompt" =>
                stored.logits = [cells |-> stored.kv.cells, conv |-> stored.kv.conv]

(* A message goes in behind the text before it: what is in the cache and   *)
(* what is left to do make up that text and one message.                   *)
Left(c) ==
    LET rows == Head(c.todo).rows
    IN  SubSeq(rows, c.fed + 1, Len(rows)) \o FlatRows(Tail(c.todo))
Started ==
    IF turn.replacing \/ turn.prior = "idle" THEN <<>> ELSE turn.text \o <<Eos, Newline>>

IngestInv ==
    turn # None /\ Appends =>
        /\ call.guarded /\ ~hole
        /\ turn.replacing \/ turn.prior = "idle" => call.before.pos = 0
        /\ ~turn.replacing =>
              turn.prior \in {"idle", "turn"} /\ turn.text = RowsOf(call.before.kv.cells)
        /\ call.op = "append" =>
              \E m \in Turns : RowsOf(kv.cells) \o Left(call) = Started \o FlatRows(m)

(* A reply goes in behind the prompt, and until it has a token the logits  *)
(* it took are still those of the prompt.                                  *)
Said(k, text, n) ==
    \E s \in UNION {[1 .. i -> Tokens] : i \in 0 .. MaxNew} :
        RowsOf(k.cells) = text \o s /\ Len(s) = n

ReplyInv ==
    turn # None /\ ~Appends =>
        /\ turn.prior = "prompt"
        /\ call.op = "generate" =>
              /\ call.budget <= MaxNew /\ call.emitted <= call.budget
              /\ call.emitted = 0 => call.fresh /\ call.taken = Context(kv)
              /\ ~hole => Said(kv, turn.text, call.emitted)

ChatInv == SessionInv /\ PhaseInv /\ KeptInv /\ IngestInv /\ ReplyInv
=============================================================================
