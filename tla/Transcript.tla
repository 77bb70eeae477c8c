----------------------------- MODULE Transcript -----------------------------
(***************************************************************************)
(* What Chat promises its caller (cera/src/session/chat.rs): a text that   *)
(* grows by whole messages and whole replies.  A call that fails leaves    *)
(* the text alone, or empties it, or says that nothing is known any more;  *)
(* it never leaves a part of a message behind.                             *)
(***************************************************************************)
EXTENDS Sequences

CONSTANTS
    Messages, \* rendered messages, as sequences of rows
    Replies,  \* what a model may answer
    Closing,  \* what ends a reply when the next message follows
    None

VARIABLES
    phase,
    text,  \* nothing, where the phase is "raw" or "unusable"
    saved  \* the checkpoint the caller keeps, or None

vars == <<phase, text, saved>>

Init == phase = "idle" /\ text = <<>> /\ saved = None

Ingest ==
    /\ phase \in {"idle", "turn"}
    /\ \E m \in Messages :
          text' = text \o (IF phase = "turn" THEN Closing ELSE <<>>) \o m
    /\ phase' = "prompt"
    /\ UNCHANGED saved

Replace ==
    /\ phase # "unusable"
    /\ text' \in Messages
    /\ phase' = "prompt"
    /\ UNCHANGED saved

Reply ==
    /\ phase = "prompt"
    /\ \E r \in Replies : text' = text \o r
    /\ phase' \in {"turn", "interrupted"}
    /\ UNCHANGED saved

Fail ==
    /\ phase # "unusable"
    /\ text' = <<>>
    /\ phase' \in {"idle", "unusable"}
    /\ UNCHANGED saved

Reset == text' = <<>> /\ phase' \in {"idle", "unusable"} /\ UNCHANGED saved

Raw == phase # "unusable" /\ phase' = "raw" /\ text' = <<>> /\ UNCHANGED saved

Save ==
    /\ phase # "unusable"
    /\ saved' = [phase |-> phase, text |-> text]
    /\ UNCHANGED <<phase, text>>

Restore ==
    /\ saved # None
    /\ phase' = saved.phase /\ text' = saved.text
    /\ UNCHANGED saved

Next == Ingest \/ Replace \/ Reply \/ Fail \/ Reset \/ Raw \/ Save \/ Restore

Spec == Init /\ [][Next]_vars
=============================================================================
