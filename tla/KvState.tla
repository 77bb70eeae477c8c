------------------------------ MODULE KvState ------------------------------
(***************************************************************************)
(* What one inference session keeps of the text it has read: the attention *)
(* cache and the rolling state of the short convolutions                   *)
(* (cera/src/kv_cache.rs), and how a backend appends to it, rewinds it and *)
(* clears it (the Model trait of cera/src/model/mod.rs, its CPU and        *)
(* Hexagon implementations).                                               *)
(*                                                                         *)
(* One cell is one position of the context.  All attention layers hold the *)
(* same cells and all convolution layers see the same rows, so one of each *)
(* stands for them.  A convolution's state is the last Taps rows that went *)
(* through it, its initial zeros left out.                                 *)
(***************************************************************************)
EXTENDS Naturals, Sequences, SequencesExt

CONSTANTS
    Backends,  \* among "cpu", "hexagon" and "default": the trait's defaults
    Taps,      \* d_conv: rows a convolution looks back
    Window,    \* CONV_HISTORY_CAPACITY (64)
    Junk       \* what a failed kernel leaves behind

ASSUME KvAssumption ==
    /\ Backends \subseteq {"cpu", "hexagon", "default"}
    /\ Taps \in Nat \ {0}
    /\ Window \in Nat \ {0}

OnDevice(kv) == kv.backend = "hexagon"

Newest(s, n) == IF Len(s) <= n THEN s ELSE SubSeq(s, Len(s) - n + 1, Len(s))
First(s, n) == SubSeq(s, 1, n)

(* backend: whose state it is; cells: the attention cache; conv: the       *)
(* convolution buffer; ring: the ConvHistory, oldest first; torn: the      *)
(* accelerator's state_torn.  Two auxiliary facts no code reads: a cell is *)
(* clean when the convolutions saw its true predecessors as it was         *)
(* computed, and dropped says that a context shift has taken rows out of   *)
(* the middle.                                                             *)
Pristine(backend) ==
    [backend |-> backend, cells |-> <<>>, conv |-> <<>>, ring |-> <<>>,
     torn |-> FALSE, dropped |-> FALSE]

RowsOf(cells) == [i \in DOMAIN cells |-> cells[i].row]

(* The convolutions have seen exactly the rows in the cache.               *)
InTune(kv) == ~kv.torn /\ kv.conv = Newest(RowsOf(kv.cells), Taps)

(* The cache is what one undisturbed pass over its rows computes.          *)
Sound(kv) == InTune(kv) /\ \A i \in DOMAIN kv.cells : kv.cells[i].clean

(* What the next forward pass reads: the same for equal contexts.          *)
Context(kv) == [cells |-> kv.cells, conv |-> kv.conv]

----------------------------------------------------------------------------
(* forward: one row more, at the position the caller gives.  The CPU       *)
(* appends to its cache and records a snapshot for a rollback; the         *)
(* accelerator writes the slot of the position, and a pass from position 0 *)
(* starts with zeroed convolutions.                                        *)
FeedRow(kv, row, at) ==
    LET old == IF ~OnDevice(kv) THEN kv
               ELSE [kv EXCEPT !.cells = First(@, at),
                               !.conv = IF at = 0 THEN <<>> ELSE @]
        conv == Newest(Append(old.conv, row), Taps)
        snapshot == [at |-> at + 1, conv |-> conv]
    IN  [old EXCEPT
           !.cells = Append(@, [row |-> row, clean |-> InTune(old)]),
           !.conv = conv,
           !.ring = IF OnDevice(kv) THEN @ ELSE Newest(Append(@, snapshot), Window)]

Feed(kv, rows, at) ==
    LET fed[i \in 0 .. Len(rows)] ==
            IF i = 0 THEN kv ELSE FeedRow(fed[i - 1], rows[i], at + i - 1)
    IN  fed[Len(rows)]

(* A pass that fails on the device leaves some of its rows computed, and   *)
(* tears the state if a batch was dispatched for the row it failed at; on  *)
(* torn state it refuses at once.  A CPU pass does not fail.               *)
FaultedFeeds(kv, rows, at) ==
    CASE ~OnDevice(kv) -> {}
      [] OnDevice(kv) /\ kv.torn -> {kv}
      [] OTHER ->
           LET done == {Feed(kv, First(rows, n), at) : n \in 0 .. Len(rows) - 1}
           IN  done \cup {[k EXCEPT !.torn = TRUE, !.conv = <<Junk>>] : k \in done}

CanFeed(kv) == ~kv.torn

(* A panic inside a pass stops between two layers.                         *)
Wrecked(kv) ==
    [kv EXCEPT !.cells = Append(@, [row |-> Junk, clean |-> FALSE]),
               !.conv = <<Junk>>,
               !.torn = OnDevice(kv)]

----------------------------------------------------------------------------
(* Mutant of RolledBack: the convolutions are not rewound.                 *)
CellsRolledBack(kv, len) == [kv EXCEPT !.cells = First(@, len)]

(* ConvHistory::has_pos, and rollback_to: the newest snapshot of a         *)
(* position wins, and a rollback forgets the ones made after it.           *)
HasPos(kv, len) == len = 0 \/ \E i \in DOMAIN kv.ring : kv.ring[i].at = len

RolledBack(kv, len) ==
    LET i == CHOOSE i \in DOMAIN kv.ring :
                /\ kv.ring[i].at = len
                /\ \A j \in DOMAIN kv.ring : kv.ring[j].at = len => j <= i
    IN  [kv EXCEPT !.cells = First(@, len),
                   !.conv = kv.ring[i].conv,
                   !.ring = First(@, i)]

(* truncate_to: without a snapshot of that position everything goes.       *)
TruncateRing(kv, len) ==
    CASE len = Len(kv.cells) -> kv
      [] len # Len(kv.cells) /\ len > 0 /\ HasPos(kv, len) -> RolledBack(kv, len)
      [] OTHER -> Pristine(kv.backend)

(* The accelerator's truncate_kv: the position moves and the convolutions  *)
(* stay, except on the way to the empty context.                           *)
TruncateDevice(kv, len) ==
    IF len = 0 THEN Pristine(kv.backend) ELSE [kv EXCEPT !.cells = First(@, len)]

Truncate(kv, len) ==
    IF OnDevice(kv) THEN TruncateDevice(kv, len) ELSE TruncateRing(kv, len)

(* Both assert that a rewind goes back.                                    *)
CanTruncate(kv, len) == len <= Len(kv.cells)

(* check_kv_rewind: can the context be rewound to len exactly?             *)
CheckRewind(kv, len) ==
    /\ len <= Len(kv.cells)
    /\ \/ kv.backend = "cpu" /\ (len = Len(kv.cells) \/ HasPos(kv, len))
       \/ kv.backend = "hexagon" /\ (len = 0 \/ (len = Len(kv.cells) /\ ~kv.torn))

(* try_reset_kv exists.                                                    *)
ChecksReset(kv) == kv.backend # "default"

(* A rewind to nothing and a reset both wait for the DSP; while it does    *)
(* not answer the state is torn and otherwise left alone.                  *)
Unanswered(kv) == IF OnDevice(kv) THEN [kv EXCEPT !.torn = TRUE] ELSE kv

----------------------------------------------------------------------------
(* can_shift: a prefix is pinned and leaves enough rows to drop.           *)
CanShift(kv, n_keep, at, n) ==
    kv.backend = "cpu" /\ n_keep > 0 /\ at >= n_keep + n

(* shift_kv: the rows after the first n_keep are dropped and the rest      *)
(* rotated into place; the convolutions and their history stay.  It        *)
(* asserts that the cache has the rows to drop: can_shift looked at the    *)
(* session's position only.                                                *)
HasToDrop(kv, n_keep, n) == n_keep + n <= Len(kv.cells)

Shift(kv, n_keep, n) ==
    [kv EXCEPT !.cells = First(@, n_keep) \o SubSeq(@, n_keep + n + 1, Len(@)),
               !.dropped = TRUE]

(* snapshot, and restore: the history restarts at the restored position.   *)
Snapshot(kv) ==
    [backend |-> kv.backend, cells |-> kv.cells, conv |-> kv.conv,
     dropped |-> kv.dropped]

RestoredFrom(snap) ==
    [backend |-> snap.backend, cells |-> snap.cells, conv |-> snap.conv,
     ring |-> <<[at |-> Len(snap.cells), conv |-> snap.conv]>>,
     torn |-> FALSE, dropped |-> snap.dropped]

----------------------------------------------------------------------------
(* What is true of a state whose next row goes to position at.             *)
Kvs(rows) ==
    [backend : Backends,
     cells : Seq([row : rows, clean : BOOLEAN]), conv : Seq(rows),
     ring : Seq([at : Nat, conv : Seq(rows)]),
     torn : BOOLEAN, dropped : BOOLEAN]

(* Only an accelerator tears its state, only a cache of the session's own  *)
(* is shifted, and never to nothing.                                       *)
Marked(kv) ==
    /\ kv.torn => OnDevice(kv)
    /\ kv.dropped => ~OnDevice(kv) /\ kv.cells # <<>>

(* The accelerator has at least the rows before it, and may have more; a   *)
(* cache of the session's own has at most those, and with all of them its  *)
(* newest snapshot is of that position.                                    *)
RingTop(kv, at) ==
    IF kv.ring = <<>> THEN kv.cells = <<>> /\ kv.conv = <<>>
    ELSE Len(kv.cells) = at => kv.ring[Len(kv.ring)] = [at |-> at, conv |-> kv.conv]

Reaches(kv, at) ==
    IF OnDevice(kv) THEN Len(kv.cells) >= at ELSE Len(kv.cells) <= at /\ RingTop(kv, at)

(* Each snapshot is of a prefix of the cache, and is what the convolutions *)
(* were there, the older the shorter.                                      *)
RingTrue(kv) ==
    /\ \A i \in DOMAIN kv.ring :
          /\ kv.ring[i].at <= Len(kv.cells)
          /\ kv.ring[i].conv = Newest(RowsOf(First(kv.cells, kv.ring[i].at)), Taps)
    /\ \A i, j \in DOMAIN kv.ring : i < j => kv.ring[i].at < kv.ring[j].at

(* Nothing is missing, and short of a context shift nothing is wrong.      *)
Faithful(kv, at) ==
    /\ Len(kv.cells) = at
    /\ kv.dropped \/ (Sound(kv) /\ RingTrue(kv))

(* The newest snapshot of a position, if there is one, is that one.        *)
TopAt(kv, at, conv) ==
    \A i \in DOMAIN kv.ring :
        /\ kv.ring[i].at = at
        /\ \A j \in DOMAIN kv.ring : kv.ring[j].at = at => j <= i
        => kv.ring[i].conv = conv
============================================================================
