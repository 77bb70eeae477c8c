---------------------------- MODULE HexagonQueue ----------------------------
(***************************************************************************)
(* The command queue between the host and the Hexagon DSP                  *)
(* (cera/src/backend/hexagon/queue.rs).  The host collects operations into *)
(* a batch, copies its descriptors into a staging buffer that both sides   *)
(* see, and writes a request; the DSP runs requests in order and answers   *)
(* each with its sequence number and a status.  A flush waits for the      *)
(* answer, or leaves the batch in flight and carries on (`pipelined`).     *)
(*                                                                         *)
(* The operations are written as steps of one host thread: `pc` is where   *)
(* it is, `ret` where a flush returns to, `after` where a drain does.  The *)
(* DSP runs between any two of them.  What a batch is made of is up to the *)
(* module that extends this one.                                           *)
(***************************************************************************)
EXTENDS Integers, Sequences, Functions

CONSTANTS
    MaxInflight, \* MAX_INFLIGHT
    MaxStale,    \* MAX_CONSECUTIVE_STALE
    Staging      \* size of the staging buffer, in operations

ASSUME QueueAssumption ==
    /\ MaxInflight \in Nat \ {0}
    /\ MaxStale \in Nat
    /\ Staging \in Nat \ {0}

VARIABLES
    pending,     \* ops (bufs, tens and ops): the batch being built
    seq,         \* dispatches attempted so far
    inflight,    \* sequence numbers of the pipelined batches
    outstanding, \* batches written and not yet answered, as the host counts
    cursor,      \* stage_cursor
    pipelined,
    staged,      \* per slot of the staging buffer: whose descriptors it holds
    requests,    \* written to the DSP and not yet run
    answers,     \* answered by the DSP and not yet read
    pc, ret, sync, after, \* where the host is in an operation
    wait,        \* locals of await_response: the batch, and who waits for it
    failed,      \* drain's local: a batch was answered with an error
    ok           \* nothing of the pass in progress has failed

host == <<pending, seq, inflight, outstanding, cursor, pipelined>>
dsp  == <<requests, answers>>
here == <<pc, ret, sync, after, wait, failed, ok>>
queueVars == <<host, staged, dsp, here>>

NoWait == [seq |-> 0, stale |-> 0, by |-> "none"]

QueueInit ==
    /\ pending = <<>> /\ inflight = <<>> /\ requests = <<>> /\ answers = <<>>
    /\ seq = 1
    /\ outstanding = 0
    /\ cursor = 0
    /\ pipelined = FALSE
    /\ staged = [k \in 0 .. Staging - 1 |-> 0]
    /\ pc = "rest" /\ ret = "rest" /\ after = "flushed"
    /\ sync = TRUE /\ failed = FALSE /\ ok = TRUE
    /\ wait = NoWait

(* Any error ends the pass: on to its cleanup, or, when it came in the     *)
(* cleanup's own drain, past it.                                           *)
Fails ==
    /\ ok' = FALSE
    /\ pc' = IF after = "closed" THEN "closed" ELSE "closing"

Region(at, n) == at .. at + n - 1

(* The DSP reads descriptors where the request says they are.              *)
Intact(r) == \A k \in Region(r.at, Len(r.ops)) : staged[k] = r.seq

----------------------------------------------------------------------------
(* flush_with: enter it with BeginFlush, it returns to ret or fails.       *)
BeginFlush(waits, to) == pc' = "flush" /\ sync' = waits /\ ret' = to

BeginDrain(to) == pc' = "drain" /\ after' = to /\ failed' = FALSE

Await(batch, by) ==
    /\ pc' = "await"
    /\ wait' = [seq |-> batch, stale |-> 0, by |-> by]

FlushNothing ==
    /\ pc = "flush" /\ pending = <<>>
    /\ \/ sync /\ BeginDrain("flushed")
       \/ ~sync /\ pc' = ret /\ UNCHANGED <<after, failed>>
    /\ UNCHANGED <<host, staged, dsp, ret, sync, wait, ok>>

(* export or flush of more than the staging buffer holds: nothing attempted *)
FlushTooLarge ==
    /\ pc = "flush" /\ Len(pending) > Staging
    /\ pending' = <<>>
    /\ Fails
    /\ UNCHANGED <<seq, inflight, outstanding, cursor, pipelined, staged, dsp,
                   ret, sync, after, wait, failed>>

(* The batch is written to the DSP and its answer is awaited now           *)
(* (dispatch_batch_buffer), later (dispatch_batch_async), or, when too     *)
(* many are in flight already, the oldest one's answer is.  An attempt     *)
(* counts in seq whether the write succeeds or not.                        *)
Send(at) ==
    /\ staged' = [k \in DOMAIN staged |->
                    IF k \in Region(at, Len(pending)) THEN seq ELSE staged[k]]
    /\ cursor' = at + Len(pending)
    /\ pending' = <<>>
    /\ seq' = seq + 1
    /\ \/ /\ Fails
          /\ UNCHANGED <<inflight, outstanding, requests, ret, sync, after, wait, failed>>
       \/ /\ requests' = Append(requests, [seq |-> seq, at |-> at, ops |-> pending])
          /\ outstanding' = outstanding + 1
          /\ LET flight == Append(inflight, seq) IN
             IF sync /\ inflight = <<>>
             THEN /\ Await(seq, "flush")
                  /\ UNCHANGED <<inflight, after, failed>>
             ELSE IF Len(flight) >= MaxInflight
             THEN /\ inflight' = Tail(flight)
                  /\ Await(Head(flight), "full")
                  /\ UNCHANGED <<after, failed>>
             ELSE /\ inflight' = flight
                  /\ IF sync THEN BeginDrain("flushed")
                     ELSE pc' = ret /\ UNCHANGED <<after, failed>>
                  /\ UNCHANGED wait
          /\ UNCHANGED <<ret, sync, ok>>
    /\ UNCHANGED <<pipelined, answers>>

(* Mutant of StageAt: the start is taken although batches are in flight.   *)
StageAtStart == 0

(* reserve_stage: batches in flight keep their regions until they answer.  *)
StageAt == IF inflight = <<>> THEN 0 ELSE cursor

FlushFits ==
    /\ pc = "flush" /\ Len(pending) \in 1 .. Staging
    /\ StageAt + Len(pending) <= Staging
    /\ Send(StageAt)

(* No room behind the batches in flight: wait for them, start over at 0.   *)
FlushWraps ==
    /\ pc = "flush" /\ Len(pending) \in 1 .. Staging
    /\ StageAt + Len(pending) > Staging
    /\ BeginDrain("stage")
    /\ UNCHANGED <<host, staged, dsp, ret, sync, wait, ok>>

SendAfterWrap == pc = "stage" /\ Send(0)

----------------------------------------------------------------------------
(* drain: read every pipelined batch's answer, past those that failed.     *)
DrainNext ==
    /\ pc = "drain" /\ inflight # <<>>
    /\ inflight' = Tail(inflight)
    /\ Await(Head(inflight), "drain")
    /\ UNCHANGED <<pending, seq, outstanding, cursor, pipelined, staged, dsp,
                   ret, sync, after, failed, ok>>

DrainEnds ==
    /\ pc = "drain" /\ inflight = <<>>
    /\ IF failed THEN Fails
       ELSE /\ pc' = IF after = "flushed" THEN ret ELSE after
            /\ UNCHANGED ok
    /\ UNCHANGED <<host, staged, dsp, ret, sync, after, wait, failed>>

(* Whoever waits is told of an error status: a drain reads on.             *)
ErrorStatus ==
    IF wait.by = "drain"
    THEN pc' = "drain" /\ failed' = TRUE /\ UNCHANGED ok
    ELSE Fails /\ UNCHANGED failed

OkStatus ==
    /\ IF wait.by = "drain" \/ (wait.by = "full" /\ sync)
       THEN pc' = "drain"
       ELSE pc' = ret
    /\ after' = IF wait.by = "full" /\ sync THEN "flushed" ELSE after
    /\ failed' = (failed /\ wait.by = "drain")
    /\ UNCHANGED ok

ReadOne ==
    /\ answers # <<>>
    /\ answers' = Tail(answers)
    /\ outstanding' = outstanding - 1

(* The response of the batch waited for.                                   *)
ReadCurrent ==
    /\ pc = "await" /\ ReadOne
    /\ Head(answers).seq = wait.seq
    /\ \/ Head(answers).good /\ OkStatus
       \/ ~Head(answers).good /\ ErrorStatus /\ UNCHANGED after
    /\ UNCHANGED <<pending, seq, inflight, cursor, pipelined, staged, requests,
                   ret, sync, wait>>

(* An answer left unread by an earlier timeout is discarded.               *)
ReadStale ==
    /\ pc = "await" /\ ReadOne
    /\ Head(answers).seq < wait.seq /\ wait.stale < MaxStale
    /\ wait' = [wait EXCEPT !.stale = @ + 1]
    /\ UNCHANGED <<pending, seq, inflight, cursor, pipelined, staged, requests,
                   pc, ret, sync, after, failed, ok>>

(* complete_oldest gives up what is in flight; `outstanding` still counts  *)
(* it, for quiesce.                                                        *)
WaitFails ==
    /\ pc = "await"
    /\ inflight' = IF wait.by = "flush" THEN inflight ELSE <<>>
    /\ Fails
    /\ UNCHANGED <<pending, seq, cursor, pipelined, staged, requests, ret, sync,
                   after, wait, failed>>

(* More than MaxStale of them, or an answer cut short.                     *)
ReadTooStale ==
    /\ WaitFails /\ ReadOne
    /\ Head(answers).seq < wait.seq /\ wait.stale >= MaxStale

ReadTruncated == WaitFails /\ ReadOne

(* Mutant of ReadTimesOut: the batch given up on is not counted any more.  *)
ReadTimesOutForgetting ==
    /\ WaitFails /\ answers = <<>>
    /\ outstanding' = outstanding - 1
    /\ UNCHANGED answers

(* The hang guard of a read: no answer within 30 s.                        *)
ReadTimesOut == WaitFails /\ answers = <<>> /\ UNCHANGED <<answers, outstanding>>

(* quiesce: read until nothing is owed; on a timeout the caller is told,   *)
(* and has to leave the buffers alone.                                     *)
QuiesceReads ==
    /\ pc = "quiesce" /\ outstanding > 0
    /\ ReadOne
    /\ UNCHANGED <<pending, seq, inflight, cursor, pipelined, staged, requests, here>>

(* Mutant of Quiesced: the batches given up on stay in flight.             *)
QuiescedKeeping ==
    /\ pc = "quiesce" /\ outstanding = 0
    /\ UNCHANGED <<inflight, pending, seq, outstanding, cursor, pipelined, staged, dsp>>

Quiesced ==
    /\ pc = "quiesce" /\ outstanding = 0
    /\ inflight' = <<>>
    /\ UNCHANGED <<pending, seq, outstanding, cursor, pipelined, staged, dsp>>

QuiesceTimesOut == pc = "quiesce" /\ outstanding > 0 /\ answers = <<>>

QueueStep ==
    \/ FlushNothing \/ FlushTooLarge \/ FlushFits \/ FlushWraps \/ SendAfterWrap
    \/ DrainNext \/ DrainEnds
    \/ ReadCurrent \/ ReadStale \/ ReadTooStale \/ ReadTruncated \/ ReadTimesOut
    \/ QuiesceReads
=============================================================================
