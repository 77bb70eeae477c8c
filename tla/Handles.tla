------------------------------ MODULE Handles ------------------------------
(***************************************************************************)
(* The session handles of the foreign-function interface                   *)
(* (cera-ffi/src/lib.rs, cera-ffi/src/chat.rs) over a model that admits    *)
(* one session at a time (cera/src/model/session_gate.rs).                 *)
(*                                                                         *)
(* A host holds handles: a Session or a ChatSession is a mutex around an   *)
(* optional core session, a `moved' flag, and a share of the core's cancel *)
(* flag.  Converting one kind into the other moves the core into a new     *)
(* handle and leaves the old one empty.  The cancel flag is set and        *)
(* cleared without the mutex, from any thread.  An asynchronous call is a  *)
(* task on a blocking worker and a future; dropping the future aborts the  *)
(* task if it is still queued, and sets the cancel flag in every case.     *)
(*                                                                         *)
(* A call is the record of one host call: where it is (pc), the future     *)
(* that awaits it, and what its generation did.  The core is its identity  *)
(* alone: what it holds is the subject of module Session.                  *)
(***************************************************************************)
EXTENDS Naturals, FiniteSets

CONSTANTS
    Handles,    \* identities of handles, reused once a handle is dropped
    Cores,      \* identities of core sessions and of their cancel flags
    Calls,      \* host calls that may be under way at a time
    Ops,        \* the methods the host uses
    Budget,     \* host calls in a behaviour
    MaxTokens,  \* tokens a generation may produce
    None

Generations == {"generate", "stream"}
Conversions == {"into_chat", "into_session"}
Methods == {"reset", "cancel", "clear"} \cup Generations \cup Conversions

ASSUME HandlesAssumption ==
    /\ Ops \subseteq {"open"} \cup Methods
    /\ Budget \in Nat
    /\ MaxTokens \in Nat
    /\ None \notin Handles \cup Cores \cup Calls

VARIABLES
    handle,     \* handle |-> its fields, and whether the host still holds it
    call,       \* call |-> its record
    cancel,     \* core |-> its cancel flag, shared by all its handles
    lease,      \* the model's gate is taken
    owed,       \* core |-> a cancel was made since one last stopped a decode
    left        \* host calls left

vars == <<handle, call, cancel, lease, owed, left>>

NoHandle == [kind |-> "none", core |-> None, flag |-> None, moved |-> FALSE,
             holder |-> None, poisoned |-> FALSE, held |-> FALSE]

NoCall == [pc |-> "idle", op |-> "none", h |-> None, future |-> "none",
           sink |-> FALSE, noted |-> FALSE, done |-> 0, finish |-> "none",
           tokens |-> 0, hand |-> None, told |-> FALSE, extra |-> 0]

Init ==
    /\ handle = [h \in Handles |-> NoHandle]
    /\ call = [p \in Calls |-> NoCall]
    /\ cancel = [k \in Cores |-> FALSE]
    /\ lease = FALSE
    /\ owed = [k \in Cores |-> FALSE]
    /\ left = Budget

(***************************************************************************)
(* References.  A handle is an Arc: the host, a call on it, a queued task  *)
(* and the guard of a future each own a share.                             *)
(***************************************************************************)
Live(h) == handle[h].kind # "none"

Refers(p, h) ==
    /\ call[p].h = h
    /\ \/ call[p].pc \notin {"idle", "end"}
       \/ call[p].future \in {"awaiting", "check", "store"}

Referenced(h) == handle[h].held \/ \E p \in Calls : Refers(p, h)

FreeHandles == {h \in Handles : ~Live(h)}

\* Calls that will need a fresh handle.
Making == {p \in Calls : /\ call[p].op \in Conversions \cup {"open"}
                         /\ call[p].pc \notin {"idle", "end"}}

\* A core is spoken for while a handle shares its flag or a call carries it.
FreeCores == {k \in Cores : /\ \A h \in Handles : handle[h].flag # k
                            /\ \A p \in Calls : call[p].hand # k}

Goto(p, at) == [call EXCEPT ![p].pc = at]

(***************************************************************************)
(* The cancel flag.  A store tells the decode under way on that core; a    *)
(* clear takes it back.                                                    *)
(***************************************************************************)
Decoding(q, k) ==
    /\ call[q].pc \in {"enter", "loop", "forward"}
    /\ handle[call[q].h].core = k

Tell(calls, k, b) ==
    [q \in Calls |->
        IF Decoding(q, k)
        THEN [calls[q] EXCEPT !.told = b, !.extra = IF b THEN @ ELSE 0]
        ELSE calls[q]]

SetFlag(k) == cancel' = [cancel EXCEPT ![k] = TRUE]
ClearFlag(k) == cancel' = [cancel EXCEPT ![k] = FALSE]
Owe(k) == owed' = [owed EXCEPT ![k] = TRUE]

(***************************************************************************)
(* Opening a session: the gate first, then the session, which may fail.    *)
(***************************************************************************)
BeginOpen(p) ==
    /\ "open" \in Ops
    /\ call[p] = NoCall
    /\ left > 0
    /\ Cardinality(FreeHandles) > Cardinality(Making)
    /\ FreeCores # {}
    /\ call' = [call EXCEPT ![p].pc = "acquire", ![p].op = "open"]
    /\ left' = left - 1
    /\ UNCHANGED <<handle, cancel, lease, owed>>

\* try_acquire: a taken gate answers Busy without waiting.
Acquire(p) ==
    /\ call[p].pc = "acquire"
    /\ lease' = TRUE
    /\ call' = IF lease THEN [call EXCEPT ![p] = NoCall] ELSE Goto(p, "build")
    /\ UNCHANGED <<handle, cancel, owed, left>>

\* Session::new behind the gate, and the handle around it.
Build(p) ==
    /\ call[p].pc = "build"
    /\ call' = [call EXCEPT ![p] = NoCall]
    /\ UNCHANGED left
    /\ \/ \E h \in FreeHandles, k \in FreeCores :
            /\ handle' = [handle EXCEPT ![h] =
                   [NoHandle EXCEPT !.kind = "session", !.core = k,
                                    !.flag = k, !.held = TRUE]]
            /\ cancel' = [cancel EXCEPT ![k] = FALSE]
            /\ owed' = [owed EXCEPT ![k] = FALSE]
            /\ UNCHANGED lease
       \/ /\ lease' = FALSE
          /\ UNCHANGED <<handle, cancel, owed>>

\* The host lets go of a handle; calls under way keep theirs.
Release(h) ==
    /\ handle[h].held
    /\ handle' = [handle EXCEPT ![h].held = FALSE]
    /\ UNCHANGED <<call, cancel, lease, owed, left>>

\* Mutant of DropHandle: an emptied handle gives the lease back too.
DropHandleFrees(h) ==
    /\ Live(h)
    /\ ~Referenced(h)
    /\ handle' = [handle EXCEPT ![h] = NoHandle]
    /\ lease' = FALSE
    /\ UNCHANGED <<call, cancel, owed, left>>

\* The last share is gone: the core, if the handle still has it, is destroyed
\* and its lease with it.
DropHandle(h) ==
    /\ Live(h)
    /\ ~Referenced(h)
    /\ handle' = [handle EXCEPT ![h] = NoHandle]
    /\ lease' = (lease /\ handle[h].core = None)
    /\ UNCHANGED <<call, cancel, owed, left>>

(***************************************************************************)
(* Calls on a handle.  A generation may be asynchronous; the methods that  *)
(* touch the flag alone never take the mutex.  `reset' stands for every    *)
(* method that takes it and clears the flag (restoring a checkpoint does). *)
(***************************************************************************)
Suits(op, kind) ==
    /\ op = "into_chat" => kind = "session"
    /\ op = "into_session" => kind = "chat"

Begin(p, op, h, async) ==
    /\ call[p] = NoCall
    /\ left > 0
    /\ handle[h].held
    /\ Suits(op, handle[h].kind)
    /\ async => op \in Generations
    /\ op \in Conversions => Cardinality(FreeHandles) > Cardinality(Making)
    /\ call' = [call EXCEPT ![p] =
           [NoCall EXCEPT !.op = op, !.h = h, !.sink = (op = "stream"),
               !.future = IF async THEN "awaiting" ELSE "none",
               !.pc = CASE async -> "queued"
                        [] op \in {"cancel", "clear"} -> "check"
                        [] OTHER -> "lock"]]
    /\ left' = left - 1
    /\ UNCHANGED <<handle, cancel, lease, owed>>

\* A blocking worker takes the task up; an aborted one is dropped unrun.
Start(p) ==
    /\ call[p].pc \in {"queued", "aborted"}
    /\ call' = Goto(p, IF call[p].pc = "queued" THEN "lock" ELSE "end")
    /\ UNCHANGED <<handle, cancel, lease, owed, left>>

\* lock_inner: a poisoned mutex and a moved core are errors, for which a
\* streaming call still owes its sink an end.
Refused(p) ==
    /\ call' = [call EXCEPT ![p].finish = "Error",
                            ![p].pc = IF call[p].op = "stream" THEN "done"
                                                               ELSE "end"]
    /\ UNCHANGED handle

Admitted(p) ==
    /\ handle' = [handle EXCEPT ![call[p].h].holder = p]
    /\ call' = Goto(p, CASE call[p].op \in Generations -> "enter"
                         [] call[p].op \in Conversions -> "take"
                         [] OTHER -> "reset")

Lock(p) ==
    LET h == call[p].h IN
    /\ call[p].pc = "lock"
    /\ handle[h].holder = None
    /\ IF handle[h].poisoned \/ handle[h].core = None THEN Refused(p)
                                                      ELSE Admitted(p)
    /\ UNCHANGED <<cancel, lease, owed, left>>

(***************************************************************************)
(* A generation under the lock.  A flag found set at entry ends it before  *)
(* a token; the loop looks again ahead of every token.  However it ends,   *)
(* its guard clears the flag on the way out.                               *)
(***************************************************************************)
Finish(p, how, noted) ==
    /\ call' = [call EXCEPT ![p].pc = "exit", ![p].finish = how,
                            ![p].noted = noted]
    /\ owed' = IF how = "Cancelled"
               THEN [owed EXCEPT ![handle[call[p].h].core] = FALSE]
               ELSE owed

\* Refused ahead of the guard (an unusable session, a chat with no prompt):
\* the flag is not looked at.
Unready(p) ==
    /\ call[p].pc = "enter"
    /\ call' = [call EXCEPT ![p].pc = "unlock", ![p].finish = "Error"]
    /\ UNCHANGED <<handle, cancel, lease, owed, left>>

Enter(p) ==
    /\ call[p].pc = "enter"
    /\ IF cancel[handle[call[p].h].core]
       THEN Finish(p, "Cancelled", TRUE)
       ELSE \/ call' = Goto(p, "loop") /\ UNCHANGED owed
            \/ Finish(p, "Length", TRUE)
            \/ Finish(p, "Error", FALSE)
    /\ UNCHANGED <<handle, cancel, lease, left>>

\* Mutant of Loop: the flag is looked at on entry only.
LoopUnchecked(p) ==
    /\ call[p].pc = "loop"
    /\ \/ /\ call[p].tokens < MaxTokens
          /\ call' = Goto(p, "forward")
          /\ UNCHANGED owed
       \/ Finish(p, "Length", TRUE)
    /\ UNCHANGED <<handle, cancel, lease, left>>

\* The top of the loop: cancelled, done, or on to the next token.
Loop(p) ==
    /\ call[p].pc = "loop"
    /\ IF cancel[handle[call[p].h].core]
       THEN Finish(p, "Cancelled", TRUE)
       ELSE \/ /\ call[p].tokens < MaxTokens
               /\ call' = Goto(p, "forward")
               /\ UNCHANGED owed
            \/ Finish(p, "Length", TRUE)
    /\ UNCHANGED <<handle, cancel, lease, left>>

\* One forward pass and its token, or a backend error, or a panic.
Forward(p) ==
    /\ call[p].pc = "forward"
    /\ \/ /\ call' = [call EXCEPT ![p].pc = "loop", ![p].tokens = @ + 1,
                  ![p].extra = IF call[p].told THEN @ + 1 ELSE @]
          /\ UNCHANGED owed
       \/ \E noted \in BOOLEAN : Finish(p, "Error", noted)
       \/ Finish(p, "Panic", FALSE)
    /\ UNCHANGED <<handle, cancel, lease, left>>

\* Mutant of Exit: the flag is left as it is.
ExitKeeps(p) ==
    /\ call[p].pc = "exit"
    /\ call' = Goto(p, "unlock")
    /\ UNCHANGED <<handle, cancel, lease, owed, left>>

Exit(p) ==
    /\ call[p].pc = "exit"
    /\ ClearFlag(handle[call[p].h].core)
    /\ call' = Goto(p, "unlock")
    /\ UNCHANGED <<handle, lease, owed, left>>

\* Mutant of Unlock: the sink is told first, the mutex released after.
UnlockLate(p) ==
    LET panicked == call[p].finish = "Panic"
        telling == call[p].op = "stream" /\ ~panicked /\ call[p].done = 0
    IN /\ \/ call[p].pc = "unlock"
          \/ call[p].pc = "end" /\ \E h \in Handles : handle[h].holder = p
       /\ handle' = IF telling THEN handle ELSE
              [handle EXCEPT ![call[p].h].holder = None,
                             ![call[p].h].poisoned = @ \/ panicked]
       /\ call' = Goto(p, IF telling THEN "done" ELSE "end")
       /\ UNCHANGED <<cancel, lease, owed, left>>

\* The mutex is released, poisoned by a panic; the end of a stream is told
\* to the sink after it.
Unlock(p) ==
    LET panicked == call[p].finish = "Panic" IN
    /\ call[p].pc = "unlock"
    /\ handle' = [handle EXCEPT ![call[p].h].holder = None,
                                ![call[p].h].poisoned = @ \/ panicked]
    /\ call' = Goto(p, IF call[p].op = "stream" /\ ~panicked THEN "done"
                                                            ELSE "end")
    /\ UNCHANGED <<cancel, lease, owed, left>>

\* Mutant of OnDone: only a reason the core gave is passed on.
OnDoneNoFallback(p) ==
    /\ call[p].pc = "done"
    /\ call' = [call EXCEPT ![p].done = IF call[p].noted THEN @ + 1 ELSE @,
                            ![p].pc = "end"]
    /\ UNCHANGED <<handle, cancel, lease, owed, left>>

\* notify_done: the reason the core gave, or else the error.  The sink may
\* call any method from here, one that takes the mutex included.
OnDone(p) ==
    /\ call[p].pc = "done"
    /\ \E again \in BOOLEAN :
         call' = [call EXCEPT
             ![p].done = IF call[p].noted \/ call[p].finish = "Error"
                         THEN @ + 1 ELSE @,
             ![p].op = IF again THEN "reset" ELSE @,
             ![p].pc = IF again THEN "lock" ELSE "end"]
    /\ UNCHANGED <<handle, cancel, lease, owed, left>>

\* A reset that succeeds clears the flag, one that fails leaves it.
Reset(p) ==
    LET k == handle[call[p].h].core IN
    /\ call[p].pc = "reset"
    /\ ClearFlag(k) \/ UNCHANGED cancel
    /\ call' = Goto(p, "unlock")
    /\ UNCHANGED <<handle, lease, owed, left>>

(***************************************************************************)
(* Conversions, under the old handle's lock.  A chat may refuse the core,  *)
(* which then goes back where it was; a core taken out of a chat has its   *)
(* flag cleared.                                                           *)
(***************************************************************************)
Take(p) ==
    LET h == call[p].h IN
    /\ call[p].pc = "take"
    /\ IF call[p].op = "into_chat"
       THEN /\ handle' = [handle EXCEPT ![h].core = None]
            /\ call' = [call EXCEPT ![p].pc = "validate",
                                    ![p].hand = handle[h].core]
       ELSE /\ handle' = [handle EXCEPT ![h].core = None, ![h].moved = TRUE]
            /\ call' = [call EXCEPT ![p].pc = "clear",
                                    ![p].hand = handle[h].core]
    /\ UNCHANGED <<cancel, lease, owed, left>>

\* Mutant of Validate: a refused core is not put back.
ValidateLoses(p) ==
    LET h == call[p].h IN
    /\ call[p].pc = "validate"
    /\ \/ /\ handle' = [handle EXCEPT ![h].moved = TRUE]
          /\ call' = Goto(p, "hand")
       \/ /\ UNCHANGED handle
          /\ call' = [call EXCEPT ![p].pc = "unlock", ![p].hand = None]
    /\ UNCHANGED <<cancel, lease, owed, left>>

\* core_chat: marked moved if it accepts, put back if it refuses.
Validate(p) ==
    LET h == call[p].h IN
    /\ call[p].pc = "validate"
    /\ \/ /\ handle' = [handle EXCEPT ![h].moved = TRUE]
          /\ call' = Goto(p, "hand")
       \/ /\ handle' = [handle EXCEPT ![h].core = call[p].hand]
          /\ call' = [call EXCEPT ![p].pc = "unlock", ![p].hand = None]
    /\ UNCHANGED <<cancel, lease, owed, left>>

ReclaimClear(p) ==
    /\ call[p].pc = "clear"
    /\ ClearFlag(call[p].hand)
    /\ call' = Goto(p, "hand")
    /\ UNCHANGED <<handle, lease, owed, left>>

\* The new handle, of the other kind, over the same core and flag.
Hand(p) ==
    LET k == call[p].hand
        kind == IF call[p].op = "into_chat" THEN "chat" ELSE "session"
    IN /\ call[p].pc = "hand"
       /\ \E n \in FreeHandles :
            handle' = [handle EXCEPT ![n] =
                [NoHandle EXCEPT !.kind = kind, !.core = k, !.flag = k,
                                 !.held = TRUE]]
       /\ call' = [call EXCEPT ![p].pc = "unlock", ![p].hand = None]
       /\ UNCHANGED <<cancel, lease, owed, left>>

(***************************************************************************)
(* cancel and clear_cancel: the moved flag is read, then the cancel flag   *)
(* is stored, with no lock over the two.                                   *)
(***************************************************************************)
Check(p) ==
    /\ call[p].pc = "check"
    /\ call' = Goto(p, IF handle[call[p].h].moved THEN "end" ELSE "store")
    /\ UNCHANGED <<handle, cancel, lease, owed, left>>

StoreCancel(p) ==
    LET k == handle[call[p].h].flag IN
    /\ call[p].pc = "store"
    /\ call[p].op = "cancel"
    /\ SetFlag(k)
    /\ Owe(k)
    /\ call' = Tell(Goto(p, "end"), k, TRUE)
    /\ UNCHANGED <<handle, lease, left>>

StoreClear(p) ==
    LET k == handle[call[p].h].flag IN
    /\ call[p].pc = "store"
    /\ call[p].op = "clear"
    /\ ClearFlag(k)
    /\ call' = Tell(Goto(p, "end"), k, FALSE)
    /\ UNCHANGED <<handle, lease, owed, left>>

(***************************************************************************)
(* The future of an asynchronous call.  Until its await resolves it is     *)
(* armed: dropped, it aborts the task, which only a queued one obeys, and  *)
(* cancels the session.                                                    *)
(***************************************************************************)
Resolve(p) ==
    /\ call[p].pc = "end"
    /\ call[p].future = "awaiting"
    /\ call' = [call EXCEPT ![p].future = "none"]
    /\ UNCHANGED <<handle, cancel, lease, owed, left>>

DropFuture(p) ==
    /\ call[p].future = "awaiting"
    /\ call' = [call EXCEPT ![p].future = "check",
                    ![p].pc = IF @ = "queued" THEN "aborted" ELSE @]
    /\ UNCHANGED <<handle, cancel, lease, owed, left>>

GuardCheck(p) ==
    /\ call[p].future = "check"
    /\ call' = [call EXCEPT ![p].future =
                    IF handle[call[p].h].moved THEN "gone" ELSE "store"]
    /\ UNCHANGED <<handle, cancel, lease, owed, left>>

\* Mutant of GuardStore: the guard aborts and does not cancel.
GuardAbortsOnly(p) ==
    LET k == handle[call[p].h].flag IN
    /\ call[p].future = "store"
    /\ Owe(k)
    /\ call' = Tell([call EXCEPT ![p].future = "gone"], k, TRUE)
    /\ UNCHANGED <<handle, cancel, lease, left>>

GuardStore(p) ==
    LET k == handle[call[p].h].flag IN
    /\ call[p].future = "store"
    /\ SetFlag(k)
    /\ Owe(k)
    /\ call' = Tell([call EXCEPT ![p].future = "gone"], k, TRUE)
    /\ UNCHANGED <<handle, lease, left>>

\* The call is over and its slot free for another.
Forget(p) ==
    /\ call[p].pc = "end"
    /\ call[p].future \in {"none", "gone"}
    /\ call' = [call EXCEPT ![p] = NoCall]
    /\ UNCHANGED <<handle, cancel, lease, owed, left>>

\* What runs by itself once begun: a thread, a worker, a drop.
Work(p) ==
    \/ Acquire(p) \/ Build(p)
    \/ Start(p) \/ Lock(p)
    \/ Unready(p) \/ Enter(p) \/ Loop(p) \/ Forward(p) \/ Exit(p)
    \/ Unlock(p) \/ OnDone(p) \/ Reset(p)
    \/ Take(p) \/ Validate(p) \/ ReclaimClear(p) \/ Hand(p)
    \/ Check(p) \/ StoreCancel(p) \/ StoreClear(p)
    \/ Forget(p)

Guard(p) == GuardCheck(p) \/ GuardStore(p)

\* What the host chooses to do.
Host ==
    \/ \E p \in Calls : BeginOpen(p) \/ Resolve(p) \/ DropFuture(p)
    \/ \E p \in Calls, op \in Ops \ {"open"}, h \in Handles, async \in BOOLEAN :
         Begin(p, op, h, async)
    \/ \E h \in Handles : Release(h)

Next ==
    \/ Host
    \/ \E p \in Calls : Work(p) \/ Guard(p)
    \/ \E h \in Handles : DropHandle(h)

Spec == Init /\ [][Next]_vars

-----------------------------------------------------------------------------
HandleType ==
    [kind : {"none", "session", "chat"}, core : Cores \cup {None},
     flag : Cores \cup {None}, moved : BOOLEAN, holder : Calls \cup {None},
     poisoned : BOOLEAN, held : BOOLEAN]

Pcs == {"idle", "acquire", "build", "queued", "aborted", "lock", "enter",
        "loop", "forward", "exit", "unlock", "done", "reset", "take",
        "validate", "clear", "hand", "check", "store", "end"}

CallType ==
    [pc : Pcs,
     op : {"none", "open"} \cup Methods,
     h : Handles \cup {None},
     future : {"none", "awaiting", "check", "store", "gone"},
     sink : BOOLEAN, noted : BOOLEAN, done : 0..1,
     finish : {"none", "Cancelled", "Length", "Error", "Panic"},
     tokens : 0..MaxTokens, hand : Cores \cup {None},
     told : BOOLEAN, extra : 0..MaxTokens]

\* Types of the handles, the calls and the flags; a sink is told of an end
\* at most once.
TypeOK ==
    /\ handle \in [Handles -> HandleType]
    /\ call \in [Calls -> CallType]
    /\ cancel \in [Cores -> BOOLEAN]
    /\ lease \in BOOLEAN
    /\ owed \in [Cores -> BOOLEAN]
    /\ left \in 0..Budget

\* However conversions, refusals and panics interleave, a handle nobody has
\* locked is empty exactly when it says it was moved: a refused conversion
\* leaves it usable, and the cancel of an emptied one does nothing
\* (from_session, into_session).
MovedIsEmpty ==
    \A h \in Handles : Live(h) /\ handle[h].holder = None
                           => (handle[h].moved <=> handle[h].core = None)

Keeps(h) == handle[h].core # None
Moves(p) == call[p].hand # None \/ call[p].pc = "build"

\* The model's gate is taken exactly while a session over it exists or is
\* being built, in a handle or in the hands of a call, through conversions,
\* panics, aborted tasks and dropped futures; and there is never more than
\* one (try_acquire, the lease's Drop).
GateGuardsModel ==
    /\ lease <=> (\E h \in Handles : Keeps(h)) \/ (\E p \in Calls : Moves(p))
    /\ \A g, h \in Handles : Keeps(g) /\ Keeps(h) => g = h
    /\ \A p, q \in Calls : Moves(p) /\ Moves(q) => p = q
    /\ \A h \in Handles, p \in Calls : ~(Keeps(h) /\ Moves(p))

\* A streaming call that was not aborted in the queue and did not panic has
\* told its sink of the end once when it returns, whatever error it met and
\* whether or not the core got to say so itself; an aborted one never does
\* (generate_streaming, notify_done).
SinkHearsTheEnd ==
    \A p \in Calls : call[p].sink =>
        /\ call[p].pc = "aborted" => call[p].done = 0
        /\ (call[p].pc = "end" /\ call[p].finish \notin {"none", "Panic"})
               => call[p].done = 1

\* After a cancel() or the drop of a future has returned, the generation that
\* was running on that session makes at most one more token, unless the
\* host takes the cancel back (the loop's check, AsyncCancelGuard::drop).
CancelStopsDecode == \A p \in Calls : call[p].extra <= 1

\* A cancel stops one generation at most: each that ends Cancelled answers a
\* cancel that stopped none before (the CancelGuard of generate).
CancelIsSpent ==
    [][\A p \in Calls :
         call[p].finish = "none" /\ call'[p].finish = "Cancelled"
             => owed[handle[call[p].h].core]]_vars

\* Whoever holds a session's mutex waits for none: a callback may re-enter the
\* session only after it is released, so every wait ends with the work of a
\* call that can go on (on_done "may call any method", generate_streaming).
HolderNeverWaits ==
    \A h \in Handles :
        handle[h].holder # None => call[handle[h].holder].pc # "lock"

\* What the documentation claims and the code does not keep.

\* "A moved Session handle cannot cancel its new owner" (cera-ffi/src/lib.rs,
\* Session::cancel): a cancel is stored through a handle that is not moved.
MovedCannotCancel ==
    [][\A p \in Calls :
         \/ call[p].pc = "store" /\ call[p].op = "cancel"
                /\ call'[p].pc # "store"
         \/ call[p].future = "store" /\ call'[p].future # "store"
         => ~handle[call[p].h].moved]_vars

\* "generate resets the cancel atomic on entry, so a spurious late-arriving
\* cancel ... wouldn't affect the next call" (AsyncCancelGuard): a generation
\* that ends Cancelled was cancelled while it ran.
OnlyTheCallUnderWay ==
    [][\A p \in Calls :
         call[p].finish = "none" /\ call'[p].finish = "Cancelled"
             => call[p].told]_vars

\* "a not-yet-started decode never runs" once its future is dropped
\* (generate_async): a decode does not begin after its guard has finished.
DroppedNeverDecodes ==
    [][\A p \in Calls :
         call[p].pc = "enter" /\ call'[p].pc = "loop"
             => call[p].future # "gone"]_vars
=============================================================================
