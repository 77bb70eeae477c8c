---------------------------- MODULE HandlesProofs ----------------------------
(***************************************************************************)
(* Theorems about Handles, for any number of handles, calls and cores.     *)
(* First the locks and the gate: the model's gate is taken exactly while   *)
(* its one session exists, a handle at rest is empty exactly when it says  *)
(* it was moved, and the holder of a mutex never waits for one.  Then the  *)
(* cancels and the sinks: a cancel stops the decode under way within a     *)
(* token, one cancel stops one generation at most, and a streaming call    *)
(* tells its sink of the end exactly once.                                 *)
(***************************************************************************)
EXTENDS Handles, TLAPS

Futures == {"none", "awaiting", "check", "store", "gone"}
Finishes == {"none", "Cancelled", "Length", "Error", "Panic"}

Records ==
    [pc : Pcs, op : {"none", "open"} \cup Methods, h : Handles \cup {None}, future : Futures,
     sink : BOOLEAN, noted : BOOLEAN, done : Nat, finish : Finishes,
     tokens : Nat, hand : Cores \cup {None}, told : BOOLEAN, extra : Nat]

Types ==
    /\ handle \in [Handles -> HandleType]
    /\ call \in [Calls -> Records]
    /\ cancel \in [Cores -> BOOLEAN]
    /\ lease \in BOOLEAN

(* A call between Lock and Unlock, and one that needs the handle's core.   *)
Locked(p) == call[p].pc \in {"enter", "loop", "forward", "exit", "reset",
                             "take", "validate", "clear", "hand", "unlock"}
Uses(p) == call[p].pc \in {"enter", "loop", "forward", "exit", "reset", "take"}

(* The mutex of a handle is held by the call that is between the two.      *)
LockInv ==
    \A p \in Calls, h \in Handles :
        handle[h].holder = p <=> Locked(p) /\ call[p].h = h

(* Whoever refers to a handle refers to a live one; a dead one is blank.   *)
LiveInv ==
    /\ \A p \in Calls :
           call[p].pc \notin {"idle", "acquire", "build", "end"}
               => call[p].h \in Handles
    /\ \A p \in Calls, h \in Handles : Refers(p, h) => Live(h)
    /\ \A h \in Handles : ~Live(h) => handle[h] = NoHandle

(* A call carries the core from Take until Hand or a refusal.              *)
HandInv ==
    \A p \in Calls :
        /\ call[p].hand # None <=> call[p].pc \in {"validate", "clear", "hand"}
        /\ Uses(p) => handle[call[p].h].core # None

(* A handle is empty exactly when moved, but while a chat validates it.    *)
MovedInv ==
    \A h \in Handles : Live(h) =>
        IF handle[h].holder # None /\ call[handle[h].holder].pc = "validate"
        THEN ~handle[h].moved /\ handle[h].core = None
        ELSE handle[h].moved <=> handle[h].core = None

IInv == Types /\ LockInv /\ LiveInv /\ HandInv /\ MovedInv /\ GateGuardsModel

----------------------------------------------------------------------------
(* Initially there is nothing.                                             *)
LEMMA InitInv == Init => IInv
<1> SUFFICES ASSUME Init
             PROVE  IInv
  OBVIOUS
<1>1. /\ \A h \in Handles : handle[h] = NoHandle
      /\ \A p \in Calls : call[p] = NoCall
  BY DEF Init
<1>2. NoHandle \in HandleType /\ NoCall \in Records
  BY DEF NoHandle, HandleType, NoCall, Records, Pcs, Futures, Finishes
<1>3. Types
  BY <1>2 DEF Init, Types
<1>4. LockInv
  BY <1>1, HandlesAssumption DEF LockInv, Locked, NoHandle, NoCall
<1>5. LiveInv
  <2>1. \A p \in Calls : call[p].pc = "idle" /\ call[p].future = "none"
    BY <1>1 DEF NoCall
  <2> QED
    BY <1>1, <2>1 DEF LiveInv, Refers
<1>6. HandInv
  BY <1>1 DEF HandInv, Uses, NoCall
<1>7. MovedInv
  BY <1>1 DEF MovedInv, Live, NoHandle
<1>8. GateGuardsModel
  BY <1>1 DEF Init, GateGuardsModel, Keeps, Moves, NoHandle, NoCall
<1> QED
  BY <1>3, <1>4, <1>5, <1>6, <1>7, <1>8 DEF IInv

(* Most steps leave the handles and the lease alone, and move calls about  *)
(* without any taking or giving a lock, a core or a handle.                *)
Carrying == {"validate", "clear", "hand"}

Placed(q) == call[q].pc \notin {"idle", "acquire", "build", "end"}
                 => call[q].h \in Handles

Quiet(q) ==
    /\ Placed(q)'
    /\ Locked(q)' <=> Locked(q)
    /\ Locked(q) => call'[q].h = call[q].h
    /\ Uses(q)' => Uses(q)
    /\ call'[q].hand = call[q].hand
    /\ call'[q].pc \in Carrying <=> call[q].pc \in Carrying
    /\ call'[q].pc = "validate" <=> call[q].pc = "validate"
    /\ call'[q].pc = "build" <=> call[q].pc = "build"
    /\ \A h \in Handles : Refers(q, h)' => Live(h)

LEMMA QuietStep ==
    ASSUME IInv, Types', UNCHANGED <<handle, lease>>, \A q \in Calls : Quiet(q)
    PROVE  IInv'
<1>1. LockInv'
  BY DEF IInv, LockInv, Quiet
<1>2. LiveInv'
  BY DEF IInv, LiveInv, Live, Quiet, Placed
<1>3. HandInv'
  BY DEF IInv, HandInv, Quiet, Uses, Locked, Carrying
<1>4. MovedInv'
  <2> SUFFICES ASSUME NEW h \in Handles, Live(h)
               PROVE  (IF handle[h].holder # None /\ call'[handle[h].holder].pc = "validate"
                       THEN ~handle[h].moved /\ handle[h].core = None
                       ELSE handle[h].moved <=> handle[h].core = None)
    BY DEF MovedInv, Live
  <2>1. handle[h].holder # None => handle[h].holder \in Calls
    BY DEF IInv, Types, HandleType
  <2> QED
    BY <2>1 DEF IInv, MovedInv, Quiet
<1>5. GateGuardsModel'
  BY DEF IInv, GateGuardsModel, Keeps, Moves, Quiet
<1> QED
  BY <1>1, <1>2, <1>3, <1>4, <1>5 DEF IInv

(* A step of one call p that leaves its lock and what it carries alone.    *)
LEMMA OneCallMoves ==
    ASSUME IInv, UNCHANGED <<handle, lease>>,
           NEW p \in Calls, call' \in [Calls -> Records], cancel' \in [Cores -> BOOLEAN],
           \A q \in Calls \ {p} :
               /\ call'[q].pc = call[q].pc /\ call'[q].h = call[q].h
               /\ call'[q].hand = call[q].hand /\ call'[q].future = call[q].future,
           Quiet(p)
    PROVE  IInv'
<1>1. Types'
  BY DEF IInv, Types
<1>2. ASSUME NEW q \in Calls
      PROVE  Quiet(q)
  <2>1. CASE q = p
    BY <2>1
  <2>2. CASE q # p
    <3>1. \A h \in Handles : Refers(q, h)' <=> Refers(q, h)
      BY <2>2 DEF Refers
    <3> QED
      BY <2>2, <3>1 DEF Quiet, Placed, Locked, Uses, IInv, LiveInv
  <2> QED
    BY <2>1, <2>2
<1> QED
  BY <1>1, <1>2, QuietStep

----------------------------------------------------------------------------
(* The steps that only move a call about.                                  *)

(* Telling a decode of the flag leaves calls where they are.               *)
LEMMA TellMovesNobody ==
    ASSUME NEW C \in [Calls -> Records], NEW k, NEW b \in BOOLEAN
    PROVE  /\ Tell(C, k, b) \in [Calls -> Records]
           /\ \A q \in Calls :
                  /\ Tell(C, k, b)[q].pc = C[q].pc
                  /\ Tell(C, k, b)[q].h = C[q].h
                  /\ Tell(C, k, b)[q].hand = C[q].hand
                  /\ Tell(C, k, b)[q].future = C[q].future
<1> DEFINE T(q) == [C[q] EXCEPT !.told = b, !.extra = IF b THEN @ ELSE 0]
<1>1. ASSUME NEW q \in Calls
      PROVE  /\ T(q) \in Records
             /\ T(q).pc = C[q].pc /\ T(q).h = C[q].h
             /\ T(q).hand = C[q].hand /\ T(q).future = C[q].future
  <2>1. C[q] \in Records /\ (IF b THEN C[q].extra ELSE 0) \in Nat
    BY DEF Records
  <2> QED
    BY <2>1 DEF Records
<1>2. \A q \in Calls : Tell(C, k, b)[q] = T(q) \/ Tell(C, k, b)[q] = C[q]
  BY DEF Tell
<1>3. Tell(C, k, b) = [q \in Calls |-> IF Decoding(q, k) THEN T(q) ELSE C[q]]
  BY DEF Tell
<1> HIDE DEF T
<1>4. Tell(C, k, b) \in [Calls -> Records]
  BY <1>1, <1>3
<1> QED
  BY <1>1, <1>2, <1>4

LEMMA StartStep == ASSUME IInv, NEW p \in Calls, Start(p)  PROVE IInv'
<1>1. UNCHANGED <<handle, lease>> /\ cancel' \in [Cores -> BOOLEAN]
  BY DEF IInv, Types, Start, Goto
<1>2. call' \in [Calls -> Records]
  BY DEF IInv, Types, Start, Goto, Records, Pcs, Finishes, Futures
<1>3. Quiet(p)
  BY DEF IInv, Types, LiveInv, Records, Start, Goto, Quiet, Placed, Locked, Uses,
     Refers, Carrying
<1> QED
  BY <1>1, <1>2, <1>3, OneCallMoves DEF Start, Goto

LEMMA UnreadyStep == ASSUME IInv, NEW p \in Calls, Unready(p)  PROVE IInv'
<1>1. UNCHANGED <<handle, lease>> /\ cancel' \in [Cores -> BOOLEAN]
  BY DEF IInv, Types, Unready
<1>2. call' \in [Calls -> Records]
  <2>1. call[p] \in Records
    BY DEF IInv, Types
  <2>2. [call[p] EXCEPT !.pc = "unlock", !.finish = "Error"] \in Records
    BY <2>1 DEF Records, Pcs, Finishes
  <2> QED
    BY <2>2 DEF IInv, Types, Unready
<1>3. Quiet(p)
  BY DEF IInv, Types, LiveInv, Records, Unready, Quiet, Placed, Locked, Uses,
     Refers, Carrying
<1> QED
  BY <1>1, <1>2, <1>3, OneCallMoves DEF Unready

LEMMA EnterStep == ASSUME IInv, NEW p \in Calls, Enter(p)  PROVE IInv'
<1>1. UNCHANGED <<handle, lease>> /\ cancel' \in [Cores -> BOOLEAN]
  BY DEF IInv, Types, Enter, Goto, Finish
<1>2. call' \in [Calls -> Records]
  BY DEF IInv, Types, Enter, Goto, Finish, Records, Pcs, Finishes, Futures
<1>3. Quiet(p)
  BY DEF IInv, Types, LiveInv, Records, Enter, Goto, Finish, Quiet, Placed, Locked, Uses,
     Refers, Carrying
<1> QED
  BY <1>1, <1>2, <1>3, OneCallMoves DEF Enter, Goto, Finish

LEMMA LoopStep == ASSUME IInv, NEW p \in Calls, Loop(p)  PROVE IInv'
<1>1. UNCHANGED <<handle, lease>> /\ cancel' \in [Cores -> BOOLEAN]
  BY DEF IInv, Types, Loop, Goto, Finish
<1>2. call' \in [Calls -> Records]
  BY DEF IInv, Types, Loop, Goto, Finish, Records, Pcs, Finishes, Futures
<1>3. Quiet(p)
  BY DEF IInv, Types, LiveInv, Records, Loop, Goto, Finish, Quiet, Placed, Locked, Uses,
     Refers, Carrying
<1> QED
  BY <1>1, <1>2, <1>3, OneCallMoves DEF Loop, Goto, Finish

LEMMA ForwardStep == ASSUME IInv, NEW p \in Calls, Forward(p)  PROVE IInv'
<1>1. UNCHANGED <<handle, lease>> /\ cancel' \in [Cores -> BOOLEAN]
  BY DEF IInv, Types, Forward, Finish
<1>2. call' \in [Calls -> Records]
  BY DEF IInv, Types, Forward, Finish, Records, Pcs, Finishes, Futures
<1>3. Quiet(p)
  BY DEF IInv, Types, LiveInv, Records, Forward, Finish, Quiet, Placed, Locked, Uses,
     Refers, Carrying
<1> QED
  BY <1>1, <1>2, <1>3, OneCallMoves DEF Forward, Finish

LEMMA ExitStep == ASSUME IInv, NEW p \in Calls, Exit(p)  PROVE IInv'
<1>1. UNCHANGED <<handle, lease>> /\ cancel' \in [Cores -> BOOLEAN]
  BY DEF IInv, Types, Exit, Goto, ClearFlag
<1>2. call' \in [Calls -> Records]
  BY DEF IInv, Types, Exit, Goto, ClearFlag, Records, Pcs, Finishes, Futures
<1>3. Quiet(p)
  BY DEF IInv, Types, LiveInv, Records, Exit, Goto, ClearFlag, Quiet, Placed, Locked, Uses,
     Refers, Carrying
<1> QED
  BY <1>1, <1>2, <1>3, OneCallMoves DEF Exit, Goto, ClearFlag

LEMMA OnDoneStep == ASSUME IInv, NEW p \in Calls, OnDone(p)  PROVE IInv'
<1>1. UNCHANGED <<handle, lease>> /\ cancel' \in [Cores -> BOOLEAN]
  BY DEF IInv, Types, OnDone
<1>2. call' \in [Calls -> Records]
  BY DEF IInv, Types, OnDone, Records, Pcs, Finishes, Futures
<1>3. Quiet(p)
  BY DEF IInv, Types, LiveInv, Records, OnDone, Quiet, Placed, Locked, Uses,
     Refers, Carrying
<1> QED
  BY <1>1, <1>2, <1>3, OneCallMoves DEF OnDone

LEMMA ResetStep == ASSUME IInv, NEW p \in Calls, Reset(p)  PROVE IInv'
<1>1. UNCHANGED <<handle, lease>> /\ cancel' \in [Cores -> BOOLEAN]
  BY DEF IInv, Types, Reset, Goto, ClearFlag
<1>2. call' \in [Calls -> Records]
  BY DEF IInv, Types, Reset, Goto, ClearFlag, Records, Pcs, Finishes, Futures
<1>3. Quiet(p)
  BY DEF IInv, Types, LiveInv, Records, Reset, Goto, ClearFlag, Quiet, Placed, Locked, Uses,
     Refers, Carrying
<1> QED
  BY <1>1, <1>2, <1>3, OneCallMoves DEF Reset, Goto, ClearFlag

LEMMA ReclaimClearStep == ASSUME IInv, NEW p \in Calls, ReclaimClear(p)  PROVE IInv'
<1>1. UNCHANGED <<handle, lease>> /\ cancel' \in [Cores -> BOOLEAN]
  BY DEF IInv, Types, ReclaimClear, Goto, ClearFlag
<1>2. call' \in [Calls -> Records]
  BY DEF IInv, Types, ReclaimClear, Goto, ClearFlag, Records, Pcs, Finishes, Futures
<1>3. Quiet(p)
  BY DEF IInv, Types, LiveInv, Records, ReclaimClear, Goto, ClearFlag, Quiet, Placed, Locked, Uses,
     Refers, Carrying
<1> QED
  BY <1>1, <1>2, <1>3, OneCallMoves DEF ReclaimClear, Goto, ClearFlag

LEMMA CheckStep == ASSUME IInv, NEW p \in Calls, Check(p)  PROVE IInv'
<1>1. UNCHANGED <<handle, lease>> /\ cancel' \in [Cores -> BOOLEAN]
  BY DEF IInv, Types, Check, Goto
<1>2. call' \in [Calls -> Records]
  BY DEF IInv, Types, Check, Goto, Records, Pcs, Finishes, Futures
<1>3. Quiet(p)
  BY DEF IInv, Types, LiveInv, Records, Check, Goto, Quiet, Placed, Locked, Uses,
     Refers, Carrying
<1> QED
  BY <1>1, <1>2, <1>3, OneCallMoves DEF Check, Goto

LEMMA StoreCancelStep == ASSUME IInv, NEW p \in Calls, StoreCancel(p)  PROVE IInv'
<1> DEFINE C == Goto(p, "end")
           k == handle[call[p].h].flag
<1>1. UNCHANGED <<handle, lease>> /\ cancel' \in [Cores -> BOOLEAN]
  BY DEF IInv, Types, StoreCancel, SetFlag
<1>2. C \in [Calls -> Records]
  BY DEF IInv, Types, StoreCancel, Goto, Records, Pcs, Futures
<1>3. call' = Tell(C, k, TRUE)
  BY DEF StoreCancel
<1>4. /\ \A q \in Calls \ {p} :
             /\ C[q].pc = call[q].pc /\ C[q].h = call[q].h
             /\ C[q].hand = call[q].hand /\ C[q].future = call[q].future
      /\ /\ C[p].pc = "end" /\ C[p].h = call[p].h
      /\ C[p].hand = call[p].hand /\ C[p].future = call[p].future
  BY DEF IInv, Types, Records, StoreCancel, Goto
<1> HIDE DEF C, k
<1>5. /\ call' \in [Calls -> Records]
      /\ \A q \in Calls :
             /\ call'[q].pc = C[q].pc /\ call'[q].h = C[q].h
             /\ call'[q].hand = C[q].hand /\ call'[q].future = C[q].future
  BY ZenonT(40), <1>2, <1>3, TellMovesNobody
<1>6. Quiet(p)
  BY <1>1, <1>4, <1>5 DEF IInv, Types, LiveInv, StoreCancel, Quiet, Placed, Locked, Uses,
     Refers, Carrying
<1> QED
  BY <1>1, <1>4, <1>5, <1>6, OneCallMoves

LEMMA StoreClearStep == ASSUME IInv, NEW p \in Calls, StoreClear(p)  PROVE IInv'
<1> DEFINE C == Goto(p, "end")
           k == handle[call[p].h].flag
<1>1. UNCHANGED <<handle, lease>> /\ cancel' \in [Cores -> BOOLEAN]
  BY DEF IInv, Types, StoreClear, ClearFlag
<1>2. C \in [Calls -> Records]
  BY DEF IInv, Types, StoreClear, Goto, Records, Pcs, Futures
<1>3. call' = Tell(C, k, FALSE)
  BY DEF StoreClear
<1>4. /\ \A q \in Calls \ {p} :
             /\ C[q].pc = call[q].pc /\ C[q].h = call[q].h
             /\ C[q].hand = call[q].hand /\ C[q].future = call[q].future
      /\ /\ C[p].pc = "end" /\ C[p].h = call[p].h
      /\ C[p].hand = call[p].hand /\ C[p].future = call[p].future
  BY DEF IInv, Types, Records, StoreClear, Goto
<1> HIDE DEF C, k
<1>5. /\ call' \in [Calls -> Records]
      /\ \A q \in Calls :
             /\ call'[q].pc = C[q].pc /\ call'[q].h = C[q].h
             /\ call'[q].hand = C[q].hand /\ call'[q].future = C[q].future
  BY ZenonT(40), <1>2, <1>3, TellMovesNobody
<1>6. Quiet(p)
  BY <1>1, <1>4, <1>5 DEF IInv, Types, LiveInv, StoreClear, Quiet, Placed, Locked, Uses,
     Refers, Carrying
<1> QED
  BY <1>1, <1>4, <1>5, <1>6, OneCallMoves

LEMMA ResolveStep == ASSUME IInv, NEW p \in Calls, Resolve(p)  PROVE IInv'
<1>1. UNCHANGED <<handle, lease>> /\ cancel' \in [Cores -> BOOLEAN]
  BY DEF IInv, Types, Resolve
<1>2. call' \in [Calls -> Records]
  BY DEF IInv, Types, Resolve, Records, Pcs, Finishes, Futures
<1>3. Quiet(p)
  BY DEF IInv, Types, LiveInv, Records, Resolve, Quiet, Placed, Locked, Uses,
     Refers, Carrying
<1> QED
  BY <1>1, <1>2, <1>3, OneCallMoves DEF Resolve

LEMMA DropFutureStep == ASSUME IInv, NEW p \in Calls, DropFuture(p)  PROVE IInv'
<1>1. UNCHANGED <<handle, lease>> /\ cancel' \in [Cores -> BOOLEAN]
  BY DEF IInv, Types, DropFuture
<1>2. call' \in [Calls -> Records]
  <2> DEFINE at == IF call[p].pc = "queued" THEN "aborted" ELSE call[p].pc
  <2>1. call[p] \in Records /\ at \in Pcs
    BY DEF IInv, Types, Records, Pcs
  <2>2. [call[p] EXCEPT !.future = "check", !.pc = at] \in Records
    BY <2>1 DEF Records, Futures
  <2> QED
    BY <2>2 DEF IInv, Types, DropFuture
<1>3. Quiet(p)
  BY DEF IInv, Types, LiveInv, Records, DropFuture, Quiet, Placed, Locked, Uses,
     Refers, Carrying
<1> QED
  BY <1>1, <1>2, <1>3, OneCallMoves DEF DropFuture

LEMMA GuardCheckStep == ASSUME IInv, NEW p \in Calls, GuardCheck(p)  PROVE IInv'
<1>1. UNCHANGED <<handle, lease>> /\ cancel' \in [Cores -> BOOLEAN]
  BY DEF IInv, Types, GuardCheck
<1>2. call' \in [Calls -> Records]
  BY DEF IInv, Types, GuardCheck, Records, Pcs, Finishes, Futures
<1>3. Quiet(p)
  BY DEF IInv, Types, LiveInv, Records, GuardCheck, Quiet, Placed, Locked, Uses,
     Refers, Carrying
<1> QED
  BY <1>1, <1>2, <1>3, OneCallMoves DEF GuardCheck

LEMMA GuardStoreStep == ASSUME IInv, NEW p \in Calls, GuardStore(p)  PROVE IInv'
<1> DEFINE C == [call EXCEPT ![p].future = "gone"]
           k == handle[call[p].h].flag
<1>1. UNCHANGED <<handle, lease>> /\ cancel' \in [Cores -> BOOLEAN]
  BY DEF IInv, Types, GuardStore, SetFlag
<1>2. C \in [Calls -> Records]
  BY DEF IInv, Types, GuardStore, Goto, Records, Pcs, Futures
<1>3. call' = Tell(C, k, TRUE)
  BY DEF GuardStore
<1>4. /\ \A q \in Calls \ {p} :
             /\ C[q].pc = call[q].pc /\ C[q].h = call[q].h
             /\ C[q].hand = call[q].hand /\ C[q].future = call[q].future
      /\ /\ C[p].pc = call[p].pc /\ C[p].h = call[p].h
      /\ C[p].hand = call[p].hand /\ C[p].future = "gone"
  BY DEF IInv, Types, Records, GuardStore, Goto
<1> HIDE DEF C, k
<1>5. /\ call' \in [Calls -> Records]
      /\ \A q \in Calls :
             /\ call'[q].pc = C[q].pc /\ call'[q].h = C[q].h
             /\ call'[q].hand = C[q].hand /\ call'[q].future = C[q].future
  BY ZenonT(40), <1>2, <1>3, TellMovesNobody
<1>6. Quiet(p)
  BY <1>1, <1>4, <1>5 DEF IInv, Types, LiveInv, GuardStore, Quiet, Placed, Locked, Uses,
     Refers, Carrying
<1> QED
  BY <1>1, <1>4, <1>5, <1>6, OneCallMoves

LEMMA ForgetStep == ASSUME IInv, NEW p \in Calls, Forget(p)  PROVE IInv'
<1>1. UNCHANGED <<handle, lease>> /\ cancel' \in [Cores -> BOOLEAN]
  BY DEF IInv, Types, Forget, NoCall
<1>2. call' \in [Calls -> Records]
  BY DEF IInv, Types, Forget, NoCall, Records, Pcs, Finishes, Futures
<1>3. Quiet(p)
  <2>1. call'[p].pc = "idle" /\ call'[p].future = "none" /\ call'[p].hand = None
    BY DEF IInv, Types, Forget, NoCall
  <2>2. call[p].pc = "end" /\ call[p].hand = None
    BY DEF IInv, HandInv, Forget
  <2> QED
    BY <2>1, <2>2 DEF Quiet, Placed, Locked, Uses, Refers, Carrying
<1> QED
  BY <1>1, <1>2, <1>3, OneCallMoves DEF Forget, NoCall

LEMMA BeginOpenStep == ASSUME IInv, NEW p \in Calls, BeginOpen(p)  PROVE IInv'
<1>1. UNCHANGED <<handle, lease>> /\ cancel' \in [Cores -> BOOLEAN]
  BY DEF IInv, Types, BeginOpen
<1> DEFINE r == [NoCall EXCEPT !.pc = "acquire", !.op = "open"]
<1>2. call' = [call EXCEPT ![p] = r] /\ call[p] = NoCall
  BY DEF IInv, Types, BeginOpen
<1>3. r \in Records
  BY DEF Records, NoCall, Pcs, Futures, Finishes
<1>4. r.pc = "acquire" /\ r.h = None /\ r.hand = None
  BY DEF NoCall
<1> HIDE DEF r
<1>5. call' \in [Calls -> Records] /\ call'[p] = r
  BY <1>2, <1>3 DEF IInv, Types
<1>6. call[p].pc = "idle" /\ call[p].hand = None
  BY <1>2 DEF NoCall
<1>7. Quiet(p)
  <2>1. \A h \in Handles : ~Refers(p, h)'
    BY <1>4, <1>5, HandlesAssumption DEF Refers
  <2> QED
    BY <1>4, <1>5, <1>6, <2>1 DEF Quiet, Placed, Locked, Uses, Carrying
<1> QED
  BY <1>1, <1>2, <1>5, <1>7, OneCallMoves

LEMMA BeginStep ==
    ASSUME IInv, NEW p \in Calls, NEW op \in Ops \ {"open"}, NEW h \in Handles,
           NEW async \in BOOLEAN, Begin(p, op, h, async)
    PROVE  IInv'
<1>1. UNCHANGED <<handle, lease>> /\ cancel' \in [Cores -> BOOLEAN]
  BY DEF IInv, Types, Begin
<1> DEFINE at == CASE async -> "queued"
                   [] op \in {"cancel", "clear"} -> "check"
                   [] OTHER -> "lock"
           future == IF async THEN "awaiting" ELSE "none"
           r == [NoCall EXCEPT !.op = op, !.h = h, !.sink = (op = "stream"),
                               !.future = future, !.pc = at]
<1>2. at \in {"queued", "check", "lock"} /\ future \in Futures /\ op \in Methods
  BY HandlesAssumption DEF Futures
<1>3. call' = [call EXCEPT ![p] = r] /\ call[p] = NoCall /\ handle[h].held
  BY DEF Begin
<1> HIDE DEF at, future
<1>4. r \in Records
  BY <1>2 DEF Records, NoCall, Pcs, Finishes
<1>5. r.pc = at /\ r.h = h /\ r.hand = None
  BY DEF NoCall
<1> HIDE DEF r
<1>6. call' \in [Calls -> Records]
  BY <1>3, <1>4 DEF IInv, Types
<1>7. Live(h)
  BY <1>3 DEF IInv, LiveInv, NoHandle
<1>8. call'[p] = r
  BY <1>3 DEF IInv, Types
<1>9. Quiet(p)
  BY <1>2, <1>3, <1>5, <1>7, <1>8
     DEF NoCall, Quiet, Placed, Locked, Uses, Refers, Carrying
<1> QED
  BY <1>1, <1>3, <1>6, <1>9, OneCallMoves

----------------------------------------------------------------------------
(* The steps that take or give a lease, a lock, a handle or the core.      *)
LEMMA AcquireStep == ASSUME IInv, NEW p \in Calls, Acquire(p)  PROVE IInv'
<1>1. CASE lease
  <2>1. call' = [call EXCEPT ![p] = NoCall] /\ UNCHANGED <<handle, cancel, lease>>
    BY <1>1 DEF IInv, Types, Acquire
  <2>2. NoCall \in Records
    BY DEF NoCall, Records, Pcs, Futures, Finishes
  <2>3. call' \in [Calls -> Records] /\ cancel' \in [Cores -> BOOLEAN]
    BY <2>1, <2>2 DEF IInv, Types
  <2>4. call'[p].pc = "idle" /\ call'[p].future = "none" /\ call'[p].hand = None
    BY <2>1 DEF IInv, Types, NoCall
  <2>5. call[p].pc = "acquire" /\ call[p].hand = None
    BY DEF IInv, HandInv, Acquire
  <2>6. Quiet(p)
    BY <2>4, <2>5 DEF Quiet, Placed, Locked, Uses, Refers, Carrying
  <2> QED
    BY <2>1, <2>3, <2>6, OneCallMoves
<1>2. CASE ~lease
  <2>1. /\ call' = [call EXCEPT ![p].pc = "build"]
        /\ lease' = TRUE /\ UNCHANGED <<handle, cancel>>
        /\ call[p].pc = "acquire"
    BY <1>2 DEF Acquire, Goto
  <2>2. Types'
    BY <2>1 DEF IInv, Types, Records, Pcs
  <2>3. LockInv'
    BY <2>1 DEF IInv, Types, Records, LockInv, Locked
  <2>4. LiveInv'
    BY <2>1 DEF IInv, Types, Records, LiveInv, Live, Refers
  <2>5. HandInv'
    BY <2>1 DEF IInv, Types, Records, HandInv, Uses
  <2>6. MovedInv'
    BY <2>1 DEF IInv, Types, Records, HandleType, MovedInv, Live
  <2>7. GateGuardsModel'
    BY <1>2, <2>1 DEF IInv, Types, Records, GateGuardsModel, Keeps, Moves
  <2> QED
    BY <2>2, <2>3, <2>4, <2>5, <2>6, <2>7 DEF IInv
<1> QED
  BY <1>1, <1>2

LEMMA BuildStep == ASSUME IInv, NEW p \in Calls, Build(p)  PROVE IInv'
<1>1. call' = [call EXCEPT ![p] = NoCall] /\ call[p].pc = "build"
  BY DEF Build
<1>2. NoCall \in Records
  BY DEF NoCall, Records, Pcs, Futures, Finishes
<1>3. /\ call' \in [Calls -> Records]
      /\ call'[p].pc = "idle" /\ call'[p].future = "none"
      /\ call'[p].h = None /\ call'[p].hand = None
      /\ \A q \in Calls \ {p} : call'[q] = call[q]
  BY <1>1, <1>2 DEF IInv, Types, NoCall
<1>4. /\ \A h \in Handles : ~Keeps(h)
      /\ \A q \in Calls \ {p} : ~Moves(q)
  BY <1>1 DEF IInv, GateGuardsModel, Moves
<1>5. \A q \in Calls : ~Moves(q)'
  BY <1>3, <1>4 DEF Moves
<1>6. \A q \in Calls, h \in Handles : Refers(q, h)' => Refers(q, h)
  BY <1>3 DEF Refers
<1>7. \A q \in Calls : /\ Locked(q)' <=> Locked(q)
                       /\ Locked(q) => call'[q].h = call[q].h
  BY <1>1, <1>3 DEF Locked
<1>8. CASE lease' = FALSE /\ UNCHANGED <<handle, cancel>>
  <2>1. Types'
    BY <1>3, <1>8 DEF IInv, Types
  <2>2. LockInv'
    BY <1>7, <1>8 DEF IInv, LockInv
  <2>3. LiveInv'
    BY <1>3, <1>6, <1>8 DEF IInv, LiveInv, Live
  <2>4. HandInv'
    BY <1>3, <1>8 DEF IInv, HandInv, Uses
  <2>5. MovedInv'
    <3>1. \A q \in Calls : call'[q].pc = "validate" <=> call[q].pc = "validate"
      BY <1>1, <1>3
    <3> QED
      BY <1>8, <3>1 DEF IInv, Types, HandleType, MovedInv, Live
  <2>6. GateGuardsModel'
    BY <1>4, <1>5, <1>8 DEF GateGuardsModel, Keeps
  <2> QED
    BY <2>1, <2>2, <2>3, <2>4, <2>5, <2>6 DEF IInv
<1>9. ASSUME NEW n \in FreeHandles, NEW k \in FreeCores,
             handle' = [handle EXCEPT ![n] =
                 [NoHandle EXCEPT !.kind = "session", !.core = k,
                                  !.flag = k, !.held = TRUE]],
             cancel' = [cancel EXCEPT ![k] = FALSE],
             UNCHANGED lease
      PROVE  IInv'
  <2>1. n \in Handles /\ ~Live(n) /\ k \in Cores /\ k # None
    BY HandlesAssumption DEF FreeHandles, FreeCores
  <2> DEFINE r == [NoHandle EXCEPT !.kind = "session", !.core = k,
                                   !.flag = k, !.held = TRUE]
  <2>2. r \in HandleType
    BY <2>1 DEF NoHandle, HandleType
  <2>3. r.kind = "session" /\ r.core = k /\ r.moved = FALSE /\ r.holder = None
    BY DEF NoHandle
  <2>4. handle' = [handle EXCEPT ![n] = r]
    BY <1>9
  <2> HIDE DEF r
  <2>5. /\ handle' \in [Handles -> HandleType] /\ handle'[n] = r
        /\ \A h \in Handles \ {n} : handle'[h] = handle[h]
    BY <2>1, <2>2, <2>4 DEF IInv, Types
  <2>6. handle[n].holder = None
    BY <2>1 DEF IInv, LiveInv, NoHandle
  <2>7. \A q \in Calls : ~Refers(q, n)
    BY <2>1 DEF IInv, LiveInv
  <2>8. \A q \in Calls : Locked(q) => call[q].h # n
    BY <2>7 DEF Refers, Locked
  <2>9. Types'
    BY <1>3, <1>9, <2>1, <2>5 DEF IInv, Types
  <2>10. LockInv'
    BY <1>7, <2>3, <2>5, <2>6, <2>8, HandlesAssumption DEF IInv, LockInv
  <2>11. LiveInv'
    BY <1>3, <1>6, <2>3, <2>5, <2>7 DEF IInv, LiveInv, Live
  <2>12. HandInv'
    <3>1. ASSUME NEW q \in Calls, Uses(q)'
          PROVE  q # p /\ Uses(q) /\ Locked(q) /\ call[q].h \in Handles \ {n}
      BY <1>3, <2>8, <3>1 DEF IInv, LiveInv, Uses, Locked
    <3> QED
      BY <1>3, <2>5, <3>1 DEF IInv, HandInv
  <2>13. MovedInv'
    <3>1. \A q \in Calls : call'[q].pc = "validate" <=> call[q].pc = "validate"
      BY <1>1, <1>3
    <3> QED
      BY <2>1, <2>3, <2>5, <3>1 DEF IInv, Types, HandleType, MovedInv, Live
  <2>14. GateGuardsModel'
    <3>1. lease
      BY <1>1 DEF IInv, GateGuardsModel, Moves
    <3>2. \A h \in Handles : Keeps(h)' <=> h = n
      BY <1>4, <2>1, <2>3, <2>5 DEF Keeps
    <3> QED
      BY <1>5, <1>9, <2>1, <3>1, <3>2 DEF GateGuardsModel
  <2> QED
    BY <2>9, <2>10, <2>11, <2>12, <2>13, <2>14 DEF IInv
<1> QED
  BY <1>8, <1>9 DEF Build

LEMMA ReleaseStep == ASSUME IInv, NEW h \in Handles, Release(h)  PROVE IInv'
<1>1. /\ handle' \in [Handles -> HandleType] /\ UNCHANGED <<call, cancel, lease>>
      /\ \A g \in Handles :
             /\ handle'[g].kind = handle[g].kind /\ handle'[g].core = handle[g].core
             /\ handle'[g].moved = handle[g].moved
             /\ handle'[g].holder = handle[g].holder
      /\ \A g \in Handles \ {h} : handle'[g] = handle[g]
  BY DEF IInv, Types, HandleType, Release
<1>2. Live(h)
  BY DEF IInv, LiveInv, NoHandle, Release
<1>3. Types' /\ LockInv' /\ MovedInv'
  BY <1>1 DEF IInv, Types, LockInv, Locked, MovedInv, Live
<1>4. LiveInv'
  BY <1>1, <1>2 DEF IInv, LiveInv, Live, Refers
<1>5. HandInv'
  BY <1>1 DEF IInv, LiveInv, HandInv, Uses
<1>6. GateGuardsModel'
  BY <1>1 DEF IInv, GateGuardsModel, Keeps, Moves
<1> QED
  BY <1>3, <1>4, <1>5, <1>6 DEF IInv

LEMMA DropHandleStep == ASSUME IInv, NEW h \in Handles, DropHandle(h)  PROVE IInv'
<1>1. NoHandle \in HandleType
  BY DEF NoHandle, HandleType
<1>2. /\ handle' \in [Handles -> HandleType] /\ handle'[h] = NoHandle
      /\ \A g \in Handles \ {h} : handle'[g] = handle[g]
      /\ UNCHANGED <<call, cancel>> /\ lease' = (lease /\ handle[h].core = None)
  BY <1>1 DEF IInv, Types, DropHandle
<1>3. \A q \in Calls : ~Refers(q, h)
  BY DEF DropHandle, Referenced
<1>4. \A q \in Calls : Locked(q) => call[q].h # h
  BY <1>3 DEF Refers, Locked
<1>5. NoHandle.kind = "none" /\ NoHandle.core = None /\ NoHandle.holder = None
  BY DEF NoHandle
<1>6. Types'
  BY <1>2 DEF IInv, Types
<1>7. LockInv'
  BY <1>2, <1>4, <1>5, HandlesAssumption DEF IInv, LockInv, Locked
<1>8. LiveInv'
  BY <1>2, <1>3 DEF IInv, LiveInv, Live, Refers
<1>9. HandInv'
  <2>1. \A q \in Calls : Uses(q) => call[q].h \in Handles \ {h}
    BY <1>4 DEF IInv, LiveInv, Uses, Locked
  <2> QED
    BY <1>2, <2>1 DEF IInv, HandInv, Uses
<1>10. MovedInv'
  BY <1>2, <1>5 DEF IInv, MovedInv, Live
<1>11. GateGuardsModel'
  BY <1>2, <1>5 DEF IInv, Types, GateGuardsModel, Keeps, Moves
<1> QED
  BY <1>6, <1>7, <1>8, <1>9, <1>10, <1>11 DEF IInv

LEMMA LockStep == ASSUME IInv, NEW p \in Calls, Lock(p)  PROVE IInv'
<1> DEFINE h == call[p].h
<1>1. /\ h \in Handles /\ handle[h].holder = None /\ call[p].pc = "lock"
      /\ UNCHANGED <<cancel, lease>>
  BY DEF IInv, LiveInv, Lock
<1>2. Refers(p, h) /\ Live(h)
  BY <1>1 DEF IInv, LiveInv, Refers
<1>3. CASE Refused(p)
  <2>1. call' \in [Calls -> Records] /\ cancel' \in [Cores -> BOOLEAN]
    BY <1>1, <1>3 DEF IInv, Types, Records, Pcs, Finishes, Refused
  <2>2. Quiet(p)
    BY <1>1, <1>3 DEF IInv, Types, LiveInv, Records, Refused, Quiet, Placed,
       Locked, Uses, Refers, Carrying
  <2> QED
    BY <1>1, <1>3, <2>1, <2>2, OneCallMoves DEF Refused
<1>4. CASE Admitted(p) /\ handle[h].core # None
  <2> DEFINE at == CASE call[p].op \in Generations -> "enter"
                     [] call[p].op \in Conversions -> "take"
                     [] OTHER -> "reset"
  <2>1. at \in {"enter", "take", "reset"}
    OBVIOUS
  <2>2. /\ call' = [call EXCEPT ![p].pc = at]
        /\ handle' = [handle EXCEPT ![h].holder = p]
    BY <1>4 DEF Admitted, Goto
  <2> HIDE DEF at
  <2>3. /\ call' \in [Calls -> Records]
        /\ call'[p].pc = at /\ call'[p].h = call[p].h
        /\ call'[p].hand = call[p].hand /\ call'[p].future = call[p].future
        /\ \A q \in Calls \ {p} : call'[q] = call[q]
    BY <2>1, <2>2 DEF IInv, Types, Records, Pcs
  <2>4. /\ handle' \in [Handles -> HandleType]
        /\ \A g \in Handles : /\ handle'[g].kind = handle[g].kind
                              /\ handle'[g].core = handle[g].core
                              /\ handle'[g].moved = handle[g].moved
        /\ handle'[h].holder = p
        /\ \A g \in Handles \ {h} : handle'[g] = handle[g]
    BY <1>1, <2>2 DEF IInv, Types, HandleType
  <2> HIDE DEF h
  <2>5. Types'
    BY <1>1, <2>3, <2>4 DEF IInv, Types
  <2>6. LockInv'
    BY <1>1, <2>1, <2>3, <2>4, HandlesAssumption DEF IInv, LockInv, Locked, h
  <2>7. LiveInv'
    <3>1. \A q \in Calls, g \in Handles : Refers(q, g)' => Refers(q, g)
      BY <1>1, <2>1, <2>3 DEF Refers
    <3>2. handle'[h].kind # "none"
      BY <1>1, <1>2, <2>4 DEF Live
    <3> QED
      BY <1>1, <1>2, <2>1, <2>3, <2>4, <3>1, <3>2 DEF IInv, LiveInv, Live, h
  <2>8. HandInv'
    <3>1. ASSUME NEW q \in Calls, Uses(q)'
          PROVE  call[q].h \in Handles /\ handle[call[q].h].core # None
      BY <1>1, <1>4, <2>3, <3>1 DEF IInv, LiveInv, HandInv, Uses, h
    <3> QED
      BY <1>1, <2>1, <2>3, <2>4, <3>1 DEF IInv, HandInv
  <2>9. MovedInv'
    <3>1. ASSUME NEW q \in Calls
          PROVE  call'[q].pc = "validate" <=> call[q].pc = "validate"
      BY <1>1, <2>1, <2>3
    <3>2. \A g \in Handles \ {h} : handle[g].holder # None => handle[g].holder \in Calls
      BY DEF IInv, Types, HandleType
    <3>3. call'[p].pc # "validate"
      BY <2>1, <2>3
    <3> QED
      BY <1>1, <2>4, <3>1, <3>2, <3>3 DEF IInv, MovedInv, Live
  <2>10. GateGuardsModel'
    BY <1>1, <2>1, <2>3, <2>4 DEF IInv, GateGuardsModel, Keeps, Moves
  <2> QED
    BY <2>5, <2>6, <2>7, <2>8, <2>9, <2>10 DEF IInv
<1> QED
  BY <1>3, <1>4 DEF Lock

LEMMA UnlockStep == ASSUME IInv, NEW p \in Calls, Unlock(p)  PROVE IInv'
<1> DEFINE h == call[p].h
           bad == handle[h].poisoned \/ call[p].finish = "Panic"
           at == IF call[p].op = "stream" /\ ~(call[p].finish = "Panic")
                 THEN "done" ELSE "end"
<1>1. /\ call[p].pc = "unlock" /\ UNCHANGED <<cancel, lease>>
      /\ handle' = [handle EXCEPT ![h].holder = None, ![h].poisoned = bad]
      /\ call' = [call EXCEPT ![p].pc = at]
      /\ at \in {"done", "end"} /\ bad \in BOOLEAN
  <2>1. h \in Handles
    BY DEF IInv, LiveInv, Unlock
  <2> QED
    BY <2>1 DEF IInv, Types, HandleType, Unlock, Goto
<1> HIDE DEF bad, at
<1>2. h \in Handles /\ Refers(p, h) /\ Live(h) /\ handle[h].holder = p
  BY <1>1 DEF IInv, LiveInv, LockInv, Locked, Refers
<1>3. /\ call' \in [Calls -> Records]
      /\ call'[p].pc = at /\ call'[p].h = call[p].h
      /\ call'[p].hand = call[p].hand /\ call'[p].future = call[p].future
      /\ \A q \in Calls \ {p} : call'[q] = call[q]
  BY <1>1 DEF IInv, Types, Records, Pcs
<1>4. /\ handle' \in [Handles -> HandleType]
      /\ \A g \in Handles : /\ handle'[g].kind = handle[g].kind
                            /\ handle'[g].core = handle[g].core
                            /\ handle'[g].moved = handle[g].moved
      /\ handle'[h].holder = None
      /\ \A g \in Handles \ {h} : handle'[g] = handle[g]
  BY <1>1, <1>2 DEF IInv, Types, HandleType
<1> HIDE DEF h
<1>5. Types'
  BY <1>1, <1>3, <1>4 DEF IInv, Types
<1>6. LockInv'
  <2>1. \A q \in Calls : Locked(q)' <=> Locked(q) /\ q # p
    BY <1>1, <1>3 DEF Locked
  <2>2. \A q \in Calls, g \in Handles :
            handle'[g].holder = q <=> handle[g].holder = q /\ g # h
    BY <1>4, HandlesAssumption
  <2>3. \A q \in Calls : call'[q].h = call[q].h
    BY <1>3
  <2>4. \A q \in Calls : Locked(q) /\ call[q].h = h <=> q = p
    BY <1>2 DEF IInv, LockInv
  <2>5. \A q \in Calls, g \in Handles :
            handle[g].holder = q <=> Locked(q) /\ call[q].h = g
    BY DEF IInv, LockInv
  <2> QED
    BY <2>1, <2>2, <2>3, <2>4, <2>5 DEF LockInv
<1>7. LiveInv'
  <2>1. \A q \in Calls, g \in Handles : Refers(q, g)' => Refers(q, g)
    BY <1>1, <1>3 DEF Refers
  <2> QED
    BY <1>1, <1>2, <1>3, <1>4, <2>1 DEF IInv, LiveInv, Live, h
<1>8. HandInv'
  <2>1. ASSUME NEW q \in Calls, Uses(q)'
        PROVE  q # p /\ Uses(q) /\ call[q].h \in Handles
    BY <1>1, <1>3, <2>1 DEF IInv, LiveInv, Uses
  <2> QED
    BY <1>1, <1>3, <1>4, <2>1 DEF IInv, HandInv
<1>9. MovedInv'
  <2>1. \A q \in Calls : call'[q].pc = "validate" <=> call[q].pc = "validate"
    BY <1>1, <1>3
  <2>2. \A g \in Handles \ {h} : handle[g].holder # None => handle[g].holder \in Calls
    BY DEF IInv, Types, HandleType
  <2> QED
    BY <1>1, <1>2, <1>4, <2>1, <2>2 DEF IInv, MovedInv, Live
<1>10. GateGuardsModel'
  BY <1>1, <1>3, <1>4 DEF IInv, GateGuardsModel, Keeps, Moves
<1> QED
  BY <1>5, <1>6, <1>7, <1>8, <1>9, <1>10 DEF IInv

(* What a conversion does to the call that makes it: it keeps its lock.    *)
Converts(p, at, k) ==
    /\ call[p].pc \in {"take", "validate", "hand"}
    /\ at \in Carrying \cup {"unlock"}
    /\ k \in Cores \cup {None}
    /\ k # None <=> at \in Carrying
    /\ call' = [call EXCEPT ![p].pc = at, ![p].hand = k]

LEMMA ConvertsIs ==
    ASSUME IInv, NEW p \in Calls, NEW at, NEW k, Converts(p, at, k)
    PROVE  /\ call' \in [Calls -> Records]
           /\ call'[p].pc = at /\ call'[p].hand = k
           /\ \A q \in Calls : /\ call'[q].h = call[q].h
                               /\ call'[q].future = call[q].future
           /\ \A q \in Calls \ {p} : call'[q] = call[q]
           /\ \A q \in Calls : Locked(q)' <=> Locked(q)
           /\ \A q \in Calls, g \in Handles : Refers(q, g)' <=> Refers(q, g)
           /\ \A q \in Calls : Uses(q)' => q # p /\ Uses(q)
<1>1. /\ call' \in [Calls -> Records]
      /\ call'[p].pc = at /\ call'[p].hand = k
      /\ \A q \in Calls : /\ call'[q].h = call[q].h
                          /\ call'[q].future = call[q].future
      /\ \A q \in Calls \ {p} : call'[q] = call[q]
  <2>1. call[p] \in Records /\ at \in Pcs
    BY DEF IInv, Types, Converts, Carrying, Pcs
  <2> DEFINE r == [call[p] EXCEPT !.pc = at, !.hand = k]
  <2>2. /\ r \in Records /\ r.pc = at /\ r.hand = k
        /\ r.h = call[p].h /\ r.future = call[p].future
    BY <2>1 DEF Records, Converts
  <2>3. call' = [call EXCEPT ![p] = r]
    BY DEF IInv, Types, Converts
  <2> HIDE DEF r
  <2> QED
    BY <2>2, <2>3 DEF IInv, Types
<1>2. \A q \in Calls : Locked(q)' <=> Locked(q)
  BY <1>1 DEF Converts, Carrying, Locked
<1>3. \A q \in Calls, g \in Handles : Refers(q, g)' <=> Refers(q, g)
  BY <1>1 DEF Converts, Carrying, Refers
<1>4. \A q \in Calls : Uses(q)' => q # p /\ Uses(q)
  BY <1>1 DEF Converts, Carrying, Uses
<1> QED
  BY <1>1, <1>2, <1>3, <1>4

(* What it does to the handle: a record with another core and moved flag.  *)
Emptied(r, core, moved) == [r EXCEPT !.core = core, !.moved = moved]

Becomes(h, core, moved) == handle' = [handle EXCEPT ![h] = Emptied(handle[h], core, moved)]

(* The fields a conversion leaves agree with where the core now is.        *)
Fits(at, k, core, moved) ==
    /\ IF at = "validate" THEN ~moved /\ core = None ELSE moved <=> core = None
    /\ k # None <=> core = None

LEMMA EmptiedIs ==
    ASSUME NEW r \in HandleType, NEW core \in Cores \cup {None}, NEW moved \in BOOLEAN
    PROVE  /\ Emptied(r, core, moved) \in HandleType
           /\ Emptied(r, core, moved).core = core
           /\ Emptied(r, core, moved).moved = moved
           /\ Emptied(r, core, moved).kind = r.kind
           /\ Emptied(r, core, moved).holder = r.holder
  BY DEF Emptied, HandleType

(* A conversion that changes one handle's core and moved flag, and keeps   *)
(* where the core is known, keeps the invariant.                           *)
LEMMA ConversionKeeps ==
    ASSUME IInv, NEW p \in Calls, NEW at, NEW k, Converts(p, at, k),
           UNCHANGED lease, cancel' \in [Cores -> BOOLEAN],
           NEW h \in Handles, NEW core \in Cores \cup {None}, NEW moved \in BOOLEAN,
           call[p].h = h,
           Becomes(h, core, moved), Fits(at, k, core, moved),
           handle[h].core # None \/ call[p].hand # None
    PROVE  IInv'
<1>1. /\ handle' \in [Handles -> HandleType]
      /\ handle'[h].core = core /\ handle'[h].moved = moved
      /\ \A g \in Handles : /\ handle'[g].kind = handle[g].kind
                            /\ handle'[g].holder = handle[g].holder
      /\ \A g \in Handles \ {h} : handle'[g] = handle[g]
  <2>1. handle \in [Handles -> HandleType] /\ handle[h] \in HandleType
    BY DEF IInv, Types
  <2> QED
    BY <2>1, EmptiedIs DEF Becomes
<1>2. handle[h].holder = p /\ Live(h)
  BY DEF IInv, LockInv, LiveInv, Converts, Locked, Refers
<1>3. Types'
  BY <1>1, ConvertsIs DEF IInv, Types
<1>4. LockInv'
  BY <1>1, ConvertsIs DEF IInv, LockInv
<1>5. LiveInv'
  <2>1. \A q \in Calls : call'[q].pc \notin {"idle", "acquire", "build", "end"}
                             => call'[q].h \in Handles
    BY ConvertsIs DEF IInv, LiveInv
  <2>2. \A g \in Handles : Live(g)' <=> Live(g)
    BY <1>1 DEF Live
  <2>3. \A g \in Handles : ~Live(g)' => g # h
    BY <1>2, <2>2
  <2> QED
    BY <1>1, <2>1, <2>2, <2>3, ConvertsIs DEF IInv, LiveInv
<1>6. HandInv'
  <2>1. ASSUME NEW q \in Calls, Uses(q)'
        PROVE  q # p /\ Uses(q) /\ call[q].h \in Handles \ {h}
    <3>1. q # p /\ Uses(q) /\ Locked(q)
      BY <2>1, ConvertsIs DEF Uses, Locked
    <3>2. call[q].h \in Handles
      BY <3>1 DEF IInv, LiveInv, Uses
    <3> QED
      BY <1>2, <3>1, <3>2 DEF IInv, LockInv
  <2>2. \A q \in Calls : call'[q].hand # None <=> call'[q].pc \in Carrying
    <3>1. call'[p].hand = k /\ call'[p].pc = at /\ (k # None <=> at \in Carrying)
      <4>1. call'[p].hand = k /\ call'[p].pc = at
        BY ConvertsIs
      <4> QED
        BY <4>1 DEF Converts
    <3>2. \A q \in Calls \ {p} : call'[q].hand # None <=> call'[q].pc \in Carrying
      BY ConvertsIs DEF IInv, HandInv, Carrying
    <3> QED
      BY <3>1, <3>2
  <2> QED
    BY <1>1, <2>1, <2>2, ConvertsIs DEF IInv, HandInv, Carrying
<1>7. MovedInv'
  <2> SUFFICES ASSUME NEW g \in Handles, Live(g)
               PROVE  IF handle'[g].holder # None /\ call'[handle'[g].holder].pc = "validate"
                      THEN ~handle'[g].moved /\ handle'[g].core = None
                      ELSE handle'[g].moved <=> handle'[g].core = None
    BY <1>1 DEF MovedInv, Live
  <2>1. CASE g = h
    BY <1>1, <1>2, <2>1, ConvertsIs, HandlesAssumption DEF Fits
  <2>2. CASE g # h
    <3>1. handle[g].holder # p
      BY <2>2 DEF IInv, LockInv
    <3>2. handle[g].holder # None => handle[g].holder \in Calls
      BY DEF IInv, Types, HandleType
    <3> QED
      BY <1>1, <2>2, <3>1, <3>2, ConvertsIs DEF IInv, MovedInv
  <2> QED
    BY <2>1, <2>2
<1>8. GateGuardsModel'
  <2>1. /\ lease
        /\ \A g \in Handles \ {h} : ~Keeps(g)
        /\ \A q \in Calls \ {p} : ~Moves(q)
    BY DEF IInv, GateGuardsModel, Keeps, Moves
  <2>2. /\ \A g \in Handles \ {h} : ~Keeps(g)'
        /\ \A q \in Calls \ {p} : ~Moves(q)'
    BY <1>1, <2>1, ConvertsIs DEF Keeps, Moves
  <2>3. (Keeps(h)' <=> core # None) /\ (Moves(p)' <=> k # None)
    BY ZenonT(40), <1>1, ConvertsIs DEF Keeps, Moves, Converts, Carrying
  <2> QED
    BY <2>1, <2>2, <2>3 DEF GateGuardsModel, Fits
<1> QED
  BY <1>3, <1>4, <1>5, <1>6, <1>7, <1>8 DEF IInv

LEMMA TakeStep == ASSUME IInv, NEW p \in Calls, Take(p)  PROVE IInv'
<1> DEFINE h == call[p].h
           k == handle[h].core
<1>1. /\ call[p].pc = "take" /\ UNCHANGED <<cancel, lease>>
      /\ call[p].hand = None /\ h \in Handles /\ k # None /\ k \in Cores \cup {None}
  BY DEF IInv, Types, HandleType, LiveInv, HandInv, Uses, Take
<1>2. handle[h].holder = p /\ Live(h)
  BY <1>1 DEF IInv, LockInv, LiveInv, Locked, Refers
<1>3. ~handle[h].moved
  BY <1>1, <1>2 DEF IInv, MovedInv
<1>4. cancel' \in [Cores -> BOOLEAN]
  BY <1>1 DEF IInv, Types
<1>5. handle \in [Handles -> HandleType] /\ handle[h] \in HandleType
  BY <1>1 DEF IInv, Types
<1>6. CASE call[p].op = "into_chat"
  <2>1. handle' = [handle EXCEPT ![h] = [handle[h] EXCEPT !.core = None]]
    BY <1>5, <1>6 DEF Take
  <2>2. Becomes(h, None, FALSE)
    <3> DEFINE r == handle[h]
    <3>1. r \in HandleType /\ r.moved = FALSE
      BY <1>3, <1>5 DEF HandleType
    <3> HIDE DEF r
    <3>2. [r EXCEPT !.core = None] = Emptied(r, None, FALSE)
      BY <3>1 DEF Emptied, HandleType
    <3> QED
      BY <2>1, <3>2 DEF Becomes, r
  <2>3. Converts(p, "validate", k)
    BY <1>1, <1>6 DEF Take, Converts, Carrying
  <2>4. Fits("validate", k, None, FALSE)
    BY <1>1 DEF Fits
  <2> HIDE DEF h, k
  <2>5. call[p].h = h /\ handle[h].core # None
    BY <1>1 DEF h, k
  <2> QED
    BY <1>1, <1>4, <2>2, <2>3, <2>4, <2>5, ConversionKeeps
<1>7. CASE call[p].op # "into_chat"
  <2>1. Becomes(h, None, TRUE)
    BY <1>5, <1>7 DEF Take, Becomes, Emptied
  <2>2. Converts(p, "clear", k)
    BY <1>1, <1>7 DEF Take, Converts, Carrying
  <2>3. Fits("clear", k, None, TRUE)
    BY <1>1 DEF Fits
  <2> HIDE DEF h, k
  <2>4. call[p].h = h /\ handle[h].core # None
    BY <1>1 DEF h, k
  <2> QED
    BY <1>1, <1>4, <2>1, <2>2, <2>3, <2>4, ConversionKeeps
<1> QED
  BY <1>6, <1>7

LEMMA ValidateStep == ASSUME IInv, NEW p \in Calls, Validate(p)  PROVE IInv'
<1> DEFINE h == call[p].h
           k == call[p].hand
<1>1. /\ call[p].pc = "validate" /\ UNCHANGED <<cancel, lease>>
      /\ h \in Handles /\ k # None /\ k \in Cores \cup {None}
  BY DEF IInv, Types, Records, LiveInv, HandInv, Validate
<1>2. handle[h].holder = p /\ Live(h)
  BY <1>1 DEF IInv, LockInv, LiveInv, Locked, Refers
<1>3. ~handle[h].moved /\ handle[h].core = None
  BY <1>1, <1>2, HandlesAssumption DEF IInv, MovedInv
<1>4. cancel' \in [Cores -> BOOLEAN]
  BY <1>1 DEF IInv, Types
<1>5. handle \in [Handles -> HandleType] /\ handle[h] \in HandleType
  BY <1>1 DEF IInv, Types
<1>6. CASE handle' = [handle EXCEPT ![h].moved = TRUE] /\ call' = Goto(p, "hand")
  <2>1. handle' = [handle EXCEPT ![h] = [handle[h] EXCEPT !.moved = TRUE]]
    BY <1>5, <1>6
  <2>2. Becomes(h, None, TRUE)
    <3> DEFINE r == handle[h]
    <3>1. r \in HandleType /\ r.moved = FALSE
      BY <1>3, <1>5 DEF HandleType
    <3>2. r.core = None
      BY <1>3
    <3> HIDE DEF r
    <3>3. [r EXCEPT !.moved = TRUE] = Emptied(r, None, TRUE)
      BY <3>1, <3>2 DEF Emptied, HandleType
    <3> QED
      BY <2>1, <3>3 DEF Becomes, r
  <2>3. Converts(p, "hand", k)
    BY <1>1, <1>6 DEF IInv, Types, Records, Goto, Converts, Carrying
  <2>4. Fits("hand", k, None, TRUE)
    BY <1>1 DEF Fits
  <2> HIDE DEF h, k
  <2>5. call[p].h = h /\ call[p].hand # None
    BY <1>1 DEF h, k
  <2> QED
    BY <1>1, <1>4, <2>2, <2>3, <2>4, <2>5, ConversionKeeps
<1>7. CASE /\ handle' = [handle EXCEPT ![h].core = k]
           /\ call' = [call EXCEPT ![p].pc = "unlock", ![p].hand = None]
  <2>1. handle' = [handle EXCEPT ![h] = [handle[h] EXCEPT !.core = k]]
    BY <1>5, <1>7
  <2>2. Becomes(h, k, FALSE)
    <3> DEFINE r == handle[h]
    <3>1. r \in HandleType /\ r.moved = FALSE
      BY <1>3, <1>5 DEF HandleType
    <3> HIDE DEF r
    <3>2. [r EXCEPT !.core = k] = Emptied(r, k, FALSE)
      BY <3>1 DEF Emptied, HandleType
    <3> QED
      BY <2>1, <3>2 DEF Becomes, r
  <2>3. Converts(p, "unlock", None)
    BY <1>1, <1>7 DEF Converts, Carrying
  <2>4. Fits("unlock", None, k, FALSE)
    BY <1>1 DEF Fits
  <2> HIDE DEF h, k
  <2>5. call[p].h = h /\ call[p].hand # None
    BY <1>1 DEF h, k
  <2> QED
    BY <1>1, <1>4, <2>2, <2>3, <2>4, <2>5, ConversionKeeps
<1> QED
  BY <1>6, <1>7 DEF Validate

LEMMA HandStep == ASSUME IInv, NEW p \in Calls, Hand(p)  PROVE IInv'
<1> DEFINE k == call[p].hand
           kind == IF call[p].op = "into_chat" THEN "chat" ELSE "session"
<1>1. PICK n \in FreeHandles :
          handle' = [handle EXCEPT ![n] =
              [NoHandle EXCEPT !.kind = kind, !.core = k, !.flag = k, !.held = TRUE]]
  BY DEF Hand
<1>2. /\ call[p].pc = "hand" /\ UNCHANGED <<cancel, lease>>
      /\ k # None /\ k \in Cores \cup {None}
      /\ n \in Handles /\ ~Live(n) /\ kind \in {"chat", "session"}
  BY DEF IInv, Types, Records, HandInv, FreeHandles, Hand
<1>3. Converts(p, "unlock", None)
  BY <1>2 DEF Hand, Converts, Carrying
<1> DEFINE r == [NoHandle EXCEPT !.kind = kind, !.core = k, !.flag = k, !.held = TRUE]
<1> HIDE DEF kind
<1>4. /\ r \in HandleType /\ r.kind = kind /\ r.core = k
      /\ r.moved = FALSE /\ r.holder = None
  BY <1>2 DEF NoHandle, HandleType
<1>5. handle' = [handle EXCEPT ![n] = r]
  BY <1>1
<1> HIDE DEF r
<1>6. /\ handle' \in [Handles -> HandleType] /\ handle'[n] = r
      /\ \A h \in Handles \ {n} : handle'[h] = handle[h]
  BY <1>2, <1>4, <1>5 DEF IInv, Types
<1>7. handle[n].holder = None
  BY <1>2 DEF IInv, LiveInv, NoHandle
<1>8. \A q \in Calls : ~Refers(q, n)
  BY <1>2 DEF IInv, LiveInv
<1>9. \A q \in Calls : Locked(q) => call[q].h # n
  BY <1>8 DEF Refers, Locked
<1> HIDE DEF k
<1>10. Types'
  BY <1>2, <1>3, <1>6, ConvertsIs DEF IInv, Types
<1>11. LockInv'
  BY <1>3, <1>4, <1>6, <1>7, <1>9, ConvertsIs, HandlesAssumption DEF IInv, LockInv
<1>12. LiveInv'
  <2>1. \A q \in Calls : call'[q].pc \notin {"idle", "acquire", "build", "end"}
                             => call'[q].h \in Handles
    BY <1>2, <1>3, ConvertsIs DEF IInv, LiveInv
  <2>2. Live(n)'
    BY <1>2, <1>4, <1>6 DEF Live
  <2> QED
    BY <1>3, <1>6, <1>8, <2>1, <2>2, ConvertsIs DEF IInv, LiveInv, Live
<1>13. HandInv'
  <2>1. ASSUME NEW q \in Calls, Uses(q)'
        PROVE  q # p /\ Uses(q) /\ call[q].h \in Handles \ {n}
    <3>1. q # p /\ Uses(q)
      BY <1>3, <2>1, ConvertsIs
    <3> QED
      BY <1>9, <3>1 DEF IInv, LiveInv, Uses, Locked
  <2>2. call'[p].hand = None /\ call'[p].pc = "unlock"
    BY <1>3, ConvertsIs
  <2>3. \A q \in Calls \ {p} : call'[q] = call[q]
    BY <1>3, ConvertsIs
  <2> QED
    BY <1>6, <2>1, <2>2, <2>3 DEF IInv, HandInv
<1>14. MovedInv'
  <2>1. \A q \in Calls : call'[q].pc = "validate" <=> call[q].pc = "validate"
    BY <1>2, <1>3, ConvertsIs
  <2>2. \A g \in Handles \ {n} : handle[g].holder # None => handle[g].holder \in Calls
    BY DEF IInv, Types, HandleType
  <2> QED
    BY <1>2, <1>4, <1>6, <2>1, <2>2 DEF IInv, MovedInv, Live
<1>15. GateGuardsModel'
  <2>1. /\ lease
        /\ \A g \in Handles : ~Keeps(g)
        /\ \A q \in Calls \ {p} : ~Moves(q)
    BY <1>2 DEF IInv, GateGuardsModel, Keeps, Moves, k
  <2>2. \A q \in Calls : ~Moves(q)'
    BY <1>3, <2>1, ConvertsIs DEF Moves
  <2>3. \A g \in Handles : Keeps(g)' <=> g = n
    BY <1>2, <1>4, <1>6, <2>1 DEF Keeps
  <2> QED
    BY <1>2, <2>1, <2>2, <2>3 DEF GateGuardsModel
<1> QED
  BY <1>10, <1>11, <1>12, <1>13, <1>14, <1>15 DEF IInv

----------------------------------------------------------------------------
LEMMA NextStep == IInv /\ [Next]_vars => IInv'
<1> SUFFICES ASSUME IInv, [Next]_vars
             PROVE  IInv'
  OBVIOUS
<1>1. CASE Host
  BY <1>1, BeginOpenStep, BeginStep, ResolveStep, DropFutureStep, ReleaseStep DEF Host
<1>2. ASSUME NEW p \in Calls, Work(p)
      PROVE  IInv'
  <2>1. CASE \/ Acquire(p) \/ Build(p) \/ Start(p) \/ Lock(p) \/ Unready(p)
             \/ Enter(p) \/ Loop(p) \/ Forward(p) \/ Exit(p) \/ Unlock(p)
    BY <2>1, AcquireStep, BuildStep, StartStep, LockStep, UnreadyStep, EnterStep,
       LoopStep, ForwardStep, ExitStep, UnlockStep
  <2>2. CASE \/ OnDone(p) \/ Reset(p) \/ Take(p) \/ Validate(p) \/ ReclaimClear(p)
             \/ Hand(p) \/ Check(p) \/ StoreCancel(p) \/ StoreClear(p) \/ Forget(p)
    BY <2>2, OnDoneStep, ResetStep, TakeStep, ValidateStep, ReclaimClearStep,
       HandStep, CheckStep, StoreCancelStep, StoreClearStep, ForgetStep
  <2> QED
    BY <1>2, <2>1, <2>2 DEF Work
<1>3. ASSUME NEW p \in Calls, Guard(p)
      PROVE  IInv'
  BY <1>3, GuardCheckStep, GuardStoreStep DEF Guard
<1>4. ASSUME NEW h \in Handles, DropHandle(h)
      PROVE  IInv'
  BY <1>4, DropHandleStep
<1>5. CASE UNCHANGED vars
  <2>1. UNCHANGED <<handle, call, cancel, lease>>
    BY <1>5 DEF vars
  <2> QED
    BY <2>1 DEF IInv, Types, LockInv, LiveInv, HandInv, MovedInv, GateGuardsModel,
       Locked, Uses, Refers, Live, Keeps, Moves
<1> QED
  BY <1>1, <1>2, <1>3, <1>4, <1>5 DEF Next

LEMMA Invariance == Spec => []IInv
  BY InitInv, NextStep, PTL DEF Spec

(* The gate of the model is taken exactly while a session over it exists   *)
(* or is being built, and there is never more than one: a conversion, a    *)
(* panic, an aborted task or a dropped future neither leaks the lease nor  *)
(* gives it back early (try_acquire, from_session, into_session).          *)
THEOREM HandlesGate == Spec => []GateGuardsModel
<1>1. IInv => GateGuardsModel
  BY DEF IInv
<1> QED
  BY <1>1, Invariance, PTL

(* A handle that is not locked is empty exactly when it says it was moved: *)
(* a conversion that is refused leaves it usable (lock_inner, cancel).     *)
THEOREM HandlesMoved == Spec => []MovedIsEmpty
<1>1. IInv => MovedIsEmpty
  BY DEF IInv, MovedInv, MovedIsEmpty
<1> QED
  BY <1>1, Invariance, PTL

(* Whoever holds a mutex of a handle is not waiting for one, so a callback *)
(* that re-enters the session finds it released (generate_streaming).      *)
THEOREM HandlesNoWait == Spec => []HolderNeverWaits
<1>1. IInv => HolderNeverWaits
  <2> SUFFICES ASSUME IInv, NEW h \in Handles, handle[h].holder # None
               PROVE  call[handle[h].holder].pc # "lock"
    BY DEF HolderNeverWaits
  <2>1. handle[h].holder \in Calls
    BY DEF IInv, Types, HandleType
  <2>2. Locked(handle[h].holder)
    BY <2>1 DEF IInv, LockInv
  <2> QED
    BY <2>2 DEF Locked
<1> QED
  BY <1>1, Invariance, PTL

----------------------------------------------------------------------------
(* What a call has told its sink, and made after it was told to stop.      *)

(* A sink hears of the end once, after the mutex is released, and may then *)
(* go on to a call of its own, which has nothing to tell.                  *)
SinkOk(c) ==
    c.sink =>
        /\ c.op \in {"stream", "reset"}
        /\ c.op = "reset" => c.done = 1 /\ c.pc \in {"lock", "reset", "unlock", "end"}
        /\ c.op = "stream" => c.pc \in {"queued", "aborted", "lock", "enter", "loop", "forward",
                                        "exit", "unlock", "done", "end"}
        /\ c.op = "stream" /\ c.pc # "end" => c.done = 0
        /\ c.op = "stream" /\ c.pc = "end" => c.finish \in {"none", "Panic"} \/ c.done = 1
        /\ c.finish \in {"Cancelled", "Length"} => c.noted
        /\ c.pc = "done" => c.finish \notin {"none", "Panic"}
        /\ c.pc \in {"exit", "unlock"} /\ c.op = "stream" => c.finish # "none"
        /\ c.pc \in {"queued", "aborted"} => c.finish = "none"

(* A decode that was told makes at most the token it was at.               *)
InDecode(c) == c.pc \in {"enter", "loop", "forward"}

DecodeOk(c) ==
    /\ InDecode(c) => c.op \in Generations
    /\ c.op \in Generations /\ c.pc \in {"queued", "aborted", "lock"} => ~c.told /\ c.extra = 0
    /\ c.extra <= 1
    /\ InDecode(c) /\ ~c.told => c.extra = 0
    /\ c.pc \in {"enter", "forward"} => c.extra = 0

CallOk(c) == SinkOk(c) /\ DecodeOk(c)
CallsOk == \A p \in Calls : CallOk(call[p])

(* A decode that was told finds the flag set at its next look.             *)
ToldInv ==
    \A p \in Calls : InDecode(call[p]) /\ call[p].told => cancel[handle[call[p].h].core]

(* A flag that is set answers a cancel that stopped nothing yet, or is     *)
(* about to be cleared by the call it stopped.                             *)
OwedInv ==
    /\ owed \in [Cores -> BOOLEAN]
    /\ \A k \in Cores :
          cancel[k] => \/ owed[k]
                       \/ \E p \in Calls : call[p].pc = "exit" /\ handle[call[p].h].core = k

(* A record that moves within its op, and a telling.                       *)
LEMMA TellOk ==
    ASSUME NEW c \in Records, CallOk(c), NEW b \in BOOLEAN, InDecode(c)
    PROVE  CallOk([c EXCEPT !.told = b, !.extra = IF b THEN @ ELSE 0])
  BY DEF CallOk, SinkOk, DecodeOk, InDecode, Records

LEMMA TellsOk ==
    ASSUME IInv, NEW C \in [Calls -> Records], \A q \in Calls : CallOk(C[q]),
           \A q \in Calls : InDecode(call[q]) => InDecode(C[q]),
           NEW k, NEW b \in BOOLEAN
    PROVE  \A q \in Calls : CallOk(Tell(C, k, b)[q])
  <1> SUFFICES ASSUME NEW q \in Calls PROVE CallOk(Tell(C, k, b)[q])
    OBVIOUS
  <1>1. C[q] \in Records
    OBVIOUS
  <1>2. CASE Decoding(q, k)
    <2>1. Tell(C, k, b)[q] = [C[q] EXCEPT !.told = b, !.extra = IF b THEN @ ELSE 0]
      BY <1>2 DEF Tell
    <2>2. InDecode(C[q])
      BY <1>2 DEF Decoding, InDecode
    <2> QED BY <1>1, <2>1, <2>2, TellOk
  <1>3. CASE ~Decoding(q, k)
    BY <1>3 DEF Tell
  <1> QED BY <1>2, <1>3

LEMMA CallsStep ==
    ASSUME IInv, CallsOk, ToldInv, Next
    PROVE  CallsOk'
  <1>1. \A q \in Calls : call[q] \in Records /\ CallOk(call[q])
    BY DEF IInv, Types, CallsOk
  <1>2. call \in [Calls -> Records]
    BY DEF IInv, Types
  (* A step of one call.                                                   *)
  <1>3. ASSUME NEW p \in Calls, \A q \in Calls \ {p} : call'[q] = call[q], CallOk(call'[p])
        PROVE  CallsOk'
    BY <1>1, <1>3 DEF CallsOk
  <1> USE DEF Goto
  <1>4. ASSUME NEW p \in Calls, BeginOpen(p) PROVE CallsOk'
    <2>1. call'[p] = [NoCall EXCEPT !.pc = "acquire", !.op = "open"]
      BY <1>2, <1>4 DEF BeginOpen
    <2>2. CallOk(call'[p])
      BY <2>1 DEF CallOk, SinkOk, DecodeOk, InDecode, NoCall, Generations
    <2> QED BY <1>2, <1>3, <1>4, <2>2 DEF BeginOpen
  <1>5. ASSUME NEW p \in Calls, Acquire(p) \/ Build(p) \/ Forget(p) PROVE CallsOk'
    <2>1. call'[p] = NoCall \/ (call'[p] = [call[p] EXCEPT !.pc = "build"] /\ call[p].pc = "acquire")
      BY <1>2, <1>5 DEF Acquire, Build, Forget
    <2>2. CallOk(NoCall)
      BY DEF CallOk, SinkOk, DecodeOk, InDecode, NoCall, Generations
    <2>3. call[p].pc = "acquire" => CallOk([call[p] EXCEPT !.pc = "build"])
      BY <1>1 DEF CallOk, SinkOk, DecodeOk, InDecode, Records
    <2> QED BY <1>2, <1>3, <1>5, <2>1, <2>2, <2>3 DEF Acquire, Build, Forget
  <1>6. ASSUME NEW p \in Calls, NEW op \in Ops \ {"open"}, NEW h \in Handles, NEW async \in BOOLEAN,
               Begin(p, op, h, async)
        PROVE  CallsOk'
    <2> DEFINE c == [NoCall EXCEPT !.op = op, !.h = h, !.sink = (op = "stream"),
                          !.future = IF async THEN "awaiting" ELSE "none",
                          !.pc = CASE async -> "queued"
                                   [] op \in {"cancel", "clear"} -> "check"
                                   [] OTHER -> "lock"]
    <2>1. call'[p] = c /\ \A q \in Calls \ {p} : call'[q] = call[q]
      BY <1>2, <1>6 DEF Begin
    <2>2. async => op \in Generations
      BY <1>6 DEF Begin
    <2>3. c.pc \in {"queued", "check", "lock"} /\ (op = "stream" => c.pc # "check")
          /\ c.op = op /\ (c.sink => op = "stream") /\ c.done = 0 /\ c.finish = "none"
          /\ c.noted = FALSE /\ c.told = FALSE /\ c.extra = 0
      BY DEF NoCall
    <2> HIDE DEF c
    <2>4. CallOk(c)
      BY <2>3 DEF CallOk, SinkOk, DecodeOk, InDecode
    <2> QED BY <1>3, <2>1, <2>4
  <1>7. ASSUME NEW p \in Calls, Start(p) \/ Unready(p) PROVE CallsOk'
    <2>1. CallOk(call'[p])
      BY <1>1, <1>2, <1>7 DEF Start, Unready, CallOk, SinkOk, DecodeOk, InDecode, Records
    <2> QED BY <1>2, <1>3, <1>7, <2>1 DEF Start, Unready
  <1>8. ASSUME NEW p \in Calls, Lock(p) PROVE CallsOk'
    <2>1. CASE Refused(p)
      <3>1. CallOk(call'[p])
        BY <1>1, <1>2, <1>8, <2>1 DEF Lock, Refused, CallOk, SinkOk, DecodeOk, InDecode, Records
      <3> QED BY <1>2, <1>3, <2>1, <3>1 DEF Refused
    <2>2. CASE Admitted(p)
      <3>1. CallOk(call'[p])
        BY <1>1, <1>2, <1>8, <2>2
           DEF Lock, Admitted, CallOk, SinkOk, DecodeOk, InDecode, Records, Generations, Conversions
      <3> QED BY <1>2, <1>3, <2>2, <3>1 DEF Admitted
    <2> QED BY <1>8, <2>1, <2>2 DEF Lock
  <1>9. ASSUME NEW p \in Calls, Enter(p) PROVE CallsOk'
    <2>1. CallOk(call'[p])
      BY <1>1, <1>2, <1>9 DEF Enter, Finish, CallOk, SinkOk, DecodeOk, InDecode, Records
    <2> QED BY <1>2, <1>3, <1>9, <2>1 DEF Enter, Finish
  <1>10. ASSUME NEW p \in Calls, Loop(p) PROVE CallsOk'
    <2>1. call[p].told => cancel[handle[call[p].h].core]
      BY <1>10 DEF Loop, ToldInv, InDecode
    <2>2. CallOk(call'[p])
      BY <1>1, <1>2, <1>10, <2>1 DEF Loop, Finish, CallOk, SinkOk, DecodeOk, InDecode, Records
    <2> QED BY <1>2, <1>3, <1>10, <2>2 DEF Loop, Finish
  <1>11. ASSUME NEW p \in Calls, Forward(p) PROVE CallsOk'
    <2>1. CallOk(call'[p])
      BY <1>1, <1>2, <1>11 DEF Forward, Finish, CallOk, SinkOk, DecodeOk, InDecode, Records
    <2> QED BY <1>2, <1>3, <1>11, <2>1 DEF Forward, Finish
  <1>12. ASSUME NEW p \in Calls, Exit(p) \/ Reset(p) \/ ReclaimClear(p) \/ Check(p) PROVE CallsOk'
    <2>1. CallOk(call'[p])
      BY <1>1, <1>2, <1>12
         DEF Exit, Reset, ReclaimClear, Check, CallOk, SinkOk, DecodeOk, InDecode, Records
    <2> QED BY <1>2, <1>3, <1>12, <2>1 DEF Exit, Reset, ReclaimClear, Check
  <1>13. ASSUME NEW p \in Calls, Unlock(p) PROVE CallsOk'
    <2>1. CallOk(call'[p])
      BY <1>1, <1>2, <1>13 DEF Unlock, CallOk, SinkOk, DecodeOk, InDecode, Records
    <2> QED BY <1>2, <1>3, <1>13, <2>1 DEF Unlock
  <1>14. ASSUME NEW p \in Calls, OnDone(p) PROVE CallsOk'
    <2>1. CallOk(call'[p])
      BY <1>1, <1>2, <1>14
         DEF OnDone, CallOk, SinkOk, DecodeOk, InDecode, Records, Generations, Finishes
    <2> QED BY <1>2, <1>3, <1>14, <2>1 DEF OnDone
  <1>15. ASSUME NEW p \in Calls, Take(p) \/ Validate(p) \/ Hand(p) PROVE CallsOk'
    <2>1. CallOk(call'[p])
      BY <1>1, <1>2, <1>15 DEF Take, Validate, Hand, CallOk, SinkOk, DecodeOk, InDecode, Records
    <2> QED BY <1>2, <1>3, <1>15, <2>1 DEF Take, Validate, Hand
  <1>16. ASSUME NEW p \in Calls, Resolve(p) \/ DropFuture(p) \/ GuardCheck(p) PROVE CallsOk'
    <2>1. CallOk(call'[p])
      BY <1>1, <1>2, <1>16
         DEF Resolve, DropFuture, GuardCheck, CallOk, SinkOk, DecodeOk, InDecode, Records
    <2> QED BY <1>2, <1>3, <1>16, <2>1 DEF Resolve, DropFuture, GuardCheck
  <1>17. ASSUME NEW p \in Calls, StoreCancel(p) \/ StoreClear(p) PROVE CallsOk'
    <2> DEFINE C == Goto(p, "end")
    <2>1. call[p].pc = "store" /\ \E b \in BOOLEAN : call' = Tell(C, handle[call[p].h].flag, b)
      BY <1>17 DEF StoreCancel, StoreClear
    <2>2. C \in [Calls -> Records] /\ \A q \in Calls \ {p} : C[q] = call[q]
      BY <1>2 DEF Records, Pcs
    <2>3. CallOk(C[p])
      BY <1>1, <1>2, <2>1 DEF CallOk, SinkOk, DecodeOk, InDecode, Records
    <2>4. \A q \in Calls : InDecode(call[q]) => InDecode(C[q])
      BY <2>1, <2>2 DEF InDecode
    <2> HIDE DEF C
    <2>5. \A q \in Calls : CallOk(C[q])
      BY <1>1, <2>2, <2>3
    <2> QED BY <2>1, <2>2, <2>4, <2>5, TellsOk DEF CallsOk
  <1>18. ASSUME NEW p \in Calls, GuardStore(p) PROVE CallsOk'
    <2> DEFINE C == [call EXCEPT ![p].future = "gone"]
    <2>1. call' = Tell(C, handle[call[p].h].flag, TRUE)
      BY <1>18 DEF GuardStore
    <2>2. C \in [Calls -> Records] /\ \A q \in Calls \ {p} : C[q] = call[q]
      BY <1>2 DEF Records, Futures
    <2>3. CallOk(C[p]) /\ C[p].pc = call[p].pc
      BY <1>1, <1>2 DEF CallOk, SinkOk, DecodeOk, InDecode, Records
    <2>4. \A q \in Calls : InDecode(call[q]) => InDecode(C[q])
      BY <2>2, <2>3 DEF InDecode
    <2> HIDE DEF C
    <2>5. \A q \in Calls : CallOk(C[q])
      BY <1>1, <2>2, <2>3
    <2> QED BY <2>1, <2>2, <2>4, <2>5, TellsOk DEF CallsOk
  <1>19. ASSUME NEW h \in Handles, Release(h) \/ DropHandle(h) PROVE CallsOk'
    BY <1>1, <1>19 DEF Release, DropHandle, CallsOk
  <1> QED BY <1>4, <1>5, <1>6, <1>7, <1>8, <1>9, <1>10, <1>11, <1>12, <1>13, <1>14, <1>15, <1>16,
             <1>17, <1>18, <1>19 DEF Next, Host, Work, Guard

(* A call in its decode keeps the core it works on.                        *)
CoreKept == \A p \in Calls : Uses(p) /\ Uses(p)' =>
    /\ call'[p].h = call[p].h
    /\ handle'[call[p].h].core = handle[call[p].h].core

LEMMA CoresKept ==
    ASSUME IInv, Next
    PROVE  CoreKept
  <1>1. /\ handle \in [Handles -> HandleType] /\ call \in [Calls -> Records]
        /\ \A p \in Calls : call[p] \in Records
    BY DEF IInv, Types
  <1>2. \A p \in Calls : Uses(p) => /\ call[p].h \in Handles /\ handle[call[p].h].holder = p
                                    /\ Live(call[p].h) /\ Referenced(call[p].h)
    <2> SUFFICES ASSUME NEW p \in Calls, Uses(p)
                 PROVE  /\ call[p].h \in Handles /\ handle[call[p].h].holder = p
                        /\ Live(call[p].h) /\ Referenced(call[p].h)
      OBVIOUS
    <2>1. call[p].h \in Handles /\ Locked(p)
      BY DEF Uses, Locked, IInv, LiveInv
    <2>2. Refers(p, call[p].h)
      BY DEF Uses, Refers
    <2> QED BY <2>1, <2>2 DEF IInv, LockInv, LiveInv, Referenced
  (* No step of another call, or of the host, touches the handle or the call. *)
  <1>3. ASSUME NEW q \in Calls, Take(q) \/ Validate(q) \/ Unlock(q)
        PROVE  CoreKept
    <2>1. /\ \A p \in Calls \ {q} : call'[p] = call[p]
          /\ call[q].h \in Handles /\ handle[call[q].h].holder = q
          /\ \A h \in Handles \ {call[q].h} : handle'[h] = handle[h]
          /\ ~Uses(q)'
      <3>1. call[q].h \in Handles /\ Locked(q)
        BY <1>3 DEF Take, Validate, Unlock, Locked, IInv, LiveInv
      <3> QED BY <1>1, <1>3, <3>1
              DEF Take, Validate, Unlock, Goto, Uses, IInv, LockInv, Records
    <2>2. \A p \in Calls : Uses(p) /\ Uses(p)' => p # q /\ call[p].h # call[q].h
      BY <1>2, <2>1
    <2> QED BY <1>2, <2>1, <2>2 DEF CoreKept
  <1>4. ASSUME NEW q \in Calls, ~Uses(q), \A p \in Calls \ {q} : call'[p] = call[p],
               \A h \in Handles : Live(h) => handle'[h].core = handle[h].core
        PROVE  CoreKept
    BY <1>2, <1>4 DEF CoreKept
  <1>9. ASSUME NEW q \in Calls, Lock(q) PROVE CoreKept
    <2>1. ~Uses(q) /\ \A p \in Calls \ {q} : call'[p] = call[p]
      BY <1>1, <1>9 DEF Lock, Refused, Admitted, Goto, Uses
    <2>2. \A h \in Handles : handle'[h].core = handle[h].core
      BY <1>1, <1>9 DEF Lock, Refused, Admitted, HandleType
    <2> QED BY <1>4, <2>1, <2>2
  <1>10. ASSUME NEW q \in Calls, Hand(q) \/ Build(q) PROVE CoreKept
    <2>1. ~Uses(q) /\ \A p \in Calls \ {q} : call'[p] = call[p]
      BY <1>1, <1>10 DEF Hand, Build, Uses
    <2>2. handle' = handle \/ \E n \in FreeHandles : \A h \in Handles \ {n} : handle'[h] = handle[h]
      BY <1>1, <1>10 DEF Hand, Build, FreeHandles
    <2>3. \A h \in Handles : Live(h) => handle'[h].core = handle[h].core
      BY <2>2 DEF FreeHandles
    <2> QED BY <1>4, <2>1, <2>3
  <1>11. ASSUME NEW q \in Calls,
                BeginOpen(q) \/ Acquire(q) \/ Start(q) \/ OnDone(q) \/ Check(q) \/ Forget(q)
         PROVE  CoreKept
    <2>1. call[q].pc \in {"idle", "acquire", "queued", "aborted", "done", "check", "end"}
      <3>1. BeginOpen(q) => call[q].pc = "idle"
        BY DEF BeginOpen, NoCall
      <3>2. ~BeginOpen(q) => call[q].pc \in {"acquire", "queued", "aborted", "done", "check", "end"}
        BY <1>11 DEF Acquire, Start, OnDone, Check, Forget
      <3> QED BY <3>1, <3>2
    <2>2. handle' = handle /\ \A p \in Calls \ {q} : call'[p] = call[p]
      BY <1>1, <1>11 DEF BeginOpen, Acquire, Start, OnDone, Check, Forget, Goto
    <2>3. ~Uses(q)
      BY <2>1 DEF Uses
    <2> QED BY <1>4, <2>2, <2>3
  <1>5. ASSUME NEW q \in Calls,
               \/ Unready(q) \/ Enter(q) \/ Loop(q) \/ Forward(q) \/ Exit(q) \/ Reset(q)
               \/ ReclaimClear(q) \/ Resolve(q) \/ DropFuture(q) \/ GuardCheck(q)
        PROVE  CoreKept
    <2>1. handle' = handle /\ \A p \in Calls : call'[p].h = call[p].h
      BY <1>1, <1>5 DEF Unready, Enter, Loop, Forward, Exit, Reset, ReclaimClear, Resolve, DropFuture,
         GuardCheck, Goto, Finish, Records
    <2> QED BY <2>1 DEF CoreKept
  <1>6. ASSUME NEW q \in Calls, NEW op \in Ops \ {"open"}, NEW h \in Handles, NEW async \in BOOLEAN,
               Begin(q, op, h, async)
        PROVE  CoreKept
    <2>1. ~Uses(q) /\ handle' = handle /\ \A p \in Calls \ {q} : call'[p] = call[p]
      BY <1>1, <1>6 DEF Begin, Uses, NoCall
    <2> QED BY <2>1 DEF CoreKept
  <1>7. ASSUME NEW q \in Calls, StoreCancel(q) \/ StoreClear(q) \/ GuardStore(q)
        PROVE  CoreKept
    <2> DEFINE C == Goto(q, "end")
               D == [call EXCEPT ![q].future = "gone"]
               k == handle[call[q].h].flag
    <2>1. C \in [Calls -> Records] /\ D \in [Calls -> Records]
      BY <1>1 DEF Goto, Records, Pcs, Futures
    <2>2. \A p \in Calls : C[p].h = call[p].h /\ D[p].h = call[p].h
      BY <1>1 DEF Goto, Records
    <2>3. handle' = handle /\ \E b \in BOOLEAN : call' = Tell(C, k, b) \/ call' = Tell(D, k, b)
      BY <1>7 DEF StoreCancel, StoreClear, GuardStore
    <2> HIDE DEF C, D, k
    <2>4. \A p \in Calls : call'[p].h = call[p].h
      BY <2>1, <2>2, <2>3, TellMovesNobody
    <2> QED BY <2>3, <2>4 DEF CoreKept
  <1>8. ASSUME NEW h \in Handles, Release(h) \/ DropHandle(h)
        PROVE  CoreKept
    <2>1. call' = call /\ \A g \in Handles : Referenced(g) => handle'[g].core = handle[g].core
      BY <1>1, <1>8 DEF Release, DropHandle, HandleType
    <2> QED BY <1>2, <2>1 DEF CoreKept
  <1> QED BY <1>3, <1>5, <1>6, <1>7, <1>8, <1>9, <1>10, <1>11 DEF Next, Host, Work, Guard

(* Two calls never work on one core, and none works on one that is carried. *)
LEMMA OneUser ==
    ASSUME IInv, NEW p \in Calls, NEW q \in Calls, Uses(p)
    PROVE  /\ call[p].h \in Handles /\ handle[call[p].h].core \in Cores
           /\ Uses(q) /\ handle[call[q].h].core = handle[call[p].h].core => p = q
           /\ ~Moves(q)
  <1>1. /\ handle \in [Handles -> HandleType]
        /\ \A r \in Calls : Uses(r) => /\ call[r].h \in Handles
                                       /\ handle[call[r].h].core # None
                                       /\ handle[call[r].h].holder = r
    BY DEF IInv, Types, LiveInv, HandInv, LockInv, Uses, Locked
  <1>2. \A h \in Handles : handle[h].core \in Cores \cup {None}
    BY <1>1 DEF HandleType
  <1> QED BY <1>1, <1>2 DEF IInv, GateGuardsModel, Keeps

(* A call that decodes, told to stop, was at it a step before, and was     *)
(* told then or is told by a cancel that this step stores.                 *)
LEMMA ToldMoves ==
    ASSUME IInv, CallsOk, Next, NEW p \in Calls, InDecode(call'[p]), call'[p].told
    PROVE  /\ InDecode(call[p])
           /\ call[p].told \/ cancel'[handle[call[p].h].core]
  <1>1. /\ call \in [Calls -> Records] /\ cancel \in [Cores -> BOOLEAN]
        /\ \A q \in Calls : call[q] \in Records /\ DecodeOk(call[q])
    BY DEF IInv, Types, CallsOk, CallOk
  <1> DEFINE Goal == /\ InDecode(call[p])
                     /\ call[p].told \/ cancel'[handle[call[p].h].core]
  <1>2. ASSUME call'[p] = call[p] PROVE Goal
    BY <1>2
  <1> USE DEF Goto
  <1>3. ASSUME NEW q \in Calls,
               \/ BeginOpen(q) \/ Acquire(q) \/ Build(q) \/ Start(q) \/ Unready(q) \/ Forget(q)
        PROVE  Goal
    <2>1. call'[q].pc \in {"idle", "acquire", "build", "lock", "end", "unlock"}
      <3>1. BeginOpen(q) \/ Start(q) \/ Unready(q) => call'[q].pc \in {"acquire", "lock", "end", "unlock"}
        BY <1>1 DEF BeginOpen, Start, Unready, Records
      <3>2. Acquire(q) \/ Build(q) \/ Forget(q) => call'[q].pc \in {"idle", "build"}
        <4>1. Acquire(q) \/ Build(q) \/ Forget(q) =>
                  call'[q] = NoCall \/ call'[q] = [call[q] EXCEPT !.pc = "build"]
          BY <1>1 DEF Acquire, Build, Forget
        <4>2. NoCall.pc = "idle" /\ [call[q] EXCEPT !.pc = "build"].pc = "build"
          BY <1>1 DEF NoCall, Records
        <4> QED BY <4>1, <4>2
      <3> QED BY <1>3, <3>1, <3>2
    <2>2. \A r \in Calls \ {q} : call'[r] = call[r]
      BY <1>1, <1>3 DEF BeginOpen, Acquire, Build, Start, Unready, Forget
    <2> QED BY <1>2, <2>1, <2>2 DEF InDecode
  <1>4. ASSUME NEW q \in Calls, Lock(q) PROVE Goal
    <2>1. \A r \in Calls \ {q} : call'[r] = call[r]
      BY <1>1, <1>4 DEF Lock, Refused, Admitted
    <2>2. p = q => call'[q].told = call[q].told /\ call[q].pc = "lock"
                   /\ call[q].op \in Generations
      BY <1>1, <1>4 DEF Lock, Refused, Admitted, InDecode, Records
    <2>3. p = q => ~call[q].told
      BY <1>1, <2>2 DEF DecodeOk
    <2> QED BY <1>2, <2>1, <2>2, <2>3
  <1>5. ASSUME NEW q \in Calls, Enter(q) \/ Loop(q) \/ Forward(q) PROVE Goal
    <2>1. \A r \in Calls \ {q} : call'[r] = call[r]
      BY <1>1, <1>5 DEF Enter, Loop, Forward, Finish
    <2>2. InDecode(call[q]) /\ call'[q].told = call[q].told
      BY <1>1, <1>5 DEF Enter, Loop, Forward, Finish, InDecode, Records
    <2> QED BY <1>2, <2>1, <2>2
  <1>6. ASSUME NEW q \in Calls, Exit(q) \/ Unlock(q) \/ OnDone(q) \/ Reset(q) \/ Check(q) PROVE Goal
    <2>1. \A r \in Calls \ {q} : call'[r] = call[r]
      BY <1>1, <1>6 DEF Exit, Unlock, OnDone, Reset, Check
    <2>2. ~InDecode(call'[q])
      <3>1. Exit(q) \/ Unlock(q) \/ Reset(q) \/ Check(q) => ~InDecode(call'[q])
        BY <1>1 DEF Exit, Unlock, Reset, Check, InDecode, Records
      <3>2. OnDone(q) => ~InDecode(call'[q])
        BY <1>1 DEF OnDone, InDecode, Records
      <3> QED BY <1>6, <3>1, <3>2
    <2> QED BY <1>2, <2>1, <2>2
  <1>7. ASSUME NEW q \in Calls, Take(q) \/ Validate(q) \/ ReclaimClear(q) \/ Hand(q) PROVE Goal
    <2>1. \A r \in Calls \ {q} : call'[r] = call[r]
      BY <1>1, <1>7 DEF Take, Validate, ReclaimClear, Hand
    <2>2. ~InDecode(call'[q])
      BY <1>1, <1>7 DEF Take, Validate, ReclaimClear, Hand, InDecode, Records
    <2> QED BY <1>2, <2>1, <2>2
  <1>8. ASSUME NEW q \in Calls, Resolve(q) \/ DropFuture(q) \/ GuardCheck(q) PROVE Goal
    <2>1. \A r \in Calls \ {q} : call'[r] = call[r]
      BY <1>1, <1>8 DEF Resolve, DropFuture, GuardCheck
    <2>2. call'[q].told = call[q].told /\ (InDecode(call'[q]) => InDecode(call[q]))
      BY <1>1, <1>8 DEF Resolve, DropFuture, GuardCheck, InDecode, Records
    <2> QED BY <1>2, <2>1, <2>2
  <1>9. ASSUME NEW q \in Calls, NEW op \in Ops \ {"open"}, NEW h \in Handles, NEW async \in BOOLEAN,
               Begin(q, op, h, async)
        PROVE  Goal
    <2>1. \A r \in Calls \ {q} : call'[r] = call[r]
      BY <1>1, <1>9 DEF Begin
    <2>2. call'[q].pc \in {"queued", "check", "lock"}
      BY <1>1, <1>9 DEF Begin, NoCall
    <2> QED BY <1>2, <2>1, <2>2 DEF InDecode
  <1>10. ASSUME NEW q \in Calls, StoreCancel(q) \/ StoreClear(q) \/ GuardStore(q) PROVE Goal
    <2> DEFINE C == IF GuardStore(q) THEN [call EXCEPT ![q].future = "gone"] ELSE Goto(q, "end")
               k == handle[call[q].h].flag
    <2>1. C \in [Calls -> Records]
      BY <1>1 DEF Records, Pcs, Futures
    <2>2. \A r \in Calls : C[r].told = call[r].told /\ (InDecode(C[r]) => InDecode(call[r]))
      BY <1>1 DEF Records, InDecode
    <2>3. \E b \in BOOLEAN : call' = Tell(C, k, b) /\ (b => cancel' = [cancel EXCEPT ![k] = TRUE])
      BY <1>10 DEF StoreCancel, StoreClear, GuardStore, SetFlag
    <2> HIDE DEF C
    <2>4. PICK b \in BOOLEAN : call' = Tell(C, k, b) /\ (b => cancel' = [cancel EXCEPT ![k] = TRUE])
      BY <2>3
    <2>5. CASE ~Decoding(p, k)
      <3>1. call'[p] = C[p]
        BY <2>4, <2>5 DEF Tell
      <3> QED BY <2>2, <3>1
    <2>6. CASE Decoding(p, k)
      <3>1. InDecode(call[p]) /\ handle[call[p].h].core = k
        BY <2>6 DEF Decoding, InDecode
      <3>2. call'[p] = [C[p] EXCEPT !.told = b, !.extra = IF b THEN @ ELSE 0]
        BY <2>4, <2>6 DEF Tell
      <3>3. b
        BY <2>1, <3>2 DEF Records
      <3>4. handle[call[p].h].core \in Cores
        BY <3>1, OneUser DEF InDecode, Uses
      <3> QED BY <1>1, <2>4, <3>1, <3>3, <3>4
    <2> QED BY <2>5, <2>6
  <1>11. ASSUME NEW h \in Handles, Release(h) \/ DropHandle(h) PROVE Goal
    BY <1>2, <1>11 DEF Release, DropHandle
  <1> HIDE DEF Goal
  <1>12. Goal
    BY <1>3, <1>4, <1>5, <1>6, <1>7, <1>8, <1>9, <1>10, <1>11 DEF Next, Host, Work, Guard
  <1> QED BY <1>12 DEF Goal

(* The flag of a core that a call decodes on is cleared by the host alone, *)
(* which takes the cancel back.                                            *)
LEMMA FlagKept ==
    ASSUME IInv, CallsOk, Next, NEW p \in Calls, InDecode(call[p]), InDecode(call'[p]),
           call'[p].told, cancel[handle[call[p].h].core]
    PROVE  cancel'[handle[call[p].h].core]
  <1> DEFINE c == handle[call[p].h].core
  <1>1. /\ handle \in [Handles -> HandleType] /\ call \in [Calls -> Records]
        /\ cancel \in [Cores -> BOOLEAN] /\ \A q \in Calls : call[q] \in Records
    BY DEF IInv, Types
  <1>2. Uses(p)
    BY DEF InDecode, Uses
  <1>3. call[p].h \in Handles /\ c \in Cores
    BY <1>2, OneUser
  <1>4. \A q \in Calls : /\ Uses(q) /\ handle[call[q].h].core = c => p = q
                         /\ ~Moves(q)
    BY <1>2, OneUser
  <1>5. ASSUME cancel' = cancel PROVE cancel'[c]
    BY <1>5
  <1>6. ASSUME NEW k, cancel' = [cancel EXCEPT ![k] = FALSE], k # c PROVE cancel'[c]
    BY <1>1, <1>3, <1>6
  <1>7. ASSUME NEW k, cancel' = [cancel EXCEPT ![k] = TRUE] PROVE cancel'[c]
    BY <1>1, <1>3, <1>7
  <1>8. ASSUME NEW q \in Calls, Exit(q) \/ Reset(q) PROVE cancel'[c]
    <2>1. Uses(q) /\ q # p
      BY <1>8 DEF Exit, Reset, Uses, InDecode
    <2>2. handle[call[q].h].core # c
      BY <1>4, <2>1
    <2>3. cancel' = cancel \/ cancel' = [cancel EXCEPT ![handle[call[q].h].core] = FALSE]
      BY <1>8 DEF Exit, Reset, ClearFlag
    <2> QED BY <1>5, <1>6, <2>2, <2>3
  <1>9. ASSUME NEW q \in Calls, ReclaimClear(q) \/ Build(q) PROVE cancel'[c]
    <2>1. Moves(q)
      BY <1>9 DEF ReclaimClear, Build, Moves, IInv, HandInv
    <2> QED BY <1>4, <2>1
  <1>10. ASSUME NEW q \in Calls, StoreClear(q) PROVE cancel'[c]
    <2> DEFINE C == Goto(q, "end")
               k == handle[call[q].h].flag
    <2>1. C \in [Calls -> Records]
      BY <1>1 DEF Goto, Records, Pcs
    <2>2. cancel' = [cancel EXCEPT ![k] = FALSE] /\ call' = Tell(C, k, FALSE)
      BY <1>10 DEF StoreClear, ClearFlag
    <2> HIDE DEF C
    <2>3. ~Decoding(p, k)
      <3> SUFFICES ASSUME Decoding(p, k) PROVE FALSE
        OBVIOUS
      <3>1. call'[p] = [C[p] EXCEPT !.told = FALSE, !.extra = 0]
        BY <2>2 DEF Tell
      <3> QED BY <2>1, <3>1 DEF Records
    <2>4. k # c
      BY <2>3 DEF Decoding, InDecode
    <2> QED BY <1>6, <2>2, <2>4
  <1>11. ASSUME NEW q \in Calls, StoreCancel(q) \/ GuardStore(q) PROVE cancel'[c]
    BY <1>7, <1>11 DEF StoreCancel, GuardStore, SetFlag
  <1> HIDE DEF c
  <1>12. ASSUME NEW q \in Calls, \/ BeginOpen(q) \/ Acquire(q) \/ Start(q) \/ Lock(q) \/ Unready(q)
                                 \/ Enter(q) \/ Loop(q) \/ Forward(q) \/ Unlock(q) \/ OnDone(q)
         PROVE  cancel'[c]
    BY <1>5, <1>12 DEF BeginOpen, Acquire, Start, Lock, Unready, Enter, Loop, Forward, Unlock, OnDone
  <1>13. ASSUME NEW q \in Calls, \/ Take(q) \/ Validate(q) \/ Hand(q) \/ Check(q) \/ Forget(q)
                                 \/ Resolve(q) \/ DropFuture(q) \/ GuardCheck(q)
         PROVE  cancel'[c]
    BY <1>5, <1>13 DEF Take, Validate, Hand, Check, Forget, Resolve, DropFuture, GuardCheck
  <1>14. ASSUME NEW h \in Handles, Release(h) \/ DropHandle(h) PROVE cancel'[c]
    BY <1>5, <1>14 DEF Release, DropHandle
  <1>15. ASSUME NEW q \in Calls, NEW op, NEW h, NEW async, Begin(q, op, h, async) PROVE cancel'[c]
    BY <1>5, <1>15 DEF Begin
  <1>16. cancel'[c]
    BY <1>8, <1>9, <1>10, <1>11, <1>12, <1>13, <1>14, <1>15 DEF Next, Host, Work, Guard
  <1> QED BY <1>16 DEF c

LEMMA ToldStep ==
    ASSUME IInv, CallsOk, ToldInv, Next
    PROVE  ToldInv'
  <1> SUFFICES ASSUME NEW p \in Calls, InDecode(call'[p]), call'[p].told
               PROVE  cancel'[handle'[call'[p].h].core]
    BY DEF ToldInv
  <1>1. InDecode(call[p]) /\ (call[p].told \/ cancel'[handle[call[p].h].core])
    BY ToldMoves
  <1>2. Uses(p) /\ Uses(p)'
    BY <1>1 DEF InDecode, Uses
  <1>3. call'[p].h = call[p].h /\ handle'[call[p].h].core = handle[call[p].h].core
    BY <1>2, CoresKept DEF CoreKept
  <1>4. call[p].told => cancel[handle[call[p].h].core]
    BY <1>1 DEF ToldInv
  <1>5. cancel'[handle[call[p].h].core]
    BY <1>1, <1>4, FlagKept
  <1> QED BY <1>3, <1>5

(* A call on its way out stays there until it clears the flag.             *)
LEMMA ExitKept ==
    ASSUME IInv, Next, NEW p \in Calls, call[p].pc = "exit"
    PROVE  \/ call'[p].pc = "exit"
           \/ cancel' = [cancel EXCEPT ![handle[call[p].h].core] = FALSE]
  <1>1. call \in [Calls -> Records] /\ \A q \in Calls : call[q] \in Records
    BY DEF IInv, Types
  <1> USE DEF Goto
  <1>2. ASSUME NEW q \in Calls, q # p => call'[p] = call[p], call[q].pc # "exit"
        PROVE  call'[p].pc = "exit"
    BY <1>2
  <1>3. ASSUME NEW q \in Calls, \/ Acquire(q) \/ Build(q) \/ Start(q) \/ Lock(q) \/ Unready(q)
                                \/ Enter(q) \/ Loop(q) \/ Forward(q)
        PROVE  call'[p].pc = "exit"
    <2>1. call[q].pc # "exit"
      BY <1>3 DEF Acquire, Build, Start, Lock, Unready, Enter, Loop, Forward
    <2>2. q # p => call'[p] = call[p]
      BY <1>1, <1>3 DEF Acquire, Build, Start, Lock, Refused, Admitted, Unready, Enter, Loop, Forward, Finish
    <2> QED BY <1>2, <2>1, <2>2
  <1>4. ASSUME NEW q \in Calls, \/ Unlock(q) \/ OnDone(q) \/ Reset(q) \/ Take(q) \/ Validate(q)
                                \/ ReclaimClear(q) \/ Hand(q) \/ Check(q) \/ Forget(q)
        PROVE  call'[p].pc = "exit"
    <2>1. call[q].pc # "exit"
      BY <1>4 DEF Unlock, OnDone, Reset, Take, Validate, ReclaimClear, Hand, Check, Forget
    <2>2. q # p => call'[p] = call[p]
      BY <1>1, <1>4 DEF Unlock, OnDone, Reset, Take, Validate, ReclaimClear, Hand, Check, Forget
    <2> QED BY <1>2, <2>1, <2>2
  <1>5. ASSUME NEW q \in Calls, Exit(q)
        PROVE  \/ call'[p].pc = "exit"
               \/ cancel' = [cancel EXCEPT ![handle[call[p].h].core] = FALSE]
    BY <1>1, <1>5 DEF Exit, ClearFlag
  <1>6. ASSUME NEW q \in Calls, BeginOpen(q) PROVE call'[p].pc = "exit"
    BY <1>1, <1>6 DEF BeginOpen, NoCall
  <1>7. ASSUME NEW q \in Calls, NEW op \in Ops \ {"open"}, NEW h \in Handles, NEW async \in BOOLEAN,
               Begin(q, op, h, async)
        PROVE  call'[p].pc = "exit"
    BY <1>1, <1>7 DEF Begin, NoCall
  <1>8. ASSUME NEW q \in Calls, Resolve(q) \/ DropFuture(q) \/ GuardCheck(q) PROVE call'[p].pc = "exit"
    BY <1>1, <1>8 DEF Resolve, DropFuture, GuardCheck, Records
  <1>9. ASSUME NEW q \in Calls, StoreCancel(q) \/ StoreClear(q) \/ GuardStore(q) PROVE call'[p].pc = "exit"
    <2> DEFINE C == Goto(q, "end")
               D == [call EXCEPT ![q].future = "gone"]
               k == handle[call[q].h].flag
    <2>1. C \in [Calls -> Records] /\ D \in [Calls -> Records]
      BY <1>1 DEF Records, Pcs, Futures
    <2>2. (call[q].pc = "store" => C[p].pc = "exit") /\ D[p].pc = "exit"
      BY <1>1 DEF Records
    <2>3. \E b \in BOOLEAN : (call[q].pc = "store" /\ call' = Tell(C, k, b)) \/ call' = Tell(D, k, b)
      BY <1>9 DEF StoreCancel, StoreClear, GuardStore
    <2> HIDE DEF C, D, k
    <2> QED BY <2>1, <2>2, <2>3, TellMovesNobody
  <1>10. ASSUME NEW h \in Handles, Release(h) \/ DropHandle(h) PROVE call'[p].pc = "exit"
    BY <1>10 DEF Release, DropHandle
  <1> QED BY <1>3, <1>4, <1>5, <1>6, <1>7, <1>8, <1>9, <1>10 DEF Next, Host, Work, Guard

(* A flag set after a step was set before and owed the same, or is owed    *)
(* now, or has just stopped the call that works on its core.               *)
Settled(k) ==
    cancel'[k] => \/ owed'[k]
                  \/ cancel[k] /\ owed'[k] = owed[k]
                  \/ \E p \in Calls : call'[p].pc = "exit" /\ handle'[call'[p].h].core = k

LEMMA OwedMoves ==
    ASSUME IInv, owed \in [Cores -> BOOLEAN], Next
    PROVE  owed' \in [Cores -> BOOLEAN] /\ \A k \in Cores : Settled(k)
  <1> DEFINE Goal == owed' \in [Cores -> BOOLEAN] /\ \A k \in Cores : Settled(k)
  <1>1. /\ call \in [Calls -> Records] /\ \A q \in Calls : call[q] \in Records
        /\ cancel \in [Cores -> BOOLEAN]
    BY DEF IInv, Types
  <1>2. ASSUME owed' = owed,
               cancel' = cancel \/ \E k : cancel' = [cancel EXCEPT ![k] = FALSE]
        PROVE  Goal
    BY <1>1, <1>2 DEF Settled
  <1>3. ASSUME NEW q \in Calls, \/ BeginOpen(q) \/ Acquire(q) \/ Start(q) \/ Lock(q) \/ Unready(q)
                                \/ Unlock(q) \/ OnDone(q) \/ Exit(q) \/ Reset(q)
        PROVE  Goal
    BY <1>2, <1>3 DEF BeginOpen, Acquire, Start, Lock, Unready, Unlock, OnDone, Exit, Reset, ClearFlag
  <1>4. ASSUME NEW q \in Calls, \/ Take(q) \/ Validate(q) \/ ReclaimClear(q) \/ Hand(q) \/ Check(q)
                                \/ Forget(q) \/ Resolve(q) \/ DropFuture(q) \/ GuardCheck(q)
                                \/ StoreClear(q)
        PROVE  Goal
    BY <1>2, <1>4 DEF Take, Validate, ReclaimClear, Hand, Check, Forget, Resolve, DropFuture,
       GuardCheck, StoreClear, ClearFlag
  <1>5. ASSUME NEW q \in Calls, StoreCancel(q) \/ GuardStore(q) PROVE Goal
    <2> DEFINE k == handle[call[q].h].flag
    <2>1. cancel' = [cancel EXCEPT ![k] = TRUE] /\ owed' = [owed EXCEPT ![k] = TRUE]
      BY <1>5 DEF StoreCancel, GuardStore, SetFlag, Owe
    <2> HIDE DEF k
    <2> QED BY <1>1, <2>1 DEF Settled
  <1>6. ASSUME NEW q \in Calls, Build(q) PROVE Goal
    <2>1. (cancel' = cancel /\ owed' = owed)
          \/ \E k \in Cores : cancel' = [cancel EXCEPT ![k] = FALSE] /\ owed' = [owed EXCEPT ![k] = FALSE]
      BY <1>6 DEF Build, FreeCores
    <2> QED BY <1>1, <2>1 DEF Settled
  <1>7. ASSUME NEW q \in Calls, Enter(q) \/ Loop(q) \/ Forward(q) PROVE Goal
    <2> DEFINE c == handle[call[q].h].core
    <2> DEFINE Stops == owed' = [owed EXCEPT ![c] = FALSE] /\ call'[q].pc = "exit"
                        /\ call'[q].h = call[q].h
    <2>1. cancel' = cancel /\ handle' = handle /\ (owed' = owed \/ Stops)
      <3>1. Enter(q) => cancel' = cancel /\ handle' = handle /\ (owed' = owed \/ Stops)
        BY <1>1 DEF Enter, Finish, Records
      <3>2. Loop(q) => cancel' = cancel /\ handle' = handle /\ (owed' = owed \/ Stops)
        BY <1>1 DEF Loop, Finish, Records
      <3>3. Forward(q) => cancel' = cancel /\ handle' = handle /\ owed' = owed
        BY DEF Forward, Finish
      <3> QED BY <1>7, <3>1, <3>2, <3>3
    <2> HIDE DEF Goal
    <2>2. CASE owed' = owed
      BY <1>2, <2>1, <2>2
    <2>3. CASE owed' # owed
      <3>1. handle'[call'[q].h].core = c /\ call'[q].pc = "exit"
        BY <2>1, <2>3
      <3> HIDE DEF c
      <3>2. \A k \in Cores : k # c => owed'[k] = owed[k]
        BY <2>1, <2>3
      <3> QED BY <2>1, <2>3, <3>1, <3>2 DEF Goal, Settled
    <2> QED BY <2>2, <2>3
  <1>8. ASSUME NEW h \in Handles, Release(h) \/ DropHandle(h) PROVE Goal
    BY <1>2, <1>8 DEF Release, DropHandle
  <1>9. ASSUME NEW q \in Calls, NEW op, NEW h, NEW async, Begin(q, op, h, async) PROVE Goal
    BY <1>2, <1>9 DEF Begin
  <1> HIDE DEF Goal
  <1>10. Goal
    BY <1>3, <1>4, <1>5, <1>6, <1>7, <1>8, <1>9 DEF Next, Host, Work, Guard
  <1> QED BY <1>10 DEF Goal

LEMMA OwedStep ==
    ASSUME IInv, OwedInv, Next
    PROVE  OwedInv'
  <1>1. owed' \in [Cores -> BOOLEAN] /\ \A k \in Cores : Settled(k)
    BY OwedMoves DEF OwedInv
  <1> SUFFICES ASSUME NEW k \in Cores, cancel'[k], ~owed'[k],
                      cancel[k], owed'[k] = owed[k]
               PROVE  \E p \in Calls : call'[p].pc = "exit" /\ handle'[call'[p].h].core = k
    BY <1>1 DEF OwedInv, Settled
  <1>2. PICK p \in Calls : call[p].pc = "exit" /\ handle[call[p].h].core = k
    BY DEF OwedInv
  <1>3. call'[p].pc = "exit"
    BY <1>2, ExitKept DEF IInv, Types
  <1>4. Uses(p) /\ Uses(p)'
    BY <1>2, <1>3 DEF Uses
  <1> QED BY <1>2, <1>3, <1>4, CoresKept DEF CoreKept

----------------------------------------------------------------------------
(* What cancels and sinks are promised.                                    *)
Promised == IInv /\ CallsOk /\ ToldInv /\ OwedInv

LEMMA PromisedInit == Init => Promised
  <1> SUFFICES ASSUME Init PROVE Promised
    OBVIOUS
  <1>1. \A p \in Calls : call[p] = NoCall
    BY DEF Init
  <1>2. CallsOk
    BY <1>1 DEF CallsOk, CallOk, SinkOk, DecodeOk, InDecode, NoCall, Generations
  <1>3. ToldInv
    BY <1>1 DEF ToldInv, InDecode, NoCall
  <1>4. OwedInv
    BY DEF Init, OwedInv
  <1> QED BY <1>2, <1>3, <1>4, InitInv DEF Promised

LEMMA PromisedStep == Promised /\ [Next]_vars => Promised'
  <1> SUFFICES ASSUME Promised, [Next]_vars PROVE Promised'
    OBVIOUS
  <1>1. IInv'
    BY NextStep DEF Promised
  <1>2. CASE Next
    BY <1>1, <1>2, CallsStep, ToldStep, OwedStep DEF Promised
  <1>3. CASE UNCHANGED vars
    BY <1>1, <1>3 DEF Promised, CallsOk, ToldInv, OwedInv, vars
  <1> QED BY <1>2, <1>3

LEMMA PromisedKept == Spec => []Promised
  BY PromisedInit, PromisedStep, PTL DEF Spec

(* A streaming call has told its sink of the end exactly once when it      *)
(* returns, unless it was aborted in the queue, which tells nothing, or    *)
(* panicked (generate_streaming, notify_done).                             *)
THEOREM HandlesSinkHears == Spec => []SinkHearsTheEnd
  <1>1. Promised => SinkHearsTheEnd
    <2> SUFFICES ASSUME Promised, NEW p \in Calls, call[p].sink
                 PROVE  /\ call[p].pc = "aborted" => call[p].done = 0
                        /\ (call[p].pc = "end" /\ call[p].finish \notin {"none", "Panic"})
                               => call[p].done = 1
      BY DEF SinkHearsTheEnd
    <2> QED BY DEF Promised, CallsOk, CallOk, SinkOk
  <1> QED BY <1>1, PromisedKept, PTL

(* After a cancel, or the drop of a future, the generation under way on    *)
(* that session makes at most the token it was at (the loop's check,       *)
(* AsyncCancelGuard::drop).                                                *)
THEOREM HandlesCancelStops == Spec => []CancelStopsDecode
  <1>1. Promised => CancelStopsDecode
    BY DEF Promised, CallsOk, CallOk, DecodeOk, CancelStopsDecode
  <1> QED BY <1>1, PromisedKept, PTL

(* One cancel stops one generation at most: each that ends Cancelled       *)
(* answers a cancel that stopped none before (the CancelGuard of generate).*)
THEOREM HandlesCancelIsSpent == Spec => CancelIsSpent
  <1> DEFINE Spent(p) == call[p].finish = "none" /\ call'[p].finish = "Cancelled"
                             => owed[handle[call[p].h].core]
  <1>1. ASSUME Promised, Next, NEW p \in Calls PROVE Spent(p)
    <2>1. /\ IInv /\ OwedInv /\ call \in [Calls -> Records] /\ \A q \in Calls : call[q] \in Records
      BY <1>1 DEF Promised, IInv, Types
    <2> SUFFICES ASSUME call[p].finish = "none", call'[p].finish = "Cancelled"
                 PROVE  owed[handle[call[p].h].core]
      OBVIOUS
    <2>2. call[p].pc \in {"enter", "loop"} /\ cancel[handle[call[p].h].core]
      <3> USE DEF Goto
      <3>1. ASSUME NEW q \in Calls, Enter(q) \/ Loop(q) \/ Forward(q)
            PROVE  call[p].pc \in {"enter", "loop"} /\ cancel[handle[call[p].h].core]
        <4>1. q = p
          BY <2>1, <3>1 DEF Enter, Loop, Forward, Finish
        <4> QED BY <2>1, <3>1, <4>1 DEF Enter, Loop, Forward, Finish, Records
      <3>2. ASSUME NEW q \in Calls, \/ Acquire(q) \/ Build(q) \/ Start(q) \/ Lock(q) \/ Unready(q)
                                    \/ Forget(q) \/ BeginOpen(q)
            PROVE  call'[p].finish # "Cancelled"
        <4>1. p # q => call'[p].finish = "none"
          BY <2>1, <3>2 DEF Acquire, Build, Start, Lock, Refused, Admitted, Unready, Forget, BeginOpen
        <4>2. Acquire(q) \/ Build(q) \/ Forget(q) => call'[q].finish = "none" \/ call'[q].finish = call[q].finish
          <5>1. Acquire(q) \/ Build(q) \/ Forget(q) =>
                    call'[q] = NoCall \/ call'[q] = [call[q] EXCEPT !.pc = "build"]
            BY <2>1 DEF Acquire, Build, Forget
          <5>2. NoCall.finish = "none" /\ [call[q] EXCEPT !.pc = "build"].finish = call[q].finish
            BY <2>1 DEF NoCall, Records
          <5> QED BY <5>1, <5>2
        <4>3. Start(q) \/ BeginOpen(q) => call'[q].finish = call[q].finish
          BY <2>1 DEF Start, BeginOpen, Records
        <4>4. Lock(q) \/ Unready(q) => call'[q].finish \in {call[q].finish, "Error"}
          BY <2>1 DEF Lock, Refused, Admitted, Unready, Records
        <4> QED BY <3>2, <4>1, <4>2, <4>3, <4>4
      <3>3. ASSUME NEW q \in Calls, \/ Exit(q) \/ Unlock(q) \/ OnDone(q) \/ Reset(q) \/ Take(q)
                                    \/ Validate(q) \/ ReclaimClear(q) \/ Hand(q) \/ Check(q)
            PROVE  call'[p].finish # "Cancelled"
        <4>1. p # q => call'[p].finish = "none"
          BY <2>1, <3>3 DEF Exit, Unlock, OnDone, Reset, Take, Validate, ReclaimClear, Hand, Check
        <4>2. call'[q].finish = call[q].finish
          <5>1. Exit(q) \/ Unlock(q) \/ Reset(q) \/ Check(q) => call'[q].finish = call[q].finish
            BY <2>1 DEF Exit, Unlock, Reset, Check, Records
          <5>2. OnDone(q) => call'[q].finish = call[q].finish
            BY <2>1 DEF OnDone, Records
          <5>3. Take(q) \/ Validate(q) => call'[q].finish = call[q].finish
            BY <2>1 DEF Take, Validate, Records
          <5>4. ReclaimClear(q) \/ Hand(q) => call'[q].finish = call[q].finish
            BY <2>1 DEF ReclaimClear, Hand, Records
          <5> QED BY <3>3, <5>1, <5>2, <5>3, <5>4
        <4> QED BY <4>1, <4>2
      <3>4. ASSUME NEW q \in Calls, Resolve(q) \/ DropFuture(q) \/ GuardCheck(q)
            PROVE  call'[p].finish # "Cancelled"
        BY <2>1, <3>4 DEF Resolve, DropFuture, GuardCheck, Records
      <3>5. ASSUME NEW q \in Calls, NEW op \in Ops \ {"open"}, NEW h \in Handles, NEW async \in BOOLEAN,
                   Begin(q, op, h, async)
            PROVE  call'[p].finish # "Cancelled"
        BY <2>1, <3>5 DEF Begin, NoCall
      <3>6. ASSUME NEW q \in Calls, StoreCancel(q) \/ StoreClear(q) \/ GuardStore(q)
            PROVE  call'[p].finish # "Cancelled"
        <4> DEFINE C == Goto(q, "end")
                   D == [call EXCEPT ![q].future = "gone"]
                   k == handle[call[q].h].flag
        <4>1. C \in [Calls -> Records] /\ D \in [Calls -> Records]
          BY <2>1 DEF Records, Pcs, Futures
        <4>2. C[p].finish = "none" /\ D[p].finish = "none"
          BY <2>1 DEF Records
        <4>3. \E b \in BOOLEAN : call' = Tell(C, k, b) \/ call' = Tell(D, k, b)
          BY <3>6 DEF StoreCancel, StoreClear, GuardStore
        <4> HIDE DEF C, D, k
        <4>4. PICK b \in BOOLEAN : call' = Tell(C, k, b) \/ call' = Tell(D, k, b)
          BY <4>3
        <4>5. ASSUME NEW E \in [Calls -> Records], call' = Tell(E, k, b), E[p].finish = "none"
              PROVE  call'[p].finish # "Cancelled"
          <5>1. call'[p] = E[p] \/ call'[p] = [E[p] EXCEPT !.told = b, !.extra = IF b THEN @ ELSE 0]
            BY <4>5 DEF Tell
          <5>2. E[p] \in Records
            BY <4>5
          <5> QED BY <4>5, <5>1, <5>2 DEF Records
        <4> QED BY <4>1, <4>2, <4>4, <4>5
      <3>7. ASSUME NEW h \in Handles, Release(h) \/ DropHandle(h)
            PROVE  call'[p].finish # "Cancelled"
        BY <3>7 DEF Release, DropHandle
      <3> QED BY <1>1, <3>1, <3>2, <3>3, <3>4, <3>5, <3>6, <3>7 DEF Next, Host, Work, Guard
    <2>3. Uses(p)
      BY <2>2 DEF Uses
    <2>4. \A q \in Calls : call[q].pc = "exit" => handle[call[q].h].core # handle[call[p].h].core
      <3> SUFFICES ASSUME NEW q \in Calls, call[q].pc = "exit",
                          handle[call[q].h].core = handle[call[p].h].core
                   PROVE  FALSE
        OBVIOUS
      <3>1. p = q
        BY <2>1, <2>3, OneUser DEF Uses
      <3> QED BY <2>2, <3>1
    <2>5. handle[call[p].h].core \in Cores
      BY <2>1, <2>3, OneUser
    <2> QED BY <2>1, <2>2, <2>4, <2>5 DEF OwedInv
  <1>2. Promised /\ [Next]_vars => [\A p \in Calls : Spent(p)]_vars
    BY <1>1
  <1> QED BY <1>2, PromisedKept, PTL DEF Spec, CancelIsSpent
=============================================================================
