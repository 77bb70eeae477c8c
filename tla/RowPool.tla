------------------------------ MODULE RowPool ------------------------------
(***************************************************************************)
(* The spin-wait worker pool of cera/src/backend/threadpool.rs: callers    *)
(* publish a job under the dispatch lock, the background workers notice    *)
(* the changed state word (spinning, or parked and unparked), everybody    *)
(* steals row ranges from one cursor, and the caller waits for `pending`   *)
(* to drain before it returns.  Worker 0 is the dispatching caller.        *)
(*                                                                         *)
(* Each action is one access to shared memory, or a run of accesses that   *)
(* no other thread can tell from one; memory is sequentially consistent.   *)
(* `ran`, `failed` and `outcome` are history variables: nothing reads them *)
(***************************************************************************)
EXTENDS Integers, FiniteSets, FiniteSetsExt

CONSTANTS
    Callers,              \* threads that dispatch into the pool
    NoCaller,             \* the dispatch lock is free
    NumThreads,           \* pool width, the caller's slot included
    ActiveBarrier,        \* TRUE: prefill pool, FALSE: decode pool
    StealChunksPerWorker, \* 4 in the source
    WeightFull,           \* cpu_features::WEIGHT_FULL
    Weight,               \* Weight[t]: chunk scale of worker slot t
    RowCounts, MinRows, MinChunks, ActiveCaps, \* the arguments callers pass
    Reenters,             \* do the row closures dispatch into the pool too?
    MaxCalls              \* bound: dispatches in one behaviour

Slots   == 0 .. NumThreads - 1
Workers == 1 .. NumThreads - 1

ASSUME PoolAssumption ==
    /\ NumThreads \in Nat \ {0}
    /\ ActiveBarrier \in BOOLEAN
    /\ StealChunksPerWorker \in Nat \ {0}
    /\ WeightFull \in Nat \ {0}
    /\ Weight \in [Slots -> 1 .. WeightFull]
    /\ NoCaller \notin Callers \cup RowCounts

ASSUME ArgumentAssumption ==
    /\ RowCounts \subseteq Nat
    /\ MinRows \subseteq Nat \ {0}
    /\ MinChunks \subseteq Nat \ {0}
    /\ ActiveCaps \subseteq 1 .. NumThreads
    /\ Reenters \in BOOLEAN
    /\ MaxCalls \in Nat

VARIABLES
    lock,        \* holder of dispatch_lock, or NoCaller
    job,         \* Shared::job
    nextRow,     \* Shared::next_row
    state,       \* Shared::state, unpacked
    pending,     \* Shared::pending
    parkedCount, \* Shared::parked_count
    panicked,    \* Shared::panicked
    payload,     \* Shared::panic_payload: the epoch it was caught in, or 0
    shutdown,    \* Shared::shutdown
    cpc, call,   \* per caller: where it is, and the arguments of its call
    unwinding,   \* per caller: its own closure panicked
    wpc,         \* per worker: where it is
    lastState,   \* per worker: worker_loop's last_state
    wjob,        \* per worker: its copy of the job
    token,       \* per worker: the unpark token of its thread
    held,        \* per slot: the claimed rows that have not run yet
    dpc,         \* the thread dropping the pool
    calls,       \* dispatches so far
    ran, failed, outcome  \* history, as in RowDispatch

shared  == <<job, nextRow, state, pending, parkedCount, panicked, payload,
             shutdown>>
callers == <<cpc, call, unwinding>>
workers == <<wpc, lastState, wjob, token>>
history == <<ran, failed, outcome>>
vars == <<lock, shared, callers, workers, held, dpc, calls, history>>

----------------------------------------------------------------------------
(* How wide a dispatch is and how it is cut up.                            *)

CeilDiv(a, b) == (a + b - 1) \div b

ActiveWorkers(rows, minRows, cap) ==
    LET perWorker == Max({CeilDiv(rows, NumThreads), minRows})
    IN  Min({CeilDiv(rows, perWorker), NumThreads, cap})

ChunkRows(rows, active, floor) ==
    Max({CeilDiv(rows, active * StealChunksPerWorker), floor})

(* The rows one claim of slot t reserves: the dispatch's chunk, scaled     *)
(* down for a slow core, never below the floor and never zero.             *)
WorkerChunkRows(t, args) ==
    IF Weight[t] < WeightFull
    THEN Max({(args.chunk * Weight[t]) \div WeightFull, args.floor, 1})
    ELSE args.chunk

Args == [rows : Nat, active : Nat, chunk : Nat \ {0}, floor : Nat \ {0}]
NoArgs == [rows |-> 0, active |-> 0, chunk |-> 1, floor |-> 1]
Job  == [caller : Callers \cup {NoCaller}, args : Args]
NoJob == [caller |-> NoCaller, args |-> NoArgs]
Word == [epoch : Nat, active : Nat]

(* The closure of a held range runs: all of it, or the rows before the one *)
(* at which it panics.                                                     *)
RowsBefore(rows, r) == {q \in rows : q < r}

----------------------------------------------------------------------------
Init ==
    /\ lock = NoCaller
    /\ job = NoJob
    /\ nextRow = 0
    /\ state = [epoch |-> 0, active |-> 0]
    /\ pending = 0
    /\ parkedCount = 0
    /\ panicked = FALSE
    /\ payload = 0
    /\ shutdown = FALSE
    /\ cpc = [c \in Callers |-> "idle"]
    /\ call = [c \in Callers |-> NoArgs]
    /\ unwinding = [c \in Callers |-> FALSE]
    /\ wpc = [w \in Workers |-> "top"]
    /\ lastState = [w \in Workers |-> [epoch |-> 0, active |-> 0]]
    /\ wjob = [w \in Workers |-> NoJob]
    /\ token = [w \in Workers |-> FALSE]
    /\ held = [t \in Slots |-> {}]
    /\ dpc = "live"
    /\ calls = 0
    /\ ran = [c \in Callers |-> {}]
    /\ failed = [c \in Callers |-> FALSE]
    /\ outcome = [c \in Callers |-> "none"]

Goto(c, label)  == cpc' = [cpc EXCEPT ![c] = label]
WGoto(w, label) == wpc' = [wpc EXCEPT ![w] = label]

(***************************************************************************)
(* The dispatcher.                                                         *)
(***************************************************************************)

(* dispatch_body up to try_lock.  The pool cannot be dropped under a       *)
(* caller, so no call starts once the drop has.                            *)
Call(c) ==
    /\ cpc[c] = "idle"
    /\ dpc = "live"
    /\ calls < MaxCalls
    /\ \E rows \in RowCounts, minRows \in MinRows, floor \in MinChunks,
          cap \in ActiveCaps :
          LET active == ActiveWorkers(rows, minRows, cap)
              parallel == active > 1
          IN  /\ call' = [call EXCEPT ![c] =
                    [rows |-> rows, active |-> active, floor |-> floor,
                     chunk |-> IF parallel
                               THEN ChunkRows(rows, active, floor) ELSE 1]]
              /\ Goto(c, IF parallel THEN "lock" ELSE "serial")
    /\ calls' = calls + 1
    /\ UNCHANGED <<lock, shared, unwinding, workers, held, dpc, history>>

(* idle_guard: a held lock means serial, a poisoned one is taken.          *)
TryLock(c) ==
    /\ cpc[c] = "lock"
    /\ IF lock = NoCaller
       THEN lock' = c /\ Goto(c, "stale")
       ELSE Goto(c, "serial") /\ UNCHANGED lock
    /\ UNCHANGED <<shared, call, unwinding, workers, held, dpc, calls, history>>

(* The serial path: every row on the caller, up to a panicking one.  Its   *)
(* rows hold no lock: one that dispatches again is a call of a caller.     *)
RunSerial(c) ==
    /\ cpc[c] = "serial"
    /\ \/ /\ ran' = [ran EXCEPT ![c] = 0 .. call[c].rows - 1]
          /\ Goto(c, "return")
          /\ UNCHANGED failed
       \/ /\ \E r \in 0 .. call[c].rows - 1 : ran' = [ran EXCEPT ![c] = 0 .. r - 1]
          /\ failed' = [failed EXCEPT ![c] = TRUE]
          /\ Goto(c, "raise")
    /\ UNCHANGED <<lock, shared, call, unwinding, workers, held, dpc, calls,
                   outcome>>

(* Mutant of ClearStalePanic: an old payload survives its flag.            *)
ClearStaleFlagOnly(c) ==
    /\ cpc[c] = "stale"
    /\ panicked' = FALSE
    /\ Goto(c, "job")
    /\ UNCHANGED <<lock, job, nextRow, state, pending, parkedCount, payload,
                   shutdown, call, unwinding, workers, held, dpc, calls, history>>

(* take_panic_payload, when an earlier dispatch left its panic behind.     *)
ClearStalePanic(c) ==
    /\ cpc[c] = "stale"
    /\ panicked' = FALSE
    /\ payload' = IF panicked THEN 0 ELSE payload
    /\ Goto(c, "job")
    /\ UNCHANGED <<lock, job, nextRow, state, pending, parkedCount, shutdown,
                   call, unwinding, workers, held, dpc, calls, history>>

WriteJob(c) ==
    /\ cpc[c] = "job"
    /\ job' = [caller |-> c, args |-> call[c]]
    /\ nextRow' = 0
    /\ Goto(c, "pending")
    /\ UNCHANGED <<lock, state, pending, parkedCount, panicked, payload,
                   shutdown, call, unwinding, workers, held, dpc, calls, history>>

SetPending(c) ==
    /\ cpc[c] = "pending"
    /\ pending' = IF ActiveBarrier THEN call[c].active - 1 ELSE NumThreads - 1
    /\ Goto(c, "bump")
    /\ UNCHANGED <<lock, job, nextRow, state, parkedCount, panicked, payload,
                   shutdown, call, unwinding, workers, held, dpc, calls, history>>

(* pack_state on the prefill pool, a bare counter on the decode pool.      *)
BumpState(c) ==
    /\ cpc[c] = "bump"
    /\ state' = [epoch |-> state.epoch + 1,
                 active |-> IF ActiveBarrier THEN call[c].active ELSE state.active]
    /\ Goto(c, "wake")
    /\ UNCHANGED <<lock, job, nextRow, pending, parkedCount, panicked, payload,
                   shutdown, call, unwinding, workers, held, dpc, calls, history>>

WakeParked(c) ==
    /\ cpc[c] = "wake"
    /\ token' = [w \in Workers |->
                    \/ token[w]
                    \/ parkedCount > 0 /\ (ActiveBarrier => w < call[c].active)]
    /\ Goto(c, "steal")
    /\ UNCHANGED <<lock, shared, call, unwinding, wpc, lastState, wjob, held,
                   dpc, calls, history>>

(* steal_and_run's claim by slot t: the rows it gets, none when exhausted. *)
Claim(t, args) ==
    /\ nextRow' = nextRow + WorkerChunkRows(t, args)
    /\ held' = [held EXCEPT ![t] =
                  {r \in nextRow .. nextRow' - 1 : r < args.rows}]

CallerClaim(c) ==
    /\ cpc[c] = "steal"
    /\ Claim(0, call[c])
    /\ Goto(c, IF nextRow < call[c].rows THEN "run" ELSE "drain")
    /\ UNCHANGED <<lock, job, state, pending, parkedCount, panicked, payload,
                   shutdown, call, unwinding, workers, dpc, calls, history>>

(* Mutant of NestedEnds: the nested call waits for the dispatch lock.      *)
NestedBlocking == Reenters => lock = NoCaller

(* A claimed row's closure that dispatches into the pool again: idle_guard *)
(* finds the lock held, by the dispatch of that very row, and the nested   *)
(* rows run at once, inside the closure, on its thread; one of them that   *)
(* panics is the row's own panic.  (Nobody runs a claimed row while the    *)
(* lock is free, see NoUseAfterReturn, so no nested call gets it here.)    *)
NestedEnds == Reenters => lock # NoCaller

CallerRun(c) ==
    /\ cpc[c] = "run"
    /\ NestedEnds
    /\ ran' = [ran EXCEPT ![c] = @ \cup held[0]]
    /\ held' = [held EXCEPT ![0] = {}]
    /\ Goto(c, "steal")
    /\ UNCHANGED <<lock, shared, call, unwinding, workers, dpc, calls, failed,
                   outcome>>

(* The caller's own closure panics; the unwind still passes DrainGuard.    *)
CallerPanic(c) ==
    /\ cpc[c] = "run"
    /\ NestedEnds
    /\ \E r \in held[0] :
          ran' = [ran EXCEPT ![c] = @ \cup RowsBefore(held[0], r)]
    /\ held' = [held EXCEPT ![0] = {}]
    /\ failed' = [failed EXCEPT ![c] = TRUE]
    /\ unwinding' = [unwinding EXCEPT ![c] = TRUE]
    /\ Goto(c, "drain")
    /\ UNCHANGED <<lock, shared, call, workers, dpc, calls, outcome>>

(* Mutant of Drain: an off-by-one at the barrier.                          *)
DrainMissesOne(c) ==
    /\ cpc[c] = "drain"
    /\ pending <= 1
    /\ Goto(c, IF unwinding[c] THEN "raise" ELSE "check")
    /\ UNCHANGED <<lock, shared, call, unwinding, workers, held, dpc, calls,
                   history>>

(* DrainGuard::drop                                                        *)
Drain(c) ==
    /\ cpc[c] = "drain"
    /\ pending = 0
    /\ Goto(c, IF unwinding[c] THEN "raise" ELSE "check")
    /\ UNCHANGED <<lock, shared, call, unwinding, workers, held, dpc, calls,
                   history>>

(* Mutant of CheckPanic: a worker's panic is forgotten.                    *)
CheckPanicSwallowed(c) ==
    /\ cpc[c] = "check"
    /\ panicked' = FALSE
    /\ payload' = 0
    /\ Goto(c, "return")
    /\ UNCHANGED <<lock, job, nextRow, state, pending, parkedCount, shutdown,
                   call, unwinding, workers, held, dpc, calls, history>>

CheckPanic(c) ==
    /\ cpc[c] = "check"
    /\ panicked' = FALSE
    /\ payload' = IF panicked THEN 0 ELSE payload
    /\ Goto(c, IF panicked THEN "raise" ELSE "return")
    /\ UNCHANGED <<lock, job, nextRow, state, pending, parkedCount, shutdown,
                   call, unwinding, workers, held, dpc, calls, history>>

(* The guard is dropped and the frame that owns the rows and closure ends. *)
Leave(c) ==
    /\ cpc[c] \in {"return", "raise"}
    /\ lock' = IF lock = c THEN NoCaller ELSE lock
    /\ outcome' = [outcome EXCEPT ![c] = IF cpc[c] = "return" THEN "ok" ELSE "panic"]
    /\ ran' = [ran EXCEPT ![c] = {}]
    /\ failed' = [failed EXCEPT ![c] = FALSE]
    /\ unwinding' = [unwinding EXCEPT ![c] = FALSE]
    /\ call' = [call EXCEPT ![c] = NoArgs]
    /\ Goto(c, "idle")
    /\ UNCHANGED <<shared, workers, held, dpc, calls>>

(***************************************************************************)
(* worker_loop.  "top" reads shutdown, "load" the state word; an idle      *)
(* worker spins back to "top" or, its spins used up ("idle"), declares     *)
(* itself parked, looks once more, and parks.                              *)
(***************************************************************************)

CheckShutdown(w) ==
    /\ wpc[w] \in {"top", "seen"}
    /\ WGoto(w, IF shutdown THEN "exit"
                ELSE IF wpc[w] = "top" THEN "load" ELSE "dispatched")
    /\ UNCHANGED <<lock, shared, callers, lastState, wjob, token, held, dpc,
                   calls, history>>

SeeState(w) ==
    /\ wpc[w] = "load"
    /\ state # lastState[w]
    /\ lastState' = [lastState EXCEPT ![w] = state]
    /\ WGoto(w, "seen")
    /\ UNCHANGED <<lock, shared, callers, wjob, token, held, dpc, calls, history>>

Spin(w) ==
    /\ wpc[w] = "load"
    /\ state = lastState[w]
    /\ WGoto(w, "top") \/ WGoto(w, "idle")
    /\ UNCHANGED <<lock, shared, callers, lastState, wjob, token, held, dpc,
                   calls, history>>

(* ParkedGuard::enter                                                      *)
EnterParked(w) ==
    /\ wpc[w] = "idle"
    /\ parkedCount' = parkedCount + 1
    /\ WGoto(w, "parking")
    /\ UNCHANGED <<lock, job, nextRow, state, pending, panicked, payload,
                   shutdown, callers, lastState, wjob, token, held, dpc, calls,
                   history>>

(* Mutant of LookAgain: parks without the second look.                     *)
ParkWithoutLooking(w) ==
    /\ wpc[w] = "parking"
    /\ WGoto(w, "doubt")
    /\ UNCHANGED <<lock, shared, callers, lastState, wjob, token, held, dpc,
                   calls, history>>

(* One last look at the state word, then at shutdown.                      *)
LookAgain(w) ==
    /\ wpc[w] = "parking"
    /\ WGoto(w, IF state # lastState[w] THEN "unparked" ELSE "doubt")
    /\ UNCHANGED <<lock, shared, callers, lastState, wjob, token, held, dpc,
                   calls, history>>

Park(w) ==
    /\ wpc[w] = "doubt"
    /\ WGoto(w, IF shutdown THEN "unparked" ELSE "parked")
    /\ UNCHANGED <<lock, shared, callers, lastState, wjob, token, held, dpc,
                   calls, history>>

(* thread::park returns when it finds the token ...                        *)
Unpark(w) ==
    /\ wpc[w] = "parked"
    /\ token[w]
    /\ token' = [token EXCEPT ![w] = FALSE]
    /\ WGoto(w, "unparked")
    /\ UNCHANGED <<lock, shared, callers, lastState, wjob, held, dpc, calls,
                   history>>

(* ... or spuriously.                                                      *)
SpuriousUnpark(w) ==
    /\ wpc[w] = "parked"
    /\ WGoto(w, "unparked")
    /\ UNCHANGED <<lock, shared, callers, lastState, wjob, token, held, dpc,
                   calls, history>>

(* ParkedGuard::drop                                                       *)
LeaveParked(w) ==
    /\ wpc[w] = "unparked"
    /\ parkedCount' = parkedCount - 1
    /\ WGoto(w, "top")
    /\ UNCHANGED <<lock, job, nextRow, state, pending, panicked, payload,
                   shutdown, callers, lastState, wjob, token, held, dpc, calls,
                   history>>

(* Mutant of SkipDispatch: an idle worker answers too.                     *)
SkipAndDecrement(w) ==
    /\ wpc[w] = "dispatched"
    /\ ActiveBarrier
    /\ w >= lastState[w].active
    /\ WGoto(w, "done")
    /\ UNCHANGED <<lock, shared, callers, lastState, wjob, token, held, dpc,
                   calls, history>>

(* An idle worker of the prefill pool skips without touching the job.      *)
SkipDispatch(w) ==
    /\ wpc[w] = "dispatched"
    /\ ActiveBarrier
    /\ w >= lastState[w].active
    /\ WGoto(w, "top")
    /\ UNCHANGED <<lock, shared, callers, lastState, wjob, token, held, dpc,
                   calls, history>>

(* The job is copied out of the cell; an idle worker of the decode pool    *)
(* goes straight to its decrement.                                         *)
ReadJob(w) ==
    /\ wpc[w] = "dispatched"
    /\ ActiveBarrier => w < lastState[w].active
    /\ wjob' = [wjob EXCEPT ![w] = job]
    /\ WGoto(w, IF job = NoJob THEN (IF ActiveBarrier THEN "done" ELSE "top")
                ELSE IF ActiveBarrier \/ w < job.args.active THEN "steal"
                ELSE "done")
    /\ UNCHANGED <<lock, shared, callers, lastState, token, held, dpc, calls,
                   history>>

WorkerClaim(w) ==
    /\ wpc[w] = "steal"
    /\ Claim(w, wjob[w].args)
    /\ WGoto(w, IF nextRow < wjob[w].args.rows THEN "run" ELSE "done")
    /\ UNCHANGED <<lock, job, state, pending, parkedCount, panicked, payload,
                   shutdown, callers, lastState, wjob, token, dpc, calls, history>>

WorkerRun(w) ==
    /\ wpc[w] = "run"
    /\ NestedEnds
    /\ ran' = [ran EXCEPT ![wjob[w].caller] = @ \cup held[w]]
    /\ held' = [held EXCEPT ![w] = {}]
    /\ WGoto(w, "steal")
    /\ UNCHANGED <<lock, shared, callers, lastState, wjob, token, dpc, calls,
                   failed, outcome>>

WorkerPanic(w) ==
    /\ wpc[w] = "run"
    /\ NestedEnds
    /\ \E r \in held[w] :
          ran' = [ran EXCEPT ![wjob[w].caller] = @ \cup RowsBefore(held[w], r)]
    /\ failed' = [failed EXCEPT ![wjob[w].caller] = TRUE]
    /\ held' = [held EXCEPT ![w] = {}]
    /\ WGoto(w, "caught")
    /\ UNCHANGED <<lock, shared, callers, lastState, wjob, token, dpc, calls,
                   outcome>>

(* The first payload is kept, a later one forgotten.                       *)
StorePayload(w) ==
    /\ wpc[w] = "caught"
    /\ payload' = IF payload = 0 THEN lastState[w].epoch ELSE payload
    /\ WGoto(w, "flag")
    /\ UNCHANGED <<lock, job, nextRow, state, pending, parkedCount, panicked,
                   shutdown, callers, lastState, wjob, token, held, dpc, calls,
                   history>>

FlagPanic(w) ==
    /\ wpc[w] = "flag"
    /\ panicked' = TRUE
    /\ WGoto(w, "done")
    /\ UNCHANGED <<lock, job, nextRow, state, pending, parkedCount, payload,
                   shutdown, callers, lastState, wjob, token, held, dpc, calls,
                   history>>

Decrement(w) ==
    /\ wpc[w] = "done"
    /\ pending' = pending - 1
    /\ wjob' = [wjob EXCEPT ![w] = NoJob]
    /\ WGoto(w, "top")
    /\ UNCHANGED <<lock, job, nextRow, state, parkedCount, panicked, payload,
                   shutdown, callers, lastState, token, held, dpc, calls, history>>

(***************************************************************************)
(* RowPool::drop, by whoever held the last reference: no call is running.  *)
(***************************************************************************)

BeginDrop ==
    /\ dpc = "live"
    /\ \A c \in Callers : cpc[c] = "idle"
    /\ shutdown' = TRUE
    /\ dpc' = "bump"
    /\ UNCHANGED <<lock, job, nextRow, state, pending, parkedCount, panicked,
                   payload, callers, workers, held, calls, history>>

DropBump ==
    /\ dpc = "bump"
    /\ state' = [state EXCEPT !.epoch = @ + 1]
    /\ dpc' = "unpark"
    /\ UNCHANGED <<lock, job, nextRow, pending, parkedCount, panicked, payload,
                   shutdown, callers, workers, held, calls, history>>

(* Mutant of DropUnpark: parked workers are not woken.                     *)
DropWithoutUnpark ==
    /\ dpc = "unpark"
    /\ dpc' = "join"
    /\ UNCHANGED <<lock, shared, callers, workers, held, calls, history>>

DropUnpark ==
    /\ dpc = "unpark"
    /\ token' = [w \in Workers |-> TRUE]
    /\ dpc' = "join"
    /\ UNCHANGED <<lock, shared, callers, wpc, lastState, wjob, held, calls,
                   history>>

Join ==
    /\ dpc = "join"
    /\ \A w \in Workers : wpc[w] = "exit"
    /\ dpc' = "gone"
    /\ UNCHANGED <<lock, shared, callers, workers, held, calls, history>>

Gone == dpc = "gone" /\ UNCHANGED vars

----------------------------------------------------------------------------
CallerStep(c) ==
    \/ TryLock(c) \/ RunSerial(c) \/ ClearStalePanic(c) \/ WriteJob(c)
    \/ SetPending(c) \/ BumpState(c) \/ WakeParked(c) \/ CallerClaim(c)
    \/ CallerRun(c) \/ CallerPanic(c) \/ Drain(c) \/ CheckPanic(c) \/ Leave(c)

WorkerStep(w) ==
    \/ CheckShutdown(w) \/ SeeState(w) \/ Spin(w) \/ EnterParked(w)
    \/ LookAgain(w) \/ Park(w) \/ Unpark(w) \/ LeaveParked(w)
    \/ SkipDispatch(w) \/ ReadJob(w) \/ WorkerClaim(w) \/ WorkerRun(w)
    \/ WorkerPanic(w) \/ StorePayload(w) \/ FlagPanic(w) \/ Decrement(w)

DropStep == BeginDrop \/ DropBump \/ DropUnpark \/ Join

Next ==
    \/ \E c \in Callers : Call(c) \/ CallerStep(c)
    \/ \E w \in Workers : WorkerStep(w) \/ SpuriousUnpark(w)
    \/ DropStep
    \/ Gone

Spec == Init /\ [][Next]_vars

(* The operating system runs every thread that can run; it owes nobody a   *)
(* spurious wakeup, a call, or the start of a drop.                        *)
FairSpec ==
    /\ Spec
    /\ \A c \in Callers : WF_vars(CallerStep(c))
    /\ \A w \in Workers : WF_vars(WorkerStep(w))
    /\ WF_vars(DropBump \/ DropUnpark \/ Join)

----------------------------------------------------------------------------
(***************************************************************************)
(* Properties.                                                             *)
(***************************************************************************)

CallerLabels == {"idle", "lock", "serial", "stale", "job", "pending", "bump",
                 "wake", "steal", "run", "drain", "check", "return", "raise"}
WorkerLabels == {"top", "load", "idle", "seen", "parking", "doubt", "parked",
                 "unparked", "dispatched", "steal", "run", "caught", "flag", "done", "exit"}

(* Every variable holds a value of its type.                               *)
TypeOK ==
    /\ lock \in Callers \cup {NoCaller}
    /\ job \in Job
    /\ nextRow \in Nat
    /\ state \in Word
    /\ pending \in Int
    /\ parkedCount \in Int
    /\ panicked \in BOOLEAN
    /\ payload \in Nat
    /\ shutdown \in BOOLEAN
    /\ cpc \in [Callers -> CallerLabels]
    /\ call \in [Callers -> Args]
    /\ unwinding \in [Callers -> BOOLEAN]
    /\ wpc \in [Workers -> WorkerLabels]
    /\ lastState \in [Workers -> Word]
    /\ wjob \in [Workers -> Job]
    /\ token \in [Workers -> BOOLEAN]
    /\ held \in [Slots -> SUBSET Nat]
    /\ dpc \in {"live", "bump", "unpark", "join", "gone"}
    /\ calls \in Nat
    /\ ran \in [Callers -> SUBSET Nat]
    /\ failed \in [Callers -> BOOLEAN]
    /\ outcome \in [Callers -> {"none", "ok", "panic"}]

(* The caller's frame is published and not yet known to be drained.        *)
InFlight == {"wake", "steal", "run", "drain"}

(* A worker at one of these holds the job's raw pointers.                  *)
HasJob == {"steal", "run", "caught", "flag", "done"}

(* Will this dispatched worker read the job cell?                          *)
WillRead(w) == wpc[w] = "dispatched" /\ (ActiveBarrier => w < lastState[w].active)

(* No pointer outlives its dispatch (the safety comments on Job, Shared    *)
(* and worker_loop): a worker that holds a job, or is about to copy it out *)
(* of the cell, is serving the dispatch that owns the lock, whose frame is *)
(* still waiting for it.  It follows that a row closure that re-enters the *)
(* pool always finds the lock held, and runs serially.                     *)
NoUseAfterReturn ==
    \A w \in Workers :
        wpc[w] \in HasJob \/ WillRead(w) =>
            /\ lock # NoCaller
            /\ cpc[lock] \in InFlight
            /\ job = [caller |-> lock, args |-> call[lock]]
            /\ lastState[w] = state
            /\ wpc[w] \in HasJob => wjob[w] = job

(* Does the current dispatch still wait for worker w?                      *)
Owes(w) ==
    /\ ActiveBarrier => w < state.active
    /\ lastState[w] # state \/ wpc[w] \in {"seen", "dispatched"} \cup HasJob

(* The barrier counts exactly the workers that have still to come by, in   *)
(* both barrier shapes, and is at zero whenever no dispatch is in flight:  *)
(* a worker never answers for an epoch twice, or for one it should skip.   *)
BarrierCountsDebtors ==
    /\ \A c \in Callers : cpc[c] \in InFlight =>
            pending = Cardinality({w \in Workers : Owes(w)})
    /\ (\A c \in Callers : cpc[c] \notin InFlight \cup {"bump"}) => pending = 0

(* No lost wakeup: a worker the dispatch waits for is never asleep without *)
(* a token once the dispatcher has gone past its look at parked_count.     *)
NoSleepingDebtor ==
    \A w \in Workers : \A c \in Callers :
        /\ cpc[c] \in InFlight \ {"wake"}
        /\ Owes(w)
        /\ wpc[w] = "parked"
        => token[w]

(* The payload a dispatch re-raises was caught in that same dispatch, even *)
(* when an earlier one left a panic behind because its caller panicked too *)
RaisesOwnPayload ==
    \A c \in Callers :
        /\ cpc[c] \in InFlight => payload \in {0, state.epoch}
        /\ cpc[c] = "check" => payload = IF panicked THEN state.epoch ELSE 0

(* The pool implements RowDispatch: each row of a call runs exactly once   *)
(* before it returns, none after, and a call panics iff a closure of its   *)
(* own did, on whichever thread.                                           *)
Dispatch == INSTANCE RowDispatch WITH
    NoCall <- NoCaller,
    rows <- [c \in Callers |-> IF cpc[c] = "idle" THEN NoCaller ELSE call[c].rows]

ImplementsDispatch == Dispatch!Spec

(* "always sound, never deadlocks" (dispatch_body): every call ends, with  *)
(* another caller that contends for the lock, row closures that dispatch   *)
(* into the pool themselves, workers that park, wakeups that are spurious  *)
(* and panics on any thread.                                               *)
CallEnds == \A c \in Callers : cpc[c] # "idle" ~> cpc[c] = "idle"

(* Dropping the pool joins every worker, parked ones too.                  *)
DropEnds == dpc = "bump" ~> dpc = "gone"

----------------------------------------------------------------------------
(***************************************************************************)
(* The inductive invariant behind NoUseAfterReturn and                     *)
(* BarrierCountsDebtors (proved in RowPoolProofs).                         *)
(***************************************************************************)

UnderLock == {"stale", "job", "pending", "bump", "check"} \cup InFlight

(* Dispatches exclude each other, and are wide enough to need the pool.    *)
LockInv ==
    \A c \in Callers :
        /\ cpc[c] \in UnderLock => lock = c
        /\ lock = c => cpc[c] \in UnderLock \cup {"return", "raise"}
        /\ cpc[c] \in UnderLock \cup {"lock"} => call[c].active \in 2 .. NumThreads
        /\ cpc[c] \in {"pending", "bump"} \cup InFlight =>
                job = [caller |-> c, args |-> call[c]]
        /\ cpc[c] \in InFlight /\ ActiveBarrier => state.active = call[c].active

(* The drop starts after the last call and bumps the word after shutdown.  *)
DropInv ==
    /\ shutdown <=> dpc # "live"
    /\ shutdown => \A c \in Callers : cpc[c] = "idle"

(* No worker is ahead of the word, and an epoch names one word.            *)
EpochInv ==
    \A w \in Workers :
        /\ lastState[w].epoch <= state.epoch
        /\ lastState[w].epoch = state.epoch => lastState[w] = state

(* Has worker w an epoch to answer for that it has already seen?           *)
Serving(w) ==
    \/ wpc[w] \in HasJob
    \/ /\ \/ wpc[w] = "dispatched"
          \/ wpc[w] = "seen" /\ ~shutdown
       /\ ActiveBarrier => w < lastState[w].active

ServingInv ==
    \A w \in Workers :
        /\ Serving(w) => /\ lock # NoCaller
                         /\ cpc[lock] \in InFlight
                         /\ lastState[w] = state
        /\ wpc[w] \in HasJob => /\ wjob[w] = job
                                /\ ActiveBarrier => w < lastState[w].active

(* Between dispatches nobody owes anything; a drained dispatch leaves the  *)
(* pool in this state and the next one starts from it.                     *)
QuietInv ==
    (\A c \in Callers : cpc[c] \notin InFlight) /\ ~shutdown =>
        \A w \in Workers : ~Owes(w)

PendingInv ==
    /\ BarrierCountsDebtors
    /\ \A c \in Callers : cpc[c] = "bump" =>
            pending = IF ActiveBarrier THEN call[c].active - 1 ELSE NumThreads - 1

BarrierInv ==
    /\ TypeOK
    /\ LockInv
    /\ DropInv
    /\ EpochInv
    /\ ServingInv
    /\ QuietInv
    /\ PendingInv

(***************************************************************************)
(* What ImplementsDispatch and RaisesOwnPayload rest on, beside BarrierInv *)
(* (proved in RowPoolProofs): where each row of a call is, and what a      *)
(* panic has left so far.                                                  *)
(***************************************************************************)

CallRows(c) == 0 .. call[c].rows - 1
Claimed(c) == {r \in CallRows(c) : r < nextRow}
AtPanic == {w \in Workers : wpc[w] \in {"caught", "flag"}}

(* A call has run nothing until it is published or takes the serial path.  *)
FreshInv ==
    \A c \in Callers :
        /\ cpc[c] # "idle" => call[c].rows \in RowCounts
        /\ cpc[c] \in {"idle", "lock", "serial", "stale", "job", "pending", "bump"} =>
                ran[c] = {} /\ ~failed[c]
        /\ cpc[c] \in {"pending", "bump"} => nextRow = 0
        /\ unwinding[c] => failed[c] /\ cpc[c] \in {"drain", "raise"}

(* Rows are held between a claim and the run of it, and by one slot each:  *)
(* below the cursor a row has run, or is held, or a panic has taken it.    *)
HeldInv ==
    /\ \A w \in Workers : held[w] # {} => wpc[w] = "run"
    /\ held[0] # {} => \E c \in Callers : cpc[c] = "run"
    /\ \A t, u \in Slots : t # u => held[t] \cap held[u] = {}

ClaimInv ==
    \A c \in Callers : cpc[c] \in InFlight =>
        /\ \A t \in Slots : held[t] \subseteq Claimed(c) \ ran[c]
        /\ ran[c] \subseteq Claimed(c)
        /\ ~failed[c] => \A r \in Claimed(c) \ ran[c] : \E t \in Slots : r \in held[t]
        /\ cpc[c] = "drain" /\ ~unwinding[c] => call[c].rows <= nextRow

(* A dispatch has failed iff its caller unwinds, or the flag is up or on   *)
(* its way up; a payload is stored before the flag goes up, and is its own *)
PanicInv ==
    /\ payload # 0 <=> panicked \/ \E w \in Workers : wpc[w] = "flag"
    /\ \A c \in Callers : cpc[c] \in {"job", "pending", "bump"} => ~panicked
    /\ \A c \in Callers : cpc[c] \in InFlight =>
            /\ failed[c] <=> unwinding[c] \/ panicked \/ AtPanic # {}
            /\ payload \in {0, state.epoch} /\ state.epoch # 0

(* How a call ends follows from what its rows did.                         *)
EndInv ==
    \A c \in Callers :
        /\ cpc[c] = "check" => /\ failed[c] <=> panicked
                               /\ payload \in {0, state.epoch}
        /\ cpc[c] \in {"check", "return"} /\ ~failed[c] => ran[c] = CallRows(c)
        /\ cpc[c] = "return" => ~failed[c]
        /\ cpc[c] = "raise" => failed[c]

DispatchInv ==
    /\ BarrierInv
    /\ FreshInv
    /\ HeldInv
    /\ ClaimInv
    /\ PanicInv
    /\ EndInv

(* What NoSleepingDebtor rests on: parked_count counts the workers inside  *)
(* ParkedGuard, and a debtor that got past its second look before it owed  *)
(* has been given a token.                                                 *)
Guarded == {w \in Workers : wpc[w] \in {"parking", "doubt", "parked", "unparked"}}

SleepInv ==
    /\ parkedCount = Cardinality(Guarded)
    /\ \A w \in Workers : \A c \in Callers :
          /\ cpc[c] \in InFlight \ {"wake"}
          /\ Owes(w)
          /\ wpc[w] \in {"doubt", "parked"}
          => token[w]
=============================================================================
