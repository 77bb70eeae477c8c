--------------------------- MODULE RowPoolProofs ---------------------------
(***************************************************************************)
(* Proofs about RowPool, for every pool width, both barrier shapes, any    *)
(* number of callers and any arguments they pass.                          *)
(***************************************************************************)
EXTENDS RowPool, TLAPS, FiniteSetTheorems

----------------------------------------------------------------------------
(* The arithmetic of a dispatch.                                           *)

(* Rounding a division up gives a natural number.                          *)
LEMMA CeilDivType ==
    ASSUME NEW a \in Nat, NEW b \in Nat \ {0}
    PROVE  CeilDiv(a, b) \in Nat
BY DEF CeilDiv

(* The greater of two naturals is one of them and not below either.        *)
LEMMA MaxPair ==
    ASSUME NEW a \in Nat, NEW b \in Nat
    PROVE  Max({a, b}) \in {a, b} /\ Max({a, b}) >= a /\ Max({a, b}) >= b
<1>1. \E x \in {a, b} : \A y \in {a, b} : x >= y
  <2>1. CASE a >= b
    BY <2>1
  <2>2. CASE b >= a
    BY <2>2
  <2>3. QED
    BY <2>1, <2>2
<1>2. QED
  BY <1>1 DEF Max

(* The least of three naturals is one of them and not above any.           *)
LEMMA MinTriple ==
    ASSUME NEW a \in Nat, NEW b \in Nat, NEW c \in Nat
    PROVE  /\ Min({a, b, c}) \in {a, b, c}
           /\ Min({a, b, c}) <= a /\ Min({a, b, c}) <= b /\ Min({a, b, c}) <= c
<1>1. \E x \in {a, b, c} : \A y \in {a, b, c} : x =< y
  OBVIOUS
<1>2. QED
  BY <1>1 DEF Min

(* The greatest of three naturals is one of them and not below any.        *)
LEMMA MaxTriple ==
    ASSUME NEW a \in Nat, NEW b \in Nat, NEW c \in Nat
    PROVE  /\ Max({a, b, c}) \in {a, b, c}
           /\ Max({a, b, c}) >= a /\ Max({a, b, c}) >= b /\ Max({a, b, c}) >= c
<1>1. \E x \in {a, b, c} : \A y \in {a, b, c} : x >= y
  OBVIOUS
<1>2. QED
  BY <1>1 DEF Max

(* A dispatch never counts more participants than the pool has slots.      *)
LEMMA ActiveWorkersType ==
    ASSUME NEW rows \in RowCounts, NEW minRows \in MinRows, NEW cap \in ActiveCaps
    PROVE  /\ ActiveWorkers(rows, minRows, cap) \in Nat
           /\ ActiveWorkers(rows, minRows, cap) <= NumThreads
<1> DEFINE even == CeilDiv(rows, NumThreads)
           perWorker == Max({even, minRows})
           fanout == CeilDiv(rows, perWorker)
<1>1. /\ rows \in Nat /\ minRows \in Nat \ {0} /\ cap \in Nat
      /\ NumThreads \in Nat \ {0}
  BY PoolAssumption, ArgumentAssumption
<1>2. even \in Nat
  BY <1>1, CeilDivType
<1>3. perWorker \in Nat \ {0}
  <2>1. perWorker \in {even, minRows} /\ perWorker >= minRows
    BY <1>1, <1>2, MaxPair
  <2> HIDE DEF perWorker, even
  <2>2. QED
    BY <2>1, <1>1, <1>2
<1>4. fanout \in Nat
  <2> HIDE DEF perWorker
  <2>1. QED
    BY <1>1, <1>3, CeilDivType
<1>5. Min({fanout, NumThreads, cap}) \in Nat /\ Min({fanout, NumThreads, cap}) <= NumThreads
  <2> HIDE DEF fanout
  <2>1. QED
    BY <1>1, <1>4, MinTriple
<1>6. QED
  BY <1>5 DEF ActiveWorkers

(* The chunk of a parallel dispatch is at least one row.                   *)
LEMMA ChunkRowsType ==
    ASSUME NEW rows \in Nat, NEW active \in Nat \ {0}, NEW floor \in Nat \ {0}
    PROVE  ChunkRows(rows, active, floor) \in Nat \ {0}
<1> DEFINE parts == active * StealChunksPerWorker
           even == CeilDiv(rows, parts)
<1>1. parts \in Nat \ {0}
  BY PoolAssumption
<1>2. even \in Nat
  <2> HIDE DEF parts
  <2>1. QED
    BY <1>1, CeilDivType
<1> HIDE DEF even
<1>3. Max({even, floor}) \in {even, floor} /\ Max({even, floor}) >= floor
  BY <1>2, MaxPair
<1>4. Max({even, floor}) \in Nat \ {0}
  BY <1>2, <1>3
<1>5. QED
  BY <1>4 DEF ChunkRows, even

(* The progress guarantee of worker_chunk_rows: whatever the weight of its *)
(* core, no slot ever claims zero rows, so no steal loop spins for ever.   *)
LEMMA WorkerChunkRowsPositive ==
    ASSUME NEW t \in Slots, NEW args \in Args
    PROVE  WorkerChunkRows(t, args) \in Nat \ {0}
<1>1. /\ args.chunk \in Nat \ {0} /\ args.floor \in Nat \ {0}
      /\ Weight[t] \in Nat /\ WeightFull \in Nat \ {0}
  BY PoolAssumption DEF Args
<1> DEFINE scaled == (args.chunk * Weight[t]) \div WeightFull
<1>2. scaled \in Nat
  BY <1>1
<1>3. Max({scaled, args.floor, 1}) \in Nat \ {0}
  <2> HIDE DEF scaled
  <2>1. /\ Max({scaled, args.floor, 1}) \in {scaled, args.floor, 1}
        /\ Max({scaled, args.floor, 1}) >= 1
    BY <1>1, <1>2, MaxTriple
  <2>2. QED
    BY <2>1, <1>1, <1>2
<1>4. QED
  BY <1>1, <1>3 DEF WorkerChunkRows

----------------------------------------------------------------------------
(* Type correctness.                                                       *)

(* What the claims of a slot are made of.                                  *)
LEMMA ClaimType ==
    ASSUME NEW t \in Slots, NEW args \in Args, TypeOK, Claim(t, args)
    PROVE  /\ nextRow' \in Nat
           /\ nextRow' > nextRow
           /\ held' \in [Slots -> SUBSET Nat]
           /\ \A u \in Slots \ {t} : held'[u] = held[u]
           /\ held'[t] = {r \in nextRow .. nextRow' - 1 : r < args.rows}
<1>1. WorkerChunkRows(t, args) \in Nat \ {0}
  BY WorkerChunkRowsPositive
<1>2. nextRow \in Nat /\ held \in [Slots -> SUBSET Nat]
  BY DEF TypeOK
<1>3. nextRow' = nextRow + WorkerChunkRows(t, args)
  BY DEF Claim
<1>4. nextRow' \in Nat /\ nextRow' > nextRow
  BY <1>1, <1>2, <1>3
<1>5. held' = [held EXCEPT ![t] = {r \in nextRow .. nextRow' - 1 : r < args.rows}]
  BY Zenon DEF Claim
<1>6. {r \in nextRow .. nextRow' - 1 : r < args.rows} \in SUBSET Nat
  <2> DEFINE hi == nextRow' - 1
  <2>1. \A r \in nextRow .. hi : r \in Nat
    BY <1>2, <1>4
  <2>2. QED
    BY <2>1
<1>7. QED
  BY <1>2, <1>4, <1>5, <1>6

(* The pool starts well typed.                                             *)
LEMMA TypeInit == Init => TypeOK
<1> SUFFICES ASSUME Init PROVE TypeOK
  OBVIOUS
<1>1. NoArgs \in Args
  BY DEF NoArgs, Args
<1>2. NoJob \in Job
  BY <1>1 DEF NoJob, Job
<1>3. [epoch |-> 0, active |-> 0] \in Word
  BY DEF Word
<1>4. /\ lock \in Callers \cup {NoCaller} /\ nextRow \in Nat
      /\ pending \in Int /\ parkedCount \in Int /\ payload \in Nat /\ calls \in Nat
  BY DEF Init
<1>9. /\ panicked \in BOOLEAN /\ shutdown \in BOOLEAN
      /\ dpc \in {"live", "bump", "unpark", "join", "gone"}
  BY Zenon DEF Init
<1>8. job \in Job /\ state \in Word
  BY <1>2, <1>3, Zenon DEF Init
<1>5. /\ cpc \in [Callers -> CallerLabels] /\ call \in [Callers -> Args]
      /\ unwinding \in [Callers -> BOOLEAN] /\ held \in [Slots -> SUBSET Nat]
      /\ ran \in [Callers -> SUBSET Nat] /\ failed \in [Callers -> BOOLEAN]
      /\ outcome \in [Callers -> {"none", "ok", "panic"}]
  BY <1>1 DEF Init, CallerLabels
<1>6. /\ wpc \in [Workers -> WorkerLabels] /\ lastState \in [Workers -> Word]
      /\ wjob \in [Workers -> Job] /\ token \in [Workers -> BOOLEAN]
  BY <1>2, <1>3 DEF Init, WorkerLabels
<1>7. QED
  BY <1>4, <1>9, <1>8, <1>5, <1>6 DEF TypeOK

(* Every step of a caller, a worker or the drop keeps the types.           *)
LEMMA TypeStep == TypeOK /\ [Next]_vars => TypeOK'
<1> SUFFICES ASSUME TypeOK, [Next]_vars PROVE TypeOK'
  OBVIOUS
<1> USE DEF TypeOK, vars, shared, callers, workers, history, Goto, WGoto
<1>a. /\ 0 \in Slots /\ Workers \subseteq Slots /\ NumThreads \in Nat \ {0}
  BY PoolAssumption DEF Slots, Workers
<1>b. NoArgs \in Args /\ NoJob \in Job
  BY DEF NoArgs, Args, NoJob, Job
<1>c. \A a \in Args : a.rows \in Nat /\ a.active \in Nat
  BY DEF Args
<1>1. ASSUME NEW c \in Callers, Call(c) PROVE TypeOK'
  <2>1. PICK rows \in RowCounts, minRows \in MinRows, floor \in MinChunks,
             cap \in ActiveCaps :
          LET active == ActiveWorkers(rows, minRows, cap)
              parallel == active > 1
          IN  /\ call' = [call EXCEPT ![c] =
                    [rows |-> rows, active |-> active, floor |-> floor,
                     chunk |-> IF parallel
                               THEN ChunkRows(rows, active, floor) ELSE 1]]
              /\ Goto(c, IF parallel THEN "lock" ELSE "serial")
    BY <1>1 DEF Call
  <2> DEFINE active == ActiveWorkers(rows, minRows, cap)
             chunk == IF active > 1 THEN ChunkRows(rows, active, floor) ELSE 1
  <2>2. rows \in Nat /\ floor \in Nat \ {0} /\ active \in Nat
    BY ArgumentAssumption, ActiveWorkersType
  <2>3. chunk \in Nat \ {0}
    <3> HIDE DEF active
    <3>1. CASE active > 1
      BY <2>2, <3>1, ChunkRowsType
    <3>2. CASE ~(active > 1)
      BY <3>2
    <3>3. QED
      BY <3>1, <3>2
  <2>4. call' = [call EXCEPT ![c] = [rows |-> rows, active |-> active,
                                     floor |-> floor, chunk |-> chunk]]
    BY <2>1
  <2>5. cpc' = [cpc EXCEPT ![c] = IF active > 1 THEN "lock" ELSE "serial"]
    BY <2>1
  <2> HIDE DEF active, chunk
  <2>6. call' \in [Callers -> Args]
    BY <2>2, <2>3, <2>4 DEF Args
  <2>7. cpc' \in [Callers -> CallerLabels]
    BY <2>5 DEF CallerLabels
  <2>8. QED
    BY <1>1, <2>6, <2>7 DEF Call
<1>2. ASSUME NEW c \in Callers, TryLock(c) PROVE TypeOK'
  BY <1>2 DEF TryLock, CallerLabels
<1>3. ASSUME NEW c \in Callers, RunSerial(c) PROVE TypeOK'
  <2>1. ran' \in [Callers -> SUBSET Nat]
    <3>1. \A n \in Nat : 0 .. n - 1 \subseteq Nat
      OBVIOUS
    <3>2. call[c].rows \in Nat
      BY <1>c
    <3>3. \A r \in 0 .. call[c].rows - 1 : r \in Nat
      BY <3>2
    <3>4. QED
      BY <1>3, <3>1, <3>2, <3>3 DEF RunSerial
  <2>2. cpc' \in [Callers -> CallerLabels]
    BY <1>3 DEF RunSerial, CallerLabels
  <2>3. QED
    BY <1>3, <2>1, <2>2 DEF RunSerial
<1>4. ASSUME NEW c \in Callers, ClearStalePanic(c) PROVE TypeOK'
  BY <1>4 DEF ClearStalePanic, CallerLabels
<1>5. ASSUME NEW c \in Callers, WriteJob(c) PROVE TypeOK'
  <2>1. job' \in Job
    BY <1>5 DEF WriteJob, Job
  <2>2. QED
    BY <1>5, <2>1 DEF WriteJob, CallerLabels
<1>6. ASSUME NEW c \in Callers, SetPending(c) PROVE TypeOK'
  BY <1>6 DEF SetPending, CallerLabels
<1>7. ASSUME NEW c \in Callers, BumpState(c) PROVE TypeOK'
  <2>1. state' \in Word
    <3>1. state.epoch + 1 \in Nat /\ state.active \in Nat /\ call[c].active \in Nat
      BY <1>c DEF Word
    <3>2. QED
      BY <1>7, <3>1 DEF BumpState, Word
  <2>2. QED
    BY <1>7, <2>1 DEF BumpState, CallerLabels
<1>8. ASSUME NEW c \in Callers, WakeParked(c) PROVE TypeOK'
  BY <1>8 DEF WakeParked, CallerLabels
<1>9. ASSUME NEW c \in Callers, CallerClaim(c) PROVE TypeOK'
  <2>1. nextRow' \in Nat /\ held' \in [Slots -> SUBSET Nat]
    BY <1>9, <1>a, ClaimType DEF CallerClaim
  <2>2. cpc' \in [Callers -> CallerLabels]
    BY <1>9 DEF CallerClaim, CallerLabels
  <2>3. QED
    BY <1>9, <2>1, <2>2 DEF CallerClaim
<1>10. ASSUME NEW c \in Callers, CallerRun(c) PROVE TypeOK'
  <2>1. ran' \in [Callers -> SUBSET Nat] /\ held' \in [Slots -> SUBSET Nat]
    BY <1>10, <1>a DEF CallerRun
  <2>2. QED
    BY <1>10, <2>1 DEF CallerRun, CallerLabels
<1>11. ASSUME NEW c \in Callers, CallerPanic(c) PROVE TypeOK'
  <2>1. ran' \in [Callers -> SUBSET Nat] /\ held' \in [Slots -> SUBSET Nat]
    BY <1>11, <1>a DEF CallerPanic, RowsBefore
  <2>2. QED
    BY <1>11, <2>1 DEF CallerPanic, CallerLabels
<1>12. ASSUME NEW c \in Callers, Drain(c) PROVE TypeOK'
  BY <1>12 DEF Drain, CallerLabels
<1>13. ASSUME NEW c \in Callers, CheckPanic(c) PROVE TypeOK'
  BY <1>13 DEF CheckPanic, CallerLabels
<1>14. ASSUME NEW c \in Callers, Leave(c) PROVE TypeOK'
  <2>1. /\ lock' \in Callers \cup {NoCaller}
        /\ outcome' \in [Callers -> {"none", "ok", "panic"}]
        /\ ran' \in [Callers -> SUBSET Nat]
        /\ call' \in [Callers -> Args]
    BY <1>14, <1>b DEF Leave
  <2>2. /\ failed' \in [Callers -> BOOLEAN]
        /\ unwinding' \in [Callers -> BOOLEAN]
        /\ cpc' \in [Callers -> CallerLabels]
    BY <1>14 DEF Leave, CallerLabels
  <2>3. QED
    BY <1>14, <2>1, <2>2 DEF Leave
<1>15. ASSUME NEW w \in Workers, CheckShutdown(w) PROVE TypeOK'
  BY <1>15 DEF CheckShutdown, WorkerLabels
<1>16. ASSUME NEW w \in Workers, SeeState(w) PROVE TypeOK'
  BY <1>16 DEF SeeState, WorkerLabels
<1>17. ASSUME NEW w \in Workers, Spin(w) PROVE TypeOK'
  BY <1>17 DEF Spin, WorkerLabels
<1>18. ASSUME NEW w \in Workers, EnterParked(w) PROVE TypeOK'
  BY <1>18 DEF EnterParked, WorkerLabels
<1>19. ASSUME NEW w \in Workers, LookAgain(w) PROVE TypeOK'
  BY <1>19 DEF LookAgain, WorkerLabels
<1>19p. ASSUME NEW w \in Workers, Park(w) PROVE TypeOK'
  BY <1>19p DEF Park, WorkerLabels
<1>20. ASSUME NEW w \in Workers, Unpark(w) PROVE TypeOK'
  BY <1>20 DEF Unpark, WorkerLabels
<1>21. ASSUME NEW w \in Workers, LeaveParked(w) PROVE TypeOK'
  BY <1>21 DEF LeaveParked, WorkerLabels
<1>22. ASSUME NEW w \in Workers, SkipDispatch(w) PROVE TypeOK'
  BY <1>22 DEF SkipDispatch, WorkerLabels
<1>23. ASSUME NEW w \in Workers, ReadJob(w) PROVE TypeOK'
  BY <1>23 DEF ReadJob, WorkerLabels
<1>24. ASSUME NEW w \in Workers, WorkerClaim(w) PROVE TypeOK'
  <2>1. wjob[w].args \in Args
    BY DEF Job
  <2>2. nextRow' \in Nat /\ held' \in [Slots -> SUBSET Nat]
    BY <1>24, <1>a, <2>1, ClaimType DEF WorkerClaim
  <2>3. wpc' \in [Workers -> WorkerLabels]
    BY <1>24 DEF WorkerClaim, WorkerLabels
  <2>4. QED
    BY <1>24, <2>2, <2>3 DEF WorkerClaim
<1>25. ASSUME NEW w \in Workers, WorkerRun(w) PROVE TypeOK'
  <2>1. ran' \in [Callers -> SUBSET Nat] /\ held' \in [Slots -> SUBSET Nat]
    BY <1>25, <1>a DEF WorkerRun
  <2>2. QED
    BY <1>25, <2>1 DEF WorkerRun, WorkerLabels
<1>26. ASSUME NEW w \in Workers, WorkerPanic(w) PROVE TypeOK'
  <2>1. ran' \in [Callers -> SUBSET Nat] /\ held' \in [Slots -> SUBSET Nat]
    BY <1>26, <1>a DEF WorkerPanic, RowsBefore
  <2>2. QED
    BY <1>26, <2>1 DEF WorkerPanic, WorkerLabels
<1>27. ASSUME NEW w \in Workers, StorePayload(w) PROVE TypeOK'
  <2>1. lastState[w].epoch \in Nat
    BY DEF Word
  <2>2. payload' \in Nat
    BY <1>27, <2>1 DEF StorePayload
  <2>3. QED
    BY <1>27, <2>2 DEF StorePayload, WorkerLabels
<1>28. ASSUME NEW w \in Workers, FlagPanic(w) PROVE TypeOK'
  BY <1>28 DEF FlagPanic, WorkerLabels
<1>29. ASSUME NEW w \in Workers, Decrement(w) PROVE TypeOK'
  <2>1. wjob' \in [Workers -> Job]
    BY <1>29, <1>b DEF Decrement
  <2>2. QED
    BY <1>29, <2>1 DEF Decrement, WorkerLabels
<1>30. ASSUME NEW w \in Workers, SpuriousUnpark(w) PROVE TypeOK'
  BY <1>30 DEF SpuriousUnpark, WorkerLabels
<1>31. ASSUME BeginDrop PROVE TypeOK'
  BY <1>31 DEF BeginDrop, Word
<1>32. ASSUME DropBump PROVE TypeOK'
  BY <1>32 DEF DropBump, Word
<1>33. ASSUME DropUnpark PROVE TypeOK'
  BY <1>33 DEF DropUnpark, Word
<1>34. ASSUME Join PROVE TypeOK'
  BY <1>34 DEF Join, Word
<1>35. ASSUME UNCHANGED vars PROVE TypeOK'
  BY <1>35
<1>36. QED
  BY <1>1, <1>2, <1>3, <1>4, <1>5, <1>6, <1>7, <1>8, <1>9, <1>10, <1>11, <1>12, <1>13, <1>14, <1>15, <1>16, <1>17, <1>18, <1>19, <1>20, <1>21, <1>22, <1>23, <1>24, <1>25, <1>26, <1>27, <1>28, <1>29, <1>30, <1>31, <1>32, <1>33, <1>34, <1>35, <1>19p
     DEF Next, CallerStep, WorkerStep, DropStep, Gone

(* Every reachable state of a pool of any width is well typed.             *)
THEOREM RowPoolType == Spec => []TypeOK
BY TypeInit, TypeStep, PTL DEF Spec

----------------------------------------------------------------------------
(* The barrier: BarrierInv is inductive.                                   *)

(* What the workers' steps leave to the dispatcher.                        *)
LEMMA WorkerFrame ==
    ASSUME NEW w \in Workers, WorkerStep(w) \/ SpuriousUnpark(w)
    PROVE  UNCHANGED <<lock, job, state, shutdown, cpc, call, unwinding, dpc, calls>>
BY DEF WorkerStep, shared, callers, CheckShutdown, SeeState, Spin, EnterParked, LookAgain, Park, Unpark, LeaveParked, SkipDispatch, ReadJob, WorkerClaim, WorkerRun, WorkerPanic, StorePayload, FlagPanic, Decrement, SpuriousUnpark

(* What the dispatcher's steps leave to the workers.                       *)
LEMMA CallerFrame ==
    ASSUME NEW c \in Callers, Call(c) \/ CallerStep(c)
    PROVE  UNCHANGED <<parkedCount, shutdown, wpc, lastState, wjob, dpc>>
BY DEF CallerStep, shared, workers, Call, TryLock, RunSerial, ClearStalePanic, WriteJob, SetPending, BumpState, WakeParked, CallerClaim, CallerRun, CallerPanic, Drain, CheckPanic, Leave

(* Steps keep dispatches apart: only the holder of dispatch_lock is past its*)
(* try_lock, and the job cell and the state word are its own until it leaves.*)
LEMMA LockStep == BarrierInv /\ [Next]_vars => LockInv'
<1> SUFFICES ASSUME BarrierInv, [Next]_vars PROVE LockInv'
  OBVIOUS
<1> USE DEF BarrierInv, LockInv, TypeOK, UnderLock, InFlight, Goto
<1>1. ASSUME NEW c \in Callers, Call(c) PROVE LockInv'
  <2>1. PICK a \in Nat, n \in Nat, k \in Nat, f \in Nat :
            /\ call' = [call EXCEPT ![c] =
                    [rows |-> n, active |-> a, floor |-> f, chunk |-> k]]
            /\ Goto(c, IF a > 1 THEN "lock" ELSE "serial")
            /\ a <= NumThreads
    <3>1. PICK n \in RowCounts, m \in MinRows, f \in MinChunks, cap \in ActiveCaps :
            LET a == ActiveWorkers(n, m, cap)
                parallel == a > 1
            IN  /\ call' = [call EXCEPT ![c] =
                    [rows |-> n, active |-> a, floor |-> f,
                     chunk |-> IF parallel
                               THEN ChunkRows(n, a, f) ELSE 1]]
                /\ Goto(c, IF parallel THEN "lock" ELSE "serial")
      BY <1>1 DEF Call
    <3> DEFINE a == ActiveWorkers(n, m, cap)
               k == IF a > 1 THEN ChunkRows(n, a, f) ELSE 1
    <3>2. n \in Nat /\ f \in Nat \ {0} /\ a \in Nat /\ a <= NumThreads
      BY ArgumentAssumption, ActiveWorkersType
    <3>3. k \in Nat
      BY <3>2, ChunkRowsType
    <3>4. /\ call' = [call EXCEPT ![c] =
                  [rows |-> n, active |-> a, floor |-> f, chunk |-> k]]
          /\ Goto(c, IF a > 1 THEN "lock" ELSE "serial")
      BY <3>1
    <3> HIDE DEF a, k
    <3>5. QED
      BY <3>2, <3>3, <3>4
  <2>2. NumThreads \in Nat
    BY PoolAssumption
  <2>3. UNCHANGED <<lock, job, state>> /\ cpc[c] = "idle"
    BY <1>1 DEF Call, shared
  <2>4. QED
    BY <2>1, <2>2, <2>3
<1>2. ASSUME NEW c \in Callers, TryLock(c) PROVE LockInv'
  BY <1>2, PoolAssumption DEF TryLock, shared, callers
<1>3. ASSUME NEW c \in Callers, RunSerial(c) PROVE LockInv'
  BY <1>3, PoolAssumption DEF RunSerial, shared, callers
<1>4. ASSUME NEW c \in Callers, ClearStalePanic(c) PROVE LockInv'
  BY <1>4, PoolAssumption DEF ClearStalePanic, shared, callers
<1>5. ASSUME NEW c \in Callers, WriteJob(c) PROVE LockInv'
  BY <1>5, PoolAssumption DEF WriteJob, shared, callers
<1>6. ASSUME NEW c \in Callers, SetPending(c) PROVE LockInv'
  BY <1>6, PoolAssumption DEF SetPending, shared, callers
<1>7. ASSUME NEW c \in Callers, BumpState(c) PROVE LockInv'
  BY <1>7, PoolAssumption DEF BumpState, shared, callers
<1>8. ASSUME NEW c \in Callers, WakeParked(c) PROVE LockInv'
  BY <1>8, PoolAssumption DEF WakeParked, shared, callers
<1>9. ASSUME NEW c \in Callers, CallerClaim(c) PROVE LockInv'
  BY <1>9, PoolAssumption DEF CallerClaim, shared, callers
<1>10. ASSUME NEW c \in Callers, CallerRun(c) PROVE LockInv'
  BY <1>10, PoolAssumption DEF CallerRun, shared, callers
<1>11. ASSUME NEW c \in Callers, CallerPanic(c) PROVE LockInv'
  BY <1>11, PoolAssumption DEF CallerPanic, shared, callers
<1>12. ASSUME NEW c \in Callers, Drain(c) PROVE LockInv'
  BY <1>12, PoolAssumption DEF Drain, shared, callers
<1>13. ASSUME NEW c \in Callers, CheckPanic(c) PROVE LockInv'
  BY <1>13, PoolAssumption DEF CheckPanic, shared, callers
<1>14. ASSUME NEW c \in Callers, Leave(c) PROVE LockInv'
  BY <1>14, PoolAssumption DEF Leave, shared, callers
<1>15. ASSUME NEW w \in Workers, WorkerStep(w) \/ SpuriousUnpark(w) PROVE LockInv'
  BY <1>15, WorkerFrame
<1>16. ASSUME BeginDrop PROVE LockInv'
  BY <1>16 DEF BeginDrop, DropInv, shared, callers
<1>17. ASSUME DropBump PROVE LockInv'
  BY <1>17 DEF DropBump, DropInv, shared, callers
<1>18. ASSUME DropUnpark PROVE LockInv'
  BY <1>18 DEF DropUnpark, DropInv, shared, callers
<1>19. ASSUME Join PROVE LockInv'
  BY <1>19 DEF Join, DropInv, shared, callers
<1>20. ASSUME UNCHANGED vars PROVE LockInv'
  BY <1>20 DEF vars, shared, callers
<1>21. QED
  BY <1>1, <1>2, <1>3, <1>4, <1>5, <1>6, <1>7, <1>8, <1>9, <1>10, <1>11, <1>12, <1>13, <1>14, <1>15, <1>16, <1>17, <1>18, <1>19, <1>20
     DEF Next, CallerStep, DropStep, Gone

(* The drop starts when nobody dispatches, and nobody dispatches after it. *)
LEMMA DropStepLemma == BarrierInv /\ [Next]_vars => DropInv'
<1> SUFFICES ASSUME BarrierInv, [Next]_vars PROVE DropInv'
  OBVIOUS
<1> USE DEF BarrierInv, DropInv, TypeOK
<1>1. ASSUME NEW c \in Callers, Call(c) PROVE DropInv'
  BY <1>1 DEF Call, shared
<1>2. ASSUME NEW c \in Callers, CallerStep(c) PROVE DropInv'
  <2>1. cpc[c] # "idle" /\ UNCHANGED <<shutdown, dpc>>
    BY <1>2 DEF CallerStep, shared, TryLock, RunSerial, ClearStalePanic, WriteJob, SetPending, BumpState, WakeParked, CallerClaim, CallerRun, CallerPanic, Drain, CheckPanic, Leave
  <2>2. QED
    BY <2>1
<1>3. ASSUME NEW w \in Workers, WorkerStep(w) \/ SpuriousUnpark(w) PROVE DropInv'
  BY <1>3, WorkerFrame
<1>4. ASSUME DropStep PROVE DropInv'
  BY <1>4 DEF DropStep, BeginDrop, DropBump, DropUnpark, Join, shared, callers
<1>5. ASSUME UNCHANGED vars PROVE DropInv'
  BY <1>5 DEF vars, shared, callers
<1>6. QED
  BY <1>1, <1>2, <1>3, <1>4, <1>5 DEF Next, Gone

(* No step lets a worker remember an epoch that has not been published.    *)
LEMMA EpochStep == BarrierInv /\ [Next]_vars => EpochInv'
<1> SUFFICES ASSUME BarrierInv, [Next]_vars PROVE EpochInv'
  OBVIOUS
<1> USE DEF BarrierInv, EpochInv, TypeOK, Word
<1>1. ASSUME NEW c \in Callers, BumpState(c) PROVE EpochInv'
  BY <1>1 DEF BumpState, workers
<1>2. ASSUME DropBump PROVE EpochInv'
  BY <1>2 DEF DropBump, workers
<1>3. ASSUME NEW w \in Workers, SeeState(w) PROVE EpochInv'
  BY <1>3 DEF SeeState, shared
<1>4. ASSUME UNCHANGED <<state, lastState>> PROVE EpochInv'
  BY <1>4
<1>5. ASSUME NEW c \in Callers, Call(c) \/ CallerStep(c), ~BumpState(c)
      PROVE UNCHANGED <<state, lastState>>
  BY <1>5 DEF CallerStep, shared, workers, Call, TryLock, RunSerial, ClearStalePanic, WriteJob, SetPending, WakeParked, CallerClaim, CallerRun, CallerPanic, Drain, CheckPanic, Leave
<1>6. ASSUME NEW w \in Workers, WorkerStep(w) \/ SpuriousUnpark(w), ~SeeState(w)
      PROVE UNCHANGED <<state, lastState>>
  BY <1>6 DEF WorkerStep, shared, CheckShutdown, Spin, EnterParked, LookAgain, Park, Unpark, LeaveParked, SkipDispatch, ReadJob, WorkerClaim, WorkerRun, WorkerPanic, StorePayload, FlagPanic, Decrement, SpuriousUnpark
<1>7. ASSUME DropStep \/ UNCHANGED vars, ~DropBump
      PROVE UNCHANGED <<state, lastState>>
  BY <1>7 DEF DropStep, BeginDrop, DropUnpark, Join, shared, workers, vars
<1>8. QED
  BY <1>1, <1>2, <1>3, <1>4, <1>5, <1>6, <1>7 DEF Next, Gone

(* The debtors are finitely many, and pending counts them.                 *)
LEMMA DebtorsFinite ==
    /\ IsFiniteSet(Workers)
    /\ IsFiniteSet({w \in Workers : Owes(w)})
    /\ Cardinality({w \in Workers : Owes(w)}) \in Nat
<1>1. IsFiniteSet(Workers)
  BY PoolAssumption, FS_Interval DEF Workers
<1>2. {w \in Workers : Owes(w)} \subseteq Workers
  OBVIOUS
<1>3. QED
  BY <1>1, <1>2, FS_Subset, FS_CardinalityType

(* What DrainGuard concludes from pending = 0.                             *)
LEMMA DrainedPool ==
    ASSUME BarrierInv, NEW c \in Callers, Drain(c)
    PROVE  \A w \in Workers : ~Owes(w)
<1>1. Cardinality({w \in Workers : Owes(w)}) = 0
  BY DEF Drain, BarrierInv, PendingInv, BarrierCountsDebtors, InFlight
<1>2. {w \in Workers : Owes(w)} = {}
  BY <1>1, DebtorsFinite, FS_EmptySet
<1>3. QED
  BY <1>2

(* No step leaves a worker serving a dispatch that has returned: it takes  *)
(* the drained barrier (DrainedPool) for the dispatcher to get that far.   *)
LEMMA ServingStep == BarrierInv /\ [Next]_vars => ServingInv'
<1> SUFFICES ASSUME BarrierInv, [Next]_vars PROVE ServingInv'
  OBVIOUS
<1> USE DEF BarrierInv, ServingInv, Serving, TypeOK, UnderLock, InFlight, HasJob,
            Goto, WGoto
<1>1. ASSUME NEW c \in Callers, Call(c) PROVE ServingInv'
  BY <1>1 DEF Call, LockInv, DropInv, shared, callers, workers
<1>2. ASSUME NEW c \in Callers, TryLock(c) PROVE ServingInv'
  BY <1>2 DEF TryLock, LockInv, DropInv, shared, callers, workers
<1>3. ASSUME NEW c \in Callers, RunSerial(c) PROVE ServingInv'
  BY <1>3 DEF RunSerial, LockInv, DropInv, shared, callers, workers
<1>4. ASSUME NEW c \in Callers, ClearStalePanic(c) PROVE ServingInv'
  BY <1>4 DEF ClearStalePanic, LockInv, DropInv, shared, callers, workers
<1>5. ASSUME NEW c \in Callers, WriteJob(c) PROVE ServingInv'
  BY <1>5 DEF WriteJob, LockInv, DropInv, shared, callers, workers
<1>6. ASSUME NEW c \in Callers, SetPending(c) PROVE ServingInv'
  BY <1>6 DEF SetPending, LockInv, DropInv, shared, callers, workers
<1>7. ASSUME NEW c \in Callers, BumpState(c) PROVE ServingInv'
  BY <1>7 DEF BumpState, LockInv, DropInv, shared, callers, workers
<1>8. ASSUME NEW c \in Callers, WakeParked(c) PROVE ServingInv'
  BY <1>8 DEF WakeParked, LockInv, DropInv, shared, callers, workers
<1>9. ASSUME NEW c \in Callers, CallerClaim(c) PROVE ServingInv'
  BY <1>9 DEF CallerClaim, LockInv, DropInv, shared, callers, workers
<1>10. ASSUME NEW c \in Callers, CallerRun(c) PROVE ServingInv'
  BY <1>10 DEF CallerRun, LockInv, DropInv, shared, callers, workers
<1>11. ASSUME NEW c \in Callers, CallerPanic(c) PROVE ServingInv'
  BY <1>11 DEF CallerPanic, LockInv, DropInv, shared, callers, workers
<1>12. ASSUME NEW c \in Callers, Drain(c) PROVE ServingInv'
  <2>1. \A w \in Workers : ~Owes(w)
    BY <1>12, DrainedPool
  <2>2. \A w \in Workers : ~Serving(w)
    BY <2>1 DEF Owes
  <2>3. UNCHANGED <<wpc, lastState, wjob, shutdown, job, state>>
    BY <1>12 DEF Drain, workers, shared
  <2>4. QED
    BY <2>2, <2>3
<1>13. ASSUME NEW c \in Callers, CheckPanic(c) PROVE ServingInv'
  BY <1>13 DEF CheckPanic, LockInv, DropInv, shared, callers, workers
<1>14. ASSUME NEW c \in Callers, Leave(c) PROVE ServingInv'
  BY <1>14 DEF Leave, LockInv, DropInv, shared, callers, workers
<1>15. ASSUME NEW w \in Workers, CheckShutdown(w) PROVE ServingInv'
  BY <1>15 DEF CheckShutdown, LockInv, DropInv, QuietInv, Owes, shared, callers
<1>16. ASSUME NEW w \in Workers, SeeState(w) PROVE ServingInv'
  <2>1. UNCHANGED <<lock, cpc, state, job, shutdown, wjob>>
    BY <1>16 DEF SeeState, shared, callers
  <2>2. wpc' = [wpc EXCEPT ![w] = "seen"] /\ lastState' = [lastState EXCEPT ![w] = state]
    BY <1>16 DEF SeeState
  <2>3. state # lastState[w]
    BY <1>16 DEF SeeState
  <2>4. ASSUME Serving(w)' PROVE lock # NoCaller /\ cpc[lock] \in InFlight
    <3>1. ~shutdown /\ (ActiveBarrier => w < state.active)
      BY <2>1, <2>2, <2>4
    <3>2. Owes(w)
      BY <2>3, <3>1 DEF Owes
    <3>3. PICK c \in Callers : cpc[c] \in InFlight
      BY <3>1, <3>2 DEF QuietInv
    <3>4. lock = c
      BY <3>3 DEF LockInv
    <3>5. QED
      BY <3>3, <3>4, PoolAssumption
  <2>5. QED
    BY <2>1, <2>2, <2>4
<1>17. ASSUME NEW w \in Workers, Spin(w) PROVE ServingInv'
  BY <1>17 DEF Spin, LockInv, DropInv, QuietInv, Owes, shared, callers
<1>18. ASSUME NEW w \in Workers, EnterParked(w) PROVE ServingInv'
  BY <1>18 DEF EnterParked, LockInv, DropInv, QuietInv, Owes, shared, callers
<1>19. ASSUME NEW w \in Workers, LookAgain(w) PROVE ServingInv'
  BY <1>19 DEF LookAgain, LockInv, DropInv, QuietInv, Owes, shared, callers
<1>19p. ASSUME NEW w \in Workers, Park(w) PROVE ServingInv'
  BY <1>19p DEF Park, LockInv, DropInv, QuietInv, Owes, shared, callers
<1>20. ASSUME NEW w \in Workers, Unpark(w) PROVE ServingInv'
  BY <1>20 DEF Unpark, LockInv, DropInv, QuietInv, Owes, shared, callers
<1>21. ASSUME NEW w \in Workers, LeaveParked(w) PROVE ServingInv'
  BY <1>21 DEF LeaveParked, LockInv, DropInv, QuietInv, Owes, shared, callers
<1>22. ASSUME NEW w \in Workers, SkipDispatch(w) PROVE ServingInv'
  BY <1>22 DEF SkipDispatch, LockInv, DropInv, QuietInv, Owes, shared, callers
<1>23. ASSUME NEW w \in Workers, ReadJob(w) PROVE ServingInv'
  BY <1>23 DEF ReadJob, LockInv, DropInv, QuietInv, Owes, shared, callers
<1>24. ASSUME NEW w \in Workers, WorkerClaim(w) PROVE ServingInv'
  BY <1>24 DEF WorkerClaim, LockInv, DropInv, QuietInv, Owes, shared, callers
<1>25. ASSUME NEW w \in Workers, WorkerRun(w) PROVE ServingInv'
  BY <1>25 DEF WorkerRun, LockInv, DropInv, QuietInv, Owes, shared, callers
<1>26. ASSUME NEW w \in Workers, WorkerPanic(w) PROVE ServingInv'
  BY <1>26 DEF WorkerPanic, LockInv, DropInv, QuietInv, Owes, shared, callers
<1>27. ASSUME NEW w \in Workers, StorePayload(w) PROVE ServingInv'
  BY <1>27 DEF StorePayload, LockInv, DropInv, QuietInv, Owes, shared, callers
<1>28. ASSUME NEW w \in Workers, FlagPanic(w) PROVE ServingInv'
  BY <1>28 DEF FlagPanic, LockInv, DropInv, QuietInv, Owes, shared, callers
<1>29. ASSUME NEW w \in Workers, Decrement(w) PROVE ServingInv'
  BY <1>29 DEF Decrement, LockInv, DropInv, QuietInv, Owes, shared, callers
<1>30. ASSUME NEW w \in Workers, SpuriousUnpark(w) PROVE ServingInv'
  BY <1>30 DEF SpuriousUnpark, LockInv, DropInv, QuietInv, Owes, shared, callers
<1>31. ASSUME BeginDrop PROVE ServingInv'
  BY <1>31 DEF BeginDrop, DropInv, LockInv, shared, callers, workers
<1>32. ASSUME DropBump PROVE ServingInv'
  BY <1>32 DEF DropBump, DropInv, LockInv, shared, callers, workers
<1>33. ASSUME DropUnpark PROVE ServingInv'
  BY <1>33 DEF DropUnpark, DropInv, LockInv, shared, callers, workers
<1>34. ASSUME Join PROVE ServingInv'
  BY <1>34 DEF Join, DropInv, LockInv, shared, callers, workers
<1>35. ASSUME UNCHANGED vars PROVE ServingInv'
  BY <1>35 DEF vars, shared, callers, workers
<1>36. QED
  BY <1>1, <1>2, <1>3, <1>4, <1>5, <1>6, <1>7, <1>8, <1>9, <1>10, <1>11, <1>12, <1>13, <1>14, <1>15, <1>16, <1>17, <1>18, <1>19, <1>20, <1>21, <1>22, <1>23, <1>24, <1>25, <1>26, <1>27, <1>28, <1>29, <1>30, <1>31, <1>32, <1>33, <1>34, <1>35, <1>19p
     DEF Next, CallerStep, WorkerStep, DropStep, Gone

(* A worker that is about to read the job cell finds a job there.          *)
LEMMA JobPresent ==
    ASSUME BarrierInv, NEW w \in Workers, ReadJob(w)
    PROVE  /\ job # NoJob
           /\ lock \in Callers
           /\ cpc[lock] \in InFlight
           /\ job = [caller |-> lock, args |-> call[lock]]
<1>1. Serving(w)
  BY DEF ReadJob, Serving
<1>2. lock \in Callers /\ cpc[lock] \in InFlight
  BY <1>1 DEF BarrierInv, ServingInv, TypeOK
<1>3. job = [caller |-> lock, args |-> call[lock]]
  BY <1>2 DEF BarrierInv, LockInv
<1>4. job.caller # NoCaller
  BY <1>2, <1>3, PoolAssumption
<1>5. QED
  BY <1>2, <1>3, <1>4 DEF NoJob

(* Only the decrement settles a worker's debt.                             *)
LEMMA DebtsKept ==
    ASSUME BarrierInv, ~shutdown, NEW w \in Workers,
           WorkerStep(w) \/ SpuriousUnpark(w), ~Decrement(w)
    PROVE  \A u \in Workers : Owes(u)' <=> Owes(u)
<1> USE DEF BarrierInv, TypeOK, Owes, HasJob, WGoto
<1>1. UNCHANGED state
  BY WorkerFrame
<1>2. ASSUME CheckShutdown(w) PROVE \A u \in Workers : Owes(u)' <=> Owes(u)
  BY <1>1, <1>2 DEF CheckShutdown
<1>3. ASSUME SeeState(w) PROVE \A u \in Workers : Owes(u)' <=> Owes(u)
  BY <1>1, <1>3 DEF SeeState
<1>4. ASSUME Spin(w) PROVE \A u \in Workers : Owes(u)' <=> Owes(u)
  BY <1>1, <1>4 DEF Spin
<1>5. ASSUME EnterParked(w) PROVE \A u \in Workers : Owes(u)' <=> Owes(u)
  BY <1>1, <1>5 DEF EnterParked
<1>6. ASSUME LookAgain(w) PROVE \A u \in Workers : Owes(u)' <=> Owes(u)
  BY <1>1, <1>6 DEF LookAgain
<1>6p. ASSUME Park(w) PROVE \A u \in Workers : Owes(u)' <=> Owes(u)
  BY <1>1, <1>6p DEF Park
<1>7. ASSUME Unpark(w) PROVE \A u \in Workers : Owes(u)' <=> Owes(u)
  BY <1>1, <1>7 DEF Unpark
<1>8. ASSUME LeaveParked(w) PROVE \A u \in Workers : Owes(u)' <=> Owes(u)
  BY <1>1, <1>8 DEF LeaveParked
<1>9. ASSUME SkipDispatch(w) PROVE \A u \in Workers : Owes(u)' <=> Owes(u)
  <2>1. state.active \in Nat /\ w \in Int
    BY PoolAssumption DEF Word, Workers
  <2>2. lastState[w] = state => ~(w < state.active)
    BY <1>9, <2>1 DEF SkipDispatch
  <2>3. QED
    BY <1>1, <1>9, <2>2 DEF SkipDispatch
<1>10. ASSUME ReadJob(w) PROVE \A u \in Workers : Owes(u)' <=> Owes(u)
  <2>1. wpc[w] = "dispatched" /\ UNCHANGED lastState
    BY <1>10 DEF ReadJob
  <2>2. job # NoJob
    BY <1>10, JobPresent
  <2>3. PICK l \in HasJob : wpc' = [wpc EXCEPT ![w] = l]
    BY <1>10, <2>2 DEF ReadJob
  <2>4. QED
    BY <1>1, <2>1, <2>3
<1>11. ASSUME WorkerClaim(w) PROVE \A u \in Workers : Owes(u)' <=> Owes(u)
  BY <1>1, <1>11 DEF WorkerClaim, ServingInv, Serving
<1>12. ASSUME WorkerRun(w) PROVE \A u \in Workers : Owes(u)' <=> Owes(u)
  BY <1>1, <1>12 DEF WorkerRun, ServingInv, Serving
<1>13. ASSUME WorkerPanic(w) PROVE \A u \in Workers : Owes(u)' <=> Owes(u)
  BY <1>1, <1>13 DEF WorkerPanic, ServingInv, Serving
<1>14. ASSUME StorePayload(w) PROVE \A u \in Workers : Owes(u)' <=> Owes(u)
  BY <1>1, <1>14 DEF StorePayload, ServingInv, Serving
<1>15. ASSUME FlagPanic(w) PROVE \A u \in Workers : Owes(u)' <=> Owes(u)
  BY <1>1, <1>15 DEF FlagPanic, ServingInv, Serving
<1>16. ASSUME SpuriousUnpark(w) PROVE \A u \in Workers : Owes(u)' <=> Owes(u)
  BY <1>1, <1>16 DEF SpuriousUnpark
<1>17. QED
  BY <1>2, <1>3, <1>4, <1>5, <1>6, <1>6p, <1>7, <1>8, <1>9, <1>10, <1>11, <1>12, <1>13, <1>14, <1>15, <1>16 DEF WorkerStep

(* A decrement settles exactly one debt.                                   *)
LEMMA DebtSettled ==
    ASSUME BarrierInv, NEW w \in Workers, Decrement(w)
    PROVE  /\ Owes(w) /\ ~Owes(w)'
           /\ \A u \in Workers \ {w} : Owes(u)' <=> Owes(u)
           /\ lock \in Callers /\ cpc[lock] \in InFlight
           /\ pending' = pending - 1
<1> USE DEF BarrierInv, TypeOK, Owes, HasJob, WGoto, Decrement, ServingInv, Serving
<1>1. UNCHANGED state
  BY WorkerFrame DEF WorkerStep
<1>2. QED
  BY <1>1

(* The dispatcher's steps other than the bump leave every debt alone.      *)
LEMMA DebtsUntouched ==
    ASSUME NEW c \in Callers, Call(c) \/ CallerStep(c), ~BumpState(c)
    PROVE  \A u \in Workers : Owes(u)' <=> Owes(u)
<1>1. UNCHANGED state
  BY DEF CallerStep, Call, shared, TryLock, RunSerial, ClearStalePanic, WriteJob, SetPending, WakeParked, CallerClaim, CallerRun, CallerPanic, Drain, CheckPanic, Leave
<1>2. QED
  BY <1>1, CallerFrame DEF Owes

(* The quiet pool stays quiet until the next dispatch is published.        *)
LEMMA QuietStep == BarrierInv /\ [Next]_vars => QuietInv'
<1> SUFFICES ASSUME BarrierInv, [Next]_vars,
                    \A c \in Callers : cpc'[c] \notin InFlight, ~shutdown'
             PROVE  \A w \in Workers : ~Owes(w)'
  BY DEF QuietInv
<1> USE DEF InFlight
<1>1. ASSUME NEW c \in Callers, Drain(c) PROVE \A w \in Workers : ~Owes(w)'
  BY <1>1, DrainedPool, DebtsUntouched DEF CallerStep, Drain, BumpState
<1>2. ASSUME NEW c \in Callers, Call(c) \/ CallerStep(c), ~Drain(c)
      PROVE  \A w \in Workers : ~Owes(w)'
  <2>1. cpc \in [Callers -> CallerLabels]
    BY DEF BarrierInv, TypeOK
  <2>2. ~BumpState(c) /\ \A d \in Callers : cpc[d] \notin InFlight
    BY <1>2, <2>1 DEF CallerStep, Goto, Call, TryLock, RunSerial, ClearStalePanic, WriteJob, SetPending, BumpState, WakeParked, CallerClaim, CallerRun, CallerPanic, Drain, CheckPanic, Leave
  <2>3. ~shutdown
    BY <1>2, CallerFrame
  <2>4. QED
    BY <1>2, <2>2, <2>3, DebtsUntouched DEF BarrierInv, QuietInv
<1>3. ASSUME NEW w \in Workers, WorkerStep(w) \/ SpuriousUnpark(w)
      PROVE  \A u \in Workers : ~Owes(u)'
  <2>1. ~shutdown /\ \A c \in Callers : cpc[c] \notin InFlight
    BY <1>3, WorkerFrame
  <2>2. ~Decrement(w)
    BY <2>1, DebtSettled
  <2>3. QED
    BY <1>3, <2>1, <2>2, DebtsKept DEF BarrierInv, QuietInv
<1>4. ~DropStep
  BY DEF DropStep, BeginDrop, DropBump, DropUnpark, Join, BarrierInv, DropInv, shared
<1>5. ASSUME UNCHANGED vars PROVE \A w \in Workers : ~Owes(w)'
  BY <1>5 DEF vars, shared, callers, workers, BarrierInv, QuietInv, Owes
<1>6. QED
  BY <1>1, <1>2, <1>3, <1>4, <1>5 DEF Next, Gone

Debtors == {w \in Workers : Owes(w)}

(* A new epoch is owed by every participant, and by nobody else.           *)
LEMMA BumpDebtors ==
    ASSUME BarrierInv, NEW c \in Callers, BumpState(c)
    PROVE  Cardinality(Debtors') = pending
<1>1. /\ NumThreads \in Nat \ {0} /\ call[c].active \in 2 .. NumThreads
      /\ pending = IF ActiveBarrier THEN call[c].active - 1 ELSE NumThreads - 1
  BY PoolAssumption DEF BarrierInv, LockInv, PendingInv, BumpState, UnderLock
<1>2. \A w \in Workers : lastState'[w] # state'
  BY DEF BumpState, workers, BarrierInv, EpochInv, TypeOK, Word
<1>3. ActiveBarrier => state'.active = call[c].active
  BY DEF BumpState
<1>4. Debtors' = {w \in Workers : ActiveBarrier => w < call[c].active}
  BY <1>2, <1>3 DEF Debtors, Owes
<1>5. Debtors' = 1 .. pending
  BY <1>1, <1>4 DEF Workers
<1>6. QED
  BY <1>1, <1>5, FS_Interval

(* Every step keeps `pending` at the number of workers still owed: each    *)
(* decrement settles one debt, and publishing starts all of them afresh.   *)
LEMMA PendingStep == BarrierInv /\ [Next]_vars => PendingInv'
<1> SUFFICES ASSUME BarrierInv, [Next]_vars PROVE PendingInv'
  OBVIOUS
<1> USE DEF PendingInv, BarrierCountsDebtors, InFlight
<1>a. cpc \in [Callers -> CallerLabels] /\ pending \in Int
  BY DEF BarrierInv, TypeOK
<1>b. PendingInv /\ LockInv /\ DropInv
  BY DEF BarrierInv
<1>1. ASSUME NEW c \in Callers, SetPending(c) PROVE PendingInv'
  <2>1. \A d \in Callers : cpc[d] \in UnderLock => d = c
    BY <1>1, <1>b DEF LockInv, SetPending, UnderLock
  <2>2. UNCHANGED call /\ cpc' = [cpc EXCEPT ![c] = "bump"]
    BY <1>1 DEF SetPending, Goto
  <2>3. pending' = IF ActiveBarrier THEN call[c].active - 1 ELSE NumThreads - 1
    BY <1>1 DEF SetPending
  <2>4. \A d \in Callers : cpc'[d] \notin InFlight /\ (cpc'[d] = "bump" => d = c)
    BY <2>1, <2>2, <1>a DEF UnderLock
  <2>5. QED
    BY <2>2, <2>3, <2>4, <1>a
<1>2. ASSUME NEW c \in Callers, BumpState(c) PROVE PendingInv'
  <2>1. \A d \in Callers : cpc[d] \in UnderLock => d = c
    BY <1>2, <1>b DEF LockInv, BumpState, UnderLock
  <2>2. UNCHANGED <<call, pending>> /\ cpc' = [cpc EXCEPT ![c] = "wake"]
    BY <1>2 DEF BumpState, Goto
  <2>3. \A d \in Callers : cpc'[d] # "bump" /\ (cpc'[d] \in InFlight => d = c)
    BY <2>1, <2>2, <1>a DEF UnderLock
  <2>4. Cardinality(Debtors') = pending'
    BY <1>2, <2>2, BumpDebtors
  <2>5. QED
    BY <2>2, <2>3, <2>4, <1>a DEF Debtors
<1>3. ASSUME NEW c \in Callers, Drain(c) PROVE PendingInv'
  <2>1. pending = 0 /\ UNCHANGED <<call, pending>>
    BY <1>3 DEF Drain, shared
  <2>2. \A d \in Callers : cpc[d] \in UnderLock => d = c
    BY <1>3, <1>b DEF LockInv, Drain, UnderLock
  <2>3. cpc'[c] \in {"raise", "check"} /\ \A d \in Callers \ {c} : cpc'[d] = cpc[d]
    BY <1>3, <1>a DEF Drain, Goto
  <2>4. \A d \in Callers : cpc'[d] # "bump" /\ cpc'[d] \notin InFlight
    BY <2>2, <2>3 DEF UnderLock
  <2>5. QED
    BY <2>1, <2>4
<1>4. ASSUME NEW c \in Callers, Call(c) \/ CallerStep(c),
             ~SetPending(c), ~BumpState(c), ~Drain(c)
      PROVE PendingInv'
  <2>1. /\ UNCHANGED pending
        /\ \A d \in Callers : /\ cpc'[d] \in InFlight <=> cpc[d] \in InFlight
                              /\ cpc'[d] = "bump" <=> cpc[d] = "bump"
                              /\ cpc[d] = "bump" => call'[d] = call[d]
    <3> DEFINE Moves == /\ UNCHANGED pending
                        /\ \A d \in Callers \ {c} : cpc'[d] = cpc[d] /\ call'[d] = call[d]
                        /\ cpc[c] # "bump" /\ cpc'[c] # "bump"
                        /\ cpc'[c] \in InFlight <=> cpc[c] \in InFlight
    <3> USE <1>a DEF Goto, shared
    <3>a. call \in [Callers -> Args]
      BY DEF BarrierInv, TypeOK
    <3>1. ASSUME Call(c) PROVE Moves
      <4>1. UNCHANGED pending /\ cpc[c] = "idle"
        BY <3>1 DEF Call
      <4>2. \E l \in {"lock", "serial"} : cpc' = [cpc EXCEPT ![c] = l]
        BY <3>1 DEF Call
      <4>3. \E a : call' = [call EXCEPT ![c] = a]
        BY <3>1 DEF Call
      <4>4. QED
        BY <4>1, <4>2, <4>3, <3>a
    <3>2. ASSUME TryLock(c) PROVE Moves
      BY <3>2, <3>a DEF TryLock
    <3>3. ASSUME RunSerial(c) PROVE Moves
      BY <3>3, <3>a DEF RunSerial
    <3>4. ASSUME ClearStalePanic(c) PROVE Moves
      BY <3>4, <3>a DEF ClearStalePanic
    <3>5. ASSUME WriteJob(c) PROVE Moves
      BY <3>5, <3>a DEF WriteJob
    <3>6. ASSUME WakeParked(c) PROVE Moves
      BY <3>6, <3>a DEF WakeParked
    <3>7. ASSUME CallerClaim(c) PROVE Moves
      BY <3>7, <3>a DEF CallerClaim
    <3>8. ASSUME CallerRun(c) PROVE Moves
      BY <3>8, <3>a DEF CallerRun
    <3>9. ASSUME CallerPanic(c) PROVE Moves
      BY <3>9, <3>a DEF CallerPanic
    <3>10. ASSUME CheckPanic(c) PROVE Moves
      BY <3>10, <3>a DEF CheckPanic
    <3>11. ASSUME Leave(c) PROVE Moves
      BY <3>11, <3>a DEF Leave
    <3>12. Moves
      BY <1>4, <3>1, <3>2, <3>3, <3>4, <3>5, <3>6, <3>7, <3>8, <3>9, <3>10, <3>11 DEF CallerStep
    <3>13. QED
      BY <3>12
  <2>2. Debtors' = Debtors
    BY <1>4, DebtsUntouched DEF Debtors
  <2>3. QED
    BY <1>b, <2>1, <2>2 DEF Debtors
<1>5. ASSUME NEW w \in Workers, WorkerStep(w) \/ SpuriousUnpark(w), ~Decrement(w)
      PROVE PendingInv'
  <2>1. UNCHANGED <<cpc, call, shutdown>>
    BY <1>5, WorkerFrame
  <2>2. UNCHANGED pending
    BY <1>5 DEF WorkerStep, shared, CheckShutdown, SeeState, Spin, EnterParked, LookAgain, Park, Unpark, LeaveParked, SkipDispatch, ReadJob, WorkerClaim, WorkerRun, WorkerPanic, StorePayload, FlagPanic, SpuriousUnpark
  <2>3. ASSUME NEW c \in Callers, cpc[c] \in InFlight PROVE Debtors' = Debtors
    <3>1. ~shutdown
      BY <2>3, <1>b DEF DropInv
    <3>2. QED
      BY <1>5, <3>1, DebtsKept DEF Debtors
  <2>4. QED
    BY <1>b, <2>1, <2>2, <2>3 DEF Debtors
<1>6. ASSUME NEW w \in Workers, Decrement(w) PROVE PendingInv'
  <2>1. UNCHANGED <<lock, cpc, call>>
    BY <1>6, WorkerFrame DEF WorkerStep
  <2>2. lock \in Callers /\ cpc[lock] \in InFlight /\ pending' = pending - 1
    BY <1>6, DebtSettled
  <2>3. \A c \in Callers : cpc[c] # "bump"
    BY <1>b, <2>2 DEF LockInv, UnderLock
  <2>4. Debtors' = Debtors \ {w} /\ w \in Debtors
    BY <1>6, DebtSettled DEF Debtors
  <2>5. IsFiniteSet(Debtors) /\ Cardinality(Debtors) = pending
    BY <1>b, <2>2, DebtorsFinite DEF Debtors
  <2>6. Cardinality(Debtors') = pending'
    BY <2>2, <2>4, <2>5, FS_RemoveElement
  <2>7. QED
    BY <2>1, <2>2, <2>3, <2>6 DEF Debtors
<1>7. ASSUME DropStep PROVE PendingInv'
  <2>1. /\ \A c \in Callers : cpc[c] = "idle"
        /\ UNCHANGED <<cpc, pending>>
    BY <1>7, <1>b DEF DropInv, DropStep, BeginDrop, DropBump, DropUnpark, Join,
                      shared, callers
  <2>2. QED
    BY <1>b, <2>1
<1>8. ASSUME UNCHANGED vars PROVE PendingInv'
  <2>1. UNCHANGED <<cpc, call, pending>> /\ Debtors' = Debtors
    BY <1>8 DEF vars, shared, callers, workers, Debtors, Owes
  <2>2. QED
    BY <1>b, <2>1 DEF Debtors
<1>9. QED
  BY <1>1, <1>2, <1>3, <1>4, <1>5, <1>6, <1>7, <1>8
     DEF Next, CallerStep, WorkerStep, Gone

(* The barrier invariant holds of a new pool.                              *)
LEMMA BarrierInit == Init => BarrierInv
<1> SUFFICES ASSUME Init PROVE BarrierInv
  OBVIOUS
<1>1. TypeOK
  BY TypeInit
<1>2. /\ \A c \in Callers : cpc[c] = "idle"
      /\ \A w \in Workers : wpc[w] = "top" /\ lastState[w] = state
      /\ lock = NoCaller /\ shutdown = FALSE /\ dpc = "live" /\ pending = 0
      /\ state.epoch \in Nat
  BY DEF Init
<1>3. LockInv /\ DropInv
  BY <1>2, PoolAssumption DEF LockInv, DropInv, UnderLock, InFlight
<1>4. EpochInv /\ ServingInv
  BY <1>2 DEF EpochInv, ServingInv, Serving, HasJob
<1>5. QuietInv /\ PendingInv
  BY <1>2 DEF QuietInv, Owes, HasJob, PendingInv, BarrierCountsDebtors, InFlight
<1>6. QED
  BY <1>1, <1>3, <1>4, <1>5 DEF BarrierInv

(* The barrier invariant is inductive.                                     *)
LEMMA BarrierStep == BarrierInv /\ [Next]_vars => BarrierInv'
<1>1. BarrierInv /\ [Next]_vars => TypeOK'
  BY TypeStep DEF BarrierInv
<1>2. QED
  BY <1>1, LockStep, DropStepLemma, EpochStep, ServingStep, QuietStep, PendingStep
     DEF BarrierInv

(* The barrier protocol is sound for any width, in both shapes.            *)
THEOREM RowPoolBarrier == Spec => []BarrierInv
BY BarrierInit, BarrierStep, PTL DEF Spec

(* No worker touches a job whose dispatch has returned.                    *)
THEOREM RowPoolNoUseAfterReturn == Spec => []NoUseAfterReturn
<1>1. BarrierInv => NoUseAfterReturn
  <2> SUFFICES ASSUME BarrierInv, NEW w \in Workers,
                      wpc[w] \in HasJob \/ WillRead(w)
               PROVE  /\ lock # NoCaller
                      /\ cpc[lock] \in InFlight
                      /\ job = [caller |-> lock, args |-> call[lock]]
                      /\ lastState[w] = state
                      /\ wpc[w] \in HasJob => wjob[w] = job
    BY DEF NoUseAfterReturn
  <2>1. Serving(w)
    BY DEF Serving, WillRead, BarrierInv, ServingInv
  <2>2. lock \in Callers /\ cpc[lock] \in InFlight
    BY <2>1 DEF BarrierInv, ServingInv, TypeOK
  <2>3. QED
    BY <2>1, <2>2 DEF BarrierInv, ServingInv, LockInv
<1>2. QED
  BY <1>1, RowPoolBarrier, PTL

(* The barrier counts exactly the workers that still owe the dispatch.     *)
THEOREM RowPoolBarrierCountsDebtors == Spec => []BarrierCountsDebtors
<1>1. BarrierInv => BarrierCountsDebtors
  BY DEF BarrierInv, PendingInv
<1>2. QED
  BY <1>1, RowPoolBarrier, PTL

----------------------------------------------------------------------------
(* The dispatch contract: DispatchInv is inductive, and under it every     *)
(* step of the pool is a step of RowDispatch.                              *)

(* What a worker that holds a job knows.                                   *)
LEMMA ServedJob ==
    ASSUME BarrierInv, NEW w \in Workers, wpc[w] \in HasJob
    PROVE  /\ lock \in Callers /\ cpc[lock] \in InFlight
           /\ wjob[w] = [caller |-> lock, args |-> call[lock]]
           /\ wjob[w].caller = lock /\ wjob[w].args = call[lock]
           /\ lastState[w] = state
           /\ Owes(w)
<1>1. lock \in Callers /\ cpc[lock] \in InFlight /\ lastState[w] = state
  BY DEF BarrierInv, ServingInv, Serving, TypeOK
<1>2. wjob[w] = [caller |-> lock, args |-> call[lock]]
  BY <1>1 DEF BarrierInv, ServingInv, LockInv
<1>3. Owes(w)
  BY <1>1 DEF Owes, BarrierInv, ServingInv
<1>4. QED
  BY <1>1, <1>2, <1>3

(* One dispatch at a time is past its try_lock.                            *)
LEMMA OneHolder ==
    ASSUME BarrierInv, NEW c \in Callers, cpc[c] \in UnderLock
    PROVE  lock = c /\ \A d \in Callers \ {c} : cpc[d] \notin UnderLock
BY DEF BarrierInv, LockInv

(* While the holder of the lock is not in flight no worker has a job.      *)
LEMMA NoJobsOutside ==
    ASSUME BarrierInv, NEW c \in Callers, cpc[c] \in UnderLock \ InFlight
    PROVE  \A w \in Workers : wpc[w] \notin HasJob
BY ServedJob, OneHolder

(* No claim of rows is left when the barrier has been passed or none has   *)
(* been published.                                                         *)
LEMMA NothingHeld ==
    ASSUME BarrierInv, HeldInv, NEW c \in Callers, cpc[c] \in UnderLock,
           cpc[c] # "run", \A w \in Workers : wpc[w] \notin HasJob
    PROVE  \A t \in Slots : held[t] = {}
<1>1. held[0] = {}
  BY OneHolder DEF HeldInv, UnderLock, InFlight
<1>2. \A w \in Workers : held[w] = {}
  BY DEF HeldInv, HasJob
<1>3. \A t \in Slots : t = 0 \/ t \in Workers
  BY PoolAssumption DEF Slots, Workers
<1>4. QED
  BY <1>1, <1>2, <1>3

(* The variables that the claims and panics of a dispatch are made of.     *)
rowVars == <<call, ran, failed, nextRow, unwinding, held>>

(* The steps that look, park, wait or move the flags move no rows.         *)
LEMMA RowFrame ==
    /\ \A c \in Callers :
          \/ TryLock(c) \/ ClearStalePanic(c) \/ SetPending(c) \/ BumpState(c)
          \/ WakeParked(c) \/ Drain(c) \/ CheckPanic(c)
          => UNCHANGED rowVars
    /\ \A w \in Workers :
          \/ CheckShutdown(w) \/ SeeState(w) \/ Spin(w) \/ EnterParked(w)
          \/ LookAgain(w) \/ Park(w) \/ Unpark(w) \/ LeaveParked(w)
          \/ SkipDispatch(w) \/ ReadJob(w) \/ StorePayload(w) \/ FlagPanic(w)
          \/ Decrement(w) \/ SpuriousUnpark(w)
          => UNCHANGED rowVars
    /\ DropStep => UNCHANGED <<rowVars, cpc, wpc>>
    /\ UNCHANGED vars => UNCHANGED <<rowVars, cpc, wpc>>
BY DEF rowVars, vars, shared, callers, workers, history, TryLock, ClearStalePanic, SetPending, BumpState, WakeParked, Drain, CheckPanic, CheckShutdown, SeeState, Spin, EnterParked, LookAgain, Park, Unpark, LeaveParked, SkipDispatch, ReadJob, StorePayload, FlagPanic, Decrement, SpuriousUnpark, DropStep, BeginDrop, DropBump, DropUnpark, Join

(* What a call passes is one of the arguments assumed of callers.          *)
LEMMA CallRowCount ==
    ASSUME TypeOK, NEW c \in Callers, Call(c)
    PROVE  /\ call'[c].rows \in RowCounts
           /\ cpc[c] = "idle" /\ cpc'[c] \in {"lock", "serial"}
           /\ \A d \in Callers \ {c} : call'[d] = call[d] /\ cpc'[d] = cpc[d]
           /\ UNCHANGED <<ran, failed, outcome, nextRow, unwinding, held, wpc>>
<1>1. PICK n \in RowCounts : \E a, f, k :
          call' = [call EXCEPT ![c] = [rows |-> n, active |-> a, floor |-> f, chunk |-> k]]
  BY Zenon DEF Call
<1>2. \E l \in {"lock", "serial"} : cpc' = [cpc EXCEPT ![c] = l]
  BY Zenon DEF Call, Goto
<1>3. QED
  BY <1>1, <1>2 DEF Call, TypeOK, shared, workers, history

(* Steps keep what is not published yet untouched.                         *)
LEMMA FreshStep == DispatchInv /\ [Next]_vars => FreshInv'
<1> SUFFICES ASSUME DispatchInv, [Next]_vars PROVE FreshInv'
  OBVIOUS
<1>a. TypeOK /\ BarrierInv /\ FreshInv
  BY DEF DispatchInv, BarrierInv
<1> USE DEF FreshInv, TypeOK, Goto, WGoto
<1>1. ASSUME NEW c \in Callers, Call(c) PROVE FreshInv'
  BY <1>1, <1>a, CallRowCount
<1>2. ASSUME NEW c \in Callers, TryLock(c) \/ ClearStalePanic(c) \/ SetPending(c)
             \/ BumpState(c) \/ WakeParked(c) \/ Drain(c) \/ CheckPanic(c)
      PROVE FreshInv'
  <2>1. UNCHANGED <<call, ran, failed, nextRow, unwinding>>
    BY <1>2, RowFrame DEF rowVars
  <2>2. QED
    BY <1>2, <1>a, <2>1 DEF TryLock, ClearStalePanic, SetPending, BumpState, WakeParked, Drain, CheckPanic
<1>3. ASSUME NEW c \in Callers, RunSerial(c) PROVE FreshInv'
  BY <1>3, <1>a DEF RunSerial, shared
<1>4. ASSUME NEW c \in Callers, WriteJob(c) PROVE FreshInv'
  BY <1>4, <1>a DEF WriteJob, history
<1>5. ASSUME NEW c \in Callers, CallerClaim(c) \/ CallerRun(c) \/ CallerPanic(c)
      PROVE FreshInv'
  <2>1. cpc[c] \in {"steal", "run"} /\ UNCHANGED call
    BY <1>5 DEF CallerClaim, CallerRun, CallerPanic
  <2>2. \A d \in Callers \ {c} : cpc[d] \notin UnderLock
    BY <1>a, <2>1, OneHolder DEF UnderLock, InFlight
  <2>3. /\ cpc'[c] \in {"steal", "run", "drain"}
        /\ \A d \in Callers \ {c} : /\ cpc'[d] = cpc[d] /\ ran'[d] = ran[d]
                                    /\ failed'[d] = failed[d]
                                    /\ unwinding'[d] = unwinding[d]
        /\ unwinding'[c] => failed'[c] /\ cpc'[c] = "drain"
    BY <1>5, <1>a DEF CallerClaim, CallerRun, CallerPanic, history
  <2>4. QED
    BY <1>a, <2>1, <2>2, <2>3 DEF UnderLock, InFlight
<1>6. ASSUME NEW c \in Callers, Leave(c) PROVE FreshInv'
  BY <1>6, <1>a DEF Leave, shared
<1>7. ASSUME NEW w \in Workers, WorkerClaim(w) \/ WorkerRun(w) \/ WorkerPanic(w)
      PROVE FreshInv'
  <2>1. wpc[w] \in HasJob /\ UNCHANGED <<cpc, call, unwinding>>
    BY <1>7 DEF WorkerClaim, WorkerRun, WorkerPanic, HasJob, callers
  <2>2. lock \in Callers /\ cpc[lock] \in InFlight /\ wjob[w].caller = lock
    BY <1>a, <2>1, ServedJob
  <2>3. \A d \in Callers \ {lock} : cpc[d] \notin UnderLock
    BY <1>a, <2>2, OneHolder DEF UnderLock
  <2>4. /\ \A d \in Callers \ {lock} : ran'[d] = ran[d] /\ failed'[d] = failed[d]
        /\ failed[lock] => failed'[lock]
    BY <1>7, <1>a, <2>2 DEF WorkerClaim, WorkerRun, WorkerPanic, history
  <2>5. QED
    BY <1>a, <2>1, <2>2, <2>3, <2>4 DEF UnderLock, InFlight
<1>8. ASSUME NEW w \in Workers, WorkerStep(w) \/ SpuriousUnpark(w),
             ~(WorkerClaim(w) \/ WorkerRun(w) \/ WorkerPanic(w))
      PROVE FreshInv'
  BY <1>8, <1>a, RowFrame, WorkerFrame DEF WorkerStep, rowVars
<1>9. ASSUME DropStep \/ UNCHANGED vars PROVE FreshInv'
  BY <1>9, <1>a, RowFrame DEF rowVars
<1>10. QED
  BY <1>1, <1>2, <1>3, <1>4, <1>5, <1>6, <1>7, <1>8, <1>9 DEF Next, CallerStep, Gone

(* The rows a slot claims are past everything claimed before.              *)
LEMMA ClaimedRows ==
    ASSUME BarrierInv, HeldInv, ClaimInv, NEW t \in Slots, NEW c \in Callers,
           cpc[c] \in InFlight, Claim(t, call[c]), held[t] = {}
    PROVE  /\ nextRow' \in Nat /\ nextRow' > nextRow
           /\ held'[t] = {r \in CallRows(c) : nextRow <= r /\ r < nextRow'}
           /\ \A u \in Slots \ {t} : held'[u] = held[u]
           /\ \A u, v \in Slots : u # v => held'[u] \cap held'[v] = {}
           /\ \A u \in Slots : held'[u] \subseteq {r \in CallRows(c) : r < nextRow'} \ ran[c]
           /\ ran[c] \subseteq {r \in CallRows(c) : r < nextRow'}
           /\ ~failed[c] => \A r \in {q \in CallRows(c) : q < nextRow'} \ ran[c] :
                                \E u \in Slots : r \in held'[u]
<1>1. TypeOK /\ call[c] \in Args /\ nextRow \in Nat /\ call[c].rows \in Nat
  BY DEF BarrierInv, TypeOK, Args
<1>2. /\ nextRow' \in Nat /\ nextRow' > nextRow
      /\ \A u \in Slots \ {t} : held'[u] = held[u]
      /\ held'[t] = {r \in nextRow .. nextRow' - 1 : r < call[c].rows}
  BY <1>1, ClaimType
<1>3. held'[t] = {r \in CallRows(c) : nextRow <= r /\ r < nextRow'}
  BY <1>1, <1>2 DEF CallRows
<1>4. /\ \A u \in Slots : held[u] \subseteq Claimed(c) \ ran[c]
      /\ ran[c] \subseteq Claimed(c)
      /\ ~failed[c] => \A r \in Claimed(c) \ ran[c] : \E u \in Slots : r \in held[u]
  BY DEF ClaimInv
<1>5. \A r \in CallRows(c) : r \in Nat /\ (r \in Claimed(c) <=> r < nextRow)
  BY <1>1 DEF CallRows, Claimed
<1>6. Claimed(c) \subseteq CallRows(c)
  BY DEF Claimed
<1> HIDE DEF CallRows, Claimed
<1>7. \A u \in Slots \ {t} : held'[u] \cap held'[t] = {}
  BY <1>1, <1>2, <1>3, <1>4, <1>5, <1>6
<1>8. \A u, v \in Slots : u # v => held'[u] \cap held'[v] = {}
  BY <1>2, <1>7 DEF HeldInv
<1>9. \A u \in Slots : held'[u] \subseteq {r \in CallRows(c) : r < nextRow'} \ ran[c]
  BY <1>1, <1>2, <1>3, <1>4, <1>5, <1>6
<1>10. ran[c] \subseteq {r \in CallRows(c) : r < nextRow'}
  BY <1>1, <1>2, <1>4, <1>5, <1>6
<1>11. ASSUME ~failed[c], NEW r \in CallRows(c), r < nextRow', r \notin ran[c]
       PROVE  \E u \in Slots : r \in held'[u]
  <2>1. CASE r < nextRow
    BY <2>1, <1>2, <1>4, <1>5, <1>11
  <2>2. CASE ~(r < nextRow)
    BY <2>2, <1>1, <1>3, <1>5, <1>11
  <2>3. QED
    BY <2>1, <2>2
<1>12. QED
  BY <1>2, <1>3, <1>8, <1>9, <1>10, <1>11

(* Running or losing the held rows of a slot leaves the others' alone.     *)
LEMMA RanRows ==
    ASSUME TypeOK, HeldInv, ClaimInv, NEW t \in Slots, NEW c \in Callers,
           cpc[c] \in InFlight, NEW part \in SUBSET held[t],
           ran' = [ran EXCEPT ![c] = @ \cup part], held' = [held EXCEPT ![t] = {}],
           UNCHANGED <<nextRow, call>>
    PROVE  /\ \A u, v \in Slots : u # v => held'[u] \cap held'[v] = {}
           /\ \A u \in Slots : held'[u] \subseteq Claimed(c)' \ ran'[c]
           /\ ran'[c] \subseteq Claimed(c)'
           /\ part = held[t] /\ ~failed[c] =>
                \A r \in Claimed(c)' \ ran'[c] : \E u \in Slots : r \in held'[u]
<1>1. Claimed(c)' = Claimed(c)
  BY DEF Claimed, CallRows
<1>2. /\ ran'[c] = ran[c] \cup part /\ held'[t] = {}
      /\ \A u \in Slots \ {t} : held'[u] = held[u]
  BY DEF TypeOK
<1>3. /\ \A u \in Slots : held[u] \subseteq Claimed(c) \ ran[c]
      /\ ran[c] \subseteq Claimed(c)
      /\ ~failed[c] => \A r \in Claimed(c) \ ran[c] : \E u \in Slots : r \in held[u]
  BY DEF ClaimInv
<1>4. \A u, v \in Slots : u # v => held[u] \cap held[v] = {}
  BY DEF HeldInv
<1>5. \A u \in Slots \ {t} : held[u] \cap held[t] = {}
  BY <1>4
<1>6. \A u, v \in Slots : u # v => held'[u] \cap held'[v] = {}
  BY <1>2, <1>4
<1>7. \A u \in Slots : held'[u] \subseteq Claimed(c) \ ran'[c]
  BY <1>2, <1>3, <1>5
<1>8. ASSUME part = held[t], ~failed[c], NEW r \in Claimed(c), r \notin ran'[c]
      PROVE  \E u \in Slots : r \in held'[u]
  BY <1>2, <1>3, <1>8
<1>9. QED
  BY <1>1, <1>2, <1>3, <1>6, <1>7, <1>8

(* What the steps that claim, run or lose rows do to them, on the caller   *)
(* and on a worker alike.                                                  *)
LEMMA CallerRows ==
    ASSUME DispatchInv, NEW c \in Callers,
           CallerClaim(c) \/ CallerRun(c) \/ CallerPanic(c)
    PROVE  /\ cpc[c] \in {"steal", "run"} /\ cpc'[c] \in {"steal", "run", "drain"}
           /\ lock = c /\ \A d \in Callers \ {c} : cpc[d] \notin UnderLock /\ cpc'[d] = cpc[d]
           /\ held'[0] # {} => cpc'[c] = "run"
           /\ \A w \in Workers : held'[w] = held[w] /\ wpc'[w] = wpc[w]
           /\ \A u, v \in Slots : u # v => held'[u] \cap held'[v] = {}
           /\ \A u \in Slots : held'[u] \subseteq Claimed(c)' \ ran'[c]
           /\ ran'[c] \subseteq Claimed(c)'
           /\ ~failed'[c] =>
                \A r \in Claimed(c)' \ ran'[c] : \E u \in Slots : r \in held'[u]
           /\ cpc'[c] = "drain" /\ ~unwinding'[c] => call'[c].rows <= nextRow'
           /\ failed'[c] <=> failed[c] \/ CallerPanic(c)
           /\ unwinding'[c] <=> CallerPanic(c)
           /\ \A d \in Callers \ {c} : UNCHANGED <<ran[d], failed[d], unwinding[d]>>
           /\ UNCHANGED <<panicked, payload, state, wpc, call>>
<1> USE DEF Goto
<1>a. TypeOK /\ BarrierInv /\ HeldInv /\ ClaimInv /\ FreshInv
  BY DEF DispatchInv, BarrierInv
<1>b. /\ 0 \in Slots /\ 0 \notin Workers /\ Workers \subseteq Slots
      /\ call[c] \in Args /\ call[c].rows \in Nat /\ nextRow \in Nat
  BY PoolAssumption, <1>a DEF Slots, Workers, TypeOK, Args
<1>1. /\ cpc[c] \in {"steal", "run"}
      /\ UNCHANGED <<panicked, payload, state, wpc, call>>
  BY DEF CallerClaim, CallerRun, CallerPanic, shared, workers
<1>2. lock = c /\ \A d \in Callers \ {c} : cpc[d] \notin UnderLock
  BY <1>a, <1>1, OneHolder DEF UnderLock, InFlight
<1>3. ~unwinding[c] /\ \A d \in Callers \ {c} : UNCHANGED <<ran[d], failed[d], unwinding[d], cpc[d]>>
  BY <1>a, <1>1 DEF CallerClaim, CallerRun, CallerPanic, FreshInv, TypeOK, history
<1>4. CASE CallerClaim(c)
  <2>1. cpc[c] = "steal" /\ Claim(0, call[c]) /\ UNCHANGED <<unwinding, failed, ran>>
    BY <1>4 DEF CallerClaim, history
  <2>2. held[0] = {}
    BY <1>a, <1>2, <2>1 DEF HeldInv, UnderLock, InFlight
  <2>3. cpc'[c] = IF nextRow < call[c].rows THEN "run" ELSE "drain"
    BY <1>4, <1>a DEF CallerClaim, TypeOK
  <2>4. /\ nextRow' \in Nat /\ nextRow' > nextRow
        /\ held'[0] = {r \in CallRows(c) : nextRow <= r /\ r < nextRow'}
        /\ \A u \in Slots \ {0} : held'[u] = held[u]
        /\ \A u, v \in Slots : u # v => held'[u] \cap held'[v] = {}
        /\ \A u \in Slots : held'[u] \subseteq {r \in CallRows(c) : r < nextRow'} \ ran[c]
        /\ ran[c] \subseteq {r \in CallRows(c) : r < nextRow'}
        /\ ~failed[c] => \A r \in {q \in CallRows(c) : q < nextRow'} \ ran[c] :
                             \E u \in Slots : r \in held'[u]
    BY <1>a, <1>b, <2>1, <2>2, ClaimedRows DEF InFlight
  <2>5. {r \in CallRows(c) : r < nextRow'} = Claimed(c)'
    BY <1>1 DEF Claimed, CallRows
  <2>6. held'[0] # {} => cpc'[c] = "run"
    <3>1. CASE nextRow < call[c].rows
      BY <2>3, <3>1
    <3>2. CASE ~(nextRow < call[c].rows)
      BY <1>b, <2>4, <3>2 DEF CallRows
    <3>3. QED
      BY <3>1, <3>2
  <2>7. cpc'[c] = "drain" => call'[c].rows <= nextRow'
    BY <1>b, <1>1, <2>3, <2>4
  <2>8. ~CallerPanic(c)
    BY <2>1 DEF CallerPanic
  <2>9. cpc'[c] \in {"run", "drain"}
    BY <2>3
  <2> HIDE DEF CallRows, Claimed
  <2>10. QED
    BY <1>b, <1>1, <1>2, <1>3, <2>1, <2>4, <2>5, <2>6, <2>7, <2>8, <2>9
<1>5. CASE CallerRun(c)
  <2>1. PICK part \in SUBSET held[0] :
        /\ part = held[0]
        /\ ran' = [ran EXCEPT ![c] = @ \cup part] /\ held' = [held EXCEPT ![0] = {}]
        /\ UNCHANGED <<nextRow, call, failed, unwinding>> /\ cpc'[c] = "steal"
    BY <1>5, <1>a DEF CallerRun, shared, TypeOK
  <2>2. /\ \A u, v \in Slots : u # v => held'[u] \cap held'[v] = {}
        /\ \A u \in Slots : held'[u] \subseteq Claimed(c)' \ ran'[c]
        /\ ran'[c] \subseteq Claimed(c)'
        /\ ~failed[c] =>
             \A r \in Claimed(c)' \ ran'[c] : \E u \in Slots : r \in held'[u]
    BY <1>a, <1>b, <1>1, <2>1, RanRows DEF InFlight
  <2>3. held'[0] = {} /\ \A w \in Workers : held'[w] = held[w]
    BY <1>a, <1>b, <2>1 DEF TypeOK
  <2>4. ~CallerPanic(c)
    BY <2>1, <1>a DEF CallerPanic, TypeOK
  <2>5. QED
    BY <1>1, <1>2, <1>3, <2>1, <2>2, <2>3, <2>4
<1>6. CASE CallerPanic(c)
  <2>1. PICK part \in SUBSET held[0] : ran' = [ran EXCEPT ![c] = @ \cup part]
    BY <1>6 DEF CallerPanic, RowsBefore
  <2>2. /\ held' = [held EXCEPT ![0] = {}]
        /\ UNCHANGED <<nextRow, call>> /\ cpc'[c] = "drain"
        /\ failed'[c] = TRUE /\ unwinding'[c] = TRUE
    BY <1>6, <1>a DEF CallerPanic, shared, TypeOK
  <2>3. /\ \A u, v \in Slots : u # v => held'[u] \cap held'[v] = {}
        /\ \A u \in Slots : held'[u] \subseteq Claimed(c)' \ ran'[c]
        /\ ran'[c] \subseteq Claimed(c)'
    BY <1>a, <1>b, <1>1, <2>1, <2>2, RanRows DEF InFlight
  <2>4. held'[0] = {} /\ \A w \in Workers : held'[w] = held[w]
    BY <1>a, <1>b, <2>2 DEF TypeOK
  <2>5. QED
    BY <1>6, <1>1, <1>2, <1>3, <2>2, <2>3, <2>4
<1>7. QED
  BY <1>4, <1>5, <1>6

(* The same of a worker, for the dispatch it serves.                       *)
LEMMA WorkerRows ==
    ASSUME DispatchInv, NEW w \in Workers,
           WorkerClaim(w) \/ WorkerRun(w) \/ WorkerPanic(w)
    PROVE  \E c \in Callers :
           /\ lock = c /\ cpc[c] \in InFlight
           /\ \A d \in Callers \ {c} : cpc[d] \notin UnderLock
           /\ \A u \in Slots \ {w} : held'[u] = held[u]
           /\ held'[w] # {} => wpc'[w] = "run"
           /\ wpc[w] \in HasJob \ {"caught", "flag", "done"}
           /\ \A u \in Workers \ {w} : wpc'[u] = wpc[u]
           /\ wpc'[w] \in {"steal", "run", "done", "caught"}
           /\ wpc'[w] = "caught" <=> WorkerPanic(w)
           /\ \A u, v \in Slots : u # v => held'[u] \cap held'[v] = {}
           /\ \A u \in Slots : held'[u] \subseteq Claimed(c)' \ ran'[c]
           /\ ran'[c] \subseteq Claimed(c)'
           /\ ~failed'[c] =>
                \A r \in Claimed(c)' \ ran'[c] : \E u \in Slots : r \in held'[u]
           /\ nextRow' >= nextRow /\ nextRow' \in Nat
           /\ failed'[c] <=> failed[c] \/ WorkerPanic(w)
           /\ \A d \in Callers \ {c} : UNCHANGED <<ran[d], failed[d]>>
           /\ UNCHANGED <<panicked, payload, state, cpc, call, unwinding, lock>>
<1> USE DEF WGoto
<1>a. TypeOK /\ BarrierInv /\ HeldInv /\ ClaimInv /\ FreshInv
  BY DEF DispatchInv, BarrierInv
<1>b. w \in Slots /\ Workers \subseteq Slots /\ nextRow \in Nat
  BY PoolAssumption, <1>a DEF Slots, Workers, TypeOK
<1>1. /\ wpc[w] \in {"steal", "run"}
      /\ UNCHANGED <<panicked, payload, state, cpc, call, unwinding, lock>>
  BY DEF WorkerClaim, WorkerRun, WorkerPanic, shared, callers
<1>2. PICK c \in Callers : /\ lock = c /\ cpc[c] \in InFlight
                           /\ wjob[w].caller = c /\ wjob[w].args = call[c]
  BY <1>a, <1>1, ServedJob DEF HasJob
<1>3. \A d \in Callers \ {c} : cpc[d] \notin UnderLock
  BY <1>a, <1>2, OneHolder DEF UnderLock
<1>4. call[c].rows \in Nat
  BY <1>a, <1>2 DEF TypeOK, Args
<1>5. /\ \A d \in Callers \ {c} : UNCHANGED <<ran[d], failed[d]>>
      /\ \A u \in Workers \ {w} : wpc'[u] = wpc[u]
  BY <1>a, <1>2 DEF WorkerClaim, WorkerRun, WorkerPanic, history, TypeOK
<1>6. CASE WorkerClaim(w)
  <2>1. wpc[w] = "steal" /\ Claim(w, call[c]) /\ UNCHANGED <<failed, ran>>
    BY <1>6, <1>2 DEF WorkerClaim, history
  <2>2. held[w] = {}
    BY <1>a, <2>1 DEF HeldInv
  <2>3. wpc'[w] = IF nextRow < call[c].rows THEN "run" ELSE "done"
    BY <1>6, <1>2, <1>a DEF WorkerClaim, TypeOK
  <2>4. /\ nextRow' \in Nat /\ nextRow' > nextRow
        /\ held'[w] = {r \in CallRows(c) : nextRow <= r /\ r < nextRow'}
        /\ \A u \in Slots \ {w} : held'[u] = held[u]
        /\ \A u, v \in Slots : u # v => held'[u] \cap held'[v] = {}
        /\ \A u \in Slots : held'[u] \subseteq {r \in CallRows(c) : r < nextRow'} \ ran[c]
        /\ ran[c] \subseteq {r \in CallRows(c) : r < nextRow'}
        /\ ~failed[c] => \A r \in {q \in CallRows(c) : q < nextRow'} \ ran[c] :
                             \E u \in Slots : r \in held'[u]
    BY <1>a, <1>b, <1>2, <2>1, <2>2, ClaimedRows
  <2>5. {r \in CallRows(c) : r < nextRow'} = Claimed(c)'
    BY <1>1 DEF Claimed, CallRows
  <2>6. held'[w] # {} => wpc'[w] = "run"
    <3>1. CASE nextRow < call[c].rows
      BY <2>3, <3>1
    <3>2. CASE ~(nextRow < call[c].rows)
      BY <1>b, <1>4, <2>4, <3>2 DEF CallRows
    <3>3. QED
      BY <3>1, <3>2
  <2>7. ~WorkerPanic(w) /\ wpc'[w] \in {"run", "done"}
    BY <2>1, <2>3 DEF WorkerPanic
  <2>8. nextRow' >= nextRow
    BY <1>b, <2>4
  <2> HIDE DEF CallRows, Claimed
  <2>9. /\ \A u \in Slots : held'[u] \subseteq Claimed(c)' \ ran'[c]
        /\ ran'[c] \subseteq Claimed(c)'
        /\ ~failed'[c] =>
             \A r \in Claimed(c)' \ ran'[c] : \E u \in Slots : r \in held'[u]
    BY <1>2, <2>1, <2>4, <2>5
  <2>10. QED
    BY <1>1, <1>2, <1>3, <1>5, <2>1, <2>4, <2>6, <2>7, <2>8, <2>9 DEF HasJob
<1>7. CASE WorkerRun(w)
  <2>1. PICK part \in SUBSET held[w] :
        /\ part = held[w]
        /\ ran' = [ran EXCEPT ![c] = @ \cup part] /\ held' = [held EXCEPT ![w] = {}]
        /\ UNCHANGED <<nextRow, call, failed>> /\ wpc'[w] = "steal"
    BY <1>7, <1>a, <1>2 DEF WorkerRun, shared, callers, TypeOK
  <2>2. /\ \A u, v \in Slots : u # v => held'[u] \cap held'[v] = {}
        /\ \A u \in Slots : held'[u] \subseteq Claimed(c)' \ ran'[c]
        /\ ran'[c] \subseteq Claimed(c)'
        /\ ~failed[c] =>
             \A r \in Claimed(c)' \ ran'[c] : \E u \in Slots : r \in held'[u]
    <3>1. /\ UNCHANGED <<nextRow, call>> /\ TypeOK /\ HeldInv /\ ClaimInv
          /\ w \in Slots /\ cpc[c] \in InFlight
          /\ ran' = [ran EXCEPT ![c] = @ \cup part] /\ held' = [held EXCEPT ![w] = {}]
      BY <1>a, <1>b, <1>2, <2>1
    <3>2. /\ \A u, v \in Slots : u # v => held'[u] \cap held'[v] = {}
          /\ \A u \in Slots : held'[u] \subseteq Claimed(c)' \ ran'[c]
          /\ ran'[c] \subseteq Claimed(c)'
          /\ part = held[w] /\ ~failed[c] =>
               \A r \in Claimed(c)' \ ran'[c] : \E u \in Slots : r \in held'[u]
      BY <3>1, RanRows
    <3>3. part = held[w]
      BY <2>1
    <3>4. QED
      BY <3>2, <3>3, Zenon
  <2>3. held'[w] = {} /\ \A u \in Slots \ {w} : held'[u] = held[u]
    BY <1>a, <1>b, <2>1 DEF TypeOK
  <2>4. ~WorkerPanic(w)
    <3>1. WorkerPanic(w) => wpc' = [wpc EXCEPT ![w] = "caught"]
      BY DEF WorkerPanic
    <3>2. QED
      BY <3>1, <2>1, <1>a DEF TypeOK
  <2>5. nextRow' >= nextRow /\ nextRow' \in Nat
    BY <1>b, <2>1
  <2>6. QED
    BY <1>1, <1>2, <1>3, <1>5, <2>1, <2>2, <2>3, <2>4, <2>5 DEF HasJob
<1>8. CASE WorkerPanic(w)
  <2>1. PICK part \in SUBSET held[w] : ran' = [ran EXCEPT ![c] = @ \cup part]
    BY <1>8, <1>2 DEF WorkerPanic, RowsBefore
  <2>2. /\ held' = [held EXCEPT ![w] = {}]
        /\ UNCHANGED <<nextRow, call>> /\ wpc'[w] = "caught"
        /\ failed'[c] = TRUE
    BY <1>8, <1>a, <1>2 DEF WorkerPanic, shared, callers, TypeOK
  <2>3. /\ \A u, v \in Slots : u # v => held'[u] \cap held'[v] = {}
        /\ \A u \in Slots : held'[u] \subseteq Claimed(c)' \ ran'[c]
        /\ ran'[c] \subseteq Claimed(c)'
    BY <1>a, <1>b, <1>2, <2>1, <2>2, RanRows
  <2>4. held'[w] = {} /\ \A u \in Slots \ {w} : held'[u] = held[u]
    BY <1>a, <1>b, <2>2 DEF TypeOK
  <2>5. nextRow' >= nextRow /\ nextRow' \in Nat
    BY <1>b, <2>2
  <2>6. QED
    BY <1>8, <1>1, <1>2, <1>3, <1>5, <2>2, <2>3, <2>4, <2>5 DEF HasJob
<1>9. QED
  BY <1>6, <1>7, <1>8

(* The caller steps that move no rows leave or keep "run".                 *)
LEMMA HeldStep == DispatchInv /\ [Next]_vars => HeldInv'
<1> SUFFICES ASSUME DispatchInv, [Next]_vars PROVE HeldInv'
  OBVIOUS
<1>a. TypeOK /\ BarrierInv /\ HeldInv
  BY DEF DispatchInv, BarrierInv
<1>b. 0 \in Slots /\ 0 \notin Workers /\ Workers \subseteq Slots
  BY PoolAssumption DEF Slots, Workers
<1> USE DEF HeldInv, TypeOK, Goto, WGoto
<1>1. ASSUME NEW c \in Callers, Call(c) PROVE HeldInv'
  BY <1>1, <1>a, CallRowCount
<1>2. ASSUME NEW c \in Callers, TryLock(c) \/ ClearStalePanic(c) \/ SetPending(c)
             \/ BumpState(c) \/ WakeParked(c) \/ Drain(c) \/ CheckPanic(c)
             \/ RunSerial(c) \/ WriteJob(c) \/ Leave(c)
      PROVE HeldInv'
  <2>1. UNCHANGED held
    BY <1>2 DEF TryLock, ClearStalePanic, SetPending, BumpState, WakeParked, Drain, CheckPanic, RunSerial, WriteJob, Leave
  <2>2. UNCHANGED wpc
    BY <1>2, CallerFrame DEF CallerStep
  <2>3. cpc[c] # "run" /\ \A d \in Callers \ {c} : cpc'[d] = cpc[d]
    BY <1>2, <1>a DEF TryLock, ClearStalePanic, SetPending, BumpState, WakeParked, Drain, CheckPanic, RunSerial, WriteJob, Leave
  <2>4. QED
    BY <1>a, <2>1, <2>2, <2>3
<1>3. ASSUME NEW c \in Callers, CallerClaim(c) \/ CallerRun(c) \/ CallerPanic(c)
      PROVE HeldInv'
  BY <1>3, <1>a, CallerRows
<1>4. ASSUME NEW w \in Workers, WorkerClaim(w) \/ WorkerRun(w) \/ WorkerPanic(w)
      PROVE HeldInv'
  <2>1. PICK c \in Callers :
           /\ \A u \in Slots \ {w} : held'[u] = held[u]
           /\ held'[w] # {} => wpc'[w] = "run"
           /\ \A u \in Workers \ {w} : wpc'[u] = wpc[u]
           /\ \A u, v \in Slots : u # v => held'[u] \cap held'[v] = {}
           /\ UNCHANGED cpc
    BY <1>4, WorkerRows
  <2>2. QED
    BY <1>a, <1>b, <2>1
<1>5. ASSUME NEW w \in Workers, WorkerStep(w) \/ SpuriousUnpark(w),
             ~(WorkerClaim(w) \/ WorkerRun(w) \/ WorkerPanic(w))
      PROVE HeldInv'
  <2>1. UNCHANGED <<held, cpc>>
    BY <1>5, RowFrame, WorkerFrame DEF WorkerStep, rowVars
  <2>2. wpc[w] # "run" /\ \A u \in Workers \ {w} : wpc'[u] = wpc[u]
    BY <1>5, <1>a DEF WorkerStep, CheckShutdown, SeeState, Spin, EnterParked, LookAgain, Park, Unpark, LeaveParked, SkipDispatch, ReadJob, StorePayload, FlagPanic, Decrement, SpuriousUnpark
  <2>3. QED
    BY <1>a, <2>1, <2>2
<1>6. ASSUME DropStep \/ UNCHANGED vars PROVE HeldInv'
  BY <1>6, <1>a, RowFrame DEF rowVars
<1>7. QED
  BY <1>1, <1>2, <1>3, <1>4, <1>5, <1>6 DEF Next, CallerStep, Gone

(* Every row of a published call is where it should be after every step.   *)
LEMMA ClaimStep == DispatchInv /\ [Next]_vars => ClaimInv'
<1> SUFFICES ASSUME DispatchInv, [Next]_vars PROVE ClaimInv'
  OBVIOUS
<1>a. TypeOK /\ BarrierInv /\ HeldInv /\ ClaimInv /\ FreshInv
  BY DEF DispatchInv, BarrierInv
<1> USE DEF ClaimInv, TypeOK, Goto, WGoto
<1>1. ASSUME NEW c \in Callers, Call(c) PROVE ClaimInv'
  BY <1>1, <1>a, CallRowCount DEF Claimed, CallRows, InFlight
<1>2. ASSUME NEW c \in Callers, TryLock(c) \/ ClearStalePanic(c) \/ SetPending(c)
             \/ Drain(c) \/ CheckPanic(c)
      PROVE ClaimInv'
  <2>1. UNCHANGED <<call, ran, failed, nextRow, unwinding, held>>
    BY <1>2, RowFrame DEF rowVars
  <2>2. cpc'[c] \notin InFlight /\ \A d \in Callers \ {c} : cpc'[d] = cpc[d]
    BY <1>2, <1>a DEF TryLock, ClearStalePanic, SetPending, Drain, CheckPanic, InFlight
  <2>3. QED
    BY <1>a, <2>1, <2>2 DEF Claimed, CallRows
<1>3. ASSUME NEW c \in Callers, WakeParked(c) PROVE ClaimInv'
  <2>1. UNCHANGED <<call, ran, failed, nextRow, unwinding, held>>
    BY <1>3, RowFrame DEF rowVars
  <2>2. /\ cpc[c] = "wake" /\ cpc'[c] = "steal"
        /\ \A d \in Callers \ {c} : cpc'[d] = cpc[d]
    BY <1>3, <1>a DEF WakeParked
  <2>3. QED
    BY <1>a, <2>1, <2>2 DEF Claimed, CallRows, InFlight
<1>4. ASSUME NEW c \in Callers, BumpState(c) PROVE ClaimInv'
  <2>1. UNCHANGED <<call, ran, failed, nextRow, unwinding, held>>
    BY <1>4, RowFrame DEF rowVars
  <2>2. /\ cpc[c] = "bump" /\ cpc'[c] = "wake"
        /\ \A d \in Callers \ {c} : cpc'[d] = cpc[d]
    BY <1>4, <1>a DEF BumpState
  <2>3. \A t \in Slots : held[t] = {}
    BY <1>a, <2>2, NoJobsOutside, NothingHeld DEF UnderLock, InFlight
  <2>4. nextRow = 0 /\ ran[c] = {}
    BY <1>a, <2>2 DEF FreshInv
  <2>5. Claimed(c)' = {}
    <3>1. call[c].rows \in Nat
      BY <1>a DEF Args
    <3>2. QED
      BY <2>1, <2>4, <3>1 DEF Claimed, CallRows
  <2>6. \A d \in Callers \ {c} : cpc'[d] \notin InFlight
    BY <1>a, <2>2, OneHolder DEF UnderLock
  <2>7. QED
    BY <2>1, <2>2, <2>3, <2>4, <2>5, <2>6
<1>5. ASSUME NEW c \in Callers, RunSerial(c) \/ WriteJob(c) \/ Leave(c)
      PROVE ClaimInv'
  <2>1. /\ cpc[c] \notin InFlight /\ cpc'[c] \notin InFlight
        /\ \A d \in Callers \ {c} : UNCHANGED <<cpc[d], call[d], ran[d], failed[d], unwinding[d]>>
        /\ UNCHANGED held
    BY <1>5, <1>a DEF RunSerial, WriteJob, Leave, InFlight, history
  <2>2. ASSUME NEW d \in Callers \ {c}, cpc[d] \in InFlight PROVE UNCHANGED nextRow
    <3>1. ~WriteJob(c)
      BY <1>a, <2>2, OneHolder DEF WriteJob, UnderLock, InFlight
    <3>2. QED
      BY <3>1, <1>5 DEF RunSerial, Leave, shared
  <2>3. QED
    BY <1>a, <2>1, <2>2 DEF Claimed, CallRows
<1>6. ASSUME NEW c \in Callers, CallerClaim(c) \/ CallerRun(c) \/ CallerPanic(c)
      PROVE ClaimInv'
  BY <1>6, CallerRows DEF InFlight, UnderLock
<1>7. ASSUME NEW w \in Workers, WorkerClaim(w) \/ WorkerRun(w) \/ WorkerPanic(w)
      PROVE ClaimInv'
  <2>1. PICK c \in Callers :
           /\ lock = c /\ cpc[c] \in InFlight
           /\ \A d \in Callers \ {c} : cpc[d] \notin UnderLock
           /\ \A u \in Slots : held'[u] \subseteq Claimed(c)' \ ran'[c]
           /\ ran'[c] \subseteq Claimed(c)'
           /\ ~failed'[c] =>
                \A r \in Claimed(c)' \ ran'[c] : \E u \in Slots : r \in held'[u]
           /\ nextRow' >= nextRow /\ nextRow' \in Nat
           /\ UNCHANGED <<cpc, call, unwinding>>
    BY <1>7, WorkerRows
  <2>2. call[c].rows <= nextRow => call'[c].rows <= nextRow'
    BY <1>a, <2>1 DEF Args
  <2>3. QED
    BY <1>a, <2>1, <2>2 DEF UnderLock
<1>8. ASSUME NEW w \in Workers, WorkerStep(w) \/ SpuriousUnpark(w),
             ~(WorkerClaim(w) \/ WorkerRun(w) \/ WorkerPanic(w))
      PROVE ClaimInv'
  <2>1. UNCHANGED <<call, ran, failed, nextRow, unwinding, held, cpc>>
    BY <1>8, RowFrame, WorkerFrame DEF WorkerStep, rowVars
  <2>2. QED
    BY <1>a, <2>1 DEF Claimed, CallRows
<1>9. ASSUME DropStep \/ UNCHANGED vars PROVE ClaimInv'
  <2>1. UNCHANGED <<call, ran, failed, nextRow, unwinding, held, cpc>>
    BY <1>9, RowFrame DEF rowVars
  <2>2. QED
    BY <1>a, <2>1 DEF Claimed, CallRows
<1>10. QED
  BY <1>1, <1>2, <1>3, <1>4, <1>5, <1>6, <1>7, <1>8, <1>9 DEF Next, CallerStep, Gone

(* A panic is known by the flag, by a worker on its way to raise it, or by *)
(* the unwinding caller, after every step.                                 *)
LEMMA PanicStep == DispatchInv /\ [Next]_vars => PanicInv'
<1> SUFFICES ASSUME DispatchInv, [Next]_vars PROVE PanicInv'
  OBVIOUS
<1>a. TypeOK /\ BarrierInv /\ PanicInv /\ FreshInv
  BY DEF DispatchInv, BarrierInv
<1> USE DEF PanicInv, TypeOK, Goto, WGoto
<1>1. ASSUME NEW c \in Callers, Call(c) PROVE PanicInv'
  <2>1. UNCHANGED <<payload, panicked, state>>
    BY <1>1 DEF Call, shared
  <2>2. QED
    BY <1>1, <1>a, <2>1, CallRowCount DEF AtPanic, InFlight
<1>2. ASSUME NEW c \in Callers, TryLock(c) \/ SetPending(c) \/ Drain(c) \/ WakeParked(c)
      PROVE PanicInv'
  <2>1. UNCHANGED <<failed, unwinding, wpc, payload, panicked, state>>
    BY <1>2, RowFrame, CallerFrame DEF rowVars, CallerStep, TryLock, SetPending, Drain, WakeParked, shared
  <2>2. /\ cpc'[c] \in InFlight => cpc[c] \in InFlight
        /\ cpc'[c] \in {"job", "pending", "bump"} => cpc[c] \in {"job", "pending", "bump"}
        /\ \A d \in Callers \ {c} : cpc'[d] = cpc[d]
    BY <1>2, <1>a DEF TryLock, SetPending, Drain, WakeParked, InFlight
  <2>3. QED
    BY <1>a, <2>1, <2>2 DEF AtPanic
<1>3. ASSUME NEW c \in Callers, ClearStalePanic(c) \/ CheckPanic(c) PROVE PanicInv'
  <2>1. UNCHANGED <<failed, unwinding, wpc, state>>
    BY <1>3, RowFrame, CallerFrame DEF rowVars, CallerStep, ClearStalePanic, CheckPanic, shared
  <2>2. panicked' = FALSE /\ payload' = IF panicked THEN 0 ELSE payload
    BY <1>3 DEF ClearStalePanic, CheckPanic
  <2>3. cpc[c] \in UnderLock \ InFlight /\ cpc'[c] \notin InFlight
    BY <1>3, <1>a DEF ClearStalePanic, CheckPanic, UnderLock, InFlight
  <2>4. \A w \in Workers : wpc[w] \notin HasJob
    BY <1>a, <2>3, NoJobsOutside
  <2>5. payload' = 0
    BY <1>a, <2>2, <2>4 DEF HasJob
  <2>6. \A d \in Callers \ {c} : cpc'[d] = cpc[d] /\ cpc[d] \notin InFlight
    BY <1>3, <1>a, <2>3, OneHolder DEF ClearStalePanic, CheckPanic, UnderLock
  <2>7. QED
    BY <2>1, <2>2, <2>3, <2>4, <2>5, <2>6 DEF HasJob
<1>4. ASSUME NEW c \in Callers, BumpState(c) PROVE PanicInv'
  <2>1. UNCHANGED <<failed, unwinding, wpc, panicked, payload>>
    BY <1>4, RowFrame, CallerFrame DEF rowVars, CallerStep, BumpState
  <2>2. cpc[c] = "bump" /\ cpc[c] \in UnderLock \ InFlight /\ ~panicked
    BY <1>4, <1>a DEF BumpState, UnderLock, InFlight
  <2>3. \A w \in Workers : wpc[w] \notin HasJob
    BY <1>a, <2>2, NoJobsOutside
  <2>4. ~failed[c] /\ ~unwinding[c] /\ AtPanic = {} /\ payload = 0
    BY <1>a, <2>2, <2>3 DEF FreshInv, AtPanic, HasJob
  <2>5. state'.epoch # 0
    BY <1>4, <1>a DEF BumpState, Word
  <2>6. \A d \in Callers \ {c} : cpc'[d] = cpc[d] /\ cpc[d] \notin InFlight
    BY <1>4, <1>a, <2>2, OneHolder DEF BumpState, UnderLock
  <2>7. cpc'[c] \notin {"job", "pending", "bump"}
    BY <1>4, <1>a DEF BumpState
  <2>8. QED
    BY <1>a, <2>1, <2>2, <2>4, <2>5, <2>6, <2>7 DEF AtPanic
<1>5. ASSUME NEW c \in Callers, RunSerial(c) \/ WriteJob(c) \/ Leave(c) PROVE PanicInv'
  <2>1. /\ UNCHANGED <<wpc, state, payload, panicked>>
        /\ \A d \in Callers \ {c} : UNCHANGED <<failed[d], unwinding[d], cpc[d]>>
        /\ cpc'[c] \notin InFlight
        /\ cpc'[c] \in {"job", "pending", "bump"} => cpc[c] = "job"
    BY <1>5, <1>a DEF RunSerial, WriteJob, Leave, shared, workers, history, InFlight
  <2>2. QED
    BY <1>a, <2>1 DEF AtPanic
<1>6. ASSUME NEW c \in Callers, CallerClaim(c) \/ CallerRun(c) \/ CallerPanic(c)
      PROVE PanicInv'
  <2>1. /\ cpc[c] \in {"steal", "run"} /\ cpc'[c] \in {"steal", "run", "drain"}
        /\ \A d \in Callers \ {c} : cpc[d] \notin UnderLock /\ cpc'[d] = cpc[d]
        /\ failed'[c] <=> failed[c] \/ CallerPanic(c)
        /\ unwinding'[c] <=> CallerPanic(c)
        /\ UNCHANGED <<panicked, payload, state, wpc>>
    BY <1>6, CallerRows
  <2>2. ~unwinding[c]
    BY <1>a, <2>1 DEF FreshInv
  <2>3. QED
    BY <1>a, <2>1, <2>2 DEF AtPanic, InFlight, UnderLock
<1>7. ASSUME NEW w \in Workers, WorkerClaim(w) \/ WorkerRun(w) \/ WorkerPanic(w)
      PROVE PanicInv'
  <2>1. PICK c \in Callers :
           /\ cpc[c] \in InFlight
           /\ \A d \in Callers \ {c} : cpc[d] \notin UnderLock
           /\ wpc[w] \in HasJob \ {"caught", "flag", "done"}
           /\ \A u \in Workers \ {w} : wpc'[u] = wpc[u]
           /\ wpc'[w] \in {"steal", "run", "done", "caught"}
           /\ wpc'[w] = "caught" <=> WorkerPanic(w)
           /\ failed'[c] <=> failed[c] \/ WorkerPanic(w)
           /\ UNCHANGED <<panicked, payload, state, cpc, unwinding>>
    BY <1>7, WorkerRows
  <2>2. AtPanic' = IF WorkerPanic(w) THEN AtPanic \cup {w} ELSE AtPanic
    BY <2>1 DEF AtPanic
  <2>3. (\E u \in Workers : wpc'[u] = "flag") <=> (\E u \in Workers : wpc[u] = "flag")
    BY <2>1
  <2>4. QED
    BY <1>a, <2>1, <2>2, <2>3 DEF UnderLock
<1>8. ASSUME NEW w \in Workers, StorePayload(w) PROVE PanicInv'
  <2>1. UNCHANGED <<failed, unwinding, panicked, state, cpc>>
    BY <1>8, RowFrame, WorkerFrame DEF rowVars, WorkerStep, StorePayload
  <2>2. /\ wpc[w] = "caught" /\ wpc' = [wpc EXCEPT ![w] = "flag"]
        /\ payload' = IF payload = 0 THEN lastState[w].epoch ELSE payload
    BY <1>8 DEF StorePayload
  <2>3. lastState[w] = state /\ lock \in Callers /\ cpc[lock] \in InFlight
    BY <1>a, <2>2, ServedJob DEF HasJob
  <2>4. payload' # 0 /\ payload' \in {0, state.epoch}
    BY <1>a, <2>2, <2>3
  <2>5. \A d \in Callers : cpc[d] \in InFlight => d = lock
    BY <1>a, <2>3, OneHolder DEF UnderLock
  <2>6. AtPanic' = AtPanic /\ w \in AtPanic /\ wpc'[w] = "flag"
    BY <1>a, <2>2 DEF AtPanic
  <2>7. QED
    BY <1>a, <2>1, <2>4, <2>5, <2>6
<1>9. ASSUME NEW w \in Workers, FlagPanic(w) PROVE PanicInv'
  <2>1. UNCHANGED <<failed, unwinding, payload, state, cpc>>
    BY <1>9, RowFrame, WorkerFrame DEF rowVars, WorkerStep, FlagPanic
  <2>2. /\ wpc[w] = "flag" /\ wpc' = [wpc EXCEPT ![w] = "done"] /\ panicked' = TRUE
    BY <1>9 DEF FlagPanic
  <2>3. lock \in Callers /\ cpc[lock] \in InFlight
    BY <1>a, <2>2, ServedJob DEF HasJob
  <2>4. \A d \in Callers : cpc[d] \in UnderLock => d = lock
    BY <1>a, <2>3, OneHolder DEF UnderLock
  <2>5. w \in AtPanic /\ payload # 0
    BY <1>a, <2>2 DEF AtPanic
  <2>6. QED
    BY <1>a, <2>1, <2>2, <2>3, <2>4, <2>5 DEF UnderLock, InFlight
<1>10. ASSUME NEW w \in Workers, WorkerStep(w) \/ SpuriousUnpark(w),
             ~(WorkerClaim(w) \/ WorkerRun(w) \/ WorkerPanic(w)),
             ~StorePayload(w), ~FlagPanic(w)
      PROVE PanicInv'
  <2>1. UNCHANGED <<failed, unwinding, cpc, state>>
    BY <1>10, RowFrame, WorkerFrame DEF WorkerStep, rowVars
  <2>2. /\ wpc[w] \notin {"caught", "flag"} /\ wpc'[w] \notin {"caught", "flag"}
        /\ \A u \in Workers \ {w} : wpc'[u] = wpc[u]
        /\ UNCHANGED <<panicked, payload>>
    BY <1>10, <1>a DEF WorkerStep, CheckShutdown, SeeState, Spin, EnterParked, LookAgain, Park, Unpark, LeaveParked, SkipDispatch, ReadJob, Decrement, SpuriousUnpark, shared
  <2>3. AtPanic' = AtPanic
    BY <2>2 DEF AtPanic
  <2>4. (\E u \in Workers : wpc'[u] = "flag") <=> (\E u \in Workers : wpc[u] = "flag")
    BY <2>2
  <2>5. QED
    BY <1>a, <2>1, <2>2, <2>3, <2>4
<1>11. ASSUME DropStep PROVE PanicInv'
  <2>1. /\ \A c \in Callers : cpc[c] = "idle"
        /\ UNCHANGED <<cpc, wpc, panicked, payload>>
    BY <1>11, <1>a DEF BarrierInv, DropInv, DropStep, BeginDrop, DropBump, DropUnpark, Join, shared, callers, workers
  <2>2. QED
    BY <1>a, <2>1 DEF InFlight
<1>12. ASSUME UNCHANGED vars PROVE PanicInv'
  BY <1>12, <1>a DEF vars, shared, callers, workers, history, AtPanic
<1>13. QED
  BY <1>1, <1>2, <1>3, <1>4, <1>5, <1>6, <1>7, <1>8, <1>9, <1>10, <1>11, <1>12 DEF Next, CallerStep, Gone

(* What DrainGuard establishes: the rows are all in, or a panic is known.  *)
LEMMA DrainedRows ==
    ASSUME DispatchInv, NEW c \in Callers, Drain(c)
    PROVE  /\ failed[c] <=> unwinding[c] \/ panicked
           /\ ~failed[c] => ran[c] = CallRows(c)
<1>a. TypeOK /\ BarrierInv /\ HeldInv /\ ClaimInv /\ PanicInv
  BY DEF DispatchInv, BarrierInv
<1>1. cpc[c] = "drain" /\ \A w \in Workers : ~Owes(w)
  BY <1>a, DrainedPool DEF Drain
<1>2. \A w \in Workers : wpc[w] \notin HasJob
  BY <1>a, <1>1, ServedJob
<1>3. failed[c] <=> unwinding[c] \/ panicked
  BY <1>a, <1>1, <1>2 DEF PanicInv, AtPanic, HasJob, InFlight
<1>4. \A t \in Slots : held[t] = {}
  BY <1>a, <1>1, <1>2, NothingHeld DEF UnderLock, InFlight
<1>5. ASSUME ~failed[c] PROVE ran[c] = CallRows(c)
  <2>1. call[c].rows <= nextRow /\ ran[c] = Claimed(c)
    BY <1>a, <1>1, <1>3, <1>4, <1>5 DEF ClaimInv, InFlight
  <2>2. Claimed(c) = CallRows(c)
    BY <1>a, <2>1 DEF Claimed, CallRows, TypeOK, Args
  <2>3. QED
    BY <2>1, <2>2
<1>6. QED
  BY <1>3, <1>5

(* How a call ends is settled at the barrier and stays settled.            *)
LEMMA EndStep == DispatchInv /\ [Next]_vars => EndInv'
<1> SUFFICES ASSUME DispatchInv, [Next]_vars PROVE EndInv'
  OBVIOUS
<1>a. TypeOK /\ BarrierInv /\ PanicInv /\ FreshInv /\ EndInv
  BY DEF DispatchInv, BarrierInv
<1> USE DEF EndInv, TypeOK, Goto, WGoto
<1>1. ASSUME NEW c \in Callers, Call(c) PROVE EndInv'
  <2>1. UNCHANGED <<payload, panicked, state>>
    BY <1>1 DEF Call, shared
  <2>2. QED
    BY <1>1, <1>a, <2>1, CallRowCount DEF CallRows
<1>2. ASSUME NEW c \in Callers, TryLock(c) \/ SetPending(c) \/ WakeParked(c) \/ ClearStalePanic(c)
             \/ BumpState(c) \/ WriteJob(c)
      PROVE EndInv'
  <2>1. UNCHANGED <<call, ran, failed>>
    BY <1>2 DEF TryLock, SetPending, WakeParked, ClearStalePanic, BumpState, WriteJob, history, callers
  <2>2. /\ cpc'[c] \notin {"check", "return", "raise"}
        /\ \A d \in Callers \ {c} : cpc'[d] = cpc[d]
    BY <1>2, <1>a DEF TryLock, SetPending, WakeParked, ClearStalePanic, BumpState, WriteJob
  <2>3. ASSUME NEW d \in Callers \ {c}, cpc[d] = "check"
        PROVE UNCHANGED <<panicked, payload, state>>
    <3>1. cpc[c] \notin UnderLock
      BY <1>a, <2>3, OneHolder DEF UnderLock
    <3>2. TryLock(c)
      BY <1>2, <3>1 DEF SetPending, WakeParked, ClearStalePanic, BumpState, WriteJob, UnderLock, InFlight
    <3>3. QED
      BY <3>2 DEF TryLock, shared
  <2>4. QED
    BY <1>a, <2>1, <2>2, <2>3 DEF CallRows
<1>3. ASSUME NEW c \in Callers, RunSerial(c) PROVE EndInv'
  <2>1. /\ UNCHANGED <<call, panicked, payload, state>>
        /\ cpc[c] = "serial"
        /\ \A d \in Callers \ {c} : UNCHANGED <<cpc[d], ran[d], failed[d]>>
    BY <1>3, <1>a DEF RunSerial, shared
  <2>2. \/ cpc'[c] = "return" /\ ran'[c] = CallRows(c) /\ UNCHANGED failed
        \/ cpc'[c] = "raise" /\ failed'[c]
    BY <1>3, <1>a DEF RunSerial, CallRows
  <2>3. QED
    BY <1>a, <2>1, <2>2 DEF CallRows, FreshInv
<1>4. ASSUME NEW c \in Callers, CallerClaim(c) \/ CallerRun(c) \/ CallerPanic(c)
      PROVE EndInv'
  <2>1. /\ cpc'[c] \in {"steal", "run", "drain"}
        /\ \A d \in Callers \ {c} : UNCHANGED <<ran[d], failed[d]>> /\ cpc'[d] = cpc[d]
        /\ UNCHANGED <<panicked, payload, state, call>>
    BY <1>4, CallerRows
  <2>2. QED
    BY <1>a, <2>1 DEF CallRows
<1>5. ASSUME NEW c \in Callers, Drain(c) PROVE EndInv'
  <2>1. UNCHANGED <<call, ran, failed, panicked, payload, state>>
    BY <1>5 DEF Drain, shared, history
  <2>2. /\ cpc[c] = "drain" /\ cpc'[c] = IF unwinding[c] THEN "raise" ELSE "check"
        /\ \A d \in Callers \ {c} : cpc'[d] = cpc[d]
    BY <1>5, <1>a DEF Drain
  <2>3. payload \in {0, state.epoch}
    BY <1>a, <2>2 DEF PanicInv, InFlight
  <2>4. QED
    BY <1>5, <1>a, <2>1, <2>2, <2>3, DrainedRows DEF CallRows
<1>6. ASSUME NEW c \in Callers, CheckPanic(c) PROVE EndInv'
  <2>1. UNCHANGED <<call, ran, failed, state>>
    BY <1>6 DEF CheckPanic, history
  <2>2. /\ cpc[c] = "check" /\ cpc'[c] = IF panicked THEN "raise" ELSE "return"
        /\ \A d \in Callers \ {c} : cpc'[d] = cpc[d]
    BY <1>6, <1>a DEF CheckPanic
  <2>3. \A d \in Callers \ {c} : cpc[d] # "check"
    BY <1>a, <2>2, OneHolder DEF UnderLock
  <2>4. QED
    BY <1>a, <2>1, <2>2, <2>3 DEF CallRows
<1>7. ASSUME NEW c \in Callers, Leave(c) PROVE EndInv'
  <2>1. /\ cpc'[c] = "idle" /\ UNCHANGED <<panicked, payload, state>>
        /\ \A d \in Callers \ {c} : UNCHANGED <<cpc[d], ran[d], failed[d], call[d]>>
    BY <1>7, <1>a DEF Leave, shared
  <2>2. QED
    BY <1>a, <2>1 DEF CallRows
<1>8. ASSUME NEW w \in Workers, WorkerStep(w) \/ SpuriousUnpark(w),
             wpc[w] \in HasJob
      PROVE EndInv'
  <2>1. lock \in Callers /\ cpc[lock] \in InFlight
    BY <1>8, <1>a, ServedJob
  <2>2. \A d \in Callers \ {lock} : cpc[d] # "check"
    BY <1>a, <2>1, OneHolder DEF UnderLock
  <2>3. UNCHANGED <<cpc, call, state>>
    BY <1>8, WorkerFrame
  <2>4. \A d \in Callers \ {lock} : UNCHANGED <<ran[d], failed[d]>>
    <3>1. CASE WorkerClaim(w) \/ WorkerRun(w) \/ WorkerPanic(w)
      BY <3>1, WorkerRows
    <3>2. CASE ~(WorkerClaim(w) \/ WorkerRun(w) \/ WorkerPanic(w))
      BY <1>8, <3>2, RowFrame DEF rowVars, WorkerStep
    <3>3. QED
      BY <3>1, <3>2
  <2>5. QED
    BY <1>a, <2>1, <2>2, <2>3, <2>4 DEF CallRows, InFlight
<1>9. ASSUME NEW w \in Workers, WorkerStep(w) \/ SpuriousUnpark(w),
             wpc[w] \notin HasJob
      PROVE EndInv'
  <2>1. /\ ~(WorkerClaim(w) \/ WorkerRun(w) \/ WorkerPanic(w))
        /\ UNCHANGED <<panicked, payload>>
    BY <1>9 DEF WorkerStep, WorkerClaim, WorkerRun, WorkerPanic, StorePayload, FlagPanic, Decrement, HasJob, CheckShutdown, SeeState, Spin, EnterParked, LookAgain, Park, Unpark, LeaveParked, SkipDispatch, ReadJob, SpuriousUnpark, shared
  <2>2. UNCHANGED <<ran, failed, cpc, call, state>>
    BY <1>9, <2>1, RowFrame, WorkerFrame DEF WorkerStep, rowVars
  <2>3. QED
    BY <1>a, <2>1, <2>2 DEF CallRows
<1>10. ASSUME DropStep PROVE EndInv'
  <2>1. /\ \A c \in Callers : cpc[c] = "idle"
        /\ UNCHANGED cpc
    BY <1>10, <1>a DEF BarrierInv, DropInv, DropStep, BeginDrop, DropBump, DropUnpark, Join, shared, callers
  <2>2. QED
    BY <1>a, <2>1
<1>11. ASSUME UNCHANGED vars PROVE EndInv'
  BY <1>11, <1>a DEF vars, shared, callers, history, CallRows
<1>12. QED
  BY <1>1, <1>2, <1>3, <1>4, <1>5, <1>6, <1>7, <1>8, <1>9, <1>10, <1>11 DEF Next, CallerStep, Gone

(* A new pool has run nothing, holds nothing and has seen no panic.        *)
LEMMA DispatchInit == Init => DispatchInv
<1> SUFFICES ASSUME Init PROVE DispatchInv
  OBVIOUS
<1>1. BarrierInv
  BY BarrierInit
<1>2. /\ \A c \in Callers : cpc[c] = "idle" /\ ran[c] = {} /\ failed[c] = FALSE /\ unwinding[c] = FALSE
      /\ \A w \in Workers : wpc[w] = "top"
      /\ \A t \in Slots : held[t] = {}
      /\ payload = 0 /\ panicked = FALSE
  BY DEF Init
<1>3. 0 \in Slots /\ Workers \subseteq Slots
  BY PoolAssumption DEF Slots, Workers
<1>4. FreshInv /\ HeldInv
  BY <1>2, <1>3 DEF FreshInv, HeldInv
<1>5. ClaimInv /\ PanicInv /\ EndInv
  BY <1>2 DEF ClaimInv, PanicInv, EndInv, InFlight
<1>6. QED
  BY <1>1, <1>4, <1>5 DEF DispatchInv

(* The dispatch invariant is inductive.                                    *)
LEMMA DispatchStep == DispatchInv /\ [Next]_vars => DispatchInv'
<1>1. DispatchInv /\ [Next]_vars => BarrierInv'
  BY BarrierStep DEF DispatchInv
<1>2. QED
  BY <1>1, FreshStep, HeldStep, ClaimStep, PanicStep, EndStep DEF DispatchInv

(* In every state of a pool of any width, each row of a published call has *)
(* run, is held by one slot or is unclaimed, and a panic is on its way out *)
(* exactly when a row closure has failed.                                  *)
THEOREM RowPoolDispatchInv == Spec => []DispatchInv
BY DispatchInit, DispatchStep, PTL DEF Spec

(* The payload a dispatch re-raises was caught in that same dispatch.      *)
THEOREM RowPoolRaisesOwnPayload == Spec => []RaisesOwnPayload
<1>1. DispatchInv => RaisesOwnPayload
  <2> SUFFICES ASSUME DispatchInv, NEW c \in Callers
               PROVE  /\ cpc[c] \in InFlight => payload \in {0, state.epoch}
                      /\ cpc[c] = "check" => payload = IF panicked THEN state.epoch ELSE 0
    BY DEF RaisesOwnPayload
  <2>1. cpc[c] \in InFlight => payload \in {0, state.epoch}
    BY DEF DispatchInv, PanicInv
  <2>2. ASSUME cpc[c] = "check" PROVE payload = IF panicked THEN state.epoch ELSE 0
    <3>1. \A w \in Workers : wpc[w] \notin HasJob
      BY <2>2, NoJobsOutside DEF DispatchInv, UnderLock, InFlight
    <3>2. payload # 0 <=> panicked
      BY <3>1 DEF DispatchInv, PanicInv, HasJob
    <3>3. payload \in {0, state.epoch}
      BY <2>2 DEF DispatchInv, EndInv
    <3>4. QED
      BY <3>2, <3>3
  <2>3. QED
    BY <2>1, <2>2
<1>2. QED
  BY <1>1, RowPoolDispatchInv, PTL

----------------------------------------------------------------------------
(* The refinement.                                                         *)

(* The row count of the call each caller is in, as RowDispatch sees it.    *)
rowsBar == [c \in Callers |-> IF cpc[c] = "idle" THEN NoCaller ELSE call[c].rows]

(* A step that moves no caller in or out of a call and runs nothing is a   *)
(* stutter of the contract.                                                *)
LEMMA DispatchStutter ==
    ASSUME UNCHANGED <<ran, failed, outcome>>,
           \A c \in Callers : /\ cpc'[c] = "idle" <=> cpc[c] = "idle"
                              /\ cpc[c] # "idle" => call'[c] = call[c]
    PROVE  UNCHANGED Dispatch!vars
<1>1. rowsBar' = rowsBar
  BY DEF rowsBar
<1>2. QED
  BY <1>1 DEF rowsBar, Dispatch!vars

(* Rows that a call had left run, and perhaps one of its closures panics.  *)
LEMMA DispatchRunRows ==
    ASSUME DispatchInv, NEW c \in Callers, cpc[c] # "idle",
           NEW part, part \subseteq CallRows(c) \ ran[c],
           ran' = [ran EXCEPT ![c] = @ \cup part],
           \/ UNCHANGED failed
           \/ failed' = [failed EXCEPT ![c] = TRUE],
           \A d \in Callers : (cpc'[d] = "idle" <=> cpc[d] = "idle"),
           UNCHANGED <<call, outcome>>
    PROVE  Dispatch!Next
<1>1. rowsBar' = rowsBar
  BY DEF rowsBar
<1>2. rowsBar[c] # NoCaller /\ Dispatch!Rows(rowsBar[c]) = CallRows(c)
  BY PoolAssumption DEF DispatchInv, FreshInv, rowsBar, Dispatch!Rows, CallRows
<1>3. part \in SUBSET (Dispatch!Rows(rowsBar[c]) \ ran[c])
  BY <1>2
<1>4. \E f \in BOOLEAN : failed' = [failed EXCEPT ![c] = @ \/ f]
  <2>1. failed \in [Callers -> BOOLEAN]
    BY DEF DispatchInv, BarrierInv, TypeOK
  <2>2. CASE UNCHANGED failed
    <3>1. failed' = [failed EXCEPT ![c] = @ \/ FALSE]
      BY <2>1, <2>2
    <3>2. QED
      BY <3>1
  <2>3. CASE failed' = [failed EXCEPT ![c] = TRUE]
    <3>1. failed' = [failed EXCEPT ![c] = @ \/ TRUE]
      BY <2>1, <2>3
    <3>2. QED
      BY <3>1
  <2>4. QED
    BY <2>2, <2>3
<1>5. Dispatch!RunRows(c)
  BY <1>1, <1>2, <1>3, <1>4 DEF Dispatch!RunRows, rowsBar
<1>6. QED
  BY <1>5 DEF Dispatch!Next

(* Every step of the pool is a step of the contract, or a stutter.         *)
LEMMA DispatchRefines ==
    ASSUME DispatchInv, DispatchInv', [Next]_vars
    PROVE  [Dispatch!Next]_(Dispatch!vars)
<1>a. TypeOK /\ BarrierInv /\ FreshInv /\ ClaimInv /\ EndInv
  BY DEF DispatchInv, BarrierInv
<1>b. 0 \in Slots /\ Workers \subseteq Slots
  BY PoolAssumption DEF Slots, Workers
<1> USE DEF TypeOK, Goto, WGoto
<1>1. ASSUME NEW c \in Callers, Call(c) PROVE Dispatch!Next
  <2>1. /\ call'[c].rows \in RowCounts
        /\ cpc[c] = "idle" /\ cpc'[c] # "idle"
        /\ \A d \in Callers \ {c} : call'[d] = call[d] /\ cpc'[d] = cpc[d]
        /\ UNCHANGED <<ran, failed, outcome>>
    BY <1>1, <1>a, CallRowCount
  <2>2. rowsBar[c] = NoCaller /\ rowsBar' = [rowsBar EXCEPT ![c] = call'[c].rows]
    BY <2>1 DEF rowsBar
  <2>3. Dispatch!Call(c)
    BY <2>1, <2>2 DEF Dispatch!Call, rowsBar
  <2>4. QED
    BY <2>3 DEF Dispatch!Next
<1>2. ASSUME NEW c \in Callers, RunSerial(c) PROVE Dispatch!Next
  <2>1. /\ cpc[c] = "serial" /\ UNCHANGED <<call, outcome>>
        /\ cpc'[c] # "idle" /\ \A d \in Callers \ {c} : cpc'[d] = cpc[d]
    BY <1>2, <1>a DEF RunSerial
  <2>2. ran[c] = {} /\ call[c].rows \in Nat
    BY <1>a, <2>1 DEF FreshInv, Args
  <2>3. \/ ran' = [ran EXCEPT ![c] = CallRows(c)] /\ UNCHANGED failed
        \/ /\ \E r \in CallRows(c) : ran' = [ran EXCEPT ![c] = 0 .. r - 1]
           /\ failed' = [failed EXCEPT ![c] = TRUE]
    BY <1>2 DEF RunSerial, CallRows
  <2>4. CASE ran' = [ran EXCEPT ![c] = CallRows(c)] /\ UNCHANGED failed
    <3>1. ran' = [ran EXCEPT ![c] = @ \cup CallRows(c)]
      BY <1>a, <2>2, <2>4
    <3>2. QED
      BY <2>1, <2>2, <2>4, <3>1, DispatchRunRows
  <2>5. CASE /\ \E r \in CallRows(c) : ran' = [ran EXCEPT ![c] = 0 .. r - 1]
             /\ failed' = [failed EXCEPT ![c] = TRUE]
    <3>1. PICK r \in CallRows(c) : ran' = [ran EXCEPT ![c] = 0 .. r - 1]
      BY <2>5
    <3> DEFINE part == 0 .. r - 1
    <3>2. part \subseteq CallRows(c) \ ran[c]
      BY <2>2 DEF CallRows
    <3>3. ran' = [ran EXCEPT ![c] = @ \cup part]
      BY <1>a, <2>2, <3>1
    <3> HIDE DEF part
    <3>4. QED
      BY <2>1, <2>5, <3>2, <3>3, DispatchRunRows
  <2>6. QED
    BY <2>3, <2>4, <2>5
<1>3. ASSUME NEW c \in Callers, CallerRun(c) \/ CallerPanic(c) PROVE Dispatch!Next
  <2>1. /\ cpc[c] = "run" /\ UNCHANGED <<call, outcome>>
        /\ cpc'[c] # "idle" /\ \A d \in Callers \ {c} : cpc'[d] = cpc[d]
        /\ UNCHANGED failed \/ failed' = [failed EXCEPT ![c] = TRUE]
    BY <1>3, <1>a DEF CallerRun, CallerPanic
  <2>2. PICK part : part \subseteq held[0] /\ ran' = [ran EXCEPT ![c] = @ \cup part]
    BY <1>3 DEF CallerRun, CallerPanic, RowsBefore
  <2>3. part \subseteq CallRows(c) \ ran[c]
    BY <1>a, <1>b, <2>1, <2>2 DEF ClaimInv, InFlight, Claimed
  <2>4. QED
    BY <2>1, <2>2, <2>3, DispatchRunRows
<1>4. ASSUME NEW w \in Workers, WorkerRun(w) \/ WorkerPanic(w) PROVE Dispatch!Next
  <2>1. wpc[w] \in HasJob /\ UNCHANGED <<cpc, call, outcome>>
    BY <1>4 DEF WorkerRun, WorkerPanic, callers, HasJob
  <2>2. PICK c \in Callers : lock = c /\ cpc[c] \in InFlight /\ wjob[w].caller = c
    BY <1>a, <2>1, ServedJob
  <2>3. PICK part : part \subseteq held[w] /\ ran' = [ran EXCEPT ![c] = @ \cup part]
    BY <1>4, <2>2 DEF WorkerRun, WorkerPanic, RowsBefore
  <2>4. UNCHANGED failed \/ failed' = [failed EXCEPT ![c] = TRUE]
    BY <1>4, <2>2 DEF WorkerRun, WorkerPanic
  <2>5. part \subseteq CallRows(c) \ ran[c]
    BY <1>a, <1>b, <2>2, <2>3 DEF ClaimInv, Claimed
  <2>6. cpc[c] # "idle"
    BY <2>2 DEF InFlight
  <2>7. QED
    BY <2>1, <2>3, <2>4, <2>5, <2>6, DispatchRunRows
<1>5. ASSUME NEW c \in Callers, Leave(c) PROVE Dispatch!Next
  <2>1. /\ cpc[c] \in {"return", "raise"} /\ cpc' = [cpc EXCEPT ![c] = "idle"]
        /\ call' = [call EXCEPT ![c] = NoArgs]
        /\ outcome' = [outcome EXCEPT ![c] = IF cpc[c] = "return" THEN "ok" ELSE "panic"]
        /\ ran' = [ran EXCEPT ![c] = {}] /\ failed' = [failed EXCEPT ![c] = FALSE]
    BY <1>5 DEF Leave
  <2>2. rowsBar[c] # NoCaller /\ Dispatch!Rows(rowsBar[c]) = CallRows(c)
    BY <1>a, <2>1, PoolAssumption DEF FreshInv, rowsBar, Dispatch!Rows, CallRows
  <2>3. rowsBar' = [rowsBar EXCEPT ![c] = NoCaller]
    BY <1>a, <2>1 DEF rowsBar
  <2>4. CASE cpc[c] = "return"
    <3>1. ~failed[c] /\ ran[c] = CallRows(c)
      BY <1>a, <2>4 DEF EndInv
    <3>2. Dispatch!Return(c)
      BY <2>1, <2>2, <2>3, <2>4, <3>1 DEF Dispatch!Return, Dispatch!End, rowsBar
    <3>3. QED
      BY <3>2 DEF Dispatch!Next
  <2>5. CASE cpc[c] = "raise"
    <3>1. failed[c]
      BY <1>a, <2>5 DEF EndInv
    <3>2. Dispatch!Raise(c)
      BY <2>1, <2>2, <2>3, <2>5, <3>1 DEF Dispatch!Raise, Dispatch!End, rowsBar
    <3>3. QED
      BY <3>2 DEF Dispatch!Next
  <2>6. QED
    BY <2>1, <2>4, <2>5
<1>6. ASSUME NEW c \in Callers,
             \/ TryLock(c) \/ ClearStalePanic(c) \/ WriteJob(c) \/ SetPending(c)
             \/ BumpState(c) \/ WakeParked(c) \/ CallerClaim(c) \/ Drain(c) \/ CheckPanic(c)
      PROVE UNCHANGED Dispatch!vars
  <2>1. /\ UNCHANGED <<ran, failed, outcome, call>>
        /\ cpc[c] # "idle" /\ cpc'[c] # "idle"
        /\ \A d \in Callers \ {c} : cpc'[d] = cpc[d]
    BY <1>6, <1>a DEF TryLock, ClearStalePanic, WriteJob, SetPending, BumpState, WakeParked, CallerClaim, Drain, CheckPanic, history
  <2>2. QED
    BY <2>1, DispatchStutter
<1>7. ASSUME NEW w \in Workers, WorkerStep(w) \/ SpuriousUnpark(w),
             ~(WorkerRun(w) \/ WorkerPanic(w))
      PROVE UNCHANGED Dispatch!vars
  <2>1. UNCHANGED <<cpc, call>>
    BY <1>7, WorkerFrame
  <2>2. UNCHANGED <<ran, failed, outcome>>
    BY <1>7 DEF WorkerStep, CheckShutdown, SeeState, Spin, EnterParked, LookAgain, Park, Unpark, LeaveParked, SkipDispatch, ReadJob, WorkerClaim, StorePayload, FlagPanic, Decrement, SpuriousUnpark, history
  <2>3. QED
    BY <2>1, <2>2, DispatchStutter
<1>8. ASSUME DropStep \/ UNCHANGED vars PROVE UNCHANGED Dispatch!vars
  <2>1. UNCHANGED <<cpc, call, ran, failed, outcome>>
    BY <1>8 DEF DropStep, BeginDrop, DropBump, DropUnpark, Join, vars, callers, history
  <2>2. QED
    BY <2>1, DispatchStutter
<1>9. QED
  BY <1>1, <1>2, <1>3, <1>4, <1>5, <1>6, <1>7, <1>8 DEF Next, CallerStep, Gone

(* The pool implements the contract of dispatch_rows: each row of a call   *)
(* runs exactly once before the call returns and none after, and a call    *)
(* raises iff one of its own closures did, on whichever thread.            *)
THEOREM RowPoolImplementsDispatch == Spec => ImplementsDispatch
<1>1. Init => Dispatch!Init
  <2> SUFFICES ASSUME Init PROVE Dispatch!Init
    OBVIOUS
  <2>1. rowsBar = [c \in Callers |-> NoCaller]
    BY DEF Init, rowsBar
  <2>2. QED
    BY <2>1 DEF Init, Dispatch!Init, rowsBar
<1>2. DispatchInv /\ DispatchInv' /\ [Next]_vars => [Dispatch!Next]_(Dispatch!vars)
  BY DispatchRefines
<1>3. Spec => Dispatch!Spec
  BY <1>1, <1>2, RowPoolDispatchInv, PTL DEF Spec, Dispatch!Spec
<1>4. QED
  BY <1>3 DEF ImplementsDispatch

----------------------------------------------------------------------------
(* The wakeup protocol.                                                    *)

(* parked_count counts the workers inside ParkedGuard after every step.    *)
LEMMA GuardedStep ==
    ASSUME BarrierInv, parkedCount = Cardinality(Guarded), [Next]_vars
    PROVE  parkedCount' = Cardinality(Guarded')
<1>a. TypeOK
  BY DEF BarrierInv
<1>b. IsFiniteSet(Guarded)
  <2>1. Guarded \subseteq Workers
    BY DEF Guarded
  <2>2. QED
    BY <2>1, DebtorsFinite, FS_Subset
<1> USE DEF TypeOK, WGoto
<1>1. ASSUME NEW w \in Workers, EnterParked(w) PROVE parkedCount' = Cardinality(Guarded')
  <2>1. wpc[w] = "idle" /\ wpc' = [wpc EXCEPT ![w] = "parking"] /\ parkedCount' = parkedCount + 1
    BY <1>1 DEF EnterParked
  <2>2. Guarded' = Guarded \cup {w} /\ w \notin Guarded
    BY <1>a, <2>1 DEF Guarded
  <2>3. QED
    BY <1>b, <2>1, <2>2, FS_AddElement
<1>2. ASSUME NEW w \in Workers, LeaveParked(w) PROVE parkedCount' = Cardinality(Guarded')
  <2>1. wpc[w] = "unparked" /\ wpc' = [wpc EXCEPT ![w] = "top"] /\ parkedCount' = parkedCount - 1
    BY <1>2 DEF LeaveParked
  <2>2. Guarded' = Guarded \ {w} /\ w \in Guarded
    BY <1>a, <2>1 DEF Guarded
  <2>3. QED
    BY <1>b, <2>1, <2>2, FS_RemoveElement
<1>3. ASSUME UNCHANGED parkedCount, Guarded' = Guarded
      PROVE  parkedCount' = Cardinality(Guarded')
  BY <1>3
<1>4. ASSUME NEW w \in Workers, WorkerStep(w) \/ SpuriousUnpark(w),
             ~EnterParked(w), ~LeaveParked(w)
      PROVE  UNCHANGED parkedCount /\ Guarded' = Guarded
  <2>1. UNCHANGED parkedCount
    BY <1>4 DEF WorkerStep, CheckShutdown, SeeState, Spin, LookAgain, Park, Unpark, SkipDispatch, ReadJob, WorkerClaim, WorkerRun, WorkerPanic, StorePayload, FlagPanic, Decrement, SpuriousUnpark, shared
  <2>2. \E l \in WorkerLabels :
           /\ wpc' = [wpc EXCEPT ![w] = l]
           /\ l \in {"parking", "doubt", "parked", "unparked"}
              <=> wpc[w] \in {"parking", "doubt", "parked", "unparked"}
    <3> USE DEF WorkerLabels
    <3>1. CASE LookAgain(w) \/ Park(w) \/ Unpark(w) \/ SpuriousUnpark(w)
      BY <3>1 DEF LookAgain, Park, Unpark, SpuriousUnpark
    <3>2. CASE CheckShutdown(w) \/ SeeState(w) \/ Spin(w) \/ SkipDispatch(w) \/ ReadJob(w)
      BY <3>2 DEF CheckShutdown, SeeState, Spin, SkipDispatch, ReadJob
    <3>3. CASE WorkerClaim(w) \/ WorkerRun(w) \/ WorkerPanic(w) \/ StorePayload(w) \/ FlagPanic(w) \/ Decrement(w)
      BY <3>3 DEF WorkerClaim, WorkerRun, WorkerPanic, StorePayload, FlagPanic, Decrement
    <3>4. QED
      BY <1>4, <3>1, <3>2, <3>3 DEF WorkerStep
  <2>3. QED
    BY <1>a, <2>1, <2>2 DEF Guarded
<1>5. ASSUME NEW c \in Callers, Call(c) \/ CallerStep(c)
      PROVE  UNCHANGED parkedCount /\ Guarded' = Guarded
  BY <1>5, CallerFrame DEF Guarded
<1>6. ASSUME DropStep \/ UNCHANGED vars PROVE UNCHANGED parkedCount /\ Guarded' = Guarded
  BY <1>6 DEF DropStep, BeginDrop, DropBump, DropUnpark, Join, vars, shared, workers, Guarded
<1>7. QED
  BY <1>1, <1>2, <1>3, <1>4, <1>5, <1>6 DEF Next, WorkerStep, Gone

(* No step puts a debtor to sleep, or makes one of a sleeper, without a    *)
(* token.                                                                  *)
LEMMA SleepStep == BarrierInv /\ BarrierInv' /\ SleepInv /\ [Next]_vars => SleepInv'
<1> SUFFICES ASSUME BarrierInv, BarrierInv', SleepInv, [Next]_vars,
                    NEW u \in Workers, NEW d \in Callers,
                    cpc'[d] \in InFlight \ {"wake"}, Owes(u)', wpc'[u] \in {"doubt", "parked"}
             PROVE  token'[u]
  BY GuardedStep DEF SleepInv
<1>a. TypeOK /\ LockInv /\ DropInv
  BY DEF BarrierInv
<1>c. /\ parkedCount = Cardinality(Guarded)
      /\ cpc[d] \in InFlight \ {"wake"} /\ Owes(u) /\ wpc[u] \in {"doubt", "parked"} => token[u]
  BY DEF SleepInv
<1> USE DEF TypeOK, Goto, WGoto
<1>1. ASSUME NEW c \in Callers, WakeParked(c) PROVE token'[u]
  <2>1. cpc[c] = "wake" /\ cpc'[c] = "steal" /\ UNCHANGED <<wpc, state, lastState, call>>
        /\ \A e \in Callers \ {c} : cpc'[e] = cpc[e]
    BY <1>1, <1>a DEF WakeParked, shared
  <2>2. d = c
    BY <1>a, <2>1 DEF LockInv, UnderLock, InFlight
  <2>3. u \in Guarded
    BY <2>1 DEF Guarded
  <2>4. parkedCount > 0
    <3>1. IsFiniteSet(Guarded)
      <4>1. Guarded \subseteq Workers
        BY DEF Guarded
      <4>2. QED
        BY <4>1, DebtorsFinite, FS_Subset
    <3>2. Cardinality(Guarded) \in Nat /\ Cardinality(Guarded) # 0
      BY <2>3, <3>1, FS_CardinalityType, FS_EmptySet
    <3>3. QED
      BY <1>c, <3>2
  <2>5. ActiveBarrier => u < call[c].active
    BY <1>a, <2>1 DEF LockInv, Owes, InFlight
  <2>6. QED
    BY <1>1, <2>4, <2>5 DEF WakeParked
<1>2. ASSUME NEW c \in Callers, BumpState(c) PROVE token'[u]
  <2>1. cpc[c] = "bump" /\ cpc'[c] = "wake" /\ \A e \in Callers \ {c} : cpc'[e] = cpc[e]
    BY <1>2, <1>a DEF BumpState
  <2>2. cpc'[d] \notin InFlight \ {"wake"}
    BY <1>a, <2>1 DEF LockInv, UnderLock
  <2>3. QED
    BY <2>2
<1>3. ASSUME NEW c \in Callers, Call(c) \/ CallerStep(c), ~WakeParked(c), ~BumpState(c)
      PROVE token'[u]
  <2>1. UNCHANGED <<wpc, token>> /\ Owes(u)
    BY <1>3, CallerFrame, DebtsUntouched DEF workers, CallerStep, Call, TryLock, RunSerial, ClearStalePanic, WriteJob, SetPending, CallerClaim, CallerRun, CallerPanic, Drain, CheckPanic, Leave
  <2>2. cpc[d] \in InFlight \ {"wake"}
    <3>1. CASE Call(c)
      BY <3>1, <1>a, CallRowCount DEF InFlight
    <3>2. CASE CallerStep(c)
      BY <3>2, <1>3, <1>a DEF InFlight, CallerStep, TryLock, RunSerial, ClearStalePanic, WriteJob, SetPending, CallerClaim, CallerRun, CallerPanic, Drain, CheckPanic, Leave
    <3>3. QED
      BY <1>3, <3>1, <3>2
  <2>3. QED
    BY <1>c, <2>1, <2>2
<1>4. ASSUME NEW w \in Workers, WorkerStep(w) \/ SpuriousUnpark(w) PROVE token'[u]
  <2>1. UNCHANGED <<cpc, state, shutdown>>
    BY <1>4, WorkerFrame
  <2>2. ~shutdown
    BY <1>a, <2>1 DEF DropInv, InFlight
  <2>3. Owes(u)
    <3>1. CASE Decrement(w)
      BY <3>1, DebtSettled
    <3>2. CASE ~Decrement(w)
      BY <1>4, <2>2, <3>2, DebtsKept
    <3>3. QED
      BY <3>1, <3>2
  <2>4. CASE wpc[u] \in {"doubt", "parked"}
    <3>1. token[u]
      BY <1>c, <2>1, <2>3, <2>4
    <3>2. CASE Unpark(w)
      <4>1. u # w
        BY <1>a, <3>2 DEF Unpark
      <4>2. QED
        BY <1>a, <3>1, <3>2, <4>1 DEF Unpark
    <3>3. CASE ~Unpark(w)
      <4>1. UNCHANGED token
        BY <1>4, <3>3 DEF WorkerStep, CheckShutdown, SeeState, Spin, EnterParked, LookAgain, Park, LeaveParked, SkipDispatch, ReadJob, WorkerClaim, WorkerRun, WorkerPanic, StorePayload, FlagPanic, Decrement, SpuriousUnpark
      <4>2. QED
        BY <3>1, <4>1
    <3>4. QED
      BY <3>2, <3>3
  <2>5. CASE wpc[u] \notin {"doubt", "parked"}
    <3>1. LookAgain(w)
      BY <1>4, <1>a, <2>5 DEF WorkerStep, CheckShutdown, SeeState, Spin, EnterParked, Park, Unpark, LeaveParked, SkipDispatch, ReadJob, WorkerClaim, WorkerRun, WorkerPanic, StorePayload, FlagPanic, Decrement, SpuriousUnpark
    <3>2. u = w /\ wpc[w] = "parking" /\ state = lastState[w]
      BY <1>a, <2>5, <3>1 DEF LookAgain
    <3>3. ~Owes(u)
      BY <3>2 DEF Owes, HasJob
    <3>4. QED
      BY <2>3, <3>3
  <2>6. QED
    BY <2>4, <2>5
<1>5. ASSUME DropStep PROVE token'[u]
  <2>1. UNCHANGED cpc /\ \A c \in Callers : cpc[c] = "idle"
    BY <1>5, <1>a DEF DropInv, DropStep, BeginDrop, DropBump, DropUnpark, Join, callers
  <2>2. QED
    BY <2>1 DEF InFlight
<1>6. ASSUME UNCHANGED vars PROVE token'[u]
  BY <1>6, <1>c DEF vars, shared, callers, workers, Owes
<1>7. QED
  BY <1>1, <1>2, <1>3, <1>4, <1>5, <1>6 DEF Next, Gone, CallerStep

(* No lost wakeup: no worker a dispatch waits for sleeps without a token,  *)
(* however a dispatch, a park and a spurious wakeup interleave.            *)
THEOREM RowPoolNoSleepingDebtor == Spec => []NoSleepingDebtor
<1>1. Init => SleepInv
  <2> SUFFICES ASSUME Init PROVE SleepInv
    OBVIOUS
  <2>1. Guarded = {} /\ parkedCount = 0 /\ \A c \in Callers : cpc[c] = "idle"
    BY DEF Init, Guarded
  <2>2. QED
    BY <2>1, FS_EmptySet DEF SleepInv, InFlight
<1>2. SleepInv => NoSleepingDebtor
  BY DEF SleepInv, NoSleepingDebtor
<1>3. QED
  BY <1>1, <1>2, SleepStep, RowPoolBarrier, PTL DEF Spec
=============================================================================
