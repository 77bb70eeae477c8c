---------------------------- MODULE BundleProofs ----------------------------
(***************************************************************************)
(* Theorems about a cache entry, for any number of threads, versions,      *)
(* sizes, pins, attempts and failures.                                     *)
(***************************************************************************)
EXTENDS BundleCache, TLAPS, SequenceTheorems

Request  == [pin : Files, headHash : Files, headLen : Nat \cup {Nothing}]
Download == [attempt : 0 .. MaxAttempts - 1, serving : Nat, total : Nat,
             expected : Files, hashed : Contents]

TypeInv ==
    /\ server \in Versions
    /\ dest \in Files /\ sidecar \in Files /\ partial \in Contents
    /\ active \in Resolvers \cup {Nothing}
    /\ pins \in PinSets
    /\ pc \in [Resolvers -> Labels]
    /\ req \in [Resolvers -> Request]
    /\ dl \in [Resolvers -> Download]
    /\ outcome \in [Resolvers -> {"none", "ok", "error"}]
    /\ faults \in 0 .. MaxFaults

(* Who downloads holds the guard.                                          *)
Downloading == {"request", "stream", "unlink", "rename", "persist"}
GuardInv == \A r \in Resolvers : pc[r] \in Downloading => active = r

(* A response streams a version, and what passed the check has the hash.   *)
StreamInv == \A r \in Resolvers : pc[r] = "stream" => dl[r].serving \in Versions
VerifiedInv ==
    \A r \in Resolvers :
        pc[r] \in {"unlink", "rename"} /\ dl[r].expected # Nothing =>
            dl[r].hashed = dl[r].expected

IInv == /\ TypeInv /\ GuardInv /\ StreamInv /\ VerifiedInv
        /\ HashCoversPartial /\ InstallIsVerified

LEMMA Constants ==
    /\ Size \in Seq(Nat \ {0}) /\ Len(Size) \in Nat \ {0} /\ Versions = 1 .. Len(Size)
    /\ \A v \in Versions : Size[v] \in Nat \ {0}
    /\ MaxAttempts \in Nat \ {0} /\ MaxFaults \in Nat
    /\ Nothing \notin Resolvers /\ Nothing \notin Contents
  BY CacheAssumption, EmptySeq, LenProperties

(* A file of the server, and no file.                                      *)
LEMMA FileContents ==
    /\ \A v \in Versions : File(v) \in Contents
    /\ <<>> \in Contents
  <1>1. ASSUME NEW v \in Versions PROVE File(v) \in Contents
    <2>1. Size[v] \in UNION {0 .. Size[w] : w \in Versions}
      BY Constants, SMTT(40)
    <2>2. File(v) \in [1 .. Size[v] -> Versions]
      BY DEF File
    <2> QED BY <2>1, <2>2 DEF Contents
  <1>2. <<>> \in Contents
    <2>1. 1 \in Versions
      BY Constants
    <2>2. 0 \in 0 .. Size[1]
      BY <2>1, Constants
    <2>3. <<>> \in [1 .. 0 -> Versions]
      OBVIOUS
    <2> QED BY <2>1, <2>2, <2>3 DEF Contents
  <1> QED BY <1>1, <1>2

(* A file is a sequence, and one block more still is a file if it stays    *)
(* within a version's size.                                                *)
LEMMA ContentsSeq ==
    ASSUME NEW f \in Contents
    PROVE  f \in Seq(Versions) /\ Len(f) \in Nat
  <1>1. PICK n \in UNION {0 .. Size[v] : v \in Versions} : f \in [1 .. n -> Versions]
    BY DEF Contents
  <1>2. n \in Nat
    BY Constants
  <1> QED BY <1>1, <1>2, LenProperties

LEMMA OneMore ==
    ASSUME NEW f \in Contents, NEW v \in Versions, Len(f) < Size[v]
    PROVE  Append(f, v) \in Contents
  <1>1. f \in Seq(Versions) /\ Len(f) \in Nat
    BY ContentsSeq
  <1>2. Append(f, v) \in Seq(Versions) /\ Len(Append(f, v)) = Len(f) + 1
    BY <1>1, AppendProperties
  <1>3. Append(f, v) \in [1 .. Len(f) + 1 -> Versions]
    <2>1. Append(f, v) \in [1 .. Len(Append(f, v)) -> Versions]
      BY <1>2, LenProperties
    <2> QED BY <1>2, <2>1
  <1>4. Len(f) + 1 \in UNION {0 .. Size[w] : w \in Versions}
    <2>1. Len(f) + 1 \in 0 .. Size[v]
      BY <1>1, Constants
    <2> QED BY <2>1
  <1> DEFINE lengths == UNION {0 .. Size[w] : w \in Versions}
             n == Len(f) + 1
  <1>5. n \in lengths /\ Append(f, v) \in [1 .. n -> Versions]
    BY <1>3, <1>4
  <1> HIDE DEF lengths, n
  <1>6. Append(f, v) \in UNION {[1 .. m -> Versions] : m \in lengths}
    BY <1>5
  <1> QED BY <1>6 DEF Contents, lengths

LEMMA InitInv == Init => IInv
  <1> SUFFICES ASSUME Init PROVE IInv
    OBVIOUS
  <1>1. NoReq \in Request /\ NoDl \in Download
    BY Constants, FileContents DEF NoReq, NoDl, Request, Download, Files
  <1>2. TypeInv
    BY <1>1, Constants, FileContents DEF Init, TypeInv, Files, Labels
  <1> QED BY <1>2 DEF Init, IInv, GuardInv, Downloading, StreamInv, VerifiedInv,
                      HashCoversPartial, InstallIsVerified

(* What a step of one thread may do to its request and its download, to    *)
(* the disk and to the guard.                                              *)
ReqMoves(r) ==
    \/ req' \in {req, [req EXCEPT ![r] = NoReq]}
    \/ \E p \in pins : req' = [req EXCEPT ![r].pin = IF p = 0 THEN Nothing ELSE File(p)]
    \/ req' = [req EXCEPT ![r].headHash = IF LinkedEtag THEN File(server) ELSE Nothing,
                         ![r].headLen = Size[server]]

Opens(r) ==
    /\ pc[r] = "request" /\ pc'[r] = "stream"
    /\ \E length \in {Size[server]} \cup ({req[r].headLen} \ {Nothing}), hash \in Files :
          dl' = [dl EXCEPT ![r] = [@ EXCEPT !.serving = server, !.total = length,
                                          !.hashed = partial', !.expected = hash]]
    /\ partial' \in {partial, <<>>}

Receives(r) ==
    /\ pc[r] = "stream" /\ Len(partial) < Size[dl[r].serving]
    /\ partial' = Append(partial, dl[r].serving)
    /\ dl' = [dl EXCEPT ![r].hashed = Append(@, dl[r].serving)]
    /\ UNCHANGED pc

TakesPartial(r) ==
    /\ pc[r] = "request" /\ pc'[r] = "unlink"
    /\ dl' = [dl EXCEPT ![r].hashed = partial, ![r].expected = partial]
    /\ UNCHANGED partial

DlMoves(r) ==
    \/ dl' \in {dl, [dl EXCEPT ![r] = NoDl]}
    \/ /\ pc[r] = "request" /\ dl[r].attempt + 1 < MaxAttempts
       /\ dl' = [dl EXCEPT ![r].attempt = @ + 1]
    \/ Opens(r) \/ Receives(r) \/ TakesPartial(r)

DiskMoves(r) ==
    /\ dest' \in {dest, Nothing, partial}
    /\ sidecar' \in {sidecar, Nothing, Wanted(r), dl[r].hashed}
    /\ partial' \in {partial, <<>>} \/ Receives(r)

LEMMA Moves ==
    ASSUME NEW r \in Resolvers, Resolve(r) \/ Step(r), TypeInv
    PROVE  /\ ReqMoves(r) /\ DlMoves(r) /\ DiskMoves(r)
           /\ UNCHANGED <<server, pins>>
           /\ active' \in {active, Nothing, r}
           /\ \E label \in Labels : pc' = [pc EXCEPT ![r] = label]
           /\ \E how \in {"none", "ok", "error"} : outcome' \in {outcome, [outcome EXCEPT ![r] = how]}
           /\ UNCHANGED faults \/ Fault
  <1> USE DEF Resolve, Step, ProbeHead, Look, TrustSidecar, RejectSidecar, Rehash,
              RepairSidecar, CheckSize, Acquire, WaitForActive, ServeRest, ServeWhole,
              RangeNotSatisfiable, BadRange, RequestFails, RequestRefused, Receive,
              StreamBreaks, Verify, UnlinkDest, Rename, RenameFails, PersistSidecar,
              Goto, Leave, Succeed, Fail, WriteSidecar, NextAttempt, Open,
              disk, locals, history
  <1>1. ReqMoves(r)
    BY ZenonT(40) DEF ReqMoves
  <1>2. DlMoves(r)
    <2>1. Wanted(r) \in Files /\ \A etag \in Etags : etag \in Files
      BY ZenonT(40), FileContents DEF TypeInv, Request, Wanted, Etags, Files
    <2>2. pc[r] \in Labels /\ DOMAIN pc = Resolvers
      BY DEF TypeInv
    <2>3. CASE ServeRest(r)
      BY <2>1, <2>2, <2>3 DEF DlMoves, Opens
    <2>4. CASE ServeWhole(r)
      BY <2>1, <2>2, <2>4 DEF DlMoves, Opens
    <2>5. CASE RangeNotSatisfiable(r)
      BY <2>1, <2>2, <2>5 DEF DlMoves, TakesPartial
    <2>6. CASE ~(ServeRest(r) \/ ServeWhole(r) \/ RangeNotSatisfiable(r))
      BY <2>6 DEF DlMoves, Receives
    <2> QED BY <2>3, <2>4, <2>5, <2>6
  <1>3. DiskMoves(r)
    BY DEF DiskMoves, Receives
  <1>4. UNCHANGED <<server, pins>> /\ active' \in {active, Nothing, r}
    OBVIOUS
  <1>5. \E label \in Labels : pc' = [pc EXCEPT ![r] = label]
    BY ZenonT(40) DEF Labels, TypeInv
  <1>6. \E how \in {"none", "ok", "error"} : outcome' \in {outcome, [outcome EXCEPT ![r] = how]}
    OBVIOUS
  <1>7. UNCHANGED faults \/ Fault
    OBVIOUS
  <1> QED BY <1>1, <1>2, <1>3, <1>4, <1>5, <1>6, <1>7

LEMMA TypeStep ==
    ASSUME NEW r \in Resolvers, Resolve(r) \/ Step(r), IInv
    PROVE  TypeInv'
  <1>1. /\ ReqMoves(r) /\ DlMoves(r) /\ DiskMoves(r) /\ UNCHANGED <<server, pins>>
        /\ active' \in {active, Nothing, r}
        /\ \E label \in Labels : pc' = [pc EXCEPT ![r] = label]
        /\ \E how \in {"none", "ok", "error"} : outcome' \in {outcome, [outcome EXCEPT ![r] = how]}
        /\ UNCHANGED faults \/ Fault
    BY Moves DEF IInv
  <1>2. /\ TypeInv /\ req[r] \in Request /\ dl[r] \in Download
        /\ server \in Versions /\ Size[server] \in Nat /\ MaxAttempts \in Nat \ {0}
    BY Constants DEF IInv, TypeInv
  <1>3. NoReq \in Request /\ NoDl \in Download
    BY Constants, FileContents DEF NoReq, NoDl, Request, Download, Files
  <1>4. Receives(r) => Append(partial, dl[r].serving) \in Contents /\ dl[r].hashed = partial
    BY OneMore DEF IInv, TypeInv, StreamInv, HashCoversPartial, Receives
  <1>5. partial' \in Contents
    BY <1>1, <1>2, <1>4, FileContents DEF DiskMoves, Receives, TypeInv
  <1>6. dest' \in Files /\ sidecar' \in Files
    <2>1. Wanted(r) \in Files
      BY <1>2 DEF Wanted, Request
    <2>2. dl[r].hashed \in Files
      BY <1>2 DEF Download, Files
    <2> QED BY <1>1, <1>2, <2>1, <2>2 DEF DiskMoves, TypeInv, Files
  <1>7. req' \in [Resolvers -> Request]
    <2>1. \A p \in pins : p # 0 => File(p) \in Files
      BY <1>2, CacheAssumption, FileContents DEF TypeInv, Files
    <2>2. File(server) \in Files
      BY <1>2, FileContents DEF Files
    <2> QED BY <1>1, <1>2, <1>3, <2>1, <2>2 DEF ReqMoves, TypeInv, Request, Files
  <1>8. dl' \in [Resolvers -> Download]
    <2>1. CASE dl' \in {dl, [dl EXCEPT ![r] = NoDl]}
      BY <1>2, <1>3, <2>1 DEF TypeInv
    <2>2. CASE dl[r].attempt + 1 < MaxAttempts /\ dl' = [dl EXCEPT ![r].attempt = @ + 1]
      <3>1. dl[r].attempt + 1 \in 0 .. MaxAttempts - 1
        BY <1>2, <2>2 DEF Download
      <3> QED BY <1>2, <2>2, <3>1 DEF TypeInv, Download
    <2>3. CASE Opens(r)
      <3>1. PICK length \in {Size[server]} \cup ({req[r].headLen} \ {Nothing}), hash \in Files :
               dl' = [dl EXCEPT ![r] = [@ EXCEPT !.serving = server, !.total = length,
                                               !.hashed = partial', !.expected = hash]]
        BY <2>3 DEF Opens
      <3>2. length \in Nat /\ server \in Nat
        BY <1>2, Constants DEF Request
      <3> QED BY <1>2, <1>5, <3>1, <3>2 DEF TypeInv, Download
    <2>4. CASE Receives(r)
      BY <1>2, <1>4, <2>4 DEF Receives, TypeInv, Download
    <2>5. CASE TakesPartial(r)
      BY <1>2, <2>5 DEF TakesPartial, TypeInv, Download, Files
    <2> QED BY <1>1, <2>1, <2>2, <2>3, <2>4, <2>5 DEF DlMoves
  <1>9. /\ active' \in Resolvers \cup {Nothing} /\ pc' \in [Resolvers -> Labels]
        /\ outcome' \in [Resolvers -> {"none", "ok", "error"}]
    BY <1>1, <1>2 DEF TypeInv
  <1>10. faults' \in 0 .. MaxFaults
    BY <1>1, <1>2, Constants DEF TypeInv, Fault
  <1> QED BY <1>1, <1>2, <1>5, <1>6, <1>7, <1>8, <1>9, <1>10 DEF TypeInv

(* A thread that does not hold the guard touches neither the files nor the *)
(* guard of another.                                                       *)
LEMMA OthersKept ==
    ASSUME NEW r \in Resolvers, NEW s \in Resolvers \ {r}, Resolve(r) \/ Step(r), IInv
    PROVE  /\ pc'[s] = pc[s] /\ dl'[s] = dl[s]
           /\ pc[s] \in Downloading => UNCHANGED <<dest, partial, active>>
  <1>1. pc'[s] = pc[s] /\ dl'[s] = dl[s]
    <2>1. DlMoves(r) /\ (\E label \in Labels : pc' = [pc EXCEPT ![r] = label]) /\ TypeInv
      BY Moves DEF IInv
    <2>2. pc'[s] = pc[s]
      BY <2>1 DEF TypeInv
    <2>3. dl'[s] = dl[s]
      BY <2>1 DEF TypeInv, DlMoves, Opens, Receives, TakesPartial
    <2> QED BY <2>2, <2>3
  <1>2. ASSUME pc[s] \in Downloading
        PROVE  UNCHANGED <<dest, partial, active>>
    <2>1. active = s /\ active # Nothing /\ active # r /\ pc[r] \notin Downloading
      BY <1>2, Constants DEF IInv, GuardInv
    <2> QED BY <2>1 DEF Downloading, Resolve, Step, ProbeHead, Look, TrustSidecar,
              RejectSidecar, Rehash, RepairSidecar, CheckSize, Acquire, WaitForActive,
              ServeRest, ServeWhole, RangeNotSatisfiable, BadRange, RequestFails,
              RequestRefused, Receive, StreamBreaks, Verify, UnlinkDest, Rename,
              RenameFails, PersistSidecar, Leave, Succeed, Fail, disk
  <1> QED BY <1>1, <1>2

(* The download of the thread that moves.                                  *)
LEMMA OwnStep ==
    ASSUME NEW r \in Resolvers, Resolve(r) \/ Step(r), IInv
    PROVE  /\ pc'[r] \in Downloading => active' = r
           /\ pc'[r] = "stream" => dl'[r].serving \in Versions
           /\ pc'[r] \in {"stream", "unlink", "rename"} => dl'[r].hashed = partial'
           /\ pc'[r] \in {"unlink", "rename"} /\ dl'[r].expected # Nothing
                 => dl'[r].hashed = dl'[r].expected
           /\ pc'[r] = "persist" /\ dl'[r].expected # Nothing => dest' = dl'[r].expected
  <1>1. /\ server \in Versions /\ dl[r] \in Download /\ pc \in [Resolvers -> Labels]
        /\ dl \in [Resolvers -> Download]
        /\ pc[r] \in Downloading => active = r
        /\ pc[r] = "stream" => dl[r].serving \in Versions
        /\ pc[r] \in {"stream", "unlink", "rename"} => dl[r].hashed = partial
        /\ pc[r] \in {"unlink", "rename"} /\ dl[r].expected # Nothing
              => dl[r].hashed = dl[r].expected
        /\ pc[r] = "persist" /\ dl[r].expected # Nothing => dest = dl[r].expected
    BY DEF IInv, TypeInv, GuardInv, StreamInv, HashCoversPartial, VerifiedInv, InstallIsVerified
  <1> USE <1>1 DEF Downloading, Goto, Leave, Succeed, Fail, NextAttempt, Open, disk, locals
  <1>2. CASE Resolve(r) \/ ProbeHead(r) \/ Look(r) \/ TrustSidecar(r) \/ RejectSidecar(r)
    BY <1>2 DEF Resolve, ProbeHead, Look, TrustSidecar, RejectSidecar
  <1>3. CASE \/ Rehash(r) \/ RepairSidecar(r) \/ CheckSize(r) \/ Acquire(r)
             \/ WaitForActive(r)
    BY <1>3 DEF Rehash, RepairSidecar, CheckSize, Acquire, WaitForActive
  <1>4. CASE ServeRest(r) \/ ServeWhole(r)
    <2>1. /\ pc[r] = "request" /\ pc'[r] = "stream" /\ active' = active
          /\ dl'[r].serving = server
      <3>1. CASE ServeRest(r)
        BY <3>1 DEF ServeRest, Download
      <3>2. CASE ServeWhole(r)
        BY <3>2 DEF ServeWhole, Download
      <3> QED BY <1>4, <3>1, <3>2
    <2>2. dl'[r].hashed = partial'
      <3>1. CASE ServeRest(r)
        BY <3>1 DEF ServeRest, Download
      <3>2. CASE ServeWhole(r)
        BY <3>2 DEF ServeWhole, Download
      <3> QED BY <1>4, <3>1, <3>2
    <2> QED BY <2>1, <2>2
  <1>5. CASE RangeNotSatisfiable(r)
    BY <1>5 DEF RangeNotSatisfiable, Download
  <1>6. CASE BadRange(r) \/ RequestFails(r) \/ RequestRefused(r)
    BY <1>6 DEF BadRange, RequestFails, RequestRefused
  <1>7. CASE Receive(r)
    BY <1>7 DEF Receive, Download
  <1>8. CASE StreamBreaks(r) \/ Verify(r)
    BY <1>8 DEF StreamBreaks, Verify
  <1>9. CASE UnlinkDest(r) \/ Rename(r) \/ RenameFails(r) \/ PersistSidecar(r)
    BY <1>9 DEF UnlinkDest, Rename, RenameFails, PersistSidecar
  <1> QED BY <1>2, <1>3, <1>4, <1>5, <1>6, <1>7, <1>8, <1>9 DEF Step

LEMMA InvStep == IInv /\ [Next]_vars => IInv'
  <1> SUFFICES ASSUME IInv, [Next]_vars PROVE IInv'
    OBVIOUS
  <1>1. ASSUME NEW r \in Resolvers, Resolve(r) \/ Step(r)
        PROVE  IInv'
    <2>1. TypeInv'
      BY <1>1, TypeStep
    <2>2. ASSUME NEW s \in Resolvers
          PROVE  /\ pc'[s] \in Downloading => active' = s
                 /\ pc'[s] = "stream" => dl'[s].serving \in Versions
                 /\ pc'[s] \in {"stream", "unlink", "rename"} => dl'[s].hashed = partial'
                 /\ pc'[s] \in {"unlink", "rename"} /\ dl'[s].expected # Nothing
                       => dl'[s].hashed = dl'[s].expected
                 /\ pc'[s] = "persist" /\ dl'[s].expected # Nothing
                       => dest' = dl'[s].expected
      <3>1. CASE s = r
        BY <1>1, <3>1, OwnStep
      <3>2. CASE s # r
        BY <1>1, <3>2, OthersKept DEF IInv, GuardInv, StreamInv, VerifiedInv,
                                      HashCoversPartial, InstallIsVerified, Downloading
      <3> QED BY <3>1, <3>2
    <2> QED BY <2>1, <2>2 DEF IInv, GuardInv, StreamInv, VerifiedInv, HashCoversPartial,
                              InstallIsVerified
  <1>2. CASE Publish
    BY <1>2 DEF Publish, disk, locals, history, IInv, TypeInv, GuardInv, StreamInv, VerifiedInv,
                HashCoversPartial, InstallIsVerified
  <1>3. CASE ClearCache \/ Crash
    <2>1. /\ \A r \in Resolvers : pc'[r] = "idle"
          /\ pc' \in [Resolvers -> Labels]
      BY <1>3 DEF ClearCache, Crash, IInv, TypeInv, Labels
    <2>2. NoReq \in Request /\ NoDl \in Download
      BY Constants, FileContents DEF NoReq, NoDl, Request, Download, Files
    <2>3. TypeInv'
      BY <1>3, <2>1, <2>2, Constants, FileContents
      DEF ClearCache, Crash, Fault, disk, locals, history, IInv, TypeInv, Files
    <2> QED BY <2>1, <2>3 DEF IInv, GuardInv, Downloading, StreamInv, VerifiedInv,
                              HashCoversPartial, InstallIsVerified
  <1>4. CASE UNCHANGED vars
    BY <1>4 DEF vars, disk, locals, history, IInv, TypeInv, GuardInv, StreamInv, VerifiedInv,
                HashCoversPartial, InstallIsVerified
  <1> QED BY <1>1, <1>2, <1>3, <1>4 DEF Next

LEMMA Inductive == Spec => []IInv
  BY InitInv, InvStep, PTL DEF Spec

(* Every local, every file and every count has its type.                   *)
THEOREM BundleType == Spec => []TypeOK
  <1>1. IInv => TypeOK
    BY DEF IInv, TypeInv, TypeOK, Request, Download, Files
  <1> QED BY <1>1, Inductive, PTL

(* What download_to hashes is what it renames: the guard keeps every other *)
(* thread of the process out of the partial.                               *)
THEOREM BundleHashCoversPartial == Spec => []HashCoversPartial
  <1>1. IInv => HashCoversPartial
    BY DEF IInv
  <1> QED BY <1>1, Inductive, PTL

(* No file without the expected hash is installed, whatever was resumed.   *)
THEOREM BundleInstallIsVerified == Spec => []InstallIsVerified
  <1>1. IInv => InstallIsVerified
    BY DEF IInv
  <1> QED BY <1>1, Inductive, PTL

----------------------------------------------------------------------------
(* When every caller pins the same version, it is all the entry ever holds, *)
(* names or answers with.                                                  *)
PinInv(v) ==
    /\ DOMAIN served = Resolvers
    /\ dest \in {Nothing, File(v)} /\ sidecar \in {Nothing, File(v)}
    /\ \A r \in Resolvers :
          /\ pc[r] # "idle" => req[r].pin = File(v)
          /\ pc[r] \in {"stream", "unlink", "rename", "persist"} =>
                dl[r].expected = File(v)
          /\ pc[r] = "persist" => dl[r].hashed = File(v)
          /\ served[r] # Nothing =>
                served[r].want = File(v) /\ served[r].got \in {Nothing, File(v)}

LEMMA PinMoves ==
    ASSUME NEW v \in Versions, pins = {v}, NEW r \in Resolvers,
           Resolve(r) \/ Step(r), IInv, PinInv(v)
    PROVE  /\ dest' \in {Nothing, File(v)} /\ sidecar' \in {Nothing, File(v)}
           /\ pc'[r] # "idle" => req'[r].pin = File(v)
           /\ pc'[r] \in {"stream", "unlink", "rename", "persist"} =>
                 dl'[r].expected = File(v)
           /\ pc'[r] = "persist" => dl'[r].hashed = File(v)
           /\ \/ UNCHANGED served
              \/ served' = [served EXCEPT ![r] = Nothing]
              \/ \E got \in {Nothing, File(v)} :
                    served' = [served EXCEPT ![r] = [want |-> File(v), got |-> got]]
  <1>1. /\ File(v) # Nothing /\ v # 0
    BY Constants, FileContents
  <1>2. /\ pc \in [Resolvers -> Labels] /\ req \in [Resolvers -> Request]
        /\ dl \in [Resolvers -> Download]
        /\ dest \in {Nothing, File(v)} /\ sidecar \in {Nothing, File(v)}
        /\ pc[r] # "idle" => req[r].pin = File(v) /\ Wanted(r) = File(v)
        /\ pc[r] \in {"stream", "unlink", "rename", "persist"} =>
              dl[r].expected = File(v)
        /\ pc[r] \in {"unlink", "rename"} =>
              dl[r].hashed = File(v) /\ partial = File(v)
        /\ pc[r] = "persist" => dl[r].hashed = File(v)
    BY <1>1 DEF IInv, TypeInv, PinInv, Wanted, VerifiedInv, HashCoversPartial
  <1> DEFINE Kept == /\ dest' \in {Nothing, File(v)} /\ sidecar' \in {Nothing, File(v)}
                     /\ pc'[r] # "idle" => req'[r].pin = File(v)
                     /\ pc'[r] \in {"stream", "unlink", "rename", "persist"} =>
                           dl'[r].expected = File(v)
                     /\ pc'[r] = "persist" => dl'[r].hashed = File(v)
                     /\ \/ UNCHANGED served
                        \/ served' = [served EXCEPT ![r] = Nothing]
                        \/ \E got \in {Nothing, File(v)} :
                              served' = [served EXCEPT ![r] = [want |-> File(v), got |-> got]]
  <1> USE DEF Goto, Leave, Succeed, Fail, NextAttempt, disk, locals, history
  <1>3. CASE Resolve(r) \/ ProbeHead(r) \/ Look(r) \/ TrustSidecar(r) \/ RejectSidecar(r)
    BY <1>1, <1>2, <1>3 DEF Resolve, ProbeHead, Look, TrustSidecar, RejectSidecar, Request
  <1>4. CASE \/ Rehash(r) \/ RepairSidecar(r) \/ CheckSize(r) \/ Acquire(r)
             \/ WaitForActive(r)
    BY <1>1, <1>2, <1>4 DEF Rehash, RepairSidecar, WriteSidecar, CheckSize, Acquire,
                            WaitForActive
  <1>5. CASE ServeRest(r)
    BY <1>1, <1>2, <1>5 DEF ServeRest, Open, Download
  <1>6. CASE ServeWhole(r)
    BY <1>1, <1>2, <1>6 DEF ServeWhole, Open, Download
  <1>7. CASE RangeNotSatisfiable(r)
    BY <1>1, <1>2, <1>7 DEF RangeNotSatisfiable, Download
  <1>8. CASE BadRange(r) \/ RequestFails(r) \/ RequestRefused(r)
    BY <1>1, <1>2, <1>8 DEF BadRange, RequestFails, RequestRefused
  <1>9. CASE Receive(r)
    BY <1>1, <1>2, <1>9 DEF Receive, Download
  <1>10. CASE StreamBreaks(r) \/ Verify(r)
    BY <1>1, <1>2, <1>10 DEF StreamBreaks, Verify
  <1>11. CASE UnlinkDest(r) \/ Rename(r) \/ RenameFails(r)
    BY <1>1, <1>2, <1>11 DEF UnlinkDest, Rename, RenameFails
  <1>12. CASE PersistSidecar(r)
    BY <1>1, <1>2, <1>12 DEF PersistSidecar, WriteSidecar
  <1> QED BY <1>3, <1>4, <1>5, <1>6, <1>7, <1>8, <1>9, <1>10, <1>11, <1>12 DEF Step

LEMMA PinStep ==
    ASSUME NEW v \in Versions, pins = {v}, IInv, PinInv(v), [Next]_vars
    PROVE  PinInv(v)'
  <1>1. ASSUME NEW r \in Resolvers, Resolve(r) \/ Step(r)
        PROVE  PinInv(v)'
    <2>1. ASSUME NEW s \in Resolvers, s # r
          PROVE  pc'[s] = pc[s] /\ req'[s] = req[s] /\ dl'[s] = dl[s]
      <3>1. req'[s] = req[s]
        <4>1. ReqMoves(r)
          BY <1>1, Moves DEF IInv
        <4>2. req \in [Resolvers -> Request]
          BY DEF IInv, TypeInv
        <4> QED BY <2>1, <4>1, <4>2 DEF ReqMoves
      <3> QED BY <1>1, <2>1, <3>1, OthersKept
    <2>2. /\ dest' \in {Nothing, File(v)} /\ sidecar' \in {Nothing, File(v)}
          /\ pc'[r] # "idle" => req'[r].pin = File(v)
          /\ pc'[r] \in {"stream", "unlink", "rename", "persist"} =>
                dl'[r].expected = File(v)
          /\ pc'[r] = "persist" => dl'[r].hashed = File(v)
      BY <1>1, PinMoves
    <2>3. \/ UNCHANGED served
          \/ served' = [served EXCEPT ![r] = Nothing]
          \/ \E got \in {Nothing, File(v)} :
                served' = [served EXCEPT ![r] = [want |-> File(v), got |-> got]]
      BY <1>1, PinMoves
    <2>4. /\ DOMAIN served' = Resolvers
          /\ \A s \in Resolvers : served'[s] # Nothing =>
                served'[s].want = File(v) /\ served'[s].got \in {Nothing, File(v)}
      BY <2>3 DEF PinInv
    <2> QED BY <2>1, <2>2, <2>4 DEF PinInv
  <1>2. CASE Publish \/ ClearCache
    BY <1>2 DEF Publish, ClearCache, disk, locals, history, PinInv
  <1>3. CASE Crash
    BY <1>3 DEF Crash, disk, PinInv
  <1>4. CASE UNCHANGED vars
    BY <1>4 DEF vars, disk, locals, history, PinInv
  <1> QED BY <1>1, <1>2, <1>3, <1>4 DEF Next

(* Callers never change what they pin.                                     *)
LEMMA PinsKept == IInv /\ [Next]_vars => UNCHANGED pins
  <1> SUFFICES ASSUME IInv, [Next]_vars PROVE UNCHANGED pins
    OBVIOUS
  <1>1. ASSUME NEW r \in Resolvers, Resolve(r) \/ Step(r)
        PROVE  UNCHANGED pins
    BY <1>1, Moves DEF IInv
  <1>2. CASE Publish \/ ClearCache \/ Crash \/ UNCHANGED vars
    BY <1>2 DEF Publish, ClearCache, Crash, vars
  <1> QED BY <1>1, <1>2 DEF Next

OnePinInv == \A v \in Versions : pins = {v} => PinInv(v)

LEMMA OnePinInvariant == Spec => []OnePinInv
  <1>1. Init => OnePinInv
    BY DEF Init, OnePinInv, PinInv
  <1>2. IInv /\ OnePinInv /\ [Next]_vars => OnePinInv'
    <2> SUFFICES ASSUME IInv, OnePinInv, [Next]_vars, NEW v \in Versions, pins' = {v}
                 PROVE  PinInv(v)'
      BY DEF OnePinInv
    <2>1. pins = {v}
      BY PinsKept
    <2> QED BY <2>1, PinStep DEF OnePinInv
  <1> QED BY <1>1, <1>2, Inductive, PTL DEF Spec

(* When all pin one version, the cached file is that version or absent,    *)
(* through crashes, lost sidecars, resumed partials and whatever the       *)
(* server publishes meanwhile.                                             *)
THEOREM BundleDestIsWhole == Spec => []DestIsWhole
  <1>1. OnePinInv => DestIsWhole
    BY DEF OnePinInv, OnePin, PinInv, DestIsWhole
  <1> QED BY <1>1, OnePinInvariant, PTL

(* And no resolve answers with another file than the one it asked for.     *)
THEOREM BundleServedIsWanted == Spec => []ServedIsWanted
  <1>1. OnePinInv => ServedIsWanted
    BY DEF OnePinInv, OnePin, PinInv, ServedIsWanted
  <1> QED BY <1>1, OnePinInvariant, PTL
=============================================================================
