---------------------------- MODULE BundleCache ----------------------------
(***************************************************************************)
(* One entry of the bundle cache: cera/src/bundle/repo.rs (resolve_url and *)
(* the hit check) and cera/src/bundle/download.rs (the resumable           *)
(* download).  Threads of one process resolve the same URL; the server may *)
(* publish a new file under that URL, requests fail, streams break off,    *)
(* and the process may die between any two steps and be started again.     *)
(*                                                                         *)
(* A file is a sequence of blocks, each tagged with the published version  *)
(* it was sent from; SHA-256 is taken to be injective, so a file stands    *)
(* for its own hash.                                                       *)
(***************************************************************************)
EXTENDS Naturals, Sequences

CONSTANTS
    Resolvers,    \* threads that call resolve_url
    Versions,     \* the files published under the URL, in order: 1 .. n
    Size,         \* Size[v]: length in blocks of version v
    PinSets,      \* what the callers' expected_sha256 may be: sets of versions,
                  \* with 0 for None
    LinkedEtag,   \* does the server advertise X-Linked-Etag?
    MaxAttempts,  \* MAX_DOWNLOAD_RETRIES
    MaxFaults,    \* bound: failures of every kind in one behaviour
    CanCrash, CanLoseSidecar,  \* which of the failures to explore
    Nothing       \* no file, no hash

File(v) == [i \in 1 .. Size[v] |-> v]

(* What a file may hold: no more blocks than some version has.             *)
Contents == UNION {[1 .. n -> Versions] : n \in UNION {0 .. Size[v] : v \in Versions}}

ASSUME CacheAssumption ==
    /\ Size \in Seq(Nat \ {0}) /\ Size # <<>>
    /\ Versions = 1 .. Len(Size)
    /\ Nothing \notin Resolvers \cup Contents
    /\ \A s \in PinSets : s \subseteq {0} \cup Versions
    /\ MaxAttempts \in Nat \ {0}
    /\ MaxFaults \in Nat
    /\ {LinkedEtag, CanCrash, CanLoseSidecar} \subseteq BOOLEAN

VARIABLES
    server,   \* the version published now
    dest,     \* the cached file, or Nothing
    sidecar,  \* <dest>.sha256 as read_sidecar reads it
    partial,  \* <dest>.partial; empty when absent
    active,   \* the resolver that holds ActiveDownloadGuard, or Nothing
    pc,
    req,      \* resolve_url's locals: the pinned hash, and what HEAD said
    dl,       \* download_to's locals: the attempt, the version the open
              \* response streams, its length as announced, the hash the
              \* file must have, and what the running hasher has seen
    pins,     \* the expected_sha256 arguments these callers use
    served,   \* history: what the last resolve that succeeded answered
    outcome,  \* history: how the last resolve ended
    faults    \* failures so far

disk    == <<dest, sidecar, partial>>
locals  == <<req, dl>>
history == <<served, outcome>>
vars == <<server, disk, active, pc, locals, pins, history, faults>>

NoReq == [pin |-> Nothing, headHash |-> Nothing, headLen |-> Nothing]
NoDl  == [attempt |-> 0, serving |-> 0, total |-> 0, expected |-> Nothing,
          hashed |-> <<>>]

Init ==
    /\ server = 1
    /\ dest = Nothing
    /\ sidecar = Nothing
    /\ partial = <<>>
    /\ active = Nothing
    /\ pc = [r \in Resolvers |-> "idle"]
    /\ req = [r \in Resolvers |-> NoReq]
    /\ dl = [r \in Resolvers |-> NoDl]
    /\ pins \in PinSets
    /\ served = [r \in Resolvers |-> Nothing]
    /\ outcome = [r \in Resolvers |-> "none"]
    /\ faults = 0

Goto(r, label) == pc' = [pc EXCEPT ![r] = label]

Fault == faults < MaxFaults /\ faults' = faults + 1

(* The hash a file must have: the caller's, else the one HEAD advertised.  *)
Wanted(r) == IF req[r].pin # Nothing THEN req[r].pin ELSE req[r].headHash

(* Mutant of Leave: the guard outlives the download.                       *)
LeaveGuardHeld(r, how) ==
    /\ outcome' = [outcome EXCEPT ![r] = how]
    /\ req' = [req EXCEPT ![r] = NoReq]
    /\ dl' = [dl EXCEPT ![r] = NoDl]
    /\ Goto(r, "idle")
    /\ UNCHANGED active

Leave(r, how) ==
    /\ outcome' = [outcome EXCEPT ![r] = how]
    /\ active' = IF active = r THEN Nothing ELSE active
    /\ req' = [req EXCEPT ![r] = NoReq]
    /\ dl' = [dl EXCEPT ![r] = NoDl]
    /\ Goto(r, "idle")

(* resolve_url returns Ok: what was asked for, and what is on disk now.    *)
Succeed(r) ==
    /\ served' = [served EXCEPT ![r] = [want |-> Wanted(r), got |-> dest]]
    /\ Leave(r, "ok")

Fail(r) == Leave(r, "error") /\ UNCHANGED served

----------------------------------------------------------------------------
(* resolve_url and cache_hit_valid.                                        *)

Resolve(r) ==
    /\ pc[r] = "idle"
    /\ \E p \in pins :
          /\ req' = [req EXCEPT ![r].pin = IF p = 0 THEN Nothing ELSE File(p)]
          /\ Goto(r, IF p = 0 THEN "head" ELSE "look")
    /\ outcome' = [outcome EXCEPT ![r] = "none"]
    /\ served' = [served EXCEPT ![r] = Nothing]
    /\ UNCHANGED <<server, disk, active, dl, pins, faults>>

(* head_info: a failed request is no information.                          *)
ProbeHead(r) ==
    /\ pc[r] = "head"
    /\ \/ /\ req' = [req EXCEPT
                  ![r].headHash = IF LinkedEtag THEN File(server) ELSE Nothing,
                  ![r].headLen = Size[server]]
          /\ UNCHANGED faults
       \/ Fault /\ UNCHANGED req
    /\ Goto(r, "look")
    /\ UNCHANGED <<server, disk, active, dl, history>>

Look(r) ==
    /\ pc[r] = "look"
    /\ Goto(r, IF dest = Nothing THEN "acquire"
               ELSE IF Wanted(r) # Nothing THEN "sidecar"
               ELSE "size")
    /\ UNCHANGED <<server, disk, active, locals, history, faults>>

(* hash_matches, fast path: a sidecar decides.                             *)
TrustSidecar(r) ==
    /\ pc[r] = "sidecar"
    /\ sidecar = Wanted(r)
    /\ Succeed(r)
    /\ UNCHANGED <<server, disk, faults>>

RejectSidecar(r) ==
    /\ pc[r] = "sidecar"
    /\ sidecar # Wanted(r)
    /\ Goto(r, IF sidecar = Nothing THEN "rehash" ELSE "acquire")
    /\ UNCHANGED <<server, disk, active, locals, history, faults>>

(* hash_matches, slow path; a file that has gone in the meantime is a miss *)
Rehash(r) ==
    /\ pc[r] = "rehash"
    /\ Goto(r, IF dest = Wanted(r) THEN "repair" ELSE "acquire")
    /\ UNCHANGED <<server, disk, active, locals, history, faults>>

(* write_sidecar: best effort; a failure leaves the old sidecar, or one cut *)
(* short that reads as none.                                               *)
WriteSidecar(hash) ==
    \/ sidecar' = hash /\ UNCHANGED faults
    \/ CanLoseSidecar /\ Fault /\ sidecar' \in {sidecar, Nothing}

RepairSidecar(r) ==
    /\ pc[r] = "repair"
    /\ WriteSidecar(Wanted(r))
    /\ Succeed(r)
    /\ UNCHANGED <<server, dest, partial>>

(* No hash anywhere: the length decides, and without one the file is used. *)
CheckSize(r) ==
    /\ pc[r] = "size"
    /\ LET length == IF dest = Nothing THEN 0 ELSE Len(dest)
       IN  IF req[r].headLen \in {Nothing, length}
           THEN Succeed(r)
           ELSE Goto(r, "acquire") /\ UNCHANGED <<active, locals, history>>
    /\ UNCHANGED <<server, disk, faults>>

----------------------------------------------------------------------------
(* download_to.                                                            *)

(* ActiveDownloadGuard::acquire, and wait_for_active_download on refusal.  *)
Acquire(r) ==
    /\ pc[r] = "acquire"
    /\ IF active = Nothing
       THEN active' = r /\ Goto(r, "request")
       ELSE Goto(r, "wait") /\ UNCHANGED active
    /\ UNCHANGED <<server, disk, locals, history, faults>>

WaitForActive(r) ==
    /\ pc[r] = "wait"
    /\ active = Nothing
    /\ Goto(r, "look")
    /\ UNCHANGED <<server, disk, active, locals, history, faults>>

(* The attempt is spent; the last one fails the resolve.                   *)
NextAttempt(r) ==
    IF dl[r].attempt + 1 < MaxAttempts
    THEN /\ dl' = [dl EXCEPT ![r].attempt = @ + 1]
         /\ UNCHANGED <<pc, active, req, history>>
    ELSE Fail(r)

(* The hash headers a response may carry: often lost on a CDN's last hop.  *)
Etags == {Nothing} \cup (IF LinkedEtag THEN {File(server)} ELSE {})

(* Mutant of Open: the response's header outranks the caller's pin.        *)
OpenTrustsEtag(r, prefix, length) ==
    /\ \E etag \in Etags :
          dl' = [dl EXCEPT ![r] =
                   [@ EXCEPT !.serving = server, !.total = length,
                       !.hashed = prefix,
                       !.expected = IF etag # Nothing THEN etag ELSE Wanted(r)]]
    /\ Goto(r, "stream")
    /\ UNCHANGED <<active, req, history>>

(* A response is open over what the hasher has seen so far.                *)
Open(r, prefix, length) ==
    /\ \E etag \in Etags :
          dl' = [dl EXCEPT ![r] =
                   [@ EXCEPT !.serving = server, !.total = length,
                       !.hashed = prefix,
                       !.expected = IF Wanted(r) # Nothing THEN Wanted(r) ELSE etag]]
    /\ Goto(r, "stream")
    /\ UNCHANGED <<active, req, history>>

(* 206: the blocks after the partial's, and the prefix on disk is hashed.  *)
ServeRest(r) ==
    /\ pc[r] = "request"
    /\ 0 < Len(partial) /\ Len(partial) < Size[server]
    /\ Open(r, partial, Size[server])
    /\ UNCHANGED <<server, disk, faults>>

(* 200: the whole file, from a server that was not asked for a range or    *)
(* ignores it.  The length HEAD announced has precedence.                  *)
ServeWhole(r) ==
    /\ pc[r] = "request"
    /\ Open(r, <<>>, IF req[r].headLen # Nothing THEN req[r].headLen
                     ELSE Size[server])
    /\ partial' = <<>>
    /\ UNCHANGED <<server, dest, sidecar, faults>>

(* Mutant of RangeNotSatisfiable: the partial is kept.                     *)
RangeKeepsPartial(r) ==
    /\ pc[r] = "request"
    /\ Len(partial) >= Size[server]
    /\ \E etag \in Etags :
          IF partial = IF Wanted(r) # Nothing THEN Wanted(r) ELSE etag
          THEN /\ dl' = [dl EXCEPT ![r].hashed = partial, ![r].expected = partial]
               /\ Goto(r, "unlink")
               /\ UNCHANGED <<active, req, history>>
          ELSE NextAttempt(r)
    /\ UNCHANGED <<server, disk, faults>>

(* Mutant of RangeNotSatisfiable: the partial is taken for complete.       *)
RangeMeansComplete(r) ==
    /\ pc[r] = "request"
    /\ Len(partial) >= Size[server]
    /\ dl' = [dl EXCEPT ![r].hashed = partial, ![r].expected = partial]
    /\ Goto(r, "unlink")
    /\ UNCHANGED <<server, disk, active, req, history, faults>>

(* 416: nothing left to send.  A partial with the right hash is finished;  *)
(* any other is dropped and the next attempt starts afresh.                *)
RangeNotSatisfiable(r) ==
    /\ pc[r] = "request"
    /\ Len(partial) >= Size[server]
    /\ \E etag \in Etags :
          IF partial = IF Wanted(r) # Nothing THEN Wanted(r) ELSE etag
          THEN /\ dl' = [dl EXCEPT ![r].hashed = partial, ![r].expected = partial]
               /\ Goto(r, "unlink")
               /\ UNCHANGED <<partial, active, req, history>>
          ELSE partial' = <<>> /\ NextAttempt(r)
    /\ UNCHANGED <<server, dest, sidecar, faults>>

(* A 206 that does not start where it should also costs the partial.       *)
BadRange(r) ==
    /\ pc[r] = "request"
    /\ Len(partial) > 0
    /\ Fault
    /\ partial' = <<>>
    /\ NextAttempt(r)
    /\ UNCHANGED <<server, dest, sidecar>>

(* Transport error, 408, 429 or 5xx: try again.                            *)
RequestFails(r) ==
    /\ pc[r] = "request"
    /\ Fault
    /\ NextAttempt(r)
    /\ UNCHANGED <<server, disk>>

(* Any other status ends the download.                                     *)
RequestRefused(r) ==
    /\ pc[r] = "request"
    /\ Fault
    /\ Fail(r)
    /\ UNCHANGED <<server, disk>>

Receive(r) ==
    /\ pc[r] = "stream"
    /\ Len(partial) < Size[dl[r].serving]
    /\ partial' = Append(partial, dl[r].serving)
    /\ dl' = [dl EXCEPT ![r].hashed = Append(@, dl[r].serving)]
    /\ UNCHANGED <<server, dest, sidecar, active, pc, req, history, faults>>

(* The stream breaks off, or the file cannot be synced: the partial stays. *)
StreamBreaks(r) ==
    /\ pc[r] = "stream"
    /\ Fault
    /\ Fail(r)
    /\ UNCHANGED <<server, disk>>

(* Mutant of Verify: the length decides.                                   *)
VerifyLengthOnly(r) ==
    /\ pc[r] = "stream"
    /\ Len(partial) >= Size[dl[r].serving]
    /\ IF Len(dl[r].hashed) < dl[r].total
       THEN Fail(r)
       ELSE Goto(r, "unlink") /\ UNCHANGED <<active, locals, history>>
    /\ UNCHANGED <<server, disk, faults>>

(* End of stream: fewer bytes than announced keep the partial for later, a *)
(* wrong hash deletes it.                                                  *)
Verify(r) ==
    /\ pc[r] = "stream"
    /\ Len(partial) >= Size[dl[r].serving]
    /\ IF Len(dl[r].hashed) < dl[r].total
       THEN Fail(r) /\ UNCHANGED partial
       ELSE IF dl[r].expected \notin {Nothing, dl[r].hashed}
       THEN Fail(r) /\ partial' = <<>>
       ELSE Goto(r, "unlink") /\ UNCHANGED <<partial, active, locals, history>>
    /\ UNCHANGED <<server, dest, sidecar, faults>>

UnlinkDest(r) ==
    /\ pc[r] = "unlink"
    /\ dest' = Nothing
    /\ Goto(r, "rename")
    /\ UNCHANGED <<server, sidecar, partial, active, locals, history, faults>>

Rename(r) ==
    /\ pc[r] = "rename"
    /\ dest' = partial
    /\ partial' = <<>>
    /\ Goto(r, "persist")
    /\ UNCHANGED <<server, sidecar, active, locals, history, faults>>

RenameFails(r) ==
    /\ pc[r] = "rename"
    /\ Fault
    /\ partial' = <<>>
    /\ Fail(r)
    /\ UNCHANGED <<server, dest, sidecar>>

(* The sidecar is written and the guard dropped.                           *)
PersistSidecar(r) ==
    /\ pc[r] = "persist"
    /\ WriteSidecar(dl[r].hashed)
    /\ Succeed(r)
    /\ UNCHANGED <<server, dest, partial>>

----------------------------------------------------------------------------
(* The environment.                                                        *)

Publish ==
    /\ server + 1 \in Versions
    /\ server' = server + 1
    /\ UNCHANGED <<disk, active, pc, locals, pins, history, faults>>

(* clear_cache, which callers keep apart from their own resolves.          *)
ClearCache ==
    /\ \A r \in Resolvers : pc[r] = "idle"
    /\ Fault
    /\ dest' = Nothing
    /\ sidecar' = Nothing
    /\ partial' = <<>>
    /\ UNCHANGED <<server, active, pc, locals, pins, history>>

(* The process dies and is started again: the disk is all that is left.    *)
Crash ==
    /\ CanCrash
    /\ Fault
    /\ active' = Nothing
    /\ pc' = [r \in Resolvers |-> "idle"]
    /\ req' = [r \in Resolvers |-> NoReq]
    /\ dl' = [r \in Resolvers |-> NoDl]
    /\ served' = [r \in Resolvers |-> Nothing]
    /\ outcome' = [r \in Resolvers |-> "none"]
    /\ UNCHANGED <<server, disk, pins>>

Step(r) ==
    /\ \/ ProbeHead(r) \/ Look(r) \/ TrustSidecar(r) \/ RejectSidecar(r)
       \/ Rehash(r) \/ RepairSidecar(r) \/ CheckSize(r) \/ Acquire(r)
       \/ WaitForActive(r) \/ ServeRest(r) \/ ServeWhole(r)
       \/ RangeNotSatisfiable(r) \/ BadRange(r) \/ RequestFails(r)
       \/ RequestRefused(r) \/ Receive(r) \/ StreamBreaks(r) \/ Verify(r)
       \/ UnlinkDest(r) \/ Rename(r) \/ RenameFails(r) \/ PersistSidecar(r)
    /\ UNCHANGED pins

Next ==
    \/ \E r \in Resolvers : Resolve(r) \/ Step(r)
    \/ Publish
    \/ ClearCache
    \/ Crash

Spec == Init /\ [][Next]_vars

(* Every thread runs, and callers whose resolve ended resolve again.       *)
FairSpec ==
    /\ Spec
    /\ \A r \in Resolvers : WF_vars(Step(r)) /\ WF_vars(Resolve(r))

----------------------------------------------------------------------------
(***************************************************************************)
(* Properties.                                                             *)
(***************************************************************************)

Files == {Nothing} \cup Contents

Labels == {"idle", "head", "look", "sidecar", "rehash", "repair", "size",
           "acquire", "wait", "request", "stream", "unlink", "rename", "persist"}

(* Every variable holds a value of its type.                               *)
TypeOK ==
    /\ server \in Versions
    /\ {dest, sidecar} \subseteq Files
    /\ partial \in Contents
    /\ active \in Resolvers \cup {Nothing}
    /\ pins \in PinSets
    /\ pc \in [Resolvers -> Labels]
    /\ \A r \in Resolvers :
          /\ {req[r].pin, req[r].headHash, dl[r].expected, dl[r].hashed}
                \subseteq Files
          /\ dl[r].attempt \in 0 .. MaxAttempts - 1
          /\ outcome[r] \in {"none", "ok", "error"}
    /\ faults \in 0 .. MaxFaults

(* The digest download_to compares is the digest of the file it will       *)
(* rename: resumed prefix and streamed blocks alike, with nobody else in   *)
(* the partial, from the first block to the rename.                        *)
HashCoversPartial ==
    \A r \in Resolvers :
        pc[r] \in {"stream", "unlink", "rename"} => dl[r].hashed = partial

(* Nothing is installed under the cache key but a file with the expected   *)
(* hash: not a splice of two versions resumed into one partial, not a      *)
(* short one, whatever broke off or crashed before.                        *)
InstallIsVerified ==
    \A r \in Resolvers :
        pc[r] = "persist" /\ dl[r].expected # Nothing =>
            dest = dl[r].expected

(* All callers pin the same version.                                       *)
OnePin == \E v \in Versions : pins = {v}

(* When all callers pin the same version, every download knows the hash it *)
(* must find, and the cached file is always one whole published version: a *)
(* crash leaves it whole or gone.                                          *)
DestIsWhole == OnePin => dest = Nothing \/ \E v \in Versions : dest = File(v)

(* A resolve answers with the very file it asked for, or one that another  *)
(* thread has just removed to install it again; when all pin one version.  *)
ServedIsWanted ==
    OnePin => \A r \in Resolvers :
        served[r] # Nothing /\ served[r].want # Nothing =>
            served[r].got \in {served[r].want, Nothing}

(* "if provided, the cached entry's hash [...] must match this exactly"    *)
(* (resolve_url), whatever other callers pin.                              *)
ServedIsPinned ==
    \A r \in Resolvers :
        served[r] # Nothing /\ served[r].want # Nothing =>
            served[r].got \in {served[r].want, Nothing}

Newest == Len(Size)

(* The callers ask for what the server publishes in the end.               *)
Obtainable == pins \subseteq {0, Newest} /\ <>[](server = Newest)

(* Once the server publishes what the callers ask for, and the failures    *)
(* stop, resolves stop failing: no state of the partial, the sidecar or    *)
(* the cached file wedges the entry.                                       *)
Recovers == Obtainable => <>[](\A r \in Resolvers : outcome[r] # "error")

(* And every resolve ends: nobody waits for ever for a download that       *)
(* failed, or for its own retries.                                         *)
ResolveEnds ==
    Obtainable => \A r \in Resolvers : pc[r] # "idle" ~> pc[r] = "idle"
=============================================================================
