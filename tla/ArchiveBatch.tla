---------------------------- MODULE ArchiveBatch ----------------------------
(***************************************************************************)
(* The archive thread of the MDS: mds/archive/OpticalArchiveManager.cpp     *)
(* RunOnce and BurnSealedBatch over mds/archive/ArchiveBatchStager.cpp.     *)
(*                                                                          *)
(* A round burns a sealed batch, stages candidate files into an open one    *)
(* until it is sealed, burns that, and reconciles the lease records.        *)
(* Staging reads every object of a file from its disk node and keeps a copy *)
(* in the staging directory beside a manifest.  Burning renews the lease of *)
(* every file of the batch, writes each object to the optical node, commits *)
(* every lease, publishes all locations in one store batch and only then    *)
(* marks the objects done.  Files are written and unlinked by clients,      *)
(* leases run out, calls and saves fail, and the process may die between    *)
(* any two of these steps.                                                  *)
(*                                                                          *)
(* The lease records are those of ArchiveLease, reduced to what one client  *)
(* sees of them: no other owner claims the files of this module.            *)
(***************************************************************************)
EXTENDS Naturals, Sequences, FiniteSets, SequencesExt, FiniteSetsExt

CONSTANTS
    Files,          \* inodes of type INODE_FILE, on disk at the start
    NoFile,         \* no file in hand
    Objects,        \* their stable object ids
    ObjectsOf,      \* [Files -> Seq(Objects)], in object_index order
    SizeOf,         \* [Objects -> Nat]
    Disc,           \* disc_size_bytes
    RoundObjects,   \* max_objects_per_round
    AgeSeals,       \* ~strict_full_disc and max_batch_age_ms > 0
    MaxLeases,      \* bound on the lease ids issued
    MaxClientOps,   \* bound on the writes and unlinks of clients
    MaxFaults       \* bound on failed calls, failed saves and crashes

ASSUME BatchAssumption ==
    /\ ObjectsOf \in [Files -> Seq(Objects)]
    /\ \A f, g \in Files : f # g =>
           ToSet(ObjectsOf[f]) \cap ToSet(ObjectsOf[g]) = {}
    /\ \A o \in Objects : \E f \in Files : o \in ToSet(ObjectsOf[f])
    /\ NoFile \notin Files
    /\ SizeOf \in [Objects -> Nat \ {0}]
    /\ Disc \in Nat \ {0} /\ RoundObjects \in Nat \ {0}
    /\ AgeSeals \in BOOLEAN
    /\ MaxLeases \in Nat /\ MaxClientOps \in Nat /\ MaxFaults \in Nat

VARIABLES
    inode,      \* the archive state of an inode, "gone" once it is unlinked
    located,    \* files whose inode has a usable optical location
    content,    \* what the disk node holds of a file: its number of writes
    lease,      \* the ArchiveLeaseRecord of a file
    issued,     \* lease ids generated so far
    queue,      \* candidate_queue_
    batch,      \* the stager in memory: sealed_, total_bytes_, the objects in order
    manifest,   \* batch.manifest
    staged,     \* the data files of the staging directory; NoCopy: no such file
    burnt,      \* what the optical node holds of an object; NoCopy: nothing
    th,         \* the archive thread
    faults,
    stale,      \* history: files written while a copy of them was staged
    torn        \* history: files whose staging a crash cut in two

vars == <<inode, located, content, lease, issued, queue, batch, manifest,
          staged, burnt, th, faults, stale, torn>>

NoCopy == MaxClientOps + 1
FileOf(o) == CHOOSE f \in Files : o \in ToSet(ObjectsOf[f])
Bytes(os) == MapThenSumSet(LAMBDA o : SizeOf[o], os)

\* StagedArchiveObject, and the stager's fields beside the objects.
Items == [o: Objects, id: Nat, done: BOOLEAN]
Batches == [sealed: BOOLEAN, total: Nat, items: Seq(Items)]
EmptyBatch == [sealed |-> FALSE, total |-> 0, items |-> <<>>]

\* ArchiveLeaseRecord; live: lease_expire_ts_ms is not past.
Leases == [state: {"NONE", "PENDING", "ARCHIVING"}, id: Nat, live: BOOLEAN]
NoLease == [state |-> "NONE", id |-> 0, live |-> FALSE]
Given == [state |-> "PENDING", id |-> 0, live |-> FALSE]

Places == {"idle", "stage", "claim", "object", "remove", "burn",
           "abort", "commit", "mark", "reset", "reconcile"}

\* The locals of RunOnce and BurnSealedBatch.
Threads ==
    [pc: Places, after: {"stage", "reconcile"},
     seen: SUBSET Files, count: Nat,             \* seen_inodes, staged_count
     f: Files \cup {NoFile}, id: Nat,            \* file_candidate, file_lease_id
     todo: Seq(Objects), mine: Seq(Objects),     \* file_tasks left, staged_object_ids
     deferred: BOOLEAN,                          \* file_deferred
     tasks: Seq(Items), prepared: Seq(Objects),
     ready: SUBSET Files, archived: SUBSET Files,  \* the FileLeaseContext flags
     failed: BOOLEAN]                            \* ~all_committed
Idle ==
    [pc |-> "idle", after |-> "stage", seen |-> {}, count |-> 0,
     f |-> NoFile, id |-> 0, todo |-> <<>>, mine |-> <<>>, deferred |-> FALSE,
     tasks |-> <<>>, prepared |-> <<>>, ready |-> {}, archived |-> {},
     failed |-> FALSE]

Init ==
    /\ inode = [f \in Files |-> "PENDING"]
    /\ located = {}
    /\ content = [f \in Files |-> 0]
    /\ lease = [f \in Files |-> NoLease]
    /\ issued = 0
    /\ queue = {}
    /\ batch = EmptyBatch /\ manifest = EmptyBatch
    /\ staged = [o \in Objects |-> NoCopy]
    /\ burnt = [o \in Objects |-> NoCopy]
    /\ th = Idle
    /\ faults = 0
    /\ stale = {} /\ torn = {}

Fault == faults < MaxFaults /\ faults' = faults + 1
NoFault == UNCHANGED faults
Goes(ok) == IF ok THEN NoFault ELSE Fault

-----------------------------------------------------------------------------
(***************************************************************************)
(* The stager.                                                              *)
(***************************************************************************)
Held(b) == {b.items[i].o : i \in DOMAIN b.items}
HeldOf(f) == Held(batch) \cap ToSet(ObjectsOf[f])
Pending(b) == SelectSeq(b.items, LAMBDA e : ~e.done)

\* PersistManifestLocked leaves out what is done; LoadManifestLocked reads
\* everything back as not done and counts the bytes again when the header has 0.
Saved(b) == [b EXCEPT !.items = Pending(b)]
Loaded(m) ==
    [m EXCEPT !.total =
        IF m.total = 0 THEN Bytes({m.items[i].o : i \in DOMAIN m.items}) ELSE m.total]

Saves(b, ok) ==
    /\ batch' = b
    /\ manifest' = IF ok THEN Saved(b) ELSE manifest

\* IsReadyToSealLocked: a full disc, or a batch old enough when age seals.
Ages == IF AgeSeals THEN BOOLEAN ELSE {FALSE}
ReadyToSeal(b, aged) == b.total = Disc \/ aged

Overflows(b, o) == b.total > 0 /\ b.total + SizeOf[o] > Disc
\* Fault: total_bytes_ is not brought up to date.
AppendedUnsummed(b, o, id) ==
    [b EXCEPT !.items = Append(@, [o |-> o, id |-> id, done |-> FALSE])]
Appended(b, o, id) ==
    [b EXCEPT !.items = Append(@, [o |-> o, id |-> id, done |-> FALSE]),
              !.total = @ + SizeOf[o]]

Removed(b, o) ==
    [b EXCEPT !.items = SelectSeq(@, LAMBDA e : e.o # o),
              !.total = IF @ > SizeOf[o] THEN @ - SizeOf[o] ELSE 0]

MarkedDone(b, o) ==
    [b EXCEPT !.items = [i \in DOMAIN @ |->
        IF @[i].o = o THEN [@[i] EXCEPT !.done = TRUE] ELSE @[i]]]

\* Fault: only a batch without objects is drained.
ResetIfEmpty(b) == IF b.sealed /\ b.items = <<>> THEN EmptyBatch ELSE b
ResetIfDrained(b) == IF b.sealed /\ Pending(b) = <<>> THEN EmptyBatch ELSE b

-----------------------------------------------------------------------------
(***************************************************************************)
(* The lease manager, as its one client here sees it.                       *)
(***************************************************************************)
\* Claim grants the live lease of the same owner again.
ClaimedId(f) ==
    IF lease[f].state = "ARCHIVING" /\ lease[f].live THEN lease[f].id ELSE issued + 1

Renewable(f, id) ==
    lease[f].state = "ARCHIVING" /\ lease[f].id = id /\ lease[f].live

\* Commit does not look at the expiry: only the id has to match.
Committable(f, id) == lease[f].state = "ARCHIVING" /\ lease[f].id = id

\* UpdateInodeArchiveState: nothing to set once the inode is gone.
SetState(f, s) ==
    inode' = IF inode[f] = "gone" THEN inode ELSE [inode EXCEPT ![f] = s]

-----------------------------------------------------------------------------
(***************************************************************************)
(* Clients and the clock.                                                   *)
(***************************************************************************)
\* ReportFileArchiveCandidates takes files whose inode is PENDING.
Report(f) ==
    /\ inode[f] = "PENDING" /\ f \notin queue
    /\ issued + Cardinality(queue) + (IF th.pc = "claim" THEN 1 ELSE 0) < MaxLeases
    /\ queue' = queue \cup {f}
    /\ UNCHANGED <<inode, located, content, lease, issued, batch, manifest,
                   staged, burnt, th, faults, stale, torn>>

ClientOps == SumFunction(content) + Cardinality({f \in Files : inode[f] = "gone"})

\* Fault: UpdateInodeStat without the READ_ONLY_OPTICAL check.
ClientWriteArchived(f) ==
    /\ inode[f] # "gone"
    /\ ClientOps < MaxClientOps
    /\ content' = [content EXCEPT ![f] = @ + 1]
    /\ inode' = [inode EXCEPT ![f] = "PENDING"]
    /\ stale' = IF HeldOf(f) # {} THEN stale \cup {f} ELSE stale
    /\ UNCHANGED <<located, lease, issued, queue, batch, manifest, staged,
                   burnt, th, faults, torn>>

\* A write reaches the disk node and UpdateInodeStat makes the inode PENDING
\* again; an archived inode is READ_ONLY_OPTICAL.
ClientWrite(f) ==
    /\ inode[f] \notin {"gone", "ARCHIVED"}
    /\ ClientOps < MaxClientOps
    /\ content' = [content EXCEPT ![f] = @ + 1]
    /\ inode' = [inode EXCEPT ![f] = "PENDING"]
    /\ stale' = IF HeldOf(f) # {} THEN stale \cup {f} ELSE stale
    /\ UNCHANGED <<located, lease, issued, queue, batch, manifest, staged,
                   burnt, th, faults, torn>>

Unlink(f) ==
    /\ inode[f] # "gone" /\ ClientOps < MaxClientOps
    /\ inode' = [inode EXCEPT ![f] = "gone"]
    /\ located' = located \ {f}
    /\ UNCHANGED <<content, lease, issued, queue, batch, manifest, staged,
                   burnt, th, faults, stale, torn>>

LeaseExpires(f) ==
    /\ lease[f].live
    /\ lease' = [lease EXCEPT ![f].live = FALSE]
    /\ UNCHANGED <<inode, located, content, issued, queue, batch, manifest,
                   staged, burnt, th, faults, stale, torn>>

(***************************************************************************)
(* The process dies and starts again.  PersistManifestLocked removes the    *)
(* old manifest before it renames the new one into place, so a death inside *)
(* a round may leave no manifest, and Init then starts an empty batch.      *)
(***************************************************************************)
Crash ==
    /\ Fault
    /\ \E m \in IF th.pc = "idle" THEN {manifest} ELSE {manifest, EmptyBatch} :
           /\ batch' = Loaded(m) /\ manifest' = m
           /\ torn' = IF /\ th.pc \in {"object", "remove"}
                         /\ Held(m) \cap ToSet(ObjectsOf[th.f]) # {}
                      THEN torn \cup {th.f} ELSE torn
    /\ queue' = {}
    /\ th' = Idle
    /\ UNCHANGED <<inode, located, content, lease, issued, staged, burnt, stale>>

-----------------------------------------------------------------------------
(***************************************************************************)
(* RunOnce: the round and the staging loop.                                 *)
(***************************************************************************)
ToBurn(t, after) ==
    [t EXCEPT !.pc = "burn", !.after = after, !.tasks = Pending(batch),
              !.prepared = <<>>, !.ready = {}, !.archived = {}, !.failed = FALSE]

\* Without an optical node the round goes straight to the lease records.
Round ==
    /\ th.pc = "idle"
    /\ \/ /\ th' = IF batch.sealed THEN ToBurn(th, "stage") ELSE [th EXCEPT !.pc = "stage"]
          /\ NoFault
       \/ th' = [th EXCEPT !.pc = "reconcile"] /\ Fault
    /\ UNCHANGED <<inode, located, content, lease, issued, queue, batch,
                   manifest, staged, burnt, stale, torn>>

StageEnd ==
    /\ th.pc = "stage"
    /\ batch.sealed \/ th.count >= RoundObjects \/ queue = {}
    /\ th' = IF batch.sealed THEN ToBurn(th, "reconcile") ELSE [th EXCEPT !.pc = "reconcile"]
    /\ UNCHANGED <<inode, located, content, lease, issued, queue, batch,
                   manifest, staged, burnt, faults, stale, torn>>

\* What becomes of a popped candidate.  A deferred one that the same round pops
\* again is in seen_inodes by then and is dropped.
FileBytes(f) == Bytes(ToSet(ObjectsOf[f]))
Dropped(f) ==
    \/ inode[f] = "gone" \/ f \in th.seen \/ f \in located
    \/ Len(ObjectsOf[f]) <= RoundObjects - th.count /\ FileBytes(f) > Disc
Deferred(f) ==
    \/ Len(ObjectsOf[f]) > RoundObjects - th.count
    \/ batch.total > 0 /\ batch.total + FileBytes(f) > Disc
NeedsStaging(f) == ~(ToSet(ObjectsOf[f]) \subseteq Held(batch))

\* PopTop.  The inode says ARCHIVING before the call that tells the disk node.
PopTop(f) ==
    /\ th.pc = "stage" /\ ~batch.sealed /\ th.count < RoundObjects
    /\ f \in queue
    /\ queue' = IF ~Dropped(f) /\ Deferred(f) THEN queue ELSE queue \ {f}
    /\ IF Dropped(f) \/ Deferred(f)
       THEN /\ th' = IF inode[f] = "gone" THEN th ELSE [th EXCEPT !.seen = @ \cup {f}]
            /\ UNCHANGED inode /\ NoFault
       ELSE /\ inode' = [inode EXCEPT ![f] = "ARCHIVING"]
            /\ \E ok \in BOOLEAN :
                   /\ th' = IF ok /\ NeedsStaging(f)
                            THEN [th EXCEPT !.seen = @ \cup {f}, !.pc = "claim", !.f = f]
                            ELSE [th EXCEPT !.seen = @ \cup {f}]
                   /\ Goes(ok)
    /\ UNCHANGED <<located, content, lease, issued, batch, manifest, staged,
                   burnt, stale, torn>>

ClaimFile ==
    /\ th.pc = "claim"
    /\ \E ok \in BOOLEAN :
          /\ Goes(ok)
          /\ IF ok
             THEN LET id == ClaimedId(th.f) IN
                  /\ lease' = [lease EXCEPT ![th.f] =
                         [state |-> "ARCHIVING", id |-> id, live |-> TRUE]]
                  /\ issued' = IF id > issued THEN id ELSE issued
                  /\ th' = [th EXCEPT !.pc = "object", !.id = id, !.mine = <<>>,
                                !.todo = ObjectsOf[th.f], !.deferred = FALSE]
                  /\ UNCHANGED inode
             ELSE /\ SetState(th.f, IF th.f \in located THEN "ARCHIVED" ELSE "PENDING")
                  /\ th' = [th EXCEPT !.pc = "stage", !.f = NoFile]
                  /\ UNCHANGED <<lease, issued>>
    /\ UNCHANGED <<located, content, queue, batch, manifest, staged, burnt,
                   stale, torn>>

(***************************************************************************)
(* One object of the file: ReadObjectFromReplica and StageObject.  A failed *)
(* save takes the object out of the batch again but leaves sealed_ as it    *)
(* is; a batch that age has sealed under the loop refuses the object.       *)
(***************************************************************************)
\* Fault: what was staged of the file stays in the batch.
StuckKeeps(t) == [t EXCEPT !.pc = "remove", !.mine = <<>>]
Stuck(t) == [t EXCEPT !.pc = "remove"]
StageObject ==
    /\ th.pc = "object" /\ th.todo # <<>>
    /\ LET o == Head(th.todo)
           rest == [th EXCEPT !.todo = Tail(@)]
       IN \/ /\ o \in Held(batch)
             /\ th' = rest
             /\ UNCHANGED <<batch, manifest, staged>> /\ NoFault
          \/ /\ o \notin Held(batch)                    \* the read fails
             /\ th' = Stuck(th)
             /\ UNCHANGED <<batch, manifest, staged>> /\ Fault
          \/ /\ o \notin Held(batch) /\ batch.sealed
             /\ th' = Stuck(th)
             /\ UNCHANGED <<batch, manifest, staged>> /\ NoFault
          \/ /\ o \notin Held(batch) /\ ~batch.sealed
             /\ \E ok \in BOOLEAN, aged \in Ages :
                  LET b == Appended(batch, o, th.id)
                      sealing == ReadyToSeal(b, aged)
                  IN IF Overflows(batch, o)
                     THEN /\ Saves([batch EXCEPT !.sealed = TRUE], ok)
                          /\ th' = [Stuck(th) EXCEPT !.deferred = ok]
                          /\ UNCHANGED staged /\ Goes(ok)
                     ELSE /\ IF ok THEN Saves([b EXCEPT !.sealed = sealing], TRUE)
                                   ELSE Saves([batch EXCEPT !.sealed = sealing], FALSE)
                          /\ staged' = [staged EXCEPT ![o] = IF ok THEN content[th.f] ELSE NoCopy]
                          /\ th' = IF ok THEN [rest EXCEPT !.mine = Append(@, o)] ELSE Stuck(th)
                          /\ Goes(ok)
    /\ stale' = IF HeldOf(th.f) = {} THEN stale \ {th.f} ELSE stale
    /\ torn' = IF HeldOf(th.f) = {} THEN torn \ {th.f} ELSE torn
    /\ UNCHANGED <<inode, located, content, lease, issued, queue, burnt>>

\* The whole file is staged; SealIfReady.
FileStaged ==
    /\ th.pc = "object" /\ th.todo = <<>>
    /\ \E ok \in BOOLEAN, aged \in Ages :
          IF batch.sealed \/ ~ReadyToSeal(batch, aged)
          THEN UNCHANGED <<batch, manifest>> /\ NoFault
          ELSE Saves([batch EXCEPT !.sealed = TRUE], ok) /\ Goes(ok)
    /\ th' = [th EXCEPT !.pc = "stage", !.count = @ + Len(th.mine), !.f = NoFile,
                        !.mine = <<>>, !.id = 0]
    /\ UNCHANGED <<inode, located, content, lease, issued, queue, staged, burnt,
                   stale, torn>>

\* file_failed: RemoveObject for what this file has put in, one by one.
RemoveObject ==
    /\ th.pc = "remove" /\ th.mine # <<>>
    /\ \E ok \in BOOLEAN : Saves(Removed(batch, Head(th.mine)), ok) /\ Goes(ok)
    /\ staged' = [staged EXCEPT ![Head(th.mine)] = NoCopy]
    /\ th' = [th EXCEPT !.mine = Tail(@)]
    /\ UNCHANGED <<inode, located, content, lease, issued, queue, burnt, stale, torn>>

\* The lease is given back, ignoring failure, and the inode is PENDING again.
SettleFile ==
    /\ th.pc = "remove" /\ th.mine = <<>>
    /\ \E ok \in BOOLEAN :
          /\ lease' = IF ok /\ Committable(th.f, th.id)
                      THEN [lease EXCEPT ![th.f] = Given] ELSE lease
          /\ Goes(ok)
    /\ queue' = IF th.deferred THEN queue \cup {th.f} ELSE queue
    /\ SetState(th.f, "PENDING")
    /\ th' = [th EXCEPT !.pc = "stage", !.f = NoFile, !.id = 0, !.todo = <<>>,
                        !.deferred = FALSE]
    /\ UNCHANGED <<located, content, issued, batch, manifest, staged, burnt,
                   stale, torn>>

-----------------------------------------------------------------------------
(***************************************************************************)
(* BurnSealedBatch.                                                         *)
(***************************************************************************)
Return(t) ==
    [t EXCEPT !.pc = t.after, !.tasks = <<>>, !.prepared = <<>>, !.ready = {},
              !.archived = {}, !.failed = FALSE]

(***************************************************************************)
(* The lease of the file of staged object e: RenewFileLease once per file,  *)
(* with the id the object was staged under.  One that cannot be renewed is  *)
(* forgiven when the file has its optical location by now.                  *)
(***************************************************************************)
AskLease(e) ==
    LET f == FileOf(e.o) IN
    IF f \in th.archived THEN "archived"
    ELSE IF f \in th.ready \/ Renewable(f, e.id) THEN "ready"
    ELSE IF f \in located THEN "archived" ELSE "refused"

BurnSkip ==
    /\ th.pc = "burn" /\ th.tasks # <<>>
    /\ LET e == Head(th.tasks) IN
       /\ AskLease(e) = "archived"
       /\ \E ok \in BOOLEAN : Saves(MarkedDone(batch, e.o), ok) /\ Goes(ok)
       /\ staged' = [staged EXCEPT ![e.o] = NoCopy]
       /\ th' = [th EXCEPT !.tasks = Tail(@), !.archived = @ \cup {FileOf(e.o)}]
    /\ UNCHANGED <<inode, located, content, lease, issued, queue, burnt, stale, torn>>

\* No lease, or the lease store does not answer: the whole batch fails.
BurnRefused ==
    /\ th.pc = "burn" /\ th.tasks # <<>>
    /\ LET e == Head(th.tasks) IN
       \/ AskLease(e) = "refused" /\ NoFault
       \/ /\ AskLease(e) = "ready" /\ FileOf(e.o) \notin th.ready \cup located
          /\ Fault
    /\ th' = [th EXCEPT !.pc = "abort"]
    /\ UNCHANGED <<inode, located, content, lease, issued, queue, batch,
                   manifest, staged, burnt, stale, torn>>

(***************************************************************************)
(* UpdateObjectLease saves the manifest; then the staged data, the inode    *)
(* and WriteObjectToOptical, which may fail with or without having written. *)
(***************************************************************************)
BurnWrite ==
    /\ th.pc = "burn" /\ th.tasks # <<>>
    /\ LET e == Head(th.tasks)
           f == FileOf(e.o)
           held == [th EXCEPT !.ready = @ \cup {f}]
           readable == staged[e.o] # NoCopy /\ inode[f] # "gone"
       IN /\ AskLease(e) = "ready"
          /\ manifest' = Saved(batch)
          /\ \/ /\ readable
                /\ burnt' = [burnt EXCEPT ![e.o] = staged[e.o]]
                /\ th' = [held EXCEPT !.tasks = Tail(@), !.prepared = Append(@, e.o)]
                /\ NoFault
             \/ /\ readable
                /\ burnt' \in {burnt, [burnt EXCEPT ![e.o] = staged[e.o]]}
                /\ th' = [held EXCEPT !.pc = "abort"]
                /\ Fault
             \/ /\ ~readable
                /\ th' = [held EXCEPT !.pc = "abort"]
                /\ UNCHANGED burnt /\ NoFault
    /\ UNCHANGED <<inode, located, content, lease, issued, queue, batch, staged,
                   stale, torn>>

\* The id a file of the batch was renewed under.
HeldId(f) ==
    LET mine == SelectSeq(batch.items, LAMBDA e : FileOf(e.o) = f) IN mine[1].id

\* batch_failed: every lease is given back, whether that works or not.
Abort ==
    /\ th.pc = "abort"
    /\ IF th.ready = {} THEN th' = Return(th) /\ UNCHANGED lease /\ NoFault
       ELSE \E f \in th.ready, ok \in BOOLEAN :
              /\ th' = [th EXCEPT !.ready = @ \ {f}]
              /\ lease' = IF ok /\ Committable(f, HeldId(f))
                          THEN [lease EXCEPT ![f] = Given] ELSE lease
              /\ Goes(ok)
    /\ UNCHANGED <<inode, located, content, issued, queue, batch, manifest,
                   staged, burnt, stale, torn>>

\* Everything is written: each lease is committed, which deletes its record.
BurnDone ==
    /\ th.pc = "burn" /\ th.tasks = <<>>
    /\ th' = [th EXCEPT !.pc = IF th.prepared = <<>> THEN "reset" ELSE "commit"]
    /\ UNCHANGED <<inode, located, content, lease, issued, queue, batch,
                   manifest, staged, burnt, faults, stale, torn>>

CommitLease ==
    /\ th.pc = "commit" /\ th.ready # {}
    /\ \E f \in th.ready, ok \in BOOLEAN :
          LET took == ok /\ Committable(f, HeldId(f)) IN
          /\ th' = [th EXCEPT !.ready = @ \ {f}, !.failed = @ \/ ~took]
          /\ lease' = IF took THEN [lease EXCEPT ![f] = NoLease] ELSE lease
          /\ Goes(ok)
    /\ UNCHANGED <<inode, located, content, issued, queue, batch, manifest,
                   staged, burnt, stale, torn>>

(***************************************************************************)
(* Under the placement lock: the target must still be admitted and every    *)
(* inode there; then all locations and archive states in one store batch.   *)
(***************************************************************************)
PreparedFiles == {FileOf(o) : o \in ToSet(th.prepared)}
Publish ==
    /\ th.pc = "commit" /\ th.ready = {}
    /\ IF th.failed \/ \E f \in PreparedFiles : inode[f] = "gone"
       THEN th' = Return(th) /\ UNCHANGED <<inode, located>> /\ NoFault
       ELSE \E ok \in BOOLEAN :
              /\ th' = IF ok THEN [th EXCEPT !.pc = "mark"] ELSE Return(th)
              /\ located' = IF ok THEN located \cup PreparedFiles ELSE located
              /\ inode' = IF ok THEN [f \in Files |->
                              IF f \in PreparedFiles THEN "ARCHIVED" ELSE inode[f]]
                          ELSE inode
              /\ Goes(ok)
    /\ UNCHANGED <<content, lease, issued, queue, batch, manifest, staged, burnt,
                   stale, torn>>

MarkObjectDone ==
    /\ th.pc = "mark" /\ th.prepared # <<>>
    /\ \E ok \in BOOLEAN : Saves(MarkedDone(batch, Head(th.prepared)), ok) /\ Goes(ok)
    /\ staged' = [staged EXCEPT ![Head(th.prepared)] = NoCopy]
    /\ th' = [th EXCEPT !.prepared = Tail(@)]
    /\ UNCHANGED <<inode, located, content, lease, issued, queue, burnt, stale, torn>>

ResetBatch ==
    /\ th.pc = "reset" \/ (th.pc = "mark" /\ th.prepared = <<>>)
    /\ \E ok \in BOOLEAN :
          IF ResetIfDrained(batch) = batch THEN UNCHANGED <<batch, manifest>> /\ NoFault
          ELSE Saves(ResetIfDrained(batch), ok) /\ Goes(ok)
    /\ th' = Return(th)
    /\ UNCHANGED <<inode, located, content, lease, issued, queue, staged, burnt,
                   stale, torn>>

-----------------------------------------------------------------------------
(***************************************************************************)
(* ReconcileArchiveStates drops the lease records of published files and    *)
(* puts files whose lease has run out back to PENDING.                      *)
(***************************************************************************)
Lapsed(f) == lease[f].state = "ARCHIVING" /\ ~lease[f].live
Reconcile ==
    /\ th.pc = "reconcile"
    /\ lease' = [f \in Files |->
           IF inode[f] = "gone" THEN lease[f]
           ELSE IF f \in located THEN NoLease
           ELSE IF Lapsed(f) THEN Given ELSE lease[f]]
    /\ inode' = [f \in Files |->
           IF inode[f] # "gone" /\ f \notin located /\ Lapsed(f)
           THEN "PENDING" ELSE inode[f]]
    /\ th' = Idle
    /\ UNCHANGED <<located, content, issued, queue, batch, manifest, staged,
                   burnt, faults, stale, torn>>

Thread ==
    \/ Round \/ StageEnd \/ ClaimFile \/ StageObject \/ FileStaged
    \/ RemoveObject \/ SettleFile \/ BurnSkip \/ BurnRefused \/ BurnWrite
    \/ Abort \/ BurnDone \/ CommitLease \/ Publish \/ MarkObjectDone
    \/ ResetBatch \/ Reconcile
    \/ \E f \in Files : PopTop(f)

Next ==
    \/ Thread
    \/ Crash
    \/ \E f \in Files : Report(f) \/ ClientWrite(f) \/ Unlink(f) \/ LeaseExpires(f)

Spec == Init /\ [][Next]_vars

\* The archive thread keeps running rounds while the disks are above the
\* archive trigger (archive_mode_); nothing makes a client or the clock move.
FairSpec == Spec /\ WF_vars(Thread)

-----------------------------------------------------------------------------
(***************************************************************************)
(* The stager's records, the staging directory and the thread keep their    *)
(* types: in particular no object is staged twice in one batch, which       *)
(* ContainsObject and the rollback of StageObject have to ensure together.  *)
(***************************************************************************)
TypeOK ==
    /\ inode \in [Files -> {"PENDING", "ARCHIVING", "ARCHIVED", "gone"}]
    /\ located \subseteq {f \in Files : inode[f] = "ARCHIVED"}
    /\ content \in [Files -> 0 .. MaxClientOps]
    /\ lease \in [Files -> Leases]
    /\ issued \in 0 .. MaxLeases
    /\ queue \subseteq Files
    /\ batch \in Batches /\ manifest \in Batches
    /\ \A b \in {batch, manifest} : Cardinality(Held(b)) = Len(b.items)
    /\ staged \in [Objects -> 0 .. NoCopy] /\ burnt \in [Objects -> 0 .. NoCopy]
    /\ th \in Threads
    /\ faults \in 0 .. MaxFaults
    /\ stale \subseteq Files /\ torn \subseteq Files

(***************************************************************************)
(* A published file is whole: once BurnSealedBatch has saved the optical    *)
(* location of a file, the optical node holds every object of it as the     *)
(* disk node held it, through failed batches, repeated burns, calls that    *)
(* time out after they were carried out, and restarts.  Two kinds of file   *)
(* are excepted, and TLC finds both without the exception: one that a       *)
(* client wrote while it was staged (nothing compares versions before the   *)
(* location is saved), and one whose staging a crash cut in two (the part   *)
(* in the manifest is burned as if it were the file).                       *)
(***************************************************************************)
PublishedWhole ==
    \A f \in located \ (stale \cup torn) :
        \A o \in ToSet(ObjectsOf[f]) : burnt[o] = content[f]

(***************************************************************************)
(* "Keep current batch <= disc capacity" (StageObject): what the batch      *)
(* holds fits on one disc, and so does what a restart reads back.           *)
(***************************************************************************)
BatchFitsDisc ==
    \A b \in {batch, manifest} : Bytes(Held(b)) <= b.total /\ b.total <= Disc

(***************************************************************************)
(* The batch cannot be burned any more: some file of it is not published    *)
(* and is gone, or has no data, or lost the lease its first object was      *)
(* staged under.  BurnSealedBatch renews that lease and never claims anew.  *)
(***************************************************************************)
Wedged ==
    /\ th.pc = "idle" /\ batch.sealed
    /\ \E i \in DOMAIN batch.items :
          LET e == batch.items[i]
              f == FileOf(e.o)
          IN /\ ~e.done /\ f \notin located
             /\ \/ inode[f] = "gone"
                \/ staged[e.o] = NoCopy
                \/ ~Renewable(f, HeldId(f))

(***************************************************************************)
(* While the thread keeps running, a sealed batch is burned and a new one   *)
(* begun, unless it can no longer be burned at all: no retry, restart or    *)
(* partial publication leaves it sealed for another reason.                 *)
(***************************************************************************)
SealedBatchLeaves == batch.sealed ~> (~batch.sealed \/ Wedged)
====
