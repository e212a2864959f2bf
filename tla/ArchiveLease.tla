---------------------------- MODULE ArchiveLease ----------------------------
(***************************************************************************)
(* The archive lease of one inode: mds/archive/ArchiveLeaseManager.cpp, and *)
(* the two places that write the lease record beside it.                    *)
(*                                                                          *)
(* ArchiveLeaseManager keeps one ArchiveLeaseRecord per inode in RocksDB    *)
(* and runs Claim, Renew, Commit and CommitModelLeaseWithInodeCas under its *)
(* mutex mu_, so each is one atomic action here.  OpticalArchiveManager::   *)
(* ReconcileArchiveStates rewrites the same records WITHOUT mu_: it reads a *)
(* RocksDB snapshot, looks the inode up, and writes a batch later, so it is *)
(* three steps that interleave with everything else.  Records of different  *)
(* inodes share nothing but mu_, so one inode is modelled.                  *)
(*                                                                          *)
(* A worker is a client of the manager: the archive thread of the MDS or an *)
(* archive operation of an optical service.  It claims under the identity   *)
(* (node, disk) of the file's source, so two workers may have one identity. *)
(* A request may be delayed, repeated or lost and so may a reply: a worker  *)
(* may use every lease id it was ever told of, in any order, at any time.   *)
(***************************************************************************)
EXTENDS Naturals, FiniteSets

CONSTANTS
    Workers,        \* clients of the lease manager
    Owners,         \* identities (owner_node_id, owner_disk_id)
    Nodes,          \* owner_node_id values
    NoOwner,        \* the owner of a record that was never granted
    OwnerOf,        \* the identity each worker claims under
    NodeOf,         \* the node of an identity
    Requests,       \* requested_lease_ms values; 0 asks for the default
    DefaultLease, MinLease, MaxLease,   \* ArchiveLeaseManager::Options
    MaxTime,        \* bound on the clock
    MaxIssued       \* bound on the number of leases granted

(***************************************************************************)
(* The constructor of ArchiveLeaseManager raises min to 1, default to min   *)
(* and max to default, so the options always satisfy the last conjunct.     *)
(***************************************************************************)
ASSUME LeaseAssumption ==
    /\ OwnerOf \in [Workers -> Owners]
    /\ NodeOf \in [Owners -> Nodes]
    /\ NoOwner \notin Owners
    /\ Requests \subseteq Nat
    /\ MaxTime \in Nat /\ MaxIssued \in Nat
    /\ MinLease \in Nat \ {0} /\ DefaultLease \in Nat /\ MaxLease \in Nat
    /\ MinLease <= DefaultLease /\ DefaultLease <= MaxLease

VARIABLES
    rec,        \* the persisted ArchiveLeaseRecord; state "NONE": no such key
    now,        \* NowMilliseconds()
    issued,     \* number of lease ids generated; GenerateLeaseId is fresh
    known,      \* known[w]: lease ids a reply has told worker w
    settled,    \* history: leases whose Commit the manager has accepted
    unsaved,    \* workers whose batch has its leases committed but not its locations
    archived,   \* the inode has a usable optical location
    recon       \* ReconcileArchiveStates: its step, snapshot, clock and decision

vars == <<rec, now, issued, known, settled, unsaved, archived, recon>>

NoLease == 0
States == {"NONE", "PENDING", "ARCHIVING"}
Records == [state: States, owner: Owners \cup {NoOwner}, lease: Nat, expire: Nat]
NoRecord == [state |-> "NONE", owner |-> NoOwner, lease |-> NoLease, expire |-> 0]
ReconIdle == [step |-> "idle", snap |-> NoRecord, at |-> 0, plan |-> "none"]

TypeOK ==
    /\ rec \in Records
    /\ now \in Nat
    /\ issued \in Nat
    /\ known \in [Workers -> SUBSET Nat]
    /\ settled \in SUBSET Nat
    /\ unsaved \in SUBSET Workers
    /\ archived \in BOOLEAN
    /\ recon \in [step: {"idle", "read", "visited"}, snap: Records, at: Nat,
                  plan: {"none", "delete", "reset"}]

Init ==
    /\ rec = NoRecord
    /\ now = 0
    /\ issued = 0
    /\ known = [w \in Workers |-> {}]
    /\ settled = {}
    /\ unsaved = {}
    /\ archived = FALSE
    /\ recon = ReconIdle

-----------------------------------------------------------------------------
(* Helpers of the manager.                                                   *)

(* Fault: the clamp to max_lease_ms is forgotten.                            *)
NormalizeNoMax(requested) ==
    LET raised == IF requested > 0 THEN requested ELSE DefaultLease
    IN  IF raised < MinLease THEN MinLease ELSE raised

NormalizeLeaseMs(requested) ==
    LET raised == IF requested > 0 THEN requested ELSE DefaultLease
        atLeast == IF raised < MinLease THEN MinLease ELSE raised
    IN  IF atLeast > MaxLease THEN MaxLease ELSE atLeast

LiveRecord(r) == r.state = "ARCHIVING" /\ r.expire > now

(* PENDING with the lease cleared; the owner fields keep their last value.   *)
Released(r) == [r EXCEPT !.state = "PENDING", !.lease = NoLease, !.expire = 0]

(* The reply reaches worker w, or is lost.                                   *)
Learn(w, l) == known' \in {known, [known EXCEPT ![w] = @ \cup {l}]}

-----------------------------------------------------------------------------
(* Fault: a repeated claim is answered with a new id that is not persisted.  *)
ClaimLiveFreshId(w) ==
    /\ LiveRecord(rec)
    /\ rec.owner = OwnerOf[w]
    /\ issued < MaxIssued
    /\ issued' = issued + 1
    /\ Learn(w, issued + 1)
    /\ UNCHANGED <<rec, now, settled, unsaved, archived, recon>>

(* Claim of a live lease: granted again, unchanged, to its own identity and  *)
(* refused to the others.  Every record the manager writes is PENDING or     *)
(* ARCHIVING (TypeOK), so the reset of other states at its top is idle.      *)
ClaimLive(w) ==
    /\ LiveRecord(rec)
    /\ rec.owner = OwnerOf[w]
    /\ Learn(w, rec.lease)
    /\ UNCHANGED <<rec, now, issued, settled, unsaved, archived, recon>>

(* Claim of a missing, pending or expired record: a fresh lease.             *)
ClaimGrant(w, requested) ==
    /\ ~ LiveRecord(rec)
    /\ issued < MaxIssued
    /\ issued' = issued + 1
    /\ rec' = [state |-> "ARCHIVING", owner |-> OwnerOf[w], lease |-> issued + 1,
               expire |-> now + NormalizeLeaseMs(requested)]
    /\ Learn(w, issued + 1)
    /\ UNCHANGED <<now, settled, unsaved, archived, recon>>

(* Fault: an expired lease can still be renewed.                             *)
RenewExpired(w, l, requested) ==
    /\ rec.state = "ARCHIVING"
    /\ rec.lease = l
    /\ NodeOf[rec.owner] = NodeOf[OwnerOf[w]]
    /\ rec' = [rec EXCEPT !.expire = now + NormalizeLeaseMs(requested)]
    /\ UNCHANGED <<now, issued, known, settled, unsaved, archived, recon>>

(* Renew compares the node of the owner, not its disk.                       *)
Renew(w, l, requested) ==
    /\ LiveRecord(rec)
    /\ rec.lease = l
    /\ NodeOf[rec.owner] = NodeOf[OwnerOf[w]]
    /\ rec' = [rec EXCEPT !.expire = now + NormalizeLeaseMs(requested)]
    /\ UNCHANGED <<now, issued, known, settled, unsaved, archived, recon>>

(* Commit does not look at the expiry.                                       *)
CommitAccepted(w, l) ==
    /\ rec.state = "ARCHIVING"
    /\ rec.lease = l
    /\ NodeOf[rec.owner] = NodeOf[OwnerOf[w]]

(* Fault: a failed archive leaves its record ARCHIVING.                      *)
CommitFailureKeeps(w, l) ==
    /\ CommitAccepted(w, l)
    /\ settled' = settled \cup {l}
    /\ UNCHANGED <<rec, now, issued, known, unsaved, archived, recon>>

CommitFailure(w, l) ==
    /\ CommitAccepted(w, l)
    /\ rec' = Released(rec)
    /\ settled' = settled \cup {l}
    /\ UNCHANGED <<now, issued, known, unsaved, archived, recon>>

(* Fault: success writes an ARCHIVED record instead of deleting the key.     *)
CommitSuccessKeeps(w, l) ==
    /\ CommitAccepted(w, l)
    /\ rec' = [rec EXCEPT !.state = "ARCHIVED"]
    /\ settled' = settled \cup {l}
    /\ unsaved' = unsaved \cup {w}
    /\ UNCHANGED <<now, issued, known, archived, recon>>

(* Success deletes the key.  BurnSealedBatch commits the leases first and    *)
(* writes the optical locations in a later step.                             *)
CommitSuccess(w, l) ==
    /\ CommitAccepted(w, l)
    /\ rec' = NoRecord
    /\ settled' = settled \cup {l}
    /\ unsaved' = unsaved \cup {w}
    /\ UNCHANGED <<now, issued, known, archived, recon>>

(* BurnSealedBatch writes the optical location, or is refused by IsWriteAdmitted. *)
SaveOptical(w) ==
    /\ w \in unsaved
    /\ unsaved' = unsaved \ {w}
    /\ archived' \in {archived, TRUE}
    /\ UNCHANGED <<rec, now, issued, known, settled, recon>>

(* CommitModelLeaseWithInodeCas: lease deletion and optical location in one  *)
(* batch that is conditional on the inode payload.  A mismatch writes nothing. *)
CommitModelLease(w, l) ==
    /\ LiveRecord(rec)
    /\ rec.lease = l
    /\ rec.owner = OwnerOf[w]
    /\ ~ archived
    /\ rec' = NoRecord
    /\ archived' = TRUE
    /\ settled' = settled \cup {l}
    /\ UNCHANGED <<now, issued, known, unsaved, recon>>

-----------------------------------------------------------------------------
(* ReconcileArchiveStates, on the archive thread, without mu_.               *)

ReconcileRead ==
    /\ recon.step = "idle"
    /\ rec.state # "NONE"
    /\ recon' = [step |-> "read", snap |-> rec, at |-> now, plan |-> "none"]
    /\ UNCHANGED <<rec, now, issued, known, settled, unsaved, archived>>

ReconcilePlan(r, at) ==
    IF archived THEN "delete"
    ELSE IF r.state = "ARCHIVING" /\ r.expire > 0 /\ r.expire <= at THEN "reset"
    ELSE "none"

ReconcileVisit ==
    /\ recon.step = "read"
    /\ recon' = [recon EXCEPT !.step = "visited",
                              !.plan = ReconcilePlan(recon.snap, recon.at)]
    /\ UNCHANGED <<rec, now, issued, known, settled, unsaved, archived>>

ReconcileWrite ==
    /\ recon.step = "visited"
    /\ rec' = CASE recon.plan = "delete" -> NoRecord
                [] recon.plan = "reset"  -> Released(recon.snap)
                [] recon.plan = "none"   -> rec
    /\ recon' = ReconIdle
    /\ UNCHANGED <<now, issued, known, settled, unsaved, archived>>

(* The records are in RocksDB; the archive thread's own state is lost.       *)
MdsRestart ==
    /\ recon' = ReconIdle
    /\ unsaved' = {}
    /\ <<recon', unsaved'>> # <<recon, unsaved>>
    /\ UNCHANGED <<rec, now, issued, known, settled, archived>>

Tick ==
    /\ now < MaxTime
    /\ now' = now + 1
    /\ UNCHANGED <<rec, issued, known, settled, unsaved, archived, recon>>

Next ==
    \/ \E w \in Workers :
          \/ ClaimLive(w)
          \/ \E r \in Requests : ClaimGrant(w, r)
          \/ \E l \in known[w] : \/ \E r \in Requests : Renew(w, l, r)
                                 \/ CommitFailure(w, l)
                                 \/ CommitSuccess(w, l)
                                 \/ CommitModelLease(w, l)
          \/ SaveOptical(w)
    \/ ReconcileRead \/ ReconcileVisit \/ ReconcileWrite
    \/ MdsRestart
    \/ Tick

Spec == Init /\ [][Next]_vars

-----------------------------------------------------------------------------
(* Properties.                                                               *)

(* The only lease the table can hold is the newest one.  A worker that lost  *)
(* its lease to a later claim can never renew or commit it, however late its *)
(* request is and whatever reconcile wrote in between.                       *)
NewestLeaseOnly == rec.state = "ARCHIVING" => rec.lease = issued

(* A lease whose commit was accepted is gone for good: a repeated Commit or  *)
(* Renew of it finds no record, also when reconcile writes a record it read  *)
(* before the commit.                                                        *)
SettledLeaseGone == rec.state = "ARCHIVING" => rec.lease \notin settled

(* Workers that know one lease claimed under one identity: Claim hands a live *)
(* lease only to the identity that owns it.                                  *)
LeaseSharedWithinOwner ==
    \A v, w \in Workers : known[v] \cap known[w] # {} => OwnerOf[v] = OwnerOf[w]

(* A holder that stops renewing blocks the inode for at most max_lease_ms,   *)
(* whatever length it asked for.                                             *)
LeaseBounded == rec.state = "ARCHIVING" => rec.expire <= now + MaxLease

(* A lease that has expired, was settled or was overwritten never becomes    *)
(* live again: late renewals, repeated claims and reconcile's delayed write  *)
(* cannot bring it back.                                                     *)
LiveLease(l) == LiveRecord(rec) /\ rec.lease = l
DeadLeaseStaysDead ==
    [][\A l \in 1..issued : ~ LiveLease(l) => ~ LiveLease(l)']_vars
=============================================================================
