------------------------- MODULE ArchiveLeaseProofs -------------------------
(***************************************************************************)
(* Proofs about ArchiveLease for any number of workers, identities and      *)
(* leases, any clock and any lease lengths.                                 *)
(***************************************************************************)
EXTENDS ArchiveLease, TLAPS

(* Every lease id in use was generated, and whoever knows the lease of the   *)
(* table claimed under the identity the table records.                       *)
LeasesIssued ==
    /\ \A w \in Workers : \A l \in known[w] : l <= issued
    /\ \A l \in settled : l <= issued

HolderIdentity ==
    \A w \in Workers : rec.state = "ARCHIVING" /\ rec.lease \in known[w]
                          => rec.owner = OwnerOf[w]

(* The inductive invariant.                                                  *)
IInv ==
    /\ TypeOK
    /\ NewestLeaseOnly
    /\ SettledLeaseGone
    /\ LeaseSharedWithinOwner
    /\ LeaseBounded
    /\ LeasesIssued
    /\ HolderIdentity

-----------------------------------------------------------------------------
(* NormalizeLeaseMs clamps every request to the configured maximum.          *)
LEMMA NormalizeBound ==
    ASSUME NEW r \in Requests
    PROVE  NormalizeLeaseMs(r) \in Nat /\ NormalizeLeaseMs(r) <= MaxLease
BY LeaseAssumption DEF NormalizeLeaseMs

(* Learning a lease adds at most that lease to what one worker knows.        *)
LEMMA LearnAdds ==
    ASSUME known \in [Workers -> SUBSET Nat], NEW w \in Workers, NEW l \in Nat, Learn(w, l)
    PROVE  /\ known' \in [Workers -> SUBSET Nat]
           /\ \A v \in Workers : v # w => known'[v] = known[v]
           /\ known'[w] \subseteq known[w] \cup {l}
BY DEF Learn

(* The initial state satisfies the inductive invariant.                      *)
LEMMA InitIInv == Init => IInv
<1> SUFFICES ASSUME Init PROVE IInv
    OBVIOUS
<1>1. NoRecord \in Records /\ NoRecord.state # "ARCHIVING"
    BY DEF NoRecord, Records, States, NoLease
<1>2. ReconIdle \in [step: {"idle", "read", "visited"}, snap: Records, at: Nat,
                     plan: {"none", "delete", "reset"}]
    BY <1>1 DEF ReconIdle
<1>3. TypeOK
    BY <1>1, <1>2, Zenon DEF Init, TypeOK
<1> QED
    BY <1>1, <1>3 DEF Init, IInv, NewestLeaseOnly, SettledLeaseGone, LeaseSharedWithinOwner,
       LeaseBounded, LeasesIssued, HolderIdentity

(* Every step of the manager, of its clients and of reconcile preserves it.  *)
LEMMA NextIInv == IInv /\ [Next]_vars => IInv'
<1> SUFFICES ASSUME IInv, [Next]_vars PROVE IInv'
    OBVIOUS
<1> USE LeaseAssumption
<1>t. TypeOK
    BY DEF IInv
<1>1. ASSUME NEW w \in Workers, ClaimLive(w) PROVE IInv'
    <2>1. rec.lease \in Nat
        BY <1>t DEF TypeOK, Records
    <2>2. /\ known' \in [Workers -> SUBSET Nat]
          /\ \A v \in Workers : v # w => known'[v] = known[v]
          /\ known'[w] \subseteq known[w] \cup {rec.lease}
        BY <1>1, <1>t, <2>1, LearnAdds DEF ClaimLive, TypeOK
    <2>3. /\ UNCHANGED <<rec, now, issued, settled, unsaved, archived, recon>>
          /\ rec.state = "ARCHIVING" /\ rec.owner = OwnerOf[w]
        BY <1>1 DEF ClaimLive, LiveRecord
    <2>4. TypeOK'
        BY <1>t, <2>2, <2>3 DEF TypeOK
    <2>5. (NewestLeaseOnly /\ SettledLeaseGone /\ LeaseBounded)'
        BY <2>3 DEF IInv, NewestLeaseOnly, SettledLeaseGone, LeaseBounded
    <2>6. LeasesIssued'
        BY <2>2, <2>3, <1>t, <2>1 DEF IInv, LeasesIssued, NewestLeaseOnly, TypeOK
    <2>7. HolderIdentity'
        BY <2>2, <2>3 DEF IInv, HolderIdentity
    <2>8. ASSUME NEW u \in Workers, NEW v \in Workers, known'[u] \cap known'[v] # {}
          PROVE  OwnerOf[u] = OwnerOf[v]
        <3>1. PICK l \in known'[u] : l \in known'[v]
            BY <2>8
        <3>2. CASE l = rec.lease
            BY <3>1, <3>2, <2>2, <2>3, <2>7 DEF HolderIdentity
        <3>3. CASE l # rec.lease
            <4>1. l \in known[u] /\ l \in known[v]
                BY <3>1, <3>3, <2>2
            <4> QED BY <4>1 DEF IInv, LeaseSharedWithinOwner
        <3> QED BY <3>2, <3>3
    <2>9. LeaseSharedWithinOwner'
        BY <2>8 DEF LeaseSharedWithinOwner
    <2> QED BY <2>4, <2>5, <2>6, <2>7, <2>9 DEF IInv
<1>2. ASSUME NEW w \in Workers, NEW r \in Requests, ClaimGrant(w, r) PROVE IInv'
    <2> DEFINE l == issued + 1
    <2>1. /\ l \in Nat /\ l > issued
          /\ issued' = l
          /\ rec' = [state |-> "ARCHIVING", owner |-> OwnerOf[w], lease |-> l,
                     expire |-> now + NormalizeLeaseMs(r)]
          /\ UNCHANGED <<now, settled, unsaved, archived, recon>>
        BY <1>2, <1>t DEF ClaimGrant, TypeOK
    <2>2. /\ known' \in [Workers -> SUBSET Nat]
          /\ \A v \in Workers : v # w => known'[v] = known[v]
          /\ known'[w] \subseteq known[w] \cup {l}
        BY <1>2, <1>t, <2>1, LearnAdds DEF ClaimGrant, TypeOK
    <2>3. /\ \A v \in Workers : l \notin known[v]
          /\ l \notin settled
        BY <2>1, <1>t DEF IInv, LeasesIssued, TypeOK
    <2>n. now + NormalizeLeaseMs(r) \in Nat /\ now + NormalizeLeaseMs(r) <= now + MaxLease
        BY NormalizeBound, <1>t DEF TypeOK
    <2>4. TypeOK'
        BY <1>t, <2>1, <2>2, <2>n DEF TypeOK, Records, States
    <2>5. (NewestLeaseOnly /\ SettledLeaseGone /\ LeaseBounded)'
        BY <2>1, <2>3, <2>n DEF NewestLeaseOnly, SettledLeaseGone, LeaseBounded
    <2>6. LeasesIssued'
        BY <1>t, <2>1, <2>2 DEF IInv, LeasesIssued, TypeOK
    <2>7. HolderIdentity'
        BY <2>1, <2>2, <2>3 DEF HolderIdentity
    <2>8. ASSUME NEW u \in Workers, NEW v \in Workers, known'[u] \cap known'[v] # {}
          PROVE  OwnerOf[u] = OwnerOf[v]
        <3>1. PICK k \in known'[u] : k \in known'[v]
            BY <2>8
        <3>2. CASE k = l
            BY <3>1, <3>2, <2>2, <2>3
        <3>3. CASE k # l
            <4>1. k \in known[u] /\ k \in known[v]
                BY <3>1, <3>3, <2>2
            <4> QED BY <4>1 DEF IInv, LeaseSharedWithinOwner
        <3> QED BY <3>2, <3>3
    <2>9. LeaseSharedWithinOwner'
        BY <2>8 DEF LeaseSharedWithinOwner
    <2> QED BY <2>4, <2>5, <2>6, <2>7, <2>9 DEF IInv
<1>3. ASSUME NEW w \in Workers, NEW l \in known[w], NEW r \in Requests, Renew(w, l, r)
      PROVE  IInv'
    <2>1. now + NormalizeLeaseMs(r) \in Nat /\ now + NormalizeLeaseMs(r) <= now + MaxLease
        BY NormalizeBound, <1>t DEF TypeOK
    <2>2. /\ rec' = [rec EXCEPT !.expire = now + NormalizeLeaseMs(r)]
          /\ UNCHANGED <<now, issued, known, settled, unsaved, archived, recon>>
        BY <1>3 DEF Renew
    <2>3. /\ rec' \in Records /\ rec'.state = rec.state /\ rec'.lease = rec.lease
          /\ rec'.owner = rec.owner /\ rec'.expire <= now + MaxLease
        BY <2>1, <2>2, <1>t DEF TypeOK, Records
    <2> QED
        BY <2>2, <2>3 DEF IInv, TypeOK, NewestLeaseOnly, SettledLeaseGone,
           LeaseSharedWithinOwner, LeaseBounded, LeasesIssued, HolderIdentity
(* The next three release or delete the record.                              *)
<1>r. ASSUME rec' \in Records, rec'.state # "ARCHIVING", settled' \in SUBSET Nat,
             \A k \in settled' : k \in settled \/ k <= issued,
             UNCHANGED <<now, issued, known>>,
             unsaved' \in SUBSET Workers, archived' \in BOOLEAN,
             recon' \in [step: {"idle", "read", "visited"}, snap: Records, at: Nat,
                         plan: {"none", "delete", "reset"}]
      PROVE  IInv'
    BY <1>r, <1>t DEF IInv, TypeOK, NewestLeaseOnly, SettledLeaseGone,
       LeaseSharedWithinOwner, LeaseBounded, LeasesIssued, HolderIdentity
<1>n. NoRecord \in Records /\ NoRecord.state # "ARCHIVING"
    BY DEF NoRecord, Records, States, NoLease
<1>l. \A r \in Records : Released(r) \in Records /\ Released(r).state # "ARCHIVING"
    BY Zenon DEF Released, Records, States, NoLease
<1>k. ASSUME NEW w \in Workers, NEW l \in known[w] PROVE l \in Nat /\ l <= issued
    BY <1>t DEF IInv, LeasesIssued, TypeOK
<1>4. ASSUME NEW w \in Workers, NEW l \in known[w], CommitFailure(w, l) PROVE IInv'
    BY <1>4, <1>r, <1>l, <1>k, <1>t DEF CommitFailure, TypeOK
<1>5. ASSUME NEW w \in Workers, NEW l \in known[w], CommitSuccess(w, l) PROVE IInv'
    BY <1>5, <1>r, <1>n, <1>k, <1>t DEF CommitSuccess, TypeOK
<1>6. ASSUME NEW w \in Workers, NEW l \in known[w], CommitModelLease(w, l) PROVE IInv'
    BY <1>6, <1>r, <1>n, <1>k, <1>t DEF CommitModelLease, TypeOK
<1>7. ASSUME NEW w \in Workers, SaveOptical(w) PROVE IInv'
    BY <1>7, <1>t, Zenon DEF SaveOptical, IInv, TypeOK, NewestLeaseOnly, SettledLeaseGone,
       LeaseSharedWithinOwner, LeaseBounded, LeasesIssued, HolderIdentity
<1>8. ASSUME ReconcileRead \/ ReconcileVisit PROVE IInv'
    <2>1. UNCHANGED <<rec, now, issued, known, settled, unsaved, archived>>
        BY <1>8 DEF ReconcileRead, ReconcileVisit
    <2>2. recon' \in [step: {"idle", "read", "visited"}, snap: Records, at: Nat,
                      plan: {"none", "delete", "reset"}]
        <3>1. CASE ReconcileRead
            BY <3>1, <1>t DEF ReconcileRead, TypeOK
        <3>2. CASE ReconcileVisit
            <4>1. ReconcilePlan(recon.snap, recon.at) \in {"none", "delete", "reset"}
                BY DEF ReconcilePlan
            <4> QED BY <3>2, <4>1, <1>t, Zenon DEF ReconcileVisit, TypeOK
        <3> QED BY <3>1, <3>2, <1>8
    <2> QED
        BY <2>1, <2>2, <1>t DEF IInv, TypeOK, NewestLeaseOnly, SettledLeaseGone,
           LeaseSharedWithinOwner, LeaseBounded, LeasesIssued, HolderIdentity
<1>i. ReconIdle \in [step: {"idle", "read", "visited"}, snap: Records, at: Nat,
                     plan: {"none", "delete", "reset"}]
    BY <1>n DEF ReconIdle
<1>9. ASSUME ReconcileWrite PROVE IInv'
    <2>1. CASE recon.plan = "none"
        <3>1. rec' = rec
            BY <1>9, <2>1 DEF ReconcileWrite
        <3> QED
            BY <1>9, <3>1, <1>t, <1>i DEF ReconcileWrite, IInv, TypeOK, NewestLeaseOnly,
               SettledLeaseGone, LeaseSharedWithinOwner, LeaseBounded, LeasesIssued,
               HolderIdentity
    <2>2. CASE recon.plan # "none"
        <3>1. rec' = NoRecord \/ rec' = Released(recon.snap)
            BY <1>9, <2>2, <1>t DEF ReconcileWrite, TypeOK
        <3>2. recon.snap \in Records
            BY <1>t DEF TypeOK
        <3>3. rec' \in Records /\ rec'.state # "ARCHIVING"
            BY <3>1, <3>2, <1>n, <1>l
        <3> QED BY <3>3, <1>9, <1>r, <1>t, <1>i DEF ReconcileWrite, TypeOK
    <2> QED BY <2>1, <2>2
<1>10. ASSUME MdsRestart PROVE IInv'
    BY <1>10, <1>t, <1>i DEF MdsRestart, IInv, TypeOK, NewestLeaseOnly, SettledLeaseGone,
       LeaseSharedWithinOwner, LeaseBounded, LeasesIssued, HolderIdentity
<1>11. ASSUME Tick PROVE IInv'
    <2>1. now' \in Nat /\ now' = now + 1
        BY <1>11, <1>t DEF Tick, TypeOK
    <2>2. UNCHANGED <<rec, issued, known, settled, unsaved, archived, recon>>
        BY <1>11 DEF Tick
    <2>3. LeaseBounded'
        BY <2>1, <2>2, <1>t DEF IInv, LeaseBounded, TypeOK, Records
    <2> QED
        BY <2>1, <2>2, <2>3, <1>t DEF IInv, TypeOK, NewestLeaseOnly, SettledLeaseGone,
           LeaseSharedWithinOwner, LeasesIssued, HolderIdentity
<1>12. ASSUME UNCHANGED vars PROVE IInv'
    BY <1>12, <1>t DEF vars, IInv, TypeOK, NewestLeaseOnly, SettledLeaseGone,
       LeaseSharedWithinOwner, LeaseBounded, LeasesIssued, HolderIdentity
<1> QED
    BY <1>1, <1>2, <1>3, <1>4, <1>5, <1>6, <1>7, <1>8, <1>9, <1>10, <1>11, <1>12 DEF Next

-----------------------------------------------------------------------------
(* Every reachable state satisfies the inductive invariant.                  *)
THEOREM Invariance == Spec => []IInv
BY InitIInv, NextIInv, PTL DEF Spec

(* The record, the clients' knowledge and reconcile's state keep their types. *)
THEOREM TypeCorrect == Spec => []TypeOK
<1>1. IInv => TypeOK
    BY DEF IInv
<1> QED BY <1>1, Invariance, PTL

(* The table only ever holds the newest lease, never a settled one: a late,  *)
(* repeated or reordered Renew or Commit of an older lease is refused.       *)
THEOREM Fencing == Spec => [](NewestLeaseOnly /\ SettledLeaseGone)
<1>1. IInv => NewestLeaseOnly /\ SettledLeaseGone
    BY DEF IInv
<1> QED BY <1>1, Invariance, PTL

(* A lease id is shared only by workers that claim under one identity, and a *)
(* silent holder blocks the inode for at most max_lease_ms.                  *)
THEOREM HoldersBounded == Spec => [](LeaseSharedWithinOwner /\ LeaseBounded)
<1>1. IInv => LeaseSharedWithinOwner /\ LeaseBounded
    BY DEF IInv
<1> QED BY <1>1, Invariance, PTL

(* No step brings a dead lease back.                                         *)
LEMMA StepKeepsDead ==
    ASSUME IInv, [Next]_vars, NEW l \in 1..issued, ~ LiveLease(l)
    PROVE  ~ LiveLease(l)'
<1> USE LeaseAssumption
<1>t. TypeOK /\ l \in Nat /\ l <= issued
    BY DEF IInv, TypeOK
<1>1. ASSUME NEW w \in Workers, NEW r \in Requests, ClaimGrant(w, r) PROVE ~ LiveLease(l)'
    <2>1. rec'.lease = issued + 1
        BY <1>1 DEF ClaimGrant
    <2> QED BY <2>1, <1>t DEF LiveLease, TypeOK
<1>2. ASSUME NEW w \in Workers, NEW k \in known[w], NEW r \in Requests, Renew(w, k, r)
      PROVE  ~ LiveLease(l)'
    <2>1. rec'.lease = rec.lease
        BY <1>2, <1>t DEF Renew, TypeOK, Records
    <2> QED BY <2>1, <1>2 DEF LiveLease, Renew
<1>3. ASSUME rec'.state # "ARCHIVING" PROVE ~ LiveLease(l)'
    BY <1>3 DEF LiveLease, LiveRecord
<1>4. ASSUME rec' = rec, now' = now \/ now' = now + 1 PROVE ~ LiveLease(l)'
    BY <1>4, <1>t DEF LiveLease, LiveRecord, TypeOK, Records
<1>n. NoRecord.state # "ARCHIVING"
    BY DEF NoRecord
<1>l. \A r \in Records : Released(r).state # "ARCHIVING"
    BY DEF Released, Records
<1>5. ASSUME NEW w \in Workers, NEW k \in known[w],
             CommitFailure(w, k) \/ CommitSuccess(w, k) \/ CommitModelLease(w, k)
      PROVE  ~ LiveLease(l)'
    BY <1>5, <1>3, <1>n, <1>l, <1>t DEF CommitFailure, CommitSuccess, CommitModelLease, TypeOK
<1>6. ASSUME ReconcileWrite PROVE ~ LiveLease(l)'
    <2>1. rec' = rec \/ rec' = NoRecord \/ rec' = Released(recon.snap)
        BY <1>6, <1>t DEF ReconcileWrite, TypeOK
    <2>2. recon.snap \in Records /\ now' = now
        BY <1>6, <1>t DEF ReconcileWrite, TypeOK
    <2> QED BY <2>1, <2>2, <1>3, <1>4, <1>n, <1>l
<1>7. ASSUME \/ \E w \in Workers : ClaimLive(w) \/ SaveOptical(w)
             \/ ReconcileRead \/ ReconcileVisit \/ MdsRestart \/ Tick \/ UNCHANGED vars
      PROVE  ~ LiveLease(l)'
    BY <1>7, <1>4, Zenon DEF ClaimLive, SaveOptical, ReconcileRead, ReconcileVisit, MdsRestart, Tick, vars
<1> QED
    BY <1>1, <1>2, <1>5, <1>6, <1>7 DEF Next

(* A lease that is not live never becomes live again.                        *)
THEOREM NoResurrection == Spec => DeadLeaseStaysDead
<1>1. IInv /\ [Next]_vars
         => [\A l \in 1..issued : ~ LiveLease(l) => ~ LiveLease(l)']_vars
    BY StepKeepsDead
<1> QED BY <1>1, Invariance, PTL DEF Spec, DeadLeaseStaysDead
=============================================================================
