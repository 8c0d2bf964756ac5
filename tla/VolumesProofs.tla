---------------------------- MODULE VolumesProofs ----------------------------
(***************************************************************************)
(* Proofs about Volumes for any CRs, names, FS ids and number of meddlers. *)
(***************************************************************************)
EXTENDS Volumes, TLAPS

(* The invariant in two halves: the objects with their copies, and the CRs
   with the reconcile in progress. *)
ObjectsTyped ==
  /\ pv \in [Volumes -> PV \cup {Absent}]
  /\ pvc \in [Claims -> PVC \cup {Absent}]
  /\ seenPv \in [Volumes -> PV \cup {Absent}]
  /\ seenPvc \in [Claims -> PVC \cup {Absent}]
  /\ freshPv \subseteq Volumes
  /\ freshPvc \subseteq Claims

ObjectsInv == ObjectsTyped /\ CachesCurrent /\ ReleasedIsFree

WorkTyped ==
  /\ cr \in [CRs -> L!CR]
  /\ \A c \in CRs : cr[c].st = "absent" => cr[c] = L!Nobody
  /\ share \in [Names -> Ids \cup {NoId}]
  /\ freshCr \subseteq CRs
  /\ proc \in Reconciles
  /\ meddled \in 0 .. MaxMeddles
  /\ proc.pc # "idle" => proc.cr \in CRs /\ cr[proc.cr].fsId \in Ids

(* An informer's copy shows whether the object is there, whether it is going
   and whether its claimRef is stale. *)
LEMMA PvReadShows ==
  ASSUME NEW o \in PV \cup {Absent}
  PROVE  /\ PvRead(o) \in PV \cup {Absent}
         /\ StaleClaim(PvRead(o)) <=> StaleClaim(o)
         /\ NeedsDelete(PvRead(o)) <=> NeedsDelete(o)
<1>1. CASE o = Absent
  BY <1>1 DEF PvRead
<1>2. CASE o # Absent
  <2>1. o \in PV /\ PvRead(o) = [o EXCEPT !.handle = NoId]
    BY <1>2 DEF PvRead
  <2>2. /\ PvRead(o) \in PV
        /\ PvRead(o).phase = o.phase /\ PvRead(o).built = o.built
        /\ PvRead(o).claim = o.claim /\ PvRead(o).del = o.del
    BY <2>1 DEF PV
  <2>. QED BY <1>2, <2>2, AbsentAssumption DEF StaleClaim, NeedsDelete
<1>. QED BY <1>1, <1>2

LEMMA PvcReadShows ==
  ASSUME NEW o \in PVC \cup {Absent}
  PROVE  /\ PvcRead(o) \in PVC \cup {Absent}
         /\ NeedsDelete(PvcRead(o)) <=> NeedsDelete(o)
<1>1. CASE o = Absent
  BY <1>1 DEF PvcRead
<1>2. CASE o # Absent
  <2>1. o \in PVC /\ PvcRead(o) = [o EXCEPT !.made = Other, !.bound = FALSE]
    BY <1>2 DEF PvcRead
  <2>2. PvcRead(o) \in PVC /\ PvcRead(o).del = o.del
    BY <2>1 DEF PVC
  <2>. QED BY <1>2, <2>2, AbsentAssumption DEF NeedsDelete
<1>. QED BY <1>1, <1>2

LEMMA Halves == VolInv <=> ObjectsInv /\ WorkTyped /\ Signalled /\ CascadesLast
BY DEF VolInv, TypeOK, ObjectsInv, ObjectsTyped, WorkTyped

(* The names that a reconcile at work uses. *)
LEMMA Keys ==
  ASSUME WorkTyped, proc.pc # "idle"
  PROVE  /\ proc.cr \in CRs
         /\ pvcKey \in Claims
         /\ pvKey \in Volumes
BY ConstantsAssumption DEF WorkTyped, pvcKey, pvKey

-----------------------------------------------------------------------------
(* Objects and copies *)

(* A PV is written that is not Released, or whose claim does not hold it. *)
LEMMA WritePvKeeps ==
  ASSUME ObjectsInv, UNCHANGED Caches,
         NEW v \in Volumes, NEW o \in PV \cup {Absent},
         o # Absent /\ o.phase = "Released" => ~Holds(o.claim, v),
         WritePv(v, o)
  PROVE  ObjectsInv'
<1>1. ObjectsTyped'
  BY DEF ObjectsInv, ObjectsTyped, WritePv, Caches
<1>2. CachesCurrent'
  BY DEF ObjectsInv, ObjectsTyped, CachesCurrent, WritePv, Caches
<1>3. \A k, w : Holds(k, w)' = Holds(k, w)
  BY DEF Holds, WritePv
<1>4. ReleasedIsFree'
  BY <1>3 DEF ObjectsInv, ObjectsTyped, ReleasedIsFree, WritePv
<1>. QED BY <1>1, <1>2, <1>4 DEF ObjectsInv

(* A PVC is written that is not bound unless it was. *)
LEMMA WritePvcKeeps ==
  ASSUME ObjectsInv, UNCHANGED Caches,
         NEW k \in Claims, NEW o \in PVC \cup {Absent},
         o # Absent /\ o.bound => pvc[k] # Absent /\ pvc[k].bound,
         WritePvc(k, o)
  PROVE  ObjectsInv'
<1>1. ObjectsTyped'
  BY DEF ObjectsInv, ObjectsTyped, WritePvc, Caches
<1>2. CachesCurrent'
  BY DEF ObjectsInv, ObjectsTyped, CachesCurrent, WritePvc, Caches
<1>3. \A l, w : Holds(l, w)' => Holds(l, w)
  BY DEF Holds, WritePvc, ObjectsInv, ObjectsTyped
<1>4. ReleasedIsFree'
  BY <1>3 DEF ObjectsInv, ObjectsTyped, ReleasedIsFree, WritePvc
<1>. QED BY <1>1, <1>2, <1>4 DEF ObjectsInv

LEMMA SameObjects ==
  ASSUME ObjectsInv, UNCHANGED <<ApiServer, Caches>>
  PROVE  ObjectsInv'
BY DEF ObjectsInv, ObjectsTyped, CachesCurrent, ReleasedIsFree, Holds, ApiServer, Caches

(* What Doomed makes of an object. *)
LEMMA DoomedPv ==
  ASSUME NEW o \in PV \cup {Absent}
  PROVE  /\ Doomed(o) \in PV \cup {Absent}
         /\ Leaving(Doomed(o))
         /\ Doomed(o) # Absent => /\ o # Absent
                                  /\ Doomed(o).phase = o.phase /\ Doomed(o).claim = o.claim
                                  /\ Doomed(o).built = o.built
BY AbsentAssumption DEF Doomed, Leaving, PV

LEMMA DoomedPvc ==
  ASSUME NEW o \in PVC \cup {Absent}
  PROVE  /\ Doomed(o) \in PVC \cup {Absent}
         /\ Leaving(Doomed(o))
         /\ Doomed(o) # Absent => /\ o # Absent
                                  /\ Doomed(o).bound = o.bound /\ Doomed(o).made = o.made
BY AbsentAssumption DEF Doomed, Leaving, PVC

(* ensurePVPVC *)
LEMMA EnsureObjects ==
  ASSUME ObjectsInv, WorkTyped, Ensure
  PROVE  ObjectsInv'
<1>1. proc.pc # "idle"
  BY DEF Ensure, CreateVolume, ClearClaim, KeepVolume, CreateClaim, KeepClaim, EnsureFails
<1>2. proc.cr \in CRs /\ pvcKey \in Claims /\ pvKey \in Volumes
  BY <1>1, Keys
<1>3. ASSUME NEW ok \in BOOLEAN, CreateVolume(ok) PROVE ObjectsInv'
  <2>1. buildPV \in PV /\ buildPV.phase = "Available"
    BY <1>1, <1>2 DEF buildPV, PV, WorkTyped, L!CR
  <2>2. UNCHANGED Caches /\ WritePv(pvKey, buildPV)
    BY <1>3 DEF CreateVolume, Answered
  <2>. QED BY <1>2, <2>1, <2>2, WritePvKeeps
<1>4. ASSUME NEW ok \in BOOLEAN, ClearClaim(ok) PROVE ObjectsInv'
  <2>1. pv[pvKey] \in PV
    BY <1>2, <1>4, PvReadShows DEF ClearClaim, StaleClaim, ObjectsInv, ObjectsTyped, CachesCurrent
  <2>2. /\ [pv[pvKey] EXCEPT !.claim = NoClaim] \in PV
        /\ [pv[pvKey] EXCEPT !.claim = NoClaim].claim = NoClaim
    BY <2>1 DEF PV
  <2>3. ~Holds(NoClaim, pvKey)
    BY ConstantsAssumption DEF Holds
  <2>4. UNCHANGED Caches /\ WritePv(pvKey, [pv[pvKey] EXCEPT !.claim = NoClaim])
    BY <1>4 DEF ClearClaim, Answered
  <2>. QED BY <1>2, <2>2, <2>3, <2>4, WritePvKeeps
<1>5. CASE CreateClaim
  <2>1. buildPVC \in PVC /\ ~buildPVC.bound
    BY <1>2 DEF buildPVC, PVC
  <2>2. UNCHANGED Caches /\ WritePvc(pvcKey, buildPVC)
    BY <1>5 DEF CreateClaim
  <2>. QED BY <1>2, <2>1, <2>2, WritePvcKeeps
<1>6. CASE KeepVolume \/ KeepClaim \/ EnsureFails
  BY <1>6, SameObjects DEF KeepVolume, KeepClaim, EnsureFails
<1>. QED BY <1>3, <1>4, <1>5, <1>6 DEF Ensure

(* cascadeDeletePVPVC and DeleteShare *)
LEMMA CascadeObjects ==
  ASSUME ObjectsInv, WorkTyped, Cascade
  PROVE  ObjectsInv'
<1>1. proc.pc # "idle"
  BY DEF Cascade, DeleteClaim, DeleteVolume, SkipClaim, SkipVolume, CascadeFails,
         DeleteShare, DeleteShareFails
<1>2. pvcKey \in Claims /\ pvKey \in Volumes
  BY <1>1, Keys
<1>3. UNCHANGED Caches
  BY DEF Cascade, DeleteClaim, DeleteVolume, SkipClaim, SkipVolume, CascadeFails,
         DeleteShare, DeleteShareFails, CascadeTo
<1>4. pv[pvKey] \in PV \cup {Absent} /\ pvc[pvcKey] \in PVC \cup {Absent}
  BY <1>2 DEF ObjectsInv, ObjectsTyped
<1>5. CASE WritePvc(pvcKey, Doomed(pvc[pvcKey]))
  BY <1>2, <1>3, <1>4, <1>5, DoomedPvc, WritePvcKeeps
<1>6. CASE WritePv(pvKey, Doomed(pv[pvKey]))
  <2>1. Doomed(pv[pvKey]) # Absent /\ Doomed(pv[pvKey]).phase = "Released"
          => ~Holds(Doomed(pv[pvKey]).claim, pvKey)
    BY <1>2, <1>4, DoomedPv DEF ObjectsInv, ReleasedIsFree
  <2>. QED BY <1>2, <1>3, <1>4, <1>6, <2>1, DoomedPv, WritePvKeeps
<1>7. CASE UNCHANGED ApiServer
  BY <1>3, <1>7, SameObjects
<1>8. \/ WritePvc(pvcKey, Doomed(pvc[pvcKey]))
      \/ WritePv(pvKey, Doomed(pv[pvKey]))
      \/ UNCHANGED ApiServer
  BY DEF Cascade, DeleteClaim, DeleteVolume, SkipClaim, SkipVolume, CascadeFails,
         DeleteShare, DeleteShareFails
<1>. QED BY <1>5, <1>6, <1>7, <1>8

(* The PV controller, the protection finalizers and other users. *)
Others ==
  \/ Kubernetes
  \/ \E v \in Volumes : DropVolume(v) \/ MakeVolume(v) \/ BindOther(v)
  \/ \E k \in Claims : DropClaim(k) \/ MakeClaim(k)

LEMMA OthersObjects ==
  ASSUME ObjectsInv, Others
  PROVE  ObjectsInv'
<1>1. UNCHANGED Caches
  BY DEF Others, Kubernetes, Release, Reopen, VolumeGone, Bind, ClaimGone, DropVolume, MakeVolume,
         BindOther, DropClaim, MakeClaim, Outside, Meddle
<1>2. /\ \A v \in Volumes : pv[v] \in PV \cup {Absent}
      /\ \A k \in Claims : pvc[k] \in PVC \cup {Absent}
  BY DEF ObjectsInv, ObjectsTyped
<1>3. ASSUME NEW v \in Volumes, Release(v) PROVE ObjectsInv'
  <2>. DEFINE o == [pv[v] EXCEPT !.phase = "Released"]
  <2>1. o \in PV /\ ~Holds(o.claim, v)
    BY <1>2, <1>3 DEF Release, PV
  <2>. QED BY <1>1, <1>3, <2>1, WritePvKeeps DEF Release
<1>4. ASSUME NEW v \in Volumes, Reopen(v) \/ BindOther(v) PROVE ObjectsInv'
  <2>1. PICK o \in PV : WritePv(v, o) /\ o.phase # "Released"
    <3>1. /\ [pv[v] EXCEPT !.phase = "Available"] \in PV
          /\ [pv[v] EXCEPT !.phase = "Available"].phase # "Released"
          /\ [pv[v] EXCEPT !.claim = OtherClaim, !.phase = "Bound"] \in PV
          /\ [pv[v] EXCEPT !.claim = OtherClaim, !.phase = "Bound"].phase # "Released"
      BY <1>2, <1>4 DEF Reopen, BindOther, PV
    <3>. QED BY <1>4, <3>1 DEF Reopen, BindOther
  <2>. QED BY <1>1, <2>1, WritePvKeeps
<1>5. ASSUME NEW v \in Volumes, VolumeGone(v) PROVE ObjectsInv'
  BY <1>1, <1>5, WritePvKeeps DEF VolumeGone
<1>6. ASSUME NEW v \in Volumes, DropVolume(v) PROVE ObjectsInv'
  <2>1. Doomed(pv[v]) # Absent /\ Doomed(pv[v]).phase = "Released" => ~Holds(Doomed(pv[v]).claim, v)
    BY <1>2, DoomedPv DEF ObjectsInv, ReleasedIsFree
  <2>. QED BY <1>1, <1>2, <1>6, <2>1, DoomedPv, WritePvKeeps DEF DropVolume
<1>7. ASSUME NEW v \in Volumes, MakeVolume(v) PROVE ObjectsInv'
  <2>1. PICK k \in Claims : WritePv(v, [built |-> Other, handle |-> NoId, claim |-> k,
                                         phase |-> "Available", del |-> FALSE])
    BY <1>7 DEF MakeVolume
  <2>2. [built |-> Other, handle |-> NoId, claim |-> k, phase |-> "Available", del |-> FALSE] \in PV
    BY DEF PV
  <2>. QED BY <1>1, <2>1, <2>2, WritePvKeeps
<1>8. ASSUME NEW k \in Claims, ClaimGone(k) PROVE ObjectsInv'
  BY <1>1, <1>8, WritePvcKeeps DEF ClaimGone
<1>9. ASSUME NEW k \in Claims, DropClaim(k) PROVE ObjectsInv'
  BY <1>1, <1>2, <1>9, DoomedPvc, WritePvcKeeps DEF DropClaim
<1>10. ASSUME NEW k \in Claims, MakeClaim(k) PROVE ObjectsInv'
  <2>1. [made |-> Other, bound |-> FALSE, del |-> FALSE] \in PVC
    BY DEF PVC
  <2>. QED BY <1>1, <1>10, <2>1, WritePvcKeeps DEF MakeClaim
<1>11. ASSUME NEW k \in Claims, Bind(k) PROVE ObjectsInv'
  <2>. DEFINE v == VolumeOf[k]
  <2>1. v \in Volumes
    BY ConstantsAssumption
  <2>2. /\ pv[v] \in PV /\ pvc[k] \in PVC
        /\ pv' = [pv EXCEPT ![v] = [pv[v] EXCEPT !.claim = k, !.phase = "Bound"]]
        /\ pvc' = [pvc EXCEPT ![k] = [pvc[k] EXCEPT !.bound = TRUE]]
        /\ freshPv' = freshPv \ {v} /\ freshPvc' = freshPvc \ {k}
    BY <1>2, <1>11, <2>1 DEF Bind, ObjectsInv, ObjectsTyped
  <2>3. /\ [pv[v] EXCEPT !.claim = k, !.phase = "Bound"] \in PV
        /\ [pv[v] EXCEPT !.claim = k, !.phase = "Bound"].phase = "Bound"
        /\ [pvc[k] EXCEPT !.bound = TRUE] \in PVC
    BY <2>2 DEF PV, PVC
  <2>4. ObjectsTyped'
    BY <1>1, <2>1, <2>2, <2>3 DEF ObjectsInv, ObjectsTyped, Caches
  <2>5. CachesCurrent'
    BY <1>1, <2>1, <2>2 DEF ObjectsInv, ObjectsTyped, CachesCurrent, Caches
  <2>6. ReleasedIsFree'
    <3>. SUFFICES ASSUME NEW w \in Volumes, pv'[w] # Absent, pv'[w].phase = "Released",
                         Holds(pv[w].claim, w)'
                  PROVE  FALSE
      BY DEF ReleasedIsFree
    <3>1. w # v
      BY <2>1, <2>2, <2>3 DEF ObjectsInv, ObjectsTyped
    <3>2. pv'[w] = pv[w]
      BY <2>2, <3>1
    <3>3. pv[w].claim # k
      BY <3>1, <3>2 DEF Holds
    <3>4. Holds(pv[w].claim, w)
      BY <2>2, <3>2, <3>3 DEF Holds, ObjectsInv, ObjectsTyped
    <3>. QED BY <3>2, <3>4 DEF ObjectsInv, ReleasedIsFree
  <2>. QED BY <2>4, <2>5, <2>6 DEF ObjectsInv
<1>. QED BY <1>3, <1>4, <1>5, <1>6, <1>7, <1>8, <1>9, <1>10, <1>11 DEF Others, Kubernetes

(* The informers, and a restart that lists anew. *)
LEMMA ObserveObjects ==
  ASSUME ObjectsInv,
         (\E v \in Volumes : ObservePv(v)) \/ (\E k \in Claims : ObservePvc(k)) \/ Crash
  PROVE  ObjectsInv'
<1>1. UNCHANGED <<pv, pvc>>
  BY DEF ObservePv, ObservePvc, Crash
<1>2. ReleasedIsFree'
  BY <1>1 DEF ObjectsInv, ReleasedIsFree, Holds
<1>3. /\ \A v \in Volumes : PvRead(pv[v]) \in PV \cup {Absent}
      /\ \A k \in Claims : PvcRead(pvc[k]) \in PVC \cup {Absent}
  BY PvReadShows, PvcReadShows DEF ObjectsInv, ObjectsTyped
<1>4. ASSUME NEW v \in Volumes, ObservePv(v) PROVE ObjectsTyped' /\ CachesCurrent'
  BY <1>3, <1>4 DEF ObjectsInv, ObjectsTyped, CachesCurrent, ObservePv
<1>5. ASSUME NEW k \in Claims, ObservePvc(k) PROVE ObjectsTyped' /\ CachesCurrent'
  BY <1>3, <1>5 DEF ObjectsInv, ObjectsTyped, CachesCurrent, ObservePvc
<1>6. CASE Crash
  <2>1. /\ seenPv' = [v \in Volumes |-> PvRead(pv[v])] /\ freshPv' = Volumes
        /\ seenPvc' = [k \in Claims |-> PvcRead(pvc[k])] /\ freshPvc' = Claims
    BY <1>6 DEF Crash
  <2>2. seenPv' \in [Volumes -> PV \cup {Absent}] /\ seenPvc' \in [Claims -> PVC \cup {Absent}]
    BY <1>3, <2>1
  <2>3. ObjectsTyped'
    BY <1>1, <2>1, <2>2 DEF ObjectsInv, ObjectsTyped
  <2>4. CachesCurrent'
    BY <1>1, <2>1 DEF CachesCurrent
  <2>. QED BY <1>2, <2>3, <2>4 DEF ObjectsInv
<1>. QED BY <1>2, <1>4, <1>5, <1>6 DEF ObjectsInv

(* The steps of a CR leave the objects alone. *)
CrSteps ==
  \/ \E c \in CRs : \/ Reconcile(c) \/ Deploy(c) \/ UserDelete(c) \/ EditPolicy(c)
                   \/ ProvisionGone(c) \/ ObserveCr(c)
  \/ \E n \in Names : Lose(n) \/ IssueElse(n)

LEMMA CrAside ==
  ASSUME CrSteps
  PROVE  UNCHANGED <<ApiServer, Caches>>
BY DEF CrSteps, Reconcile, Publish, Tear, Create, Issue, Retire, Unmark, Record, Provision, Forget,
       Deploy, UserDelete, EditPolicy, ProvisionGone, ObserveCr, Lose, IssueElse, Elsewhere, Aside

(* Every step is of one of these kinds. *)
LEMMA Kinds ==
  ASSUME Next
  PROVE  \/ Ensure \/ Cascade \/ Others \/ CrSteps
         \/ (\E v \in Volumes : ObservePv(v)) \/ (\E k \in Claims : ObservePvc(k)) \/ Crash
BY DEF Next, Informer, UserStep, Others, CrSteps

LEMMA ObjectsStep ==
  ASSUME ObjectsInv, WorkTyped, [Next]_vars
  PROVE  ObjectsInv'
<1>1. CASE UNCHANGED vars
  BY <1>1, SameObjects DEF vars, ApiServer, Caches
<1>2. CASE Next
  BY <1>2, Kinds, EnsureObjects, CascadeObjects, OthersObjects, CrAside, SameObjects,
     ObserveObjects
<1>. QED BY <1>1, <1>2

-----------------------------------------------------------------------------
(* CRs and the reconcile in progress *)

(* The PVC k, the PV v are on their way out or were not made for CR c. *)
ClaimLeft(k, c) == Leaving(pvc[k]) \/ pvc[k].made # c
VolumeLeft(v, c) == Leaving(pv[v]) \/ pv[v].built # c

(* Nothing outside the operator brings such an object back for c. *)
LEMMA OthersLeave ==
  ASSUME ObjectsInv, Others, NEW c \in CRs
  PROVE  /\ \A k \in Claims : ClaimLeft(k, c) => ClaimLeft(k, c)'
         /\ \A v \in Volumes : VolumeLeft(v, c) => VolumeLeft(v, c)'
<1>1. /\ \A v \in Volumes : pv[v] \in PV \cup {Absent}
      /\ \A k \in Claims : pvc[k] \in PVC \cup {Absent}
      /\ pv \in [Volumes -> PV \cup {Absent}]
      /\ pvc \in [Claims -> PVC \cup {Absent}]
      /\ c # Other
  BY ConstantsAssumption DEF ObjectsInv, ObjectsTyped
<1>2. ASSUME NEW v \in Volumes, NEW o,
             WritePv(v, o), VolumeLeft(v, c) => Leaving(o) \/ o.built # c
      PROVE  /\ \A k \in Claims : ClaimLeft(k, c) => ClaimLeft(k, c)'
             /\ \A w \in Volumes : VolumeLeft(w, c) => VolumeLeft(w, c)'
  BY <1>1, <1>2 DEF WritePv, ClaimLeft, VolumeLeft, Leaving
<1>3. ASSUME NEW k \in Claims, NEW o,
             WritePvc(k, o), ClaimLeft(k, c) => Leaving(o) \/ o.made # c
      PROVE  /\ \A l \in Claims : ClaimLeft(l, c) => ClaimLeft(l, c)'
             /\ \A w \in Volumes : VolumeLeft(w, c) => VolumeLeft(w, c)'
  BY <1>1, <1>3 DEF WritePvc, ClaimLeft, VolumeLeft, Leaving
<1>. DEFINE Goal == /\ \A k \in Claims : ClaimLeft(k, c) => ClaimLeft(k, c)'
                    /\ \A v \in Volumes : VolumeLeft(v, c) => VolumeLeft(v, c)'
<1>4. ASSUME NEW v \in Volumes, Release(v) \/ Reopen(v) \/ BindOther(v) PROVE Goal
  <2>1. PICK o : WritePv(v, o) /\ o.built = pv[v].built /\ o.del = pv[v].del /\ pv[v] # Absent
    <3>1. pv[v] \in PV
      BY <1>1, <1>4 DEF Release, Reopen, BindOther
    <3>. QED BY <1>4, <3>1 DEF Release, Reopen, BindOther, PV
  <2>2. VolumeLeft(v, c) => Leaving(o) \/ o.built # c
    BY <2>1 DEF VolumeLeft, Leaving
  <2>. QED BY <1>2, <2>1, <2>2
<1>5. ASSUME NEW v \in Volumes, VolumeGone(v) \/ DropVolume(v) \/ MakeVolume(v) PROVE Goal
  <2>1. PICK o : WritePv(v, o) /\ (Leaving(o) \/ o.built = Other)
    <3>1. CASE VolumeGone(v)
      BY <3>1 DEF VolumeGone, Leaving
    <3>2. CASE DropVolume(v)
      BY <1>1, <3>2, DoomedPv DEF DropVolume
    <3>3. CASE MakeVolume(v)
      BY <3>3 DEF MakeVolume
    <3>. QED BY <1>5, <3>1, <3>2, <3>3
  <2>. QED BY <1>1, <1>2, <2>1
<1>6. ASSUME NEW k \in Claims, ClaimGone(k) \/ DropClaim(k) \/ MakeClaim(k) PROVE Goal
  <2>1. PICK o : WritePvc(k, o) /\ (Leaving(o) \/ o.made = Other)
    <3>1. CASE ClaimGone(k)
      BY <3>1 DEF ClaimGone, Leaving
    <3>2. CASE DropClaim(k)
      BY <1>1, <3>2, DoomedPvc DEF DropClaim
    <3>3. CASE MakeClaim(k)
      BY <3>3 DEF MakeClaim
    <3>. QED BY <1>6, <3>1, <3>2, <3>3
  <2>. QED BY <1>1, <1>3, <2>1
<1>7. ASSUME NEW k \in Claims, Bind(k) PROVE Goal
  <2>. DEFINE v == VolumeOf[k]
  <2>1. /\ v \in Volumes /\ pv[v] \in PV /\ pvc[k] \in PVC
        /\ pv' = [pv EXCEPT ![v] = [pv[v] EXCEPT !.claim = k, !.phase = "Bound"]]
        /\ pvc' = [pvc EXCEPT ![k] = [pvc[k] EXCEPT !.bound = TRUE]]
    BY <1>1, <1>7, ConstantsAssumption DEF Bind
  <2>2. /\ [pv[v] EXCEPT !.claim = k, !.phase = "Bound"].built = pv[v].built
        /\ [pv[v] EXCEPT !.claim = k, !.phase = "Bound"].del = pv[v].del
        /\ [pvc[k] EXCEPT !.bound = TRUE].made = pvc[k].made
        /\ [pvc[k] EXCEPT !.bound = TRUE].del = pvc[k].del
        /\ pv[v] # Absent /\ pvc[k] # Absent
    BY <2>1, AbsentAssumption DEF PV, PVC
  <2>3. \A l \in Claims : ClaimLeft(l, c) => ClaimLeft(l, c)'
    BY <1>1, <2>1, <2>2 DEF ClaimLeft, Leaving
  <2>4. \A w \in Volumes : VolumeLeft(w, c) => VolumeLeft(w, c)'
    BY <1>1, <2>1, <2>2 DEF VolumeLeft, Leaving
  <2>. QED BY <2>3, <2>4
<1>. QED BY <1>4, <1>5, <1>6, <1>7 DEF Others, Kubernetes

WorkInv == WorkTyped /\ Signalled /\ CascadesLast

LEMMA OthersWork ==
  ASSUME ObjectsInv, WorkInv, Others
  PROVE  WorkInv'
<1>1. UNCHANGED <<cr, share, freshCr, proc>> /\ (meddled' = meddled \/ Meddle)
  BY DEF Others, Kubernetes, Release, Reopen, VolumeGone, Bind, ClaimGone, DropVolume, MakeVolume,
         BindOther, DropClaim, MakeClaim, Outside, Meddle, Crs
<1>2. meddled' \in 0 .. MaxMeddles
  BY <1>1, ConstantsAssumption DEF Meddle, Meddled, WorkInv, WorkTyped
<1>3. WorkTyped'
  BY <1>1, <1>2 DEF WorkInv, WorkTyped
<1>4. Signalled'
  <2>1. CASE proc.pc = "idle"
    BY <1>1, <2>1 DEF Signalled
  <2>2. CASE proc.pc # "idle"
    <3>1. proc.cr \in CRs /\ pvcKey \in Claims /\ pvKey \in Volumes
      BY <2>2, Keys DEF WorkInv
    <3>2. /\ ClaimLeft(pvcKey, proc.cr) => ClaimLeft(pvcKey, proc.cr)'
          /\ VolumeLeft(pvKey, proc.cr) => VolumeLeft(pvKey, proc.cr)'
      BY <1>1, <3>1, OthersLeave DEF ClaimLeft, VolumeLeft, pvcKey, pvKey
    <3>. QED BY <1>1, <3>2 DEF WorkInv, Signalled, ClaimLeft, VolumeLeft
  <2>. QED BY <2>1, <2>2
<1>5. CascadesLast'
  BY <1>1 DEF WorkInv, CascadesLast, Terminating, L!Terminating
<1>. QED BY <1>3, <1>4, <1>5 DEF WorkInv

(* Steps that end in, or start, a reconcile before its cascade. *)
LEMMA EnsureWork ==
  ASSUME WorkInv, Ensure
  PROVE  WorkInv'
<1>1. UNCHANGED <<cr, share, freshCr, meddled>>
  BY DEF Ensure, CreateVolume, ClearClaim, KeepVolume, CreateClaim, KeepClaim, EnsureFails, Answered,
         Crs
<1>2. proc' = Idle \/ proc' = [proc EXCEPT !.pc = "pvc"]
  BY DEF Ensure, CreateVolume, ClearClaim, KeepVolume, CreateClaim, KeepClaim, EnsureFails,
         Answered, Goto
<1>3. proc.pc # "idle"
  BY DEF Ensure, CreateVolume, ClearClaim, KeepVolume, CreateClaim, KeepClaim, EnsureFails
<1>4. /\ proc' \in Reconciles
      /\ proc'.pc \in {"idle", "pvc"}
      /\ proc'.pc = "pvc" => proc'.cr = proc.cr
  <2>1. CASE proc' = Idle
    BY <2>1 DEF Idle, Reconciles, Steps
  <2>2. CASE proc' = [proc EXCEPT !.pc = "pvc"]
    BY <2>2 DEF WorkInv, WorkTyped, Reconciles, Steps
  <2>. QED BY <1>2, <2>1, <2>2
<1>5. WorkTyped'
  BY <1>1, <1>3, <1>4 DEF WorkInv, WorkTyped
<1>6. Signalled' /\ CascadesLast'
  BY <1>4 DEF Signalled, CascadesLast
<1>. QED BY <1>5, <1>6 DEF WorkInv

LEMMA CrashWork ==
  ASSUME WorkInv, Crash
  PROVE  WorkInv'
BY DEF Crash, WorkInv, WorkTyped, Signalled, CascadesLast, Idle, Reconciles, Steps

LEMMA CascadeWork ==
  ASSUME ObjectsInv, WorkInv, Cascade
  PROVE  WorkInv'
<1>1. proc.pc \in {"delPvc", "delPv", "delFs"}
  BY DEF Cascade, DeleteClaim, DeleteVolume, SkipClaim, SkipVolume, CascadeFails,
         DeleteShare, DeleteShareFails
<1>2. /\ proc.cr \in CRs /\ pvcKey \in Claims /\ pvKey \in Volumes
      /\ pv[pvKey] \in PV \cup {Absent} /\ pvc[pvcKey] \in PVC \cup {Absent}
      /\ proc \in Reconciles /\ cr[proc.cr] \in L!CR
      /\ pvc \in [Claims -> PVC \cup {Absent}]
      /\ pv \in [Volumes -> PV \cup {Absent}]
  BY <1>1, Keys DEF WorkInv, WorkTyped, ObjectsInv, ObjectsTyped
<1>3. CASE DeleteShare \/ DeleteShareFails
  <2>1. proc' \in Reconciles /\ proc'.pc = "idle" /\ UNCHANGED meddled
    <3>1. proc' = Idle /\ UNCHANGED meddled
      BY <1>3 DEF DeleteShare, DeleteShareFails
    <3>. QED BY <3>1 DEF Idle, Reconciles, Steps
  <2>2. CASE UNCHANGED Crs
    BY <2>1, <2>2 DEF Crs, WorkInv, WorkTyped, Signalled, CascadesLast
  <2>3. CASE L!Mark(proc.cr) /\ freshCr' = freshCr \ {proc.cr}
    <3>. DEFINE o == [cr[proc.cr] EXCEPT !.deleting = TRUE]
    <3>1. /\ cr' = [cr EXCEPT ![proc.cr] = o] /\ UNCHANGED share
          /\ cr[proc.cr].st # "absent"
      BY <2>3 DEF L!Mark, L!Become, L!Terminating
    <3>2. o \in L!CR /\ o.st = cr[proc.cr].st
      BY <1>2 DEF L!CR
    <3>. HIDE DEF o
    <3>3. /\ cr' \in [CRs -> L!CR]
          /\ \A c \in CRs : cr'[c].st = "absent" => cr'[c] = L!Nobody
      BY <1>2, <3>1, <3>2 DEF WorkInv, WorkTyped
    <3>. QED BY <2>1, <2>3, <3>1, <3>3 DEF WorkInv, WorkTyped, Signalled, CascadesLast
  <2>. QED BY <1>3, <2>2, <2>3 DEF DeleteShare, DeleteShareFails
<1>4. ASSUME NEW pc \in {"delPv", "delFs"}, NEW current \in BOOLEAN, CascadeTo(pc, current),
             current /\ ~proc.missed => (ClaimLeft(pvcKey, proc.cr))',
             current /\ ~proc.missed /\ pc = "delFs" => (VolumeLeft(pvKey, proc.cr))'
      PROVE  WorkInv'
  <2>1. /\ proc' = [proc EXCEPT !.pc = pc, !.missed = proc.missed \/ ~current]
        /\ UNCHANGED <<cr, share, freshCr, meddled>>
    BY <1>4 DEF CascadeTo, Crs
  <2>2. /\ proc' \in Reconciles
        /\ proc'.pc = pc /\ proc'.cr = proc.cr
        /\ proc'.missed = (proc.missed \/ ~current)
    BY <1>2, <2>1 DEF Reconciles, Steps
  <2>3. WorkTyped'
    BY <1>1, <2>1, <2>2 DEF WorkInv, WorkTyped
  <2>4. Signalled'
    BY <1>4, <2>2 DEF Signalled, ClaimLeft, VolumeLeft
  <2>5. CascadesLast'
    BY <1>1, <2>1, <2>2 DEF WorkInv, CascadesLast, Terminating, L!Terminating
  <2>. QED BY <2>3, <2>4, <2>5 DEF WorkInv
<1>5. ASSUME proc'.cr = proc.cr PROVE pvcKey' = pvcKey /\ pvKey' = pvKey
  BY <1>5 DEF pvcKey, pvKey
<1>6. ASSUME NEW ok \in BOOLEAN, DeleteClaim(ok) PROVE WorkInv'
  <2>1. Leaving(pvc'[pvcKey])
    <3>1. CASE NeedsDelete(pvc[pvcKey])
      BY <1>2, <1>6, <3>1, DoomedPvc DEF DeleteClaim, WritePvc
    <3>2. CASE ~NeedsDelete(pvc[pvcKey])
      BY <1>6, <3>2 DEF DeleteClaim, NeedsDelete, Leaving, ApiServer
    <3>. QED BY <3>1, <3>2
  <2>2. proc'.cr = proc.cr
    BY <1>2, <1>6 DEF DeleteClaim, CascadeTo, Reconciles
  <2>3. (ClaimLeft(pvcKey, proc.cr))'
    BY <1>5, <2>1, <2>2 DEF ClaimLeft, Leaving
  <2>4. CASE ok
    <3>1. CascadeTo("delPv", TRUE)
      BY <1>6, <2>4 DEF DeleteClaim
    <3>. QED BY <1>4, <2>3, <3>1
  <2>5. CASE ~ok
    <3>1. CascadeTo("delFs", FALSE)
      BY <1>6, <2>5 DEF DeleteClaim
    <3>. QED BY <1>4, <3>1
  <2>. QED BY <2>4, <2>5
<1>7. CASE SkipClaim
  <2>1. proc'.cr = proc.cr
    BY <1>2, <1>7 DEF SkipClaim, CascadeTo, Reconciles
  <2>2. pvcKey \in freshPvc => Leaving(pvc'[pvcKey])
    <3>1. pvc[pvcKey] \in PVC \cup {Absent} /\ pvc' = pvc /\ ~NeedsDelete(seenPvc[pvcKey])
      BY <1>2, <1>7 DEF SkipClaim, ApiServer, ObjectsInv, ObjectsTyped
    <3>. QED BY <3>1, PvcReadShows DEF NeedsDelete, Leaving, ObjectsInv, CachesCurrent
  <2>3. pvcKey \in freshPvc => (ClaimLeft(pvcKey, proc.cr))'
    BY <1>5, <2>1, <2>2 DEF ClaimLeft, Leaving
  <2>4. CASE pvcKey \in freshPvc
    <3>1. CascadeTo("delPv", TRUE)
      BY <1>7, <2>4 DEF SkipClaim, CascadeTo
    <3>. QED BY <1>4, <2>3, <2>4, <3>1
  <2>5. CASE pvcKey \notin freshPvc
    <3>1. CascadeTo("delPv", FALSE)
      BY <1>7, <2>5 DEF SkipClaim, CascadeTo
    <3>. QED BY <1>4, <3>1
  <2>. QED BY <2>4, <2>5
<1>8. ASSUME proc.pc = "delPv", proc'.cr = proc.cr, pvc' = pvc
      PROVE  ~proc.missed => (ClaimLeft(pvcKey, proc.cr))'
  BY <1>5, <1>8 DEF WorkInv, Signalled, ClaimLeft, Leaving
<1>9. ASSUME NEW ok \in BOOLEAN, DeleteVolume(ok) PROVE WorkInv'
  <2>1. Leaving(pv'[pvKey]) /\ pvc' = pvc
    <3>1. CASE NeedsDelete(pv[pvKey])
      BY <1>2, <1>9, <3>1, DoomedPv DEF DeleteVolume, WritePv
    <3>2. CASE ~NeedsDelete(pv[pvKey])
      BY <1>9, <3>2 DEF DeleteVolume, NeedsDelete, Leaving, ApiServer
    <3>. QED BY <3>1, <3>2
  <2>2. proc'.cr = proc.cr /\ proc.pc = "delPv"
    BY <1>2, <1>9 DEF DeleteVolume, CascadeTo, Reconciles
  <2>3. (VolumeLeft(pvKey, proc.cr))'
    BY <1>5, <2>1, <2>2 DEF VolumeLeft, Leaving
  <2>4. CascadeTo("delFs", ok)
    BY <1>9 DEF DeleteVolume
  <2>. QED BY <1>4, <1>8, <2>1, <2>2, <2>3, <2>4
<1>10. CASE SkipVolume
  <2>1. proc'.cr = proc.cr /\ proc.pc = "delPv" /\ pvc' = pvc
    BY <1>2, <1>10 DEF SkipVolume, CascadeTo, Reconciles, ApiServer
  <2>2. pvKey \in freshPv => Leaving(pv'[pvKey])
    <3>1. pv[pvKey] \in PV \cup {Absent} /\ pv' = pv /\ ~NeedsDelete(seenPv[pvKey])
      BY <1>2, <1>10 DEF SkipVolume, ApiServer, ObjectsInv, ObjectsTyped
    <3>. QED BY <3>1, PvReadShows DEF NeedsDelete, Leaving, ObjectsInv, CachesCurrent
  <2>3. pvKey \in freshPv => (VolumeLeft(pvKey, proc.cr))'
    BY <1>5, <2>1, <2>2 DEF VolumeLeft, Leaving
  <2>4. CASE pvKey \in freshPv
    <3>1. CascadeTo("delFs", TRUE)
      BY <1>10, <2>4 DEF SkipVolume, CascadeTo
    <3>. QED BY <1>4, <1>8, <2>1, <2>3, <2>4, <3>1
  <2>5. CASE pvKey \notin freshPv
    <3>1. CascadeTo("delFs", FALSE)
      BY <1>10, <2>5 DEF SkipVolume, CascadeTo
    <3>. QED BY <1>4, <3>1
  <2>. QED BY <2>4, <2>5
<1>11. CASE CascadeFails
  BY <1>4, <1>11 DEF CascadeFails
<1>. QED BY <1>3, <1>6, <1>7, <1>9, <1>10, <1>11 DEF Cascade

(* A step of CrLife on CR c must not undo what a reconcile of c relies on. *)
LEMMA BecomeWork ==
  ASSUME WorkInv, NEW c \in CRs, NEW o \in L!CR, L!Become(c, o),
         UNCHANGED <<proc, pv, pvc>>, freshCr' \subseteq CRs, meddled' \in 0 .. MaxMeddles,
         o.st = "absent" => o = L!Nobody,
         proc.pc # "idle" /\ proc.cr = c =>
           o.fsId = cr[c].fsId /\ (Terminating(c) => o.st \in {"Retain", "Delete"})
  PROVE  WorkInv'
<1>1. cr' = [cr EXCEPT ![c] = o] /\ UNCHANGED share
  BY DEF L!Become
<1>2. WorkTyped'
  BY <1>1 DEF WorkInv, WorkTyped
<1>3. Signalled'
  BY <1>1 DEF WorkInv, Signalled, pvcKey, pvKey, Leaving
<1>4. CascadesLast'
  BY <1>1 DEF WorkInv, WorkTyped, CascadesLast, Terminating, L!Terminating
<1>. QED BY <1>2, <1>3, <1>4 DEF WorkInv

(* So it is with the FSes, and with an informer that catches up. *)
LEMMA ShareWork ==
  ASSUME WorkInv, UNCHANGED <<cr, proc, pv, pvc>>, share' \in [Names -> Ids \cup {NoId}],
         freshCr' \subseteq CRs, meddled' \in 0 .. MaxMeddles
  PROVE  WorkInv'
BY DEF WorkInv, WorkTyped, Signalled, CascadesLast, pvcKey, pvKey, Leaving, Terminating,
       L!Terminating

LEMMA CrWork ==
  ASSUME ObjectsInv, WorkInv, CrSteps
  PROVE  WorkInv'
<1>1. /\ \A c \in CRs : cr[c] \in L!CR /\ (cr[c].st = "absent" => cr[c] = L!Nobody)
      /\ share \in [Names -> Ids \cup {NoId}] /\ freshCr \subseteq CRs
      /\ proc.pc # "idle" => cr[proc.cr].fsId \in Ids
      /\ meddled \in 0 .. MaxMeddles
  BY DEF WorkInv, WorkTyped
<1>2. L!Nobody \in L!CR /\ L!Nobody.fsId = NoId
  BY DEF L!CR, L!Nobody
<1>3. UNCHANGED <<pv, pvc>>
  BY CrAside DEF ApiServer
<1>4. Meddled => meddled' \in 0 .. MaxMeddles
  BY <1>1, ConstantsAssumption DEF Meddled
<1>5. ASSUME NEW c \in CRs, Publish(c) \/ Tear(c) PROVE WorkInv'
  <2>1. PICK pc \in {"pv", "delPvc"} :
          /\ proc' = [pc |-> pc, cr |-> c, missed |-> FALSE]
          /\ pc = "delPvc" => Terminating(c)
    BY <1>5 DEF Publish, Tear
  <2>2. UNCHANGED <<cr, share, freshCr, meddled>>
    BY <1>5 DEF Publish, Tear, Crs
  <2>3. cr[c].fsId \in Ids
    BY <1>1, <1>5 DEF Publish, Tear, L!CR
  <2>4. proc' \in Reconciles
    BY <2>1 DEF Reconciles, Steps
  <2>. QED BY <2>1, <2>2, <2>3, <2>4 DEF WorkInv, WorkTyped, Signalled, CascadesLast, Terminating,
           L!Terminating
<1>6. ASSUME NEW c \in CRs, Create(c) PROVE WorkInv'
  BY <1>1, <1>3, <1>6, ShareWork DEF Create, Issue, L!Issue, Aside
<1>7. ASSUME NEW c \in CRs, Retire(c) PROVE WorkInv'
  <2>1. L!Become(c, L!Nobody) /\ proc.pc = "idle" /\ freshCr' = freshCr \cup {c}
    BY <1>7 DEF Retire, L!Retire
  <2>2. UNCHANGED <<proc, meddled>>
    BY <1>7 DEF Retire, Elsewhere, Aside
  <2>. QED BY <1>1, <1>2, <1>3, <2>1, <2>2, BecomeWork
<1>8. ASSUME NEW c \in CRs, Unmark(c) PROVE WorkInv'
  <2>1. /\ L!Become(c, [cr[c] EXCEPT !.deleting = FALSE])
        /\ cr[c].st # "absent" /\ proc.pc = "idle"
        /\ UNCHANGED <<proc, freshCr, meddled>>
    BY <1>8 DEF Unmark, L!Unmark, L!Honoured, Elsewhere, Aside
  <2>2. [cr[c] EXCEPT !.deleting = FALSE] \in L!CR /\ [cr[c] EXCEPT !.deleting = FALSE].st = cr[c].st
    BY <1>1 DEF L!CR
  <2>. QED BY <1>1, <1>3, <2>1, <2>2, BecomeWork
<1>9. ASSUME NEW c \in CRs, NEW i \in Ids, Record(c, i), meddled' \in 0 .. MaxMeddles PROVE WorkInv'
  <2>1. /\ L!Become(c, [cr[c] EXCEPT !.fsId = i])
        /\ cr[c].st = "live" /\ proc.pc = "idle"
        /\ UNCHANGED <<proc, freshCr>>
    BY <1>9 DEF Record, L!Record, Aside
  <2>2. [cr[c] EXCEPT !.fsId = i] \in L!CR /\ [cr[c] EXCEPT !.fsId = i].st = cr[c].st
    BY <1>1 DEF L!CR
  <2>. QED BY <1>1, <1>3, <1>9, <2>1, <2>2, BecomeWork
<1>10. ASSUME NEW c \in CRs, Provision(c) \/ ProvisionGone(c) PROVE WorkInv'
  <2>1. PICK i \in Ids : Record(c, i) /\ meddled' \in 0 .. MaxMeddles
    <3>1. FsName[c] \in Names
      BY ConstantsAssumption
    <3>2. L!ShareOf(c) \in Ids \cup {NoId}
      BY <1>1, <3>1 DEF L!ShareOf
    <3>. QED BY <1>1, <1>4, <1>10, <3>2 DEF Provision, ProvisionGone, ShareOf
  <2>. QED BY <1>9, <2>1
<1>11. ASSUME NEW c \in CRs, Forget(c) PROVE WorkInv'
  <2>1. /\ L!Become(c, [cr[c] EXCEPT !.fsId = NoId])
        /\ cr[c].st = "live" /\ proc.pc = "idle"
        /\ UNCHANGED <<proc, freshCr, meddled>>
    BY <1>11 DEF Forget, L!Forget, Elsewhere, Aside
  <2>2. [cr[c] EXCEPT !.fsId = NoId] \in L!CR /\ [cr[c] EXCEPT !.fsId = NoId].st = cr[c].st
    BY <1>1 DEF L!CR
  <2>. QED BY <1>1, <1>3, <2>1, <2>2, BecomeWork
<1>12. ASSUME NEW c \in CRs, Deploy(c) PROVE WorkInv'
  <2>1. /\ L!Become(c, [L!Nobody EXCEPT !.st = "live"])
        /\ cr[c].fsId = NoId
        /\ UNCHANGED <<proc, freshCr, meddled>>
    BY <1>1, <1>2, <1>12 DEF Deploy, L!Deploy, Elsewhere, Aside
  <2>2. [L!Nobody EXCEPT !.st = "live"] \in L!CR /\ [L!Nobody EXCEPT !.st = "live"].st = "live"
    BY <1>2 DEF L!CR
  <2>3. ~(proc.pc # "idle" /\ proc.cr = c)
    BY <1>1, <2>1, ConstantsAssumption
  <2>. QED BY <1>1, <1>3, <2>1, <2>2, <2>3, BecomeWork
<1>13. ASSUME NEW c \in CRs, UserDelete(c) \/ EditPolicy(c) PROVE WorkInv'
  <2>1. PICK pol \in {"Retain", "Delete"} : L!Become(c, [cr[c] EXCEPT !.st = pol])
    BY <1>13 DEF UserDelete, EditPolicy, L!UserDelete, L!EditPolicy
  <2>2. /\ [cr[c] EXCEPT !.st = pol] \in L!CR
        /\ [cr[c] EXCEPT !.st = pol].st = pol
        /\ [cr[c] EXCEPT !.st = pol].fsId = cr[c].fsId
    BY <1>1 DEF L!CR
  <2>3. UNCHANGED proc /\ freshCr' \subseteq CRs /\ meddled' \in 0 .. MaxMeddles
    BY <1>1, <1>4, <1>13 DEF UserDelete, EditPolicy, Elsewhere, Aside
  <2>. QED BY <1>3, <2>1, <2>2, <2>3, BecomeWork
<1>14. ASSUME NEW c \in CRs, ObserveCr(c) PROVE WorkInv'
  BY <1>1, <1>3, <1>14, ShareWork DEF ObserveCr, Elsewhere, Aside
<1>15. ASSUME NEW n \in Names, Lose(n) \/ IssueElse(n) PROVE WorkInv'
  BY <1>1, <1>3, <1>4, <1>15, ShareWork DEF Lose, L!Lose, IssueElse, Issue, L!Issue, Elsewhere, Aside
<1>. QED BY <1>5, <1>6, <1>7, <1>8, <1>10, <1>11, <1>12, <1>13, <1>14, <1>15 DEF CrSteps, Reconcile

LEMMA ObserveWork ==
  ASSUME WorkInv, (\E v \in Volumes : ObservePv(v)) \/ (\E k \in Claims : ObservePvc(k))
  PROVE  WorkInv'
<1>1. UNCHANGED <<cr, share, freshCr, proc, pv, pvc, meddled>>
  BY DEF ObservePv, ObservePvc, Crs
<1>. QED BY <1>1, ShareWork DEF WorkInv, WorkTyped

LEMMA WorkStep ==
  ASSUME ObjectsInv, WorkInv, [Next]_vars
  PROVE  WorkInv'
<1>1. CASE UNCHANGED vars
  BY <1>1, ShareWork DEF vars, WorkInv, WorkTyped
<1>2. CASE Next
  BY <1>2, Kinds, EnsureWork, CascadeWork, OthersWork, CrWork, ObserveWork, CrashWork
<1>. QED BY <1>1, <1>2

-----------------------------------------------------------------------------
LEMMA VolumesInit == Init => VolInv
<1>. SUFFICES ASSUME Init PROVE VolInv
  OBVIOUS
<1>1. ObjectsInv
  BY DEF Init, ObjectsInv, ObjectsTyped, CachesCurrent, ReleasedIsFree, PvRead, PvcRead
<1>2. WorkTyped
  BY ConstantsAssumption DEF Init, L!Init, WorkTyped, L!CR, L!Nobody, Idle, Reconciles, Steps
<1>3. Signalled /\ CascadesLast
  BY DEF Init, Signalled, CascadesLast, Idle
<1>. QED BY <1>1, <1>2, <1>3, Halves

(* The PVs, PVCs, their copies and the cascade in progress keep the invariant. *)
THEOREM VolumesInvariant == Spec => []VolInv
<1>1. VolInv /\ [Next]_vars => VolInv'
  <2>. SUFFICES ASSUME VolInv, [Next]_vars PROVE VolInv'
    OBVIOUS
  <2>1. ObjectsInv /\ WorkInv
    BY Halves DEF WorkInv
  <2>2. ObjectsInv' /\ WorkInv'
    BY <2>1, ObjectsStep, WorkStep DEF WorkInv
  <2>. QED BY <2>2 DEF WorkInv, WorkTyped, VolInv, TypeOK, ObjectsInv, ObjectsTyped
<1>. QED BY <1>1, VolumesInit, PTL DEF Spec

(* Every variable keeps its type. *)
THEOREM TypeCorrect == Spec => []TypeOK
<1>1. VolInv => TypeOK
  BY DEF VolInv
<1>. QED BY <1>1, VolumesInvariant, PTL

(* ensurePVPVC takes a claimRef only from a PV of ours that is Released and
   that its claim does not hold, however old the informer's copy is. *)
THEOREM ClearsSafely == Spec => ClearsOnlyStale
<1>1. VolInv /\ [Next]_vars
        => [\A v \in Volumes : LosesClaim(v) => StaleClaim(pv[v]) /\ ~Holds(pv[v].claim, v)]_vars
  <2>. SUFFICES ASSUME VolInv, Next, NEW v \in Volumes, LosesClaim(v)
                PROVE  StaleClaim(pv[v]) /\ ~Holds(pv[v].claim, v)
    BY DEF LosesClaim, vars
  <2>1. ObjectsInv /\ WorkTyped /\ pv[v] \in PV /\ pv \in [Volumes -> PV \cup {Absent}]
    BY Halves DEF LosesClaim, ObjectsInv, ObjectsTyped
  <2>2. pv' # pv
    BY DEF LosesClaim
  <2>3. ASSUME NEW w \in Volumes, NEW o, WritePv(w, o), pv[w] = Absent \/ o = Absent \/ o.claim # NoClaim
        PROVE  FALSE
    BY <2>1, <2>3 DEF WritePv, LosesClaim
  <2>4. CASE Ensure
    <3>1. proc.pc # "idle"
      BY <2>4 DEF Ensure, CreateVolume, ClearClaim, KeepVolume, CreateClaim, KeepClaim, EnsureFails
    <3>2. pvcKey \in Claims /\ pvKey \in Volumes
      BY <2>1, <3>1, Keys
    <3>3. ASSUME NEW ok \in BOOLEAN, CreateVolume(ok) PROVE FALSE
      BY <2>3, <3>2, <3>3 DEF CreateVolume
    <3>4. ASSUME NEW ok \in BOOLEAN, ClearClaim(ok)
          PROVE  StaleClaim(pv[v]) /\ ~Holds(pv[v].claim, v)
      <4>1. seenPv[pvKey] = PvRead(pv[pvKey]) /\ StaleClaim(seenPv[pvKey])
        BY <2>1, <3>4 DEF ClearClaim, ObjectsInv, CachesCurrent
      <4>2. v = pvKey
        BY <2>1, <3>2, <3>4 DEF ClearClaim, WritePv, LosesClaim
      <4>3. StaleClaim(pv[pvKey])
        BY <2>1, <4>1, <4>2, PvReadShows
      <4>. QED BY <2>1, <4>2, <4>3 DEF StaleClaim, ObjectsInv, ReleasedIsFree
    <3>5. CASE KeepVolume \/ CreateClaim \/ KeepClaim \/ EnsureFails
      BY <2>2, <3>5 DEF KeepVolume, CreateClaim, KeepClaim, EnsureFails, WritePvc, ApiServer
    <3>. QED BY <2>4, <3>3, <3>4, <3>5 DEF Ensure
  <2>5. CASE Cascade
    <3>1. proc.pc # "idle"
      BY <2>5 DEF Cascade, DeleteClaim, DeleteVolume, SkipClaim, SkipVolume, CascadeFails,
             DeleteShare, DeleteShareFails
    <3>2. pvKey \in Volumes /\ pv[pvKey] \in PV \cup {Absent}
      BY <2>1, <3>1, Keys
    <3>3. WritePv(pvKey, Doomed(pv[pvKey]))
      BY <2>2, <2>5 DEF Cascade, DeleteClaim, DeleteVolume, SkipClaim, SkipVolume, CascadeFails,
             DeleteShare, DeleteShareFails, WritePvc, ApiServer
    <3>. QED BY <2>1, <3>2, <3>3, DoomedPv DEF WritePv, LosesClaim
  <2>6. CASE Others
    <3>1. ASSUME NEW w \in Volumes, Release(w) \/ Reopen(w) \/ BindOther(w) PROVE FALSE
      <4>1. pv[w] \in PV /\ OtherClaim # NoClaim
        BY <2>1, <3>1, ConstantsAssumption DEF Release, Reopen, BindOther
      <4>2. v = w
        BY <2>1, <3>1 DEF Release, Reopen, BindOther, WritePv, LosesClaim
      <4>. QED BY <2>1, <3>1, <4>1, <4>2 DEF Release, Reopen, BindOther, WritePv, LosesClaim, PV
    <3>2. ASSUME NEW w \in Volumes, DropVolume(w) PROVE FALSE
      BY <2>1, <3>2, DoomedPv DEF DropVolume, WritePv, LosesClaim
    <3>3. ASSUME NEW w \in Volumes, VolumeGone(w) \/ MakeVolume(w) PROVE FALSE
      BY <2>3, <3>3 DEF VolumeGone, MakeVolume
    <3>4. ASSUME NEW k \in Claims, ClaimGone(k) \/ DropClaim(k) \/ MakeClaim(k) PROVE FALSE
      BY <2>2, <3>4 DEF ClaimGone, DropClaim, MakeClaim, WritePvc
    <3>5. ASSUME NEW k \in Claims, Bind(k) PROVE FALSE
      <4>1. VolumeOf[k] \in Volumes /\ k # NoClaim
        BY ConstantsAssumption
      <4>2. pv' = [pv EXCEPT ![VolumeOf[k]] = [pv[VolumeOf[k]] EXCEPT !.claim = k, !.phase = "Bound"]]
        BY <3>5, <2>1, <4>1 DEF Bind
      <4>3. pv[VolumeOf[k]] \in PV
        BY <2>1, <3>5, <4>1 DEF Bind
      <4>. QED BY <2>1, <4>1, <4>2, <4>3 DEF LosesClaim, PV
    <3>. QED BY <2>6, <3>1, <3>2, <3>3, <3>4, <3>5 DEF Others, Kubernetes
  <2>7. CASE CrSteps
    <3>1. UNCHANGED ApiServer
      BY <2>7, CrAside
    <3>. QED BY <2>2, <3>1 DEF ApiServer
  <2>8. CASE (\E w \in Volumes : ObservePv(w)) \/ (\E k \in Claims : ObservePvc(k)) \/ Crash
    BY <2>2, <2>8 DEF ObservePv, ObservePvc, Crash
  <2>. QED BY <2>4, <2>5, <2>6, <2>7, <2>8, Kinds
<1>. QED BY <1>1, VolumesInvariant, PTL DEF Spec, ClearsOnlyStale

(* When the FS goes, the PV and PVC made for the CR are gone or terminating,
   unless the cascade failed or decided on an old copy. *)
THEOREM SignalsBeforeDelete == Spec => SignalsFirst
<1>1. VolInv /\ [Next]_vars
        => [DeleteShare /\ ~proc.missed
             => /\ Leaving(pvc[pvcKey]) \/ pvc[pvcKey].made # proc.cr
                /\ Leaving(pv[pvKey]) \/ pv[pvKey].built # proc.cr]_vars
  BY DEF VolInv, Signalled, DeleteShare
<1>. QED BY <1>1, VolumesInvariant, PTL DEF Spec, SignalsFirst

=============================================================================
