------------------------------- MODULE Volumes -------------------------------
(***************************************************************************)
(* The PersistentVolume (PV) and PersistentVolumeClaim (PVC) that mount a  *)
(* CR's file system (FS): ensurePVPVC at the end of reconcilePoll and      *)
(* cascadeDeletePVPVC inside reconcileDelete, of                           *)
(* internal/controller/sfsturboinstance_controller.go, next to the PV      *)
(* controller of Kubernetes and to users who make and delete the same      *)
(* objects.                                                                *)
(*                                                                         *)
(* One operator process with its one worker.  A step is one call to the    *)
(* API server together with the informer read that decides it: caches lag  *)
(* at will and only the operator reads them, so a read that came earlier   *)
(* is a cache that was refreshed later.  CRs and FSes take the steps of    *)
(* CrLife, which Lifecycle implements; spec.pvcName stays as deployed.     *)
(***************************************************************************)

EXTENDS Naturals

CONSTANTS
  CRs,       \* CRs with a spec.pvcName
  Names, FsName, \* the values of spec.fsName, and each CR's
  Claims,    \* namespace/name of the PVCs
  Volumes,   \* names of the PVs
  ClaimOf,   \* the PVC that each CR asks for
  VolumeOf,  \* the PV of the same name as a PVC, in any namespace
  Ids,       \* FS ids that can be in use at once
  MaxMeddles, \* bound on the steps of others that Meddled counts
  Other,     \* the owner of what they make
  OtherClaim, \* a PVC of any other name
  NoClaim, NoId, NoCR, Absent

ASSUME ConstantsAssumption ==
  /\ FsName \in [CRs -> Names]
  /\ ClaimOf \in [CRs -> Claims]
  /\ VolumeOf \in [Claims -> Volumes]
  /\ MaxMeddles \in Nat
  /\ Other \notin CRs /\ NoCR \notin CRs
  /\ NoId \notin Ids
  /\ OtherClaim \notin Claims /\ NoClaim \notin Claims /\ OtherClaim # NoClaim

(* A PV: who made it (our managed-by label or not), the FS id of its
   volumeHandle (NoId in what others make) and its claimRef, whose uid is set
   once the phase was Bound. *)
PV == [built : CRs \cup {Other}, handle : Ids \cup {NoId}, claim : Claims \cup {OtherClaim, NoClaim},
       phase : {"Available", "Bound", "Released"}, del : BOOLEAN]

PVC == [made : CRs \cup {Other}, bound : BOOLEAN, del : BOOLEAN]

ASSUME AbsentAssumption == Absent \notin PV \cup PVC

VARIABLES
  cr, share, \* the stored CRs and the FSes at Huawei
  freshCr,   \* terminating CRs whose copy in the informer is the stored one
  pv, pvc,   \* the API server's PVs and PVCs
  seenPv, seenPvc,    \* the informers' copies
  freshPv, freshPvc,  \* the copies at the stored resourceVersion
  proc,      \* the reconcile in progress; "missed": its cascade failed or
             \* decided on an old copy
  meddled    \* how often others made, bound or deleted a PV or PVC, edited the
             \* policy of a terminating CR or had an FS come or go unrecorded

vars == <<cr, share, freshCr, pv, pvc, seenPv, seenPvc, freshPv, freshPvc, proc, meddled>>

L == INSTANCE CrLife

ShareOf(c) == L!ShareOf(c)

Terminating(c) == L!Terminating(c)

Steps == {"idle", "pv", "pvc", "delPvc", "delPv", "delFs"}

Reconciles == [pc : Steps, cr : CRs \cup {NoCR}, missed : BOOLEAN]

Idle == [pc |-> "idle", cr |-> NoCR, missed |-> FALSE]

pvcKey == ClaimOf[proc.cr]
pvKey == VolumeOf[pvcKey]

(* An informer's copy, without the fields in it that the operator never reads. *)
PvRead(o) == IF o = Absent THEN Absent ELSE [o EXCEPT !.handle = NoId]
PvcRead(o) == IF o = Absent THEN Absent ELSE [o EXCEPT !.made = Other, !.bound = FALSE]

ApiServer == <<pv, pvc, freshPv, freshPvc>>
Caches == <<seenPv, seenPvc>>
Crs == <<cr, share, freshCr>>

(* A write makes the informer's copy an old one. *)
WritePv(v, o) ==
  /\ pv' = [pv EXCEPT ![v] = o]
  /\ freshPv' = freshPv \ {v}
  /\ UNCHANGED <<pvc, freshPvc>>

WritePvc(k, o) ==
  /\ pvc' = [pvc EXCEPT ![k] = o]
  /\ freshPvc' = freshPvc \ {k}
  /\ UNCHANGED <<pv, freshPv>>

Goto(pc) == proc' = [proc EXCEPT !.pc = pc]

(* After a call that was applied: the next step, or an error if its answer
   was lost, which ends the reconcile. *)
Answered(ok, pc) ==
  /\ IF ok THEN Goto(pc) ELSE proc' = Idle
  /\ UNCHANGED <<Crs, Caches, meddled>>

-----------------------------------------------------------------------------
(* ensurePVPVC *)

(* Mutant: it is called whether status.fsId is set or not. *)
Publish_Unchecked(c) ==
  /\ proc.pc = "idle"
  /\ cr[c].st = "live" /\ ShareOf(c) = cr[c].fsId
  /\ proc' = [pc |-> "pv", cr |-> c, missed |-> FALSE]
  /\ UNCHANGED <<Crs, ApiServer, Caches, meddled>>

(* reconcilePoll found the FS available and patchStatus went through. *)
Publish(c) ==
  /\ proc.pc = "idle"
  /\ cr[c].st = "live" /\ cr[c].fsId # NoId /\ ShareOf(c) = cr[c].fsId
  /\ proc' = [pc |-> "pv", cr |-> c, missed |-> FALSE]
  /\ UNCHANGED <<Crs, ApiServer, Caches, meddled>>

(* Only this reconcile could change the fsId that patchStatus returned. *)
buildPV == [built |-> proc.cr, handle |-> cr[proc.cr].fsId, claim |-> pvcKey,
            phase |-> "Available", del |-> FALSE]

buildPVC == [made |-> proc.cr, bound |-> FALSE, del |-> FALSE]

CreateVolume(ok) ==
  /\ proc.pc = "pv"
  /\ seenPv[pvKey] = Absent
  /\ pv[pvKey] = Absent
  /\ WritePv(pvKey, buildPV)
  /\ Answered(ok, "pvc")

(* Released, our label, and a claimRef. *)
StaleClaim(o) == o # Absent /\ o.phase = "Released" /\ o.built # Other /\ o.claim # NoClaim

(* Mutant: a merge patch in place of Update, with no resourceVersion. *)
ClearClaim_NoVersion(ok) ==
  /\ proc.pc = "pv"
  /\ StaleClaim(seenPv[pvKey])
  /\ pv[pvKey] # Absent
  /\ WritePv(pvKey, [pv[pvKey] EXCEPT !.claim = NoClaim])
  /\ Answered(ok, "pvc")

ClearClaim(ok) ==
  /\ proc.pc = "pv"
  /\ StaleClaim(seenPv[pvKey])
  /\ pvKey \in freshPv
  /\ WritePv(pvKey, [pv[pvKey] EXCEPT !.claim = NoClaim])
  /\ Answered(ok, "pvc")

(* Mutant: a Released PV is left alone like any other that is there. *)
KeepVolume_Released ==
  /\ proc.pc = "pv"
  /\ seenPv[pvKey] # Absent
  /\ Goto("pvc")
  /\ UNCHANGED <<Crs, ApiServer, Caches, meddled>>

KeepVolume ==
  /\ proc.pc = "pv"
  /\ seenPv[pvKey] # Absent /\ ~StaleClaim(seenPv[pvKey])
  /\ Goto("pvc")
  /\ UNCHANGED <<Crs, ApiServer, Caches, meddled>>

(* The last call: an error queues the key again, which Publish does anyway. *)
CreateClaim ==
  /\ proc.pc = "pvc"
  /\ seenPvc[pvcKey] = Absent
  /\ pvc[pvcKey] = Absent
  /\ WritePvc(pvcKey, buildPVC)
  /\ proc' = Idle
  /\ UNCHANGED <<Crs, Caches, meddled>>

KeepClaim ==
  /\ proc.pc = "pvc"
  /\ seenPvc[pvcKey] # Absent
  /\ proc' = Idle
  /\ UNCHANGED <<Crs, ApiServer, Caches, meddled>>

(* AlreadyExists, a conflict or a transient error: the key is queued again. *)
EnsureFails ==
  /\ \/ proc.pc = "pv" /\ (seenPv[pvKey] = Absent \/ StaleClaim(seenPv[pvKey]))
     \/ proc.pc = "pvc" /\ seenPvc[pvcKey] = Absent
  /\ proc' = Idle
  /\ UNCHANGED <<Crs, ApiServer, Caches, meddled>>

-----------------------------------------------------------------------------
(* reconcileDelete: the cascade, and then DeleteShare *)

(* Get shows the FS.  The copy says policy Delete and Deleting not yet True; an
   old one may say so whatever is stored by now. *)
Tear(c) ==
  /\ proc.pc = "idle"
  /\ Terminating(c)
  /\ c \in freshCr => cr[c].st = "Delete" /\ ~cr[c].deleting
  /\ cr[c].fsId # NoId /\ ShareOf(c) = cr[c].fsId
  /\ proc' = [pc |-> "delPvc", cr |-> c, missed |-> FALSE]
  /\ UNCHANGED <<Crs, ApiServer, Caches, meddled>>

(* The cascade goes on with step pc; what it read was current or not. *)
CascadeTo(pc, current) ==
  /\ proc' = [proc EXCEPT !.pc = pc, !.missed = @ \/ ~current]
  /\ UNCHANGED <<Crs, Caches, meddled>>

(* Delete names the object and nothing else: what is there starts to go. *)
Doomed(o) == IF o = Absent THEN Absent ELSE [o EXCEPT !.del = TRUE]

NeedsDelete(o) == o # Absent /\ ~o.del

(* NotFound counts as success; an answer that is lost ends the cascade. *)
DeleteClaim(ok) ==
  /\ proc.pc = "delPvc"
  /\ NeedsDelete(seenPvc[pvcKey])
  /\ IF NeedsDelete(pvc[pvcKey]) THEN WritePvc(pvcKey, Doomed(pvc[pvcKey]))
                                 ELSE UNCHANGED ApiServer
  /\ CascadeTo(IF ok THEN "delPv" ELSE "delFs", ok)

(* Mutant: a PVC that is not there ends the cascade. *)
SkipClaim_Returns ==
  /\ proc.pc = "delPvc"
  /\ ~NeedsDelete(seenPvc[pvcKey])
  /\ CascadeTo(IF seenPvc[pvcKey] = Absent THEN "delFs" ELSE "delPv", pvcKey \in freshPvc)
  /\ UNCHANGED ApiServer

SkipClaim ==
  /\ proc.pc = "delPvc"
  /\ ~NeedsDelete(seenPvc[pvcKey])
  /\ CascadeTo("delPv", pvcKey \in freshPvc)
  /\ UNCHANGED ApiServer

DeleteVolume(ok) ==
  /\ proc.pc = "delPv"
  /\ NeedsDelete(seenPv[pvKey])
  /\ IF NeedsDelete(pv[pvKey]) THEN WritePv(pvKey, Doomed(pv[pvKey]))
                               ELSE UNCHANGED ApiServer
  /\ CascadeTo("delFs", ok)

SkipVolume ==
  /\ proc.pc = "delPv"
  /\ ~NeedsDelete(seenPv[pvKey])
  /\ CascadeTo("delFs", pvKey \in freshPv)
  /\ UNCHANGED ApiServer

(* A delete that is refused: the error is logged and the FS goes anyway. *)
CascadeFails ==
  /\ \/ proc.pc = "delPvc" /\ NeedsDelete(seenPvc[pvcKey])
     \/ proc.pc = "delPv" /\ NeedsDelete(seenPv[pvKey])
  /\ CascadeTo("delFs", FALSE)
  /\ UNCHANGED ApiServer

(* DeleteShare is accepted, and the status with Deleting=True written or not. *)
DeleteShare ==
  /\ proc.pc = "delFs"
  /\ \/ L!Mark(proc.cr) /\ freshCr' = freshCr \ {proc.cr}
     \/ UNCHANGED Crs
  /\ proc' = Idle
  /\ UNCHANGED <<ApiServer, Caches, meddled>>

DeleteShareFails ==
  /\ proc.pc = "delFs"
  /\ proc' = Idle
  /\ UNCHANGED <<Crs, ApiServer, Caches, meddled>>

-----------------------------------------------------------------------------
(* The steps of CrLife; those of the operator come between two reconciles *)

Aside == UNCHANGED <<ApiServer, Caches, proc>>

Elsewhere == Aside /\ UNCHANGED meddled

Meddled == meddled < MaxMeddles /\ meddled' = meddled + 1

Deploy(c) == L!Deploy(c) /\ UNCHANGED freshCr /\ Elsewhere

UserDelete(c) == L!UserDelete(c) /\ UNCHANGED freshCr /\ Elsewhere

EditPolicy(c) ==
  /\ Meddled
  /\ L!EditPolicy(c)
  /\ freshCr' = freshCr \ {c}
  /\ Aside

Retire(c) ==
  /\ proc.pc = "idle"
  /\ L!Retire(c)
  /\ freshCr' = freshCr \cup {c}
  /\ Elsewhere

Unmark(c) ==
  /\ proc.pc = "idle"
  /\ cr[c].deleting
  /\ L!Unmark(c)
  /\ UNCHANGED freshCr /\ Elsewhere

Record(c, i) ==
  /\ proc.pc = "idle"
  /\ L!Record(c, i)
  /\ UNCHANGED freshCr /\ Aside

Provision(c) == ShareOf(c) # NoId /\ Record(c, ShareOf(c)) /\ UNCHANGED meddled

(* The FS was destroyed before its id could be recorded. *)
ProvisionGone(c) == Meddled /\ \E i \in Ids \ {ShareOf(c)} : Record(c, i)

Forget(c) ==
  /\ proc.pc = "idle"
  /\ L!Forget(c)
  /\ UNCHANGED freshCr /\ Elsewhere

Handles == {pv[v].handle : v \in {w \in Volumes : pv[w] # Absent}}

(* A new FS, under an id that no PV mentions either: for a CR that waits for
   it, or for a CR that has gone meanwhile or somebody else. *)
Issue(n) ==
  /\ \E i \in Ids \ Handles : L!Issue(n, i)
  /\ UNCHANGED freshCr /\ Aside

Create(c) ==
  /\ proc.pc = "idle"
  /\ cr[c].st = "live" /\ cr[c].fsId = NoId
  /\ Issue(FsName[c])
  /\ UNCHANGED meddled

IssueElse(n) == Meddled /\ Issue(n)

Lose(n) == L!Lose(n) /\ UNCHANGED freshCr /\ Elsewhere

ObserveCr(c) ==
  /\ proc.pc = "idle"
  /\ c \notin freshCr
  /\ freshCr' = freshCr \cup {c}
  /\ UNCHANGED <<cr, share>> /\ Elsewhere

-----------------------------------------------------------------------------
(* The informers and the process *)

ObservePv(v) ==
  /\ v \notin freshPv
  /\ seenPv' = [seenPv EXCEPT ![v] = PvRead(pv[v])]
  /\ freshPv' = freshPv \cup {v}
  /\ UNCHANGED <<Crs, pv, pvc, seenPvc, freshPvc, proc, meddled>>

ObservePvc(k) ==
  /\ k \notin freshPvc
  /\ seenPvc' = [seenPvc EXCEPT ![k] = PvcRead(pvc[k])]
  /\ freshPvc' = freshPvc \cup {k}
  /\ UNCHANGED <<Crs, pv, pvc, seenPv, freshPv, proc, meddled>>

Crash ==
  /\ proc' = Idle
  /\ seenPv' = [v \in Volumes |-> PvRead(pv[v])] /\ freshPv' = Volumes
  /\ seenPvc' = [k \in Claims |-> PvcRead(pvc[k])] /\ freshPvc' = Claims
  /\ freshCr' = CRs
  /\ UNCHANGED <<cr, share, pv, pvc, meddled>>

-----------------------------------------------------------------------------
(* Kubernetes and other users of it (none of it is this repository's code) *)

Outside == UNCHANGED <<Crs, Caches, proc, meddled>>

Meddle ==
  /\ Meddled
  /\ UNCHANGED <<Crs, Caches, proc>>

(* The claim that an unbound PV is for, or any claim if it has none. *)
Bind(k) ==
  LET v == VolumeOf[k] IN
  /\ pvc[k] # Absent /\ ~pvc[k].bound
  /\ pv[v] # Absent
  /\ pv[v].claim = NoClaim \/ (pv[v].claim = k /\ pv[v].phase = "Available")
  /\ pv' = [pv EXCEPT ![v].claim = k, ![v].phase = "Bound"]
  /\ pvc' = [pvc EXCEPT ![k].bound = TRUE]
  /\ freshPv' = freshPv \ {v}
  /\ freshPvc' = freshPvc \ {k}
  /\ Outside

BindOther(v) ==
  /\ Meddle
  /\ pv[v] # Absent /\ pv[v].claim = NoClaim
  /\ WritePv(v, [pv[v] EXCEPT !.claim = OtherClaim, !.phase = "Bound"])

(* The claim of one of our names that a PV refers to is there and bound to it. *)
Holds(k, v) == k \in Claims /\ VolumeOf[k] = v /\ pvc[k] # Absent /\ pvc[k].bound

Release(v) ==
  /\ pv[v] # Absent /\ pv[v].phase = "Bound"
  /\ ~Holds(pv[v].claim, v)
  /\ WritePv(v, [pv[v] EXCEPT !.phase = "Released"])
  /\ Outside

(* A claimRef that was cleared makes the PV available again. *)
Reopen(v) ==
  /\ pv[v] # Absent /\ pv[v].phase = "Released" /\ pv[v].claim = NoClaim
  /\ WritePv(v, [pv[v] EXCEPT !.phase = "Available"])
  /\ Outside

(* pv-protection and pvc-protection: an object in use stays Terminating. *)
VolumeGone(v) ==
  /\ pv[v] # Absent /\ pv[v].del /\ pv[v].phase # "Bound"
  /\ WritePv(v, Absent)
  /\ Outside

ClaimGone(k) ==
  /\ pvc[k] # Absent /\ pvc[k].del
  /\ WritePvc(k, Absent)
  /\ Outside

DropVolume(v) ==
  /\ Meddle
  /\ NeedsDelete(pv[v])
  /\ WritePv(v, Doomed(pv[v]))

DropClaim(k) ==
  /\ Meddle
  /\ NeedsDelete(pvc[k])
  /\ WritePvc(k, Doomed(pvc[k]))

MakeVolume(v) ==
  /\ Meddle
  /\ pv[v] = Absent
  /\ \E k \in {l \in Claims : VolumeOf[l] = v} :
       WritePv(v, [built |-> Other, handle |-> NoId, claim |-> k,
                   phase |-> "Available", del |-> FALSE])

MakeClaim(k) ==
  /\ Meddle
  /\ pvc[k] = Absent
  /\ WritePvc(k, [made |-> Other, bound |-> FALSE, del |-> FALSE])

-----------------------------------------------------------------------------
Init ==
  /\ L!Init
  /\ freshCr = CRs
  /\ pv = [v \in Volumes |-> Absent]
  /\ pvc = [k \in Claims |-> Absent]
  /\ seenPv = pv /\ seenPvc = pvc
  /\ freshPv = Volumes /\ freshPvc = Claims
  /\ proc = Idle
  /\ meddled = 0

Ensure ==
  \/ \E ok \in BOOLEAN : CreateVolume(ok) \/ ClearClaim(ok)
  \/ KeepVolume \/ CreateClaim \/ KeepClaim \/ EnsureFails

Cascade ==
  \/ \E ok \in BOOLEAN : DeleteClaim(ok) \/ DeleteVolume(ok)
  \/ SkipClaim \/ SkipVolume \/ CascadeFails
  \/ DeleteShare \/ DeleteShareFails

Reconcile(c) ==
  \/ Publish(c) \/ Tear(c)
  \/ Create(c) \/ Retire(c) \/ Unmark(c) \/ Provision(c) \/ Forget(c)

UserStep ==
  \/ \E c \in CRs : Deploy(c) \/ UserDelete(c) \/ EditPolicy(c) \/ ProvisionGone(c)
  \/ \E n \in Names : Lose(n) \/ IssueElse(n)
  \/ \E v \in Volumes : DropVolume(v) \/ MakeVolume(v) \/ BindOther(v)
  \/ \E k \in Claims : DropClaim(k) \/ MakeClaim(k)

Kubernetes ==
  \/ \E v \in Volumes : Release(v) \/ Reopen(v) \/ VolumeGone(v)
  \/ \E k \in Claims : Bind(k) \/ ClaimGone(k)

Informer ==
  \/ \E v \in Volumes : ObservePv(v)
  \/ \E k \in Claims : ObservePvc(k)
  \/ \E c \in CRs : ObserveCr(c)

Next ==
  \/ Ensure \/ Cascade
  \/ \E c \in CRs : Reconcile(c)
  \/ Informer \/ Crash
  \/ UserStep \/ Kubernetes

Spec == Init /\ [][Next]_vars

-----------------------------------------------------------------------------
TypeOK ==
  /\ cr \in [CRs -> L!CR]
  /\ \A c \in CRs : cr[c].st = "absent" => cr[c] = L!Nobody
  /\ share \in [Names -> Ids \cup {NoId}]
  /\ freshCr \subseteq CRs
  /\ pv \in [Volumes -> PV \cup {Absent}]
  /\ pvc \in [Claims -> PVC \cup {Absent}]
  /\ seenPv \in [Volumes -> PV \cup {Absent}]
  /\ seenPvc \in [Claims -> PVC \cup {Absent}]
  /\ freshPv \subseteq Volumes
  /\ freshPvc \subseteq Claims
  /\ proc \in Reconciles
  /\ meddled \in 0 .. MaxMeddles
  /\ proc.pc # "idle" => proc.cr \in CRs /\ cr[proc.cr].fsId \in Ids

LosesClaim(v) ==
  /\ pv[v] # Absent /\ pv'[v] # Absent
  /\ pv[v].claim # NoClaim /\ pv'[v].claim = NoClaim

(* "THREE preconditions to avoid touching anything we don't own or that's
   currently in-flight" (lines 748-752) are judged on the informer's copy: a
   claimRef must go only from a PV that has our label, is Released and whose
   claim does not hold it at the moment of the write. *)
ClearsOnlyStale ==
  [][\A v \in Volumes :
       LosesClaim(v) => StaleClaim(pv[v]) /\ ~Holds(pv[v].claim, v)]_vars

Leaving(o) == o = Absent \/ o.del

(* "Cascade-delete PV+PVC FIRST so consumer pods get an unambiguous signal"
   (lines 238-239): unless a delete failed or an informer lagged, the FS is
   only deleted once the PV and PVC made for the CR are gone or terminating. *)
SignalsFirst ==
  [][DeleteShare /\ ~proc.missed
     => /\ Leaving(pvc[pvcKey]) \/ pvc[pvcKey].made # proc.cr
        /\ Leaving(pv[pvKey]) \/ pv[pvKey].built # proc.cr]_vars

-----------------------------------------------------------------------------
(* The inductive invariant behind the theorems of VolumesProofs *)

CachesCurrent ==
  /\ \A v \in freshPv : seenPv[v] = PvRead(pv[v])
  /\ \A k \in freshPvc : seenPvc[k] = PvcRead(pvc[k])

(* The claim of a Released PV does not hold it. *)
ReleasedIsFree ==
  \A v \in Volumes :
    pv[v] # Absent /\ pv[v].phase = "Released" => ~Holds(pv[v].claim, v)

(* How far the cascade in progress has come, if it missed nothing. *)
Signalled ==
  ~proc.missed =>
    /\ proc.pc \in {"delPv", "delFs"} => Leaving(pvc[pvcKey]) \/ pvc[pvcKey].made # proc.cr
    /\ proc.pc = "delFs" => Leaving(pv[pvKey]) \/ pv[pvKey].built # proc.cr

(* The CR that a cascade is about stays in its last phase meanwhile. *)
CascadesLast == proc.pc \in {"delPvc", "delPv", "delFs"} => Terminating(proc.cr)

VolInv == TypeOK /\ CachesCurrent /\ ReleasedIsFree /\ Signalled /\ CascadesLast

-----------------------------------------------------------------------------
(***************************************************************************)
(* Every call returns, the watches deliver, the PV controller works, and   *)
(* an object that is to go does so (pods let go of their claims).          *)
(***************************************************************************)
Fairness ==
  /\ WF_vars(Ensure) /\ WF_vars(Cascade)
  /\ WF_vars(Informer) /\ WF_vars(Kubernetes)
  /\ \A c \in CRs : SF_vars(Create(c) \/ Provision(c))

LiveSpec == Spec /\ Fairness

(* The resync queues the CR again and again: the manager watches neither PVs
   nor PVCs (SetupWithManager), and nothing else polls a CR that is Ready. *)
Resyncs == \A c \in CRs : SF_vars(Publish(c)) /\ SF_vars(Forget(c))

(* A conflict or AlreadyExists follows from a lagging informer: no fault. *)
CanWrite ==
  \/ proc.pc = "pv" /\ pvKey \in freshPv
  \/ proc.pc = "pvc" /\ pvcKey \in freshPvc

Fault ==
  \/ EnsureFails /\ CanWrite
  \/ CreateVolume(FALSE) \/ ClearClaim(FALSE)
  \/ Crash /\ proc.pc # "idle" /\ ~Ensure /\ ~Cascade

Quiet == <>[][~UserStep /\ ~Fault]_vars

Mounted(c) ==
  /\ Holds(ClaimOf[c], VolumeOf[ClaimOf[c]])
  /\ pv[VolumeOf[ClaimOf[c]]] # Absent
  /\ pv[VolumeOf[ClaimOf[c]]].claim = ClaimOf[c]

(* Somebody else has the PV or the PVC. *)
Taken(c) ==
  LET k == ClaimOf[c]
      v == VolumeOf[k] IN
  \/ pv[v] # Absent /\ (pv[v].built = Other \/ pv[v].claim \notin {k, NoClaim})
  \/ pvc[k] # Absent /\ pvc[k].made = Other

(* A CR that stays gets its claim bound in the end: over redeploys onto a
   Released PV, objects found terminating and taken for existing (lines
   730-771 and 785), lagging informers, lost answers and crashes. *)
Mounts == Quiet /\ Resyncs => \A c \in CRs : <>[](cr[c].st = "live" => Mounted(c) \/ Taken(c))

(* "PV is static-bound to the FS's NFS export path"
   (docs/EXAMPLES/05-with-pvc-binding.yaml:36).  An FS that was destroyed and
   created anew has another id and export path, and a PV that exists is left
   alone (line 769): the claim stays bound to the FS that is gone. *)
MountsOwnFs ==
  Quiet /\ Resyncs =>
    \A c \in CRs :
      <>[](cr[c].st = "live" /\ Mounted(c) /\ ~Taken(c)
           => pv[VolumeOf[ClaimOf[c]]].handle = cr[c].fsId)
=============================================================================
