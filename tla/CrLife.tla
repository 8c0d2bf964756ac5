------------------------------- MODULE CrLife -------------------------------
(***************************************************************************)
(* Where the two halves of the reconciler meet: a CR that has its          *)
(* finalizer, what it records of its file system (FS), and whether that FS *)
(* exists.  Lifecycle implements it, by way of FsLifecycle; Volumes takes  *)
(* its CRs and FSes from it, so that what holds there of PVs and PVCs      *)
(* holds next to the CRs of Lifecycle.                                     *)
(***************************************************************************)

CONSTANTS CRs, Names, FsName, Ids, NoId

VARIABLES
  cr,    \* each CR; one without the finalizer is as good as absent
  share  \* the FS of each name at Huawei

vars == <<cr, share>>

(* While a CR is terminating, "st" is its reclaimPolicy. *)
CR == [st : {"absent", "live", "Retain", "Delete"}, fsId : Ids \cup {NoId}, deleting : BOOLEAN]

Nobody == [st |-> "absent", fsId |-> NoId, deleting |-> FALSE]

ShareOf(c) == share[FsName[c]]

Terminating(c) == cr[c].st \in {"Retain", "Delete"}

(* The reclaim policy asks for no more. *)
Honoured(c) ==
  \/ cr[c].st = "Retain"
  \/ cr[c].st = "Delete" /\ (cr[c].fsId = NoId \/ ShareOf(c) # cr[c].fsId)

Become(c, o) == cr' = [cr EXCEPT ![c] = o] /\ UNCHANGED share

-----------------------------------------------------------------------------
Deploy(c) ==
  /\ cr[c].st = "absent"
  /\ Become(c, [Nobody EXCEPT !.st = "live"])

UserDelete(c) ==
  /\ cr[c].st = "live"
  /\ \E pol \in {"Retain", "Delete"} : Become(c, [cr[c] EXCEPT !.st = pol])

EditPolicy(c) ==
  /\ Terminating(c)
  /\ \E pol \in {"Retain", "Delete"} \ {cr[c].st} : Become(c, [cr[c] EXCEPT !.st = pol])

(* The finalizer goes. *)
Retire(c) ==
  /\ Honoured(c)
  /\ Become(c, Nobody)

(* status.fsId is set: to the FS of that name, or to one that was there when
   it was found or made and is gone by now. *)
Record(c, i) ==
  /\ cr[c].st = "live" /\ cr[c].fsId = NoId
  /\ i = ShareOf(c) \/ \A n \in Names : share[n] # i
  /\ Become(c, [cr[c] EXCEPT !.fsId = i])

(* reconcilePoll met a 404. *)
Forget(c) ==
  /\ cr[c].st = "live" /\ cr[c].fsId \notin {NoId, ShareOf(c)}
  /\ Become(c, [cr[c] EXCEPT !.fsId = NoId])

(* The Deleting condition is set and cleared. *)
Mark(c) ==
  /\ Terminating(c) /\ cr[c].fsId # NoId
  /\ Become(c, [cr[c] EXCEPT !.deleting = TRUE])

Unmark(c) ==
  /\ Honoured(c)
  /\ Become(c, [cr[c] EXCEPT !.deleting = FALSE])

(* Huawei issues no id twice; one that nothing mentions stands for a new one. *)
Issue(n, i) ==
  /\ share[n] = NoId
  /\ \A m \in Names : share[m] # i
  /\ \A c \in CRs : cr[c].fsId # i
  /\ share' = [share EXCEPT ![n] = i]
  /\ UNCHANGED cr

(* An FS is gone: deleted in the console, or on behalf of a CR. *)
Lose(n) ==
  /\ share[n] # NoId
  /\ share' = [share EXCEPT ![n] = NoId]
  /\ UNCHANGED cr

-----------------------------------------------------------------------------
Init ==
  /\ cr = [c \in CRs |-> Nobody]
  /\ share = [n \in Names |-> NoId]

CrStep(c) ==
  \/ Deploy(c) \/ UserDelete(c) \/ EditPolicy(c) \/ Retire(c)
  \/ \E i \in Ids : Record(c, i)
  \/ Forget(c) \/ Mark(c) \/ Unmark(c)

Next ==
  \/ \E c \in CRs : CrStep(c)
  \/ \E n \in Names : Lose(n) \/ \E i \in Ids : Issue(n, i)

Spec == Init /\ [][Next]_vars
=============================================================================
