------------------------------ MODULE Lifecycle ------------------------------
(***************************************************************************)
(* The life of an SfsTurboInstance (CR) and of the SFS Turbo file system   *)
(* (FS) behind it: the reconciler of                                       *)
(* internal/controller/sfsturboinstance_controller.go, driving the Huawei  *)
(* API through internal/huawei/client.go, against a Kubernetes API server  *)
(* that it reads through an informer cache.                                *)
(*                                                                         *)
(* A reconcile is a sequence of steps, one for each call that leaves the   *)
(* operator process (a write to the API server or a Huawei request); the   *)
(* code between two calls runs as part of the step before it.  Between any *)
(* two steps users, Huawei, the other CRs, a second operator process, the  *)
(* watch and a crash may act.                                              *)
(*                                                                         *)
(* This module covers CRs whose spec.pvcName is empty (ensurePVPVC and     *)
(* cascadeDeletePVPVC return at once for them) and whose size, security    *)
(* group and immutable fields match the FS.                                *)
(***************************************************************************)

CONSTANTS
  CRs,        \* the CR keys (namespace/name) that users may create
  Names,      \* values of spec.fsName
  FsName,     \* the spec.fsName that each CR carries; documented as immutable
  Ids,        \* FS ids that can be in use at once
  Operators,  \* operator processes that reconcile (leader election is off by default)
  Policies,   \* the spec.reclaimPolicy values users set
  Pauses,     \* the spec.pausedReconcile values users set
  Foreground, \* whether users delete with --cascade=foreground
  Outcomes,   \* how Huawei may end the creation of an FS
  NoId, NoCR, Absent

ASSUME ConstantsAssumption ==
  /\ FsName \in [CRs -> Names]
  /\ Policies \subseteq {"Retain", "Delete"}
  /\ Pauses \subseteq BOOLEAN
  /\ Foreground \subseteq BOOLEAN
  /\ Outcomes \subseteq {"available", "error"}
  /\ NoId \notin Ids
  /\ NoCR \notin CRs

VARIABLES
  store,      \* the API server's CRs
  cache,      \* each operator's informer cache: possibly an earlier version of a CR
  freshCache, \* the cache entries that hold the stored resourceVersion
  queue,      \* each operator's work queue of CR keys
  proc,       \* each operator's reconcile in progress
  freshProc,  \* the reconciles whose local copy holds the stored resourceVersion
  cloud       \* Huawei's file systems

vars == <<store, cache, freshCache, queue, proc, freshProc, cloud>>

Conditions == {"Ready", "Provisioning", "Deleting", "Failed"}

(***************************************************************************)
(* A CR: deletionTimestamp set (del), the operator's finalizer (fin),      *)
(* another controller's finalizer (held), and the conditions that are True.*)
(***************************************************************************)
CR == [del : BOOLEAN, fin : BOOLEAN, held : BOOLEAN,
       policy : {"Retain", "Delete"}, paused : BOOLEAN,
       fsId : Ids \cup {NoId}, conds : SUBSET Conditions]

ASSUME AbsentAssumption == Absent \notin CR

Steps == {"idle", "addFin", "create", "find", "poll", "delGet", "delShare",
          "patch", "patchThenRemove", "removeFin"}

(***************************************************************************)
(* A reconcile: the call it makes next, the key and the object it works    *)
(* on, and whether it asks for a requeue once its status write succeeds.   *)
(***************************************************************************)
Reconciles == [pc : Steps, key : CRs \cup {NoCR}, obj : CR \cup {Absent}, again : BOOLEAN]

Idle == [pc |-> "idle", key |-> NoCR, obj |-> Absent, again |-> FALSE]

Shares == [st : {"none", "creating", "available", "error", "deleting"}, name : Names]

-----------------------------------------------------------------------------
(* Objects and conditions *)

FsIdOf(o) == IF o = Absent THEN NoId ELSE o.fsId

hasConditionTrue(o, t) == t \in o.conds

(* setCondition for several types at once; an absent condition counts as False. *)
setCondition(o, true, false) == [o EXCEPT !.conds = (@ \cup true) \ false]

Failing(o) == setCondition(o, {"Failed"}, {})

(* Every id that a CR or a copy of one mentions. *)
Mentioned == {FsIdOf(store[c]) : c \in CRs}
               \cup {FsIdOf(cache[p][c]) : p \in Operators, c \in CRs}
               \cup {FsIdOf(proc[p].obj) : p \in Operators}

(***************************************************************************)
(* Huawei never issues an id twice.  An id whose FS is gone and that       *)
(* nothing mentions any more stands for a new one, which keeps Ids finite. *)
(***************************************************************************)
FreshIds == {i \in Ids : cloud[i].st = "none" /\ i \notin Mentioned}

Exists(i) == i \in Ids /\ cloud[i].st # "none"

SharesNamed(n) == {i \in Ids : Exists(i) /\ cloud[i].name = n}

-----------------------------------------------------------------------------
(* The API server *)

(***************************************************************************)
(* A write of r to key c by the reconciles in writer (none when a user     *)
(* writes); keep is writer when the writer's copy takes the new            *)
(* resourceVersion and is used again.  A write that changes nothing keeps  *)
(* the resourceVersion; one that changes only what this module leaves out  *)
(* (reasons, messages, timestamps) moves it, so that both are allowed.     *)
(***************************************************************************)
Write(c, r, writer, keep) ==
  \E bumped \in {TRUE, r # store[c]} :
    /\ store' = [store EXCEPT ![c] = r]
    /\ freshCache' = IF bumped THEN {e \in freshCache : e[2] # c} ELSE freshCache
    /\ freshProc' = {q \in freshProc \ writer : bumped => proc[q].key # c} \cup keep

(* What remains once the finalizers of a CR are as in o: the server drops a
   terminating object that has none left. *)
Collected(o) == IF o.del /\ ~o.fin /\ ~o.held THEN Absent ELSE o

-----------------------------------------------------------------------------
(* Control of one reconcile *)

Goto(p, pc, o, again) ==
  proc' = [proc EXCEPT ![p] = [pc |-> pc, key |-> proc[p].key, obj |-> o, again |-> again]]

(* Reconcile returns; with a requeue or an error the key is queued again. *)
Return(p, again) ==
  /\ proc' = [proc EXCEPT ![p] = Idle]
  /\ queue' = IF again THEN [queue EXCEPT ![p] = @ \cup {proc[p].key}] ELSE queue

(* The reconcile read o from the cache and goes on to its first call. *)
Enter(p, c, pc, o, again) ==
  /\ proc' = [proc EXCEPT ![p] = [pc |-> pc, key |-> c, obj |-> o, again |-> again]]
  /\ freshProc' = IF <<p, c>> \in freshCache THEN freshProc \cup {p} ELSE freshProc

Pickup(p, c) ==
  /\ proc[p].pc = "idle"
  /\ c \in queue[p]
  /\ queue' = [queue EXCEPT ![p] = @ \ {c}]
  /\ UNCHANGED <<store, cache, freshCache, cloud>>

(* The CR is not in the cache, or is terminating without our finalizer. *)
NothingToDo(p, c) ==
  /\ Pickup(p, c)
  /\ cache[p][c] # Absent => cache[p][c].del /\ ~cache[p][c].fin
  /\ UNCHANGED <<proc, freshProc>>

(* reconcileDelete takes over: the CR is terminating and has our finalizer. *)
Terminating(p, c) ==
  /\ Pickup(p, c)
  /\ cache[p][c] # Absent
  /\ cache[p][c].del /\ cache[p][c].fin

(* Mutant: a CR that never became Ready has nothing to clean up. *)
DropUnrecorded_NotReady(p, c) ==
  LET o == cache[p][c] IN
  /\ Terminating(p, c)
  /\ ~hasConditionTrue(o, "Ready")
  /\ Enter(p, c, "removeFin", [o EXCEPT !.fin = FALSE], FALSE)

(* No FS was recorded. *)
DropUnrecorded(p, c) ==
  LET o == cache[p][c] IN
  /\ Terminating(p, c)
  /\ o.fsId = NoId
  /\ Enter(p, c, "removeFin", [o EXCEPT !.fin = FALSE], FALSE)

RetainShare(p, c) ==
  LET o == cache[p][c] IN
  /\ Terminating(p, c)
  /\ o.fsId # NoId /\ o.policy # "Delete"
  /\ Enter(p, c, "patchThenRemove", setCondition(o, {}, {"Deleting"}), FALSE)

(* Mutant: a CR whose policy is Delete is torn down, terminating or not. *)
DeleteShare_Live(p, c) ==
  LET o == cache[p][c] IN
  /\ Pickup(p, c)
  /\ o # Absent
  /\ o.fin /\ o.fsId # NoId /\ o.policy = "Delete"
  /\ Enter(p, c, "delGet", o, FALSE)

DeleteShare(p, c) ==
  LET o == cache[p][c] IN
  /\ Terminating(p, c)
  /\ o.fsId # NoId /\ o.policy = "Delete"
  /\ Enter(p, c, "delGet", o, FALSE)

(* Reconcile goes on with a CR that is not being deleted. *)
Wanted(p, c) ==
  /\ Pickup(p, c)
  /\ cache[p][c] # Absent
  /\ ~cache[p][c].del

EnsureFinalizer(p, c) ==
  LET o == cache[p][c] IN
  /\ Wanted(p, c)
  /\ ~o.fin
  /\ Enter(p, c, "addFin", [o EXCEPT !.fin = TRUE], TRUE)

SkipPaused(p, c) ==
  LET o == cache[p][c] IN
  /\ Wanted(p, c)
  /\ o.fin /\ o.paused
  /\ Enter(p, c, "patch", setCondition(o, {}, {"Provisioning"}), FALSE)

(* Mutant: CreateShare does not wait for the finalizer. *)
StartCreate_NoFinalizer(p, c) ==
  LET o == cache[p][c] IN
  /\ Wanted(p, c)
  /\ ~o.paused /\ o.fsId = NoId
  /\ Enter(p, c, "create", o, FALSE)

StartCreate(p, c) ==
  LET o == cache[p][c] IN
  /\ Wanted(p, c)
  /\ o.fin /\ ~o.paused /\ o.fsId = NoId
  /\ Enter(p, c, "create", o, FALSE)

StartPoll(p, c) ==
  LET o == cache[p][c] IN
  /\ Wanted(p, c)
  /\ o.fin /\ ~o.paused /\ o.fsId # NoId
  /\ Enter(p, c, "poll", o, FALSE)

(* Reconcile of the operator's worker: one branch, up to its first call. *)
Reconcile(p, c) ==
  \/ NothingToDo(p, c)
  \/ DropUnrecorded(p, c)
  \/ RetainShare(p, c)
  \/ DeleteShare(p, c)
  \/ EnsureFinalizer(p, c)
  \/ SkipPaused(p, c)
  \/ StartCreate(p, c)
  \/ StartPoll(p, c)

-----------------------------------------------------------------------------
(* Writes of a reconcile to the API server.  A write is accepted only from a
   copy at the stored resourceVersion; a timed-out one may still be applied. *)

(* r.Update with the finalizer added; success asks for a requeue too. *)
AddFinalizer(p) ==
  LET c == proc[p].key IN
  /\ proc[p].pc = "addFin"
  /\ p \in freshProc
  /\ Write(c, [store[c] EXCEPT !.fin = TRUE], {p}, {})
  /\ Return(p, TRUE)
  /\ UNCHANGED <<cache, cloud>>

(* What Status().Update of reconcile p makes of the stored CR. *)
StatusWritten(p) ==
  [store[proc[p].key] EXCEPT !.fsId = proc[p].obj.fsId, !.conds = proc[p].obj.conds]

(* Mutant: a merge patch in place of Status().Update, with no resourceVersion. *)
patchStatus_NoVersion(p) ==
  /\ proc[p].pc = "patch"
  /\ store[proc[p].key] # Absent
  /\ Write(proc[p].key, StatusWritten(p), {p}, {})
  /\ \E again \in {proc[p].again, TRUE} : Return(p, again)
  /\ UNCHANGED <<cache, cloud>>

(* patchStatus as the last call of a reconcile. *)
patchStatus(p) ==
  /\ proc[p].pc = "patch"
  /\ p \in freshProc
  /\ Write(proc[p].key, StatusWritten(p), {p}, {})
  /\ \E again \in {proc[p].again, TRUE} : Return(p, again)
  /\ UNCHANGED <<cache, cloud>>

(* patchStatus, and then removeFinalizer on the object it returned. *)
patchThenRemove(p) ==
  /\ proc[p].pc = "patchThenRemove"
  /\ p \in freshProc
  /\ Write(proc[p].key, StatusWritten(p), {p}, {p})
  /\ Goto(p, "removeFin", [StatusWritten(p) EXCEPT !.fin = FALSE], FALSE)
  /\ UNCHANGED <<cache, queue, cloud>>

(* The same when the CR has gone: patchStatus takes NotFound for success. *)
patchMissedThenRemove(p) ==
  /\ proc[p].pc = "patchThenRemove"
  /\ store[proc[p].key] = Absent
  /\ Goto(p, "removeFin", [proc[p].obj EXCEPT !.fin = FALSE], FALSE)
  /\ UNCHANGED <<store, cache, freshCache, queue, freshProc, cloud>>

(* patchStatus is applied but its answer is lost: the error ends the reconcile. *)
patchLostThenReturn(p) ==
  /\ proc[p].pc = "patchThenRemove"
  /\ p \in freshProc
  /\ Write(proc[p].key, StatusWritten(p), {p}, {})
  /\ Return(p, TRUE)
  /\ UNCHANGED <<cache, cloud>>

(* Mutant: a JSON patch that drops the finalizer whatever the resourceVersion. *)
removeFinalizer_NoVersion(p) ==
  LET c == proc[p].key IN
  /\ proc[p].pc = "removeFin"
  /\ store[c] # Absent
  /\ Write(c, Collected([store[c] EXCEPT !.fin = FALSE]), {p}, {})
  /\ \E again \in BOOLEAN : Return(p, again)
  /\ UNCHANGED <<cache, cloud>>

removeFinalizer(p) ==
  LET c == proc[p].key IN
  /\ proc[p].pc = "removeFin"
  /\ p \in freshProc
  /\ Write(c, Collected([store[c] EXCEPT !.fin = FALSE]), {p}, {})
  /\ \E again \in BOOLEAN : Return(p, again)
  /\ UNCHANGED <<cache, cloud>>

(* patchStatus and removeFinalizer treat NotFound as success. *)
WriteMissed(p) ==
  /\ proc[p].pc \in {"patch", "removeFin"}
  /\ store[proc[p].key] = Absent
  /\ Return(p, proc[p].again)
  /\ freshProc' = freshProc \ {p}
  /\ UNCHANGED <<store, cache, freshCache, cloud>>

(* A conflict or a transient error.  After a failed Huawei call the code only
   logs it and returns the first error, which queues the key as well. *)
WriteRefused(p) ==
  /\ proc[p].pc \in {"addFin", "patch", "patchThenRemove", "removeFin"}
  /\ Return(p, TRUE)
  /\ freshProc' = freshProc \ {p}
  /\ UNCHANGED <<store, cache, freshCache, cloud>>

-----------------------------------------------------------------------------
(* Calls of a reconcile to Huawei *)

Called(p, step) == proc[p].pc = step /\ UNCHANGED <<store, cache, freshCache>>

(* The status written after a failed call; the error it returns queues the key. *)
Fail(p) ==
  /\ Goto(p, "patch", Failing(proc[p].obj), TRUE)
  /\ UNCHANGED <<queue, freshProc>>

(* status.fsId is set, Provisioning and the old error go. *)
RecordId(p, i) ==
  Goto(p, "patch",
       [setCondition(proc[p].obj, {"Provisioning"}, {"Failed"}) EXCEPT !.fsId = i], TRUE)

(* CreateShare accepted; when the answer is lost the new FS is unknown here. *)
CreateAccepted(p) ==
  LET n == FsName[proc[p].key] IN
  /\ Called(p, "create")
  /\ SharesNamed(n) = {}
  /\ \E i \in FreshIds :
       /\ cloud' = [cloud EXCEPT ![i] = [st |-> "creating", name |-> n]]
       /\ RecordId(p, i)
  /\ UNCHANGED <<queue, freshProc>>

CreateLost(p) ==
  LET n == FsName[proc[p].key] IN
  /\ Called(p, "create")
  /\ SharesNamed(n) = {}
  /\ \E i \in FreshIds : cloud' = [cloud EXCEPT ![i] = [st |-> "creating", name |-> n]]
  /\ Fail(p)

(* 409: the name is taken, so Create goes on with FindByName. *)
CreateCollides(p) ==
  /\ Called(p, "create")
  /\ SharesNamed(FsName[proc[p].key]) # {}
  /\ Goto(p, "find", proc[p].obj, FALSE)
  /\ UNCHANGED <<queue, freshProc, cloud>>

(* Mutant: the first share of the list is adopted, whatever its name. *)
FindByName_AnyName(p) ==
  /\ Called(p, "find")
  /\ \E i \in {j \in Ids : Exists(j)} : RecordId(p, i)
  /\ UNCHANGED <<queue, freshProc, cloud>>

(* Mutant: the share's name is returned in place of its id. *)
FindByName_ReturnsName(p) ==
  /\ Called(p, "find")
  /\ SharesNamed(FsName[proc[p].key]) # {}
  /\ RecordId(p, FsName[proc[p].key])
  /\ UNCHANGED <<queue, freshProc, cloud>>

(* FindByName found an FS of that name: adopted as if just created. *)
FindByName(p) ==
  /\ Called(p, "find")
  /\ \E i \in SharesNamed(FsName[proc[p].key]) : RecordId(p, i)
  /\ UNCHANGED <<queue, freshProc, cloud>>

(* Get answers a poll with an FS in one of the given states. *)
Polled(p, states) ==
  /\ Called(p, "poll")
  /\ Exists(proc[p].obj.fsId)
  /\ cloud[proc[p].obj.fsId].st \in states
  /\ UNCHANGED cloud

(* Mutant: a 404 clears status.fsId and leaves Ready as it was. *)
PollGone_KeepsReady(p) ==
  /\ Called(p, "poll")
  /\ ~Exists(proc[p].obj.fsId)
  /\ Goto(p, "patch", [proc[p].obj EXCEPT !.fsId = NoId], TRUE)
  /\ UNCHANGED <<queue, freshProc, cloud>>

(* Mutant: a 404 clears Ready and leaves status.fsId as it was. *)
PollGone_KeepsId(p) ==
  /\ Called(p, "poll")
  /\ ~Exists(proc[p].obj.fsId)
  /\ Goto(p, "patch", setCondition(proc[p].obj, {}, {"Ready"}), TRUE)
  /\ UNCHANGED <<queue, freshProc, cloud>>

(* 404: the FS was destroyed behind the operator's back; it is created anew. *)
PollGone(p) ==
  /\ Called(p, "poll")
  /\ ~Exists(proc[p].obj.fsId)
  /\ Goto(p, "patch", [setCondition(proc[p].obj, {}, {"Ready"}) EXCEPT !.fsId = NoId], TRUE)
  /\ UNCHANGED <<queue, freshProc, cloud>>

(* With size, security group and tags as specified only ListTags is called;
   its failure sets Failed and does not end the reconcile. *)
PollAvailable(p) ==
  /\ Polled(p, {"available"})
  /\ \E tagErr \in {{}, {"Failed"}} :
       Goto(p, "patch",
            setCondition(setCondition(proc[p].obj, {"Ready"}, {"Provisioning", "Failed"}),
                         tagErr, {}),
            FALSE)
  /\ UNCHANGED <<queue, freshProc>>

PollErrored(p) ==
  /\ Polled(p, {"error"})
  /\ Goto(p, "patch", setCondition(proc[p].obj, {"Failed"}, {"Provisioning"}), FALSE)
  /\ UNCHANGED <<queue, freshProc>>

(* Every other status: look again later. *)
PollPending(p) ==
  /\ Polled(p, {"creating", "deleting"})
  /\ Return(p, TRUE)
  /\ freshProc' = freshProc \ {p}

(* Get in reconcileDelete answers 404. *)
DeleteGetGone(p) ==
  /\ Called(p, "delGet")
  /\ ~Exists(proc[p].obj.fsId)
  /\ Goto(p, "patchThenRemove", setCondition(proc[p].obj, {}, {"Deleting"}), FALSE)
  /\ UNCHANGED <<queue, freshProc, cloud>>

(* The FS exists and DeleteShare has not been called. *)
DeleteGetExists(p) ==
  /\ Called(p, "delGet")
  /\ Exists(proc[p].obj.fsId) /\ ~hasConditionTrue(proc[p].obj, "Deleting")
  /\ Goto(p, "delShare", proc[p].obj, FALSE)
  /\ UNCHANGED <<queue, freshProc, cloud>>

(* Mutant: no requeue while the deletion is in flight. *)
DeleteInFlight_NoRequeue(p) ==
  /\ Called(p, "delGet")
  /\ Exists(proc[p].obj.fsId) /\ hasConditionTrue(proc[p].obj, "Deleting")
  /\ Return(p, FALSE)
  /\ freshProc' = freshProc \ {p}
  /\ UNCHANGED cloud

DeleteInFlight(p) ==
  /\ Called(p, "delGet")
  /\ Exists(proc[p].obj.fsId) /\ hasConditionTrue(proc[p].obj, "Deleting")
  /\ Return(p, TRUE)
  /\ freshProc' = freshProc \ {p}
  /\ UNCHANGED cloud

(* DeleteShare accepted. *)
DeleteAccepted(p) ==
  LET o == proc[p].obj IN
  /\ Called(p, "delShare")
  /\ Exists(o.fsId)
  /\ cloud' = [cloud EXCEPT ![o.fsId].st = "deleting"]
  /\ Goto(p, "patch", setCondition(o, {"Deleting"}, {"Ready"}), TRUE)
  /\ UNCHANGED <<queue, freshProc>>

DeleteLost(p) ==
  /\ Called(p, "delShare")
  /\ Exists(proc[p].obj.fsId)
  /\ cloud' = [cloud EXCEPT ![proc[p].obj.fsId].st = "deleting"]
  /\ Fail(p)

(* Any Huawei call may fail without effect; so does FindByName when it finds
   nothing, and DeleteShare on an FS that has gone. *)
CallFails(p) ==
  /\ proc[p].pc \in {"create", "find", "poll", "delGet", "delShare"}
  /\ Fail(p)
  /\ UNCHANGED <<store, cache, freshCache, cloud>>

-----------------------------------------------------------------------------
(* The operator process *)

(* A watch event: the cache takes the stored version and queues the key. *)
Observe(p, c) ==
  /\ <<p, c>> \notin freshCache
  /\ cache' = [cache EXCEPT ![p][c] = store[c]]
  /\ freshCache' = freshCache \cup {<<p, c>>}
  /\ queue' = [queue EXCEPT ![p] = @ \cup {c}]
  /\ UNCHANGED <<store, proc, freshProc, cloud>>

(* The periodic resync of the informer queues every cached key. *)
Resync(p, c) ==
  /\ cache[p][c] # Absent
  /\ c \notin queue[p]
  /\ queue' = [queue EXCEPT ![p] = @ \cup {c}]
  /\ UNCHANGED <<store, cache, freshCache, proc, freshProc, cloud>>

(* The process dies at any point and is restarted: the informer lists anew. *)
Crash(p) ==
  /\ proc' = [proc EXCEPT ![p] = Idle]
  /\ freshProc' = freshProc \ {p}
  /\ cache' = [cache EXCEPT ![p] = store]
  /\ freshCache' = freshCache \cup {<<p, c>> : c \in CRs}
  /\ queue' = [queue EXCEPT ![p] = {c \in CRs : store[c] # Absent}]
  /\ UNCHANGED <<store, cloud>>

-----------------------------------------------------------------------------
(* Users and other controllers *)

Elsewhere == UNCHANGED <<cache, queue, proc, cloud>>

UserCreate(c) ==
  /\ store[c] = Absent
  /\ \E pol \in Policies, z \in Pauses :
       Write(c, [del |-> FALSE, fin |-> FALSE, held |-> FALSE, policy |-> pol,
                 paused |-> z, fsId |-> NoId, conds |-> {}], {}, {})
  /\ Elsewhere

UserDelete(c) ==
  /\ store[c] # Absent
  /\ ~store[c].del
  /\ \E h \in Foreground :
       Write(c, Collected([store[c] EXCEPT !.del = TRUE, !.held = h]), {}, {})
  /\ Elsewhere

(* kubectl apply of another reclaimPolicy or pausedReconcile, even on a
   terminating CR. *)
UserEdit(c) ==
  /\ store[c] # Absent
  /\ \E pol \in Policies, z \in Pauses :
       /\ <<pol, z>> # <<store[c].policy, store[c].paused>>
       /\ Write(c, [store[c] EXCEPT !.policy = pol, !.paused = z], {}, {})
  /\ Elsewhere

(* The garbage collector drops its foregroundDeletion finalizer. *)
Unhold(c) ==
  /\ store[c] # Absent
  /\ store[c].held
  /\ Write(c, Collected([store[c] EXCEPT !.held = FALSE]), {}, {})
  /\ Elsewhere

-----------------------------------------------------------------------------
(* Huawei *)

MoveShare(i, from, to) ==
  /\ cloud[i].st \in from
  /\ cloud' = [cloud EXCEPT ![i].st = to]
  /\ UNCHANGED <<store, cache, freshCache, queue, proc, freshProc>>

Provision(i) == \E st \in Outcomes : MoveShare(i, {"creating"}, st)

(* Huawei suspends an FS (status 400, "subscriber abnormal") and resumes it. *)
Suspend(i) == "error" \in Outcomes /\ MoveShare(i, {"available"}, "error")
Resume(i) == MoveShare(i, {"error"}, "available")

(* Someone deletes the FS in the console or with terraform. *)
Destroy(i) == MoveShare(i, {"creating", "available", "error"}, "deleting")
Vanish(i) == MoveShare(i, {"deleting"}, "none")

-----------------------------------------------------------------------------
Init ==
  /\ store = [c \in CRs |-> Absent]
  /\ cache = [p \in Operators |-> [c \in CRs |-> Absent]]
  /\ freshCache = Operators \X CRs
  /\ queue = [p \in Operators |-> {}]
  /\ proc = [p \in Operators |-> Idle]
  /\ freshProc = {}
  /\ cloud \in [Ids -> {[st |-> "none", name |-> n] : n \in Names}]

ApiWrite(p) ==
  \/ AddFinalizer(p)
  \/ patchStatus(p)
  \/ patchThenRemove(p)
  \/ patchMissedThenRemove(p)
  \/ patchLostThenReturn(p)
  \/ removeFinalizer(p)
  \/ WriteMissed(p)
  \/ WriteRefused(p)

HuaweiCall(p) ==
  \/ CreateAccepted(p)
  \/ CreateLost(p)
  \/ CreateCollides(p)
  \/ FindByName(p)
  \/ PollGone(p)
  \/ PollAvailable(p)
  \/ PollErrored(p)
  \/ PollPending(p)
  \/ DeleteGetGone(p)
  \/ DeleteGetExists(p)
  \/ DeleteInFlight(p)
  \/ DeleteAccepted(p)
  \/ DeleteLost(p)
  \/ CallFails(p)

Informer(p, c) == Observe(p, c) \/ Resync(p, c)

UserStep(c) == UserCreate(c) \/ UserDelete(c) \/ UserEdit(c)

HuaweiStep(i) == Provision(i) \/ Suspend(i) \/ Resume(i) \/ Destroy(i) \/ Vanish(i)

Next ==
  \/ \E p \in Operators : ApiWrite(p) \/ HuaweiCall(p) \/ Crash(p)
  \/ \E p \in Operators, c \in CRs : Reconcile(p, c) \/ Informer(p, c)
  \/ \E c \in CRs : UserStep(c) \/ Unhold(c)
  \/ \E i \in Ids : HuaweiStep(i)

Spec == Init /\ [][Next]_vars

-----------------------------------------------------------------------------
(* Invariants *)

(* Every variable keeps its type; a reconcile at work has a key and an object. *)
TypeOK ==
  /\ store \in [CRs -> CR \cup {Absent}]
  /\ cache \in [Operators -> [CRs -> CR \cup {Absent}]]
  /\ freshCache \subseteq Operators \X CRs
  /\ queue \in [Operators -> SUBSET CRs]
  /\ proc \in [Operators -> Reconciles]
  /\ \A p \in Operators : proc[p].pc # "idle" => proc[p].key \in CRs /\ proc[p].obj \in CR
  /\ freshProc \subseteq {p \in Operators : proc[p].pc # "idle"}
  /\ cloud \in [Ids -> Shares]

(* status.fsId never names another CR's file system: two CRs record the same
   FS only if they carry the same spec.fsName.  Adoption on 409, ids written
   from stale copies, and FSes destroyed and recreated could all break it. *)
OneFsPerName ==
  \A c, d \in CRs :
    /\ FsIdOf(store[c]) # NoId
    /\ FsIdOf(store[c]) = FsIdOf(store[d])
    => FsName[c] = FsName[d]

(* "One CR per HuaweiCloud SFS Turbo file system" (sfsturboinstance_types.go:277),
   which takes an fsName of its own for each CR: adoption on a name collision
   does not ask whether another CR records the FS. *)
OneFsPerCR ==
  \A c, d \in CRs :
    FsIdOf(store[c]) # NoId /\ FsIdOf(store[c]) = FsIdOf(store[d]) => c = d

(* The Deleting condition is the only "DeleteShare was issued" marker
   (reconcileDelete, line 237): once it is True the call is never repeated, so
   the FS must really be on its way out, whatever was lost or stale. *)
DeletingMarkerSound ==
  \A c \in CRs :
    store[c] # Absent /\ hasConditionTrue(store[c], "Deleting")
      => store[c].del /\ store[c].fsId # NoId /\ cloud[store[c].fsId].st \in {"deleting", "none"}

(* What Ready tells a consumer: it comes with an fsId, is never published
   beside Provisioning, and is withdrawn once deletion is issued.  The three
   are written by different branches, on copies of different ages. *)
ReadyAgrees ==
  \A c \in CRs :
    store[c] # Absent /\ hasConditionTrue(store[c], "Ready")
      => /\ store[c].fsId # NoId
         /\ ~hasConditionTrue(store[c], "Provisioning")
         /\ ~hasConditionTrue(store[c], "Deleting")

-----------------------------------------------------------------------------
(* What the operator implements *)

(* A stored CR as FsLifecycle sees it: reasons of failure, pauses and the
   finalizers of others are left out. *)
View(o) ==
  IF o = Absent
  THEN [st |-> "none", guarded |-> FALSE, policy |-> "Retain", id |-> NoId, shown |-> {}]
  ELSE [st |-> IF o.del THEN "terminating" ELSE "live", guarded |-> o.fin, policy |-> o.policy,
        id |-> o.fsId, shown |-> o.conds \ {"Failed"}]

Stored == [c \in CRs |-> View(store[c])]

F == INSTANCE FsLifecycle WITH record <- Stored

(* The stored CRs move only by the steps of FsLifecycle, although a reconcile
   decides on a cached CR and on answers from Huawei that may be out of date when
   the write lands.  What forgets an FS, marks it as deleting or removes the
   finalizer fits the FS as it is then; becoming ready and binding an id look at
   the CR, and at whose name the id carries. *)
Implements == F!Spec

(* A record of FsLifecycle as CrLife sees it: without the finalizer there is
   nothing left to reconcile. *)
Phase(r) ==
  IF r.guarded
  THEN [st |-> IF r.st = "live" THEN "live" ELSE r.policy, fsId |-> r.id,
        deleting |-> "Deleting" \in r.shown]
  ELSE [st |-> "absent", fsId |-> NoId, deleting |-> FALSE]

Held == [c \in CRs |-> Phase(Stored[c])]

IdIn(S) == IF S = {} THEN NoId ELSE CHOOSE i \in S : TRUE

NamedShares == [n \in Names |-> IdIn(SharesNamed(n))]

L == INSTANCE CrLife WITH cr <- Held, share <- NamedShares

(* What Volumes takes for granted of CRs and FSes: no finalizer goes early, no
   FS is recorded that was not there, none is forgotten that is, and Deleting
   stands only on a terminating CR. *)
ServesVolumes == L!Spec

-----------------------------------------------------------------------------
(* The inductive invariant behind the theorems of LifecycleProofs *)

(* A cache entry at the stored resourceVersion has the stored content. *)
CacheCurrent == \A e \in freshCache : cache[e[1]][e[2]] = store[e[2]]

(* A copy at the stored resourceVersion implies that the CR is stored. *)
CopyStored == \A p \in freshProc : store[proc[p].key] # Absent

(* Every id that a CR or a copy of it mentions is of an FS with its fsName. *)
NamesAgree ==
  /\ \A c \in CRs : FsIdOf(store[c]) \in Ids => cloud[FsIdOf(store[c])].name = FsName[c]
  /\ \A p \in Operators, c \in CRs :
       FsIdOf(cache[p][c]) \in Ids => cloud[FsIdOf(cache[p][c])].name = FsName[c]
  /\ \A p \in Operators :
       FsIdOf(proc[p].obj) \in Ids => cloud[FsIdOf(proc[p].obj)].name = FsName[proc[p].key]

(* The reconciles that work on a recorded FS, and those that look for one. *)
StepIds ==
  \A p \in Operators :
    /\ proc[p].pc \in {"create", "find"} => proc[p].obj.fsId = NoId
    /\ proc[p].pc \in {"poll", "delGet", "delShare", "patchThenRemove"} => proc[p].obj.fsId \in Ids

(* What a current copy and the stored CR have in common: the fsId, until the
   reconcile has one to record or to forget; and once the finalizer is to go,
   the reason why it may. *)
CopyAgrees ==
  \A p \in freshProc :
    LET o == proc[p].obj
        s == store[proc[p].key] IN
    /\ \/ o.fsId = s.fsId
       \/ proc[p].pc = "patch" /\ s.fsId = NoId
       \/ proc[p].pc = "patch" /\ o.fsId = NoId /\ cloud[s.fsId].st = "none"
    /\ proc[p].pc \in {"patchThenRemove", "removeFin"} =>
         s.fsId = NoId \/ s.policy # "Delete" \/ cloud[s.fsId].st = "none"

IndInv == TypeOK /\ CacheCurrent /\ CopyStored /\ NamesAgree /\ StepIds /\ CopyAgrees

(* What a current copy knows of the stored CR at each step of its reconcile:
   its phase, that the status is the stored one until the reconcile changes
   it, and that the status it then writes may follow the stored one. *)
CopyExact ==
  \A p \in freshProc :
    LET o == proc[p].obj
        s == store[proc[p].key] IN
    /\ proc[p].pc \in {"addFin", "create", "find", "poll"} => ~s.del
    /\ proc[p].pc \in {"delGet", "delShare", "patchThenRemove", "removeFin"} => s.del
    /\ proc[p].pc # "addFin" => s.fin
    /\ proc[p].pc \in {"create", "find", "poll", "delGet", "delShare"} =>
         o.fsId = s.fsId /\ o.conds = s.conds
    /\ proc[p].pc \in {"patch", "patchThenRemove"} =>
         \/ o.fsId = s.fsId /\ o.conds \ {"Failed"} = s.conds \ {"Failed"}
         \/ F!Publishes(proc[p].key, o.fsId, o.conds \ {"Failed"})

(* What a copy o tells of the stored CR s, however old it is, as long as only
   one process removes finalizers: one with the finalizer, that it still stands;
   one of a CR to tear down, that the FS is still that CR's to delete. *)
Anchored(o, s) ==
  /\ o.fin /\ ~o.del => s # Absent /\ s.fin
  /\ o.fin /\ o.del /\ o.policy = "Delete" /\ Exists(o.fsId) =>
       s # Absent /\ s.fin /\ s.del /\ s.fsId = o.fsId

(* Old copies are anchored, and so is the object of a reconcile that may create
   or delete.  The cache may be older than a current copy, but not so old as to
   miss a deletion or another policy. *)
OldCopies ==
  \A p \in Operators :
    LET o == proc[p].obj
        c == proc[p].key IN
    /\ \A d \in CRs : cache[p][d] # Absent => Anchored(cache[p][d], store[d])
    /\ proc[p].pc \in {"create", "find"} => o.fin /\ ~o.del /\ Anchored(o, store[c])
    /\ proc[p].pc \in {"delGet", "delShare"} =>
         o.fin /\ o.del /\ o.policy = "Delete" /\ Anchored(o, store[c])
    /\ p \in freshProc =>
         /\ cache[p][c] # Absent
         /\ cache[p][c].del = store[c].del /\ cache[p][c].policy = store[c].policy

-----------------------------------------------------------------------------
(* Action properties *)

ForgetsOnlyGone(c) ==
  /\ store[c] # Absent /\ store'[c] # Absent
  /\ store[c].fsId # NoId /\ store'[c].fsId # store[c].fsId
  => store'[c].fsId = NoId /\ cloud[store[c].fsId].st = "none"

(* reconcilePoll forgets an fsId only when Huawei answered 404, and never
   overwrites one id by another: a stale copy must not detach a live FS. *)
RecordedNotForgotten == [][\A c \in CRs : ForgetsOnlyGone(c)]_vars

FinalizerGoes(c) ==
  /\ store[c] # Absent /\ store[c].fin
  /\ store'[c] = Absent \/ ~store'[c].fin

LeavesNoFs(c) ==
  FinalizerGoes(c) /\ store[c].policy = "Delete" /\ store[c].fsId # NoId
  => cloud[store[c].fsId].st = "none"

(* The finalizer of a CR is "removed only after the reclaim policy is honored"
   (sfsturboinstance_types.go:261-262), judged by the policy stored at that
   moment: with Delete, a recorded FS has left Huawei first. *)
DeleteHonoured == [][\A c \in CRs : LeavesNoFs(c)]_vars

(* CreateShare is accepted only while the CR's finalizer stands: "Finalizer is
   added BEFORE any Huawei API call" (controller, line 97).  Holds for one
   operator process; its copy of the CR may be stale. *)
CreateUnderFinalizer ==
  [][\A i \in Ids :
       cloud[i].st = "none" /\ cloud'[i].st = "creating"
       => \E c \in CRs : /\ FsName[c] = cloud'[i].name
                         /\ store[c] # Absent /\ store[c].fin]_vars

DeletesItsOwn(p) ==
  DeleteAccepted(p) \/ DeleteLost(p) =>
    LET c == proc[p].key IN
    store[c] # Absent /\ store[c].del /\ store[c].fsId = proc[p].obj.fsId

(* DeleteShare reaches only the recorded FS of a CR that is being deleted,
   even if the reconcile that issues it works on a stale copy. *)
DeleteOnlyTerminating == [][\A p \in Operators : DeletesItsOwn(p)]_vars

-----------------------------------------------------------------------------
(* Liveness *)

(***************************************************************************)
(* What the operator's scheduling guarantees: every call returns, the work *)
(* queue hands out every queued key in turn (SF, as the single worker is   *)
(* busy in between) and the watch delivers.  Huawei ends what it began and *)
(* the garbage collector runs.  Nothing is assumed of users.               *)
(***************************************************************************)
Fairness ==
  /\ \A p \in Operators : WF_vars(ApiWrite(p)) /\ WF_vars(HuaweiCall(p))
  /\ \A p \in Operators, c \in CRs :
       /\ SF_vars(Reconcile(p, c))
       /\ WF_vars(Observe(p, c))
  /\ \A c \in CRs : WF_vars(Unhold(c))
  /\ \A i \in Ids : WF_vars(Provision(i)) /\ WF_vars(Vanish(i))

LiveSpec == Spec /\ Fairness

(* The informer's periodic resync comes (every ten hours): the only thing that
   shows the operator what happened in Huawei to an FS it no longer polls. *)
Resyncs == \A p \in Operators, c \in CRs : WF_vars(Resync(p, c))

(* Whether reconcile p's next Huawei call has another outcome than an error. *)
CanSucceed(p) ==
  CASE proc[p].pc = "create" -> SharesNamed(FsName[proc[p].key]) \cup FreshIds # {}
    [] proc[p].pc = "find" -> SharesNamed(FsName[proc[p].key]) # {}
    [] proc[p].pc = "delShare" -> Exists(proc[p].obj.fsId)
    [] OTHER -> TRUE

(* A transient error, a lost answer, or a crash in the middle of a reconcile.
   A conflict is not a fault: it follows from a stale cache.  Nor is a step
   that ordinary work explains too, like a crash just where a reconcile with a
   current cache returns. *)
Fault(p) ==
  \/ CallFails(p) /\ CanSucceed(p)
  \/ WriteRefused(p) /\ p \in freshProc /\ ~patchStatus(p)
  \/ CreateLost(p) \/ DeleteLost(p) \/ patchLostThenReturn(p)
  \/ Crash(p) /\ proc[p].pc # "idle" /\ ~ApiWrite(p) /\ ~HuaweiCall(p)

(* From some point on users leave the CRs alone, nobody touches the FSes
   behind the operator's back, Huawei suspends none, and there are no faults. *)
Quiet ==
  <>[][/\ ~\E c \in CRs : UserStep(c)
       /\ ~\E i \in Ids : Destroy(i) \/ Suspend(i) \/ Resume(i)
       /\ ~\E p \in Operators : Fault(p)]_vars

(* A deleted CR goes away in the end: whatever was lost, stale or crashed, the
   finalizer never hangs (reconcileDelete, lines 171-183).  The requeues of the
   code are enough, no resync is needed. *)
DeletionCompletes ==
  Quiet => \A c \in CRs : (store[c] # Absent /\ store[c].del) ~> (store[c] = Absent)

(* A CR that stays and is not paused ends up Ready on an available FS, or
   Failed on one that Huawei reports as errored; also when its FS was destroyed
   behind the operator's back and has to be created again. *)
Settled(c) ==
  \/ store[c] = Absent
  \/ store[c].paused
  \/ /\ hasConditionTrue(store[c], "Ready")
     /\ cloud[store[c].fsId].st = "available"
  \/ /\ hasConditionTrue(store[c], "Failed")
     /\ store[c].fsId # NoId
     /\ cloud[store[c].fsId].st = "error"

Converges == Quiet /\ Resyncs => \A c \in CRs : <>[]Settled(c)

-----------------------------------------------------------------------------
(* What the documentation claims and the code does not do *)

(* "No leaked file systems if a user deletes the CR while the operator is
   mid-reconcile" (docs/ARCHITECTURE.md:82-84): when a CR with policy Delete
   loses its finalizer, no FS of its name is left in use.  CreateShare is
   accepted before status.fsId is written, and reconcileDelete trusts an empty
   status.fsId (line 195). *)
NoLeakedFs ==
  [][\A c \in CRs :
       FinalizerGoes(c) /\ store[c].policy = "Delete"
       => \A i \in SharesNamed(FsName[c]) : cloud[i].st = "deleting"]_vars
=============================================================================
