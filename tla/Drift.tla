-------------------------------- MODULE Drift --------------------------------
(***************************************************************************)
(* Spec drift: how reconcilePoll of                                        *)
(* internal/controller/sfsturboinstance_controller.go brings an existing   *)
(* file system (FS) to the size, security group and tags of its CR, with   *)
(* Expand, ChangeSecurityGroup and the tag calls of                        *)
(* internal/huawei/client.go.                                              *)
(*                                                                         *)
(* One CR that has its finalizer, is not paused and records the FS, and    *)
(* any number of operator processes.  A step is one call that leaves a     *)
(* process, as in Lifecycle, which covers what is left out here: creation, *)
(* deletion, pausing and an FS that is gone.                               *)
(***************************************************************************)
EXTENDS Integers

CONSTANTS
  Operators,  \* operator processes (leader election is off by default)
  Sizes,      \* the sizes that users and the console ask for
  Groups,     \* security groups
  AutoGroup,  \* spec.securityGroupId = "": whatever Huawei chose
  Keys, Values, NoValue,   \* tags; NoValue where there is no tag
  Moves,      \* whether spec names another zone, network or key than the FS has
  MaxEdits,   \* bound on the edits of users and of the console
  NoGroup, NoObject

ASSUME ConstantsAssumption ==
  /\ Sizes \subseteq Nat \ {0}
  /\ AutoGroup \notin Groups
  /\ NoGroup \notin Groups
  /\ NoValue \notin Values
  /\ Moves \subseteq BOOLEAN
  /\ MaxEdits \in Nat

Conditions == {"Expanding", "UpdatingSecurityGroup", "Failed"}

Tags == [Keys -> Values \cup {NoValue}]

(* What reconcilePoll reads of the spec, and the conditions it writes. *)
CR == [size : Sizes, sg : Groups \cup {AutoGroup}, tags : Tags, moved : BOOLEAN,
       conds : SUBSET Conditions]

ASSUME NoObjectAssumption == NoObject \notin CR

(* The FS: the target of an expansion in flight or 0, whether it failed
   (status 308), and the target of a security-group change (subStatus 132). *)
Shares == [size : Sizes, growing : Sizes \cup {0}, failed : BOOLEAN,
           sg : Groups, moving : Groups \cup {NoGroup}, tags : Tags]

VARIABLES
  cr,      \* the stored CR
  cache,      \* each process's informer copy
  freshCache, \* the processes whose informer copy is at the stored resourceVersion
  queued,     \* the processes that have the CR's key in their work queue
  proc,       \* each process's reconcile in progress: its next call, its object,
              \* the live tags it read, and whether it asks for a requeue
  freshProc,  \* the reconciles whose object is at the stored resourceVersion
  fs,         \* the FS at Huawei
  edits,      \* edits so far
  overtaken   \* history: spec.size was edited while Expanding, or an expansion given up

vars == <<cr, cache, freshCache, queued, proc, freshProc, fs, edits, overtaken>>

Calls == {"get", "expand", "changeSg", "listTags", "tag"}

Reconciles == [pc : Calls \cup {"idle", "patch"}, obj : CR \cup {NoObject},
               live : Tags, again : BOOLEAN]

NoTags == [k \in Keys |-> NoValue]

Idle == [pc |-> "idle", obj |-> NoObject, live |-> NoTags, again |-> FALSE]

-----------------------------------------------------------------------------
setCondition(o, true, false) == [o EXCEPT !.conds = (@ \cup true) \ false]

Failing(o) == setCondition(o, {"Failed"}, {})

(* A write to the CR by the reconciles in writer; as in Lifecycle it may move
   the resourceVersion even if nothing modelled here changes. *)
Write(r, writer) ==
  \E bumped \in {TRUE, r # cr} :
    /\ cr' = r
    /\ freshCache' = IF bumped THEN {} ELSE freshCache
    /\ freshProc' = IF bumped THEN {} ELSE freshProc \ writer

Goto(p, pc, o, again) ==
  /\ proc' = [proc EXCEPT ![p].pc = pc, ![p].obj = o, ![p].again = again]
  /\ UNCHANGED <<cr, cache, freshCache, queued, freshProc, edits, overtaken>>

Return(p, again) ==
  /\ proc' = [proc EXCEPT ![p] = Idle]
  /\ queued' = IF again THEN queued \cup {p} ELSE queued
  /\ UNCHANGED <<cache, fs, edits, overtaken>>

-----------------------------------------------------------------------------
(* reconcilePoll: what Get answers *)

Reconcile(p) ==
  /\ proc[p].pc = "idle"
  /\ p \in queued
  /\ queued' = queued \ {p}
  /\ proc' = [proc EXCEPT ![p] = [Idle EXCEPT !.pc = "get", !.obj = cache[p]]]
  /\ freshProc' = IF p \in freshCache THEN freshProc \cup {p} ELSE freshProc
  /\ UNCHANGED <<cr, cache, freshCache, fs, edits, overtaken>>

GetPending(p) ==
  /\ proc[p].pc = "get"
  /\ fs.growing # 0 /\ ~fs.failed
  /\ Return(p, TRUE)
  /\ freshProc' = freshProc \ {p}
  /\ UNCHANGED <<cr, freshCache>>

GetErrored(p) ==
  /\ proc[p].pc = "get"
  /\ fs.failed
  /\ Goto(p, "patch", Failing(proc[p].obj), FALSE)
  /\ UNCHANGED fs

GetAvailable(p) ==
  /\ proc[p].pc = "get"
  /\ fs.growing = 0
  /\ UNCHANGED fs

(* The last error is cleared first, whatever follows. *)
Cleared(p) == setCondition(proc[p].obj, {}, {"Failed"})

GrowWanted(p) ==
  /\ GetAvailable(p)
  /\ proc[p].obj.size > fs.size
  /\ "Expanding" \notin proc[p].obj.conds
  /\ Goto(p, "expand", Cleared(p), TRUE)

GrowMarked(p) ==
  /\ GetAvailable(p)
  /\ proc[p].obj.size > fs.size
  /\ "Expanding" \in proc[p].obj.conds
  /\ Goto(p, "patch", Cleared(p), TRUE)

(* Whether the spec names another type, zone, network or key than the FS has. *)
immutableDrift(o) == o.moved

(* Mutant: the end of an expansion does not take the marker away. *)
Sized_KeepsMarker(p) ==
  IF proc[p].obj.size < fs.size \/ immutableDrift(proc[p].obj)
  THEN Failing(Cleared(p)) ELSE Cleared(p)

(* The object once size and immutable fields were looked at: a smaller size is
   refused, the size asked for ends an expansion. *)
Sized(p) ==
  LET o == IF proc[p].obj.size = fs.size THEN setCondition(Cleared(p), {}, {"Expanding"})
                                         ELSE Cleared(p)
  IN IF proc[p].obj.size < fs.size \/ immutableDrift(proc[p].obj) THEN Failing(o) ELSE o

SgDrift(p) == proc[p].obj.sg \notin {AutoGroup, fs.sg}

SgSettled(p) == setCondition(Sized(p), {}, {"UpdatingSecurityGroup"})

SgBusy(p) ==
  /\ GetAvailable(p)
  /\ proc[p].obj.size <= fs.size
  /\ SgDrift(p) /\ fs.moving # NoGroup
  /\ Goto(p, "patch", setCondition(Sized(p), {"UpdatingSecurityGroup"}, {}), TRUE)

SgWanted(p) ==
  /\ GetAvailable(p)
  /\ proc[p].obj.size <= fs.size
  /\ SgDrift(p) /\ fs.moving = NoGroup
  /\ Goto(p, "changeSg", Sized(p), TRUE)

TagsSkipped(p) ==
  /\ GetAvailable(p)
  /\ proc[p].obj.size <= fs.size
  /\ ~SgDrift(p) /\ fs.moving # NoGroup
  /\ Goto(p, "patch", SgSettled(p), FALSE)

TagsWanted(p) ==
  /\ GetAvailable(p)
  /\ proc[p].obj.size <= fs.size
  /\ ~SgDrift(p) /\ fs.moving = NoGroup
  /\ Goto(p, "listTags", SgSettled(p), FALSE)

-----------------------------------------------------------------------------
(* Requests to Huawei.  The answer of one that is accepted may be lost. *)

(* Mutant: the marker is set before the request and survives its failure. *)
ExpandFails_Marked(p) ==
  /\ proc[p].pc = "expand"
  /\ Goto(p, "patch", setCondition(proc[p].obj, {"Failed", "Expanding"}, {}), TRUE)
  /\ UNCHANGED fs

ExpandFails(p) ==
  /\ proc[p].pc = "expand"
  /\ Goto(p, "patch", Failing(proc[p].obj), TRUE)
  /\ UNCHANGED fs

(* Mutant: the request carries the difference instead of the new size. *)
Expand_Difference(p) ==
  /\ proc[p].pc = "expand"
  /\ fs.growing = 0 /\ proc[p].obj.size > fs.size
  /\ fs' = [fs EXCEPT !.growing = proc[p].obj.size - fs.size]
  /\ Goto(p, "patch", setCondition(proc[p].obj, {"Expanding"}, {}), TRUE)

Expand(p) ==
  /\ proc[p].pc = "expand"
  /\ fs.growing = 0 /\ proc[p].obj.size > fs.size
  /\ fs' = [fs EXCEPT !.growing = proc[p].obj.size]
  /\ Goto(p, "patch", setCondition(proc[p].obj, {"Expanding"}, {}), TRUE)

ExpandLost(p) ==
  /\ proc[p].pc = "expand"
  /\ fs.growing = 0 /\ proc[p].obj.size > fs.size
  /\ fs' = [fs EXCEPT !.growing = proc[p].obj.size]
  /\ Goto(p, "patch", Failing(proc[p].obj), TRUE)

(* Also while a change is in flight, which another process may have begun since
   Get; Huawei then goes for the later group, or refuses. *)
ChangeSecurityGroup(p) ==
  /\ proc[p].pc = "changeSg"
  /\ fs' = [fs EXCEPT !.moving = proc[p].obj.sg]
  /\ Goto(p, "patch", setCondition(proc[p].obj, {"UpdatingSecurityGroup"}, {}), TRUE)

(* Refused, or accepted with the answer lost: no Failed condition here. *)
ChangeSecurityGroupFails(p) ==
  /\ proc[p].pc = "changeSg"
  /\ \E g \in {fs.moving, proc[p].obj.sg} : fs' = [fs EXCEPT !.moving = g]
  /\ Goto(p, "patch", setCondition(proc[p].obj, {}, {"UpdatingSecurityGroup"}), TRUE)

(* reconcileTagsDrift goes on with the tags that are now known to be live. *)
TagsKnown(p, live) ==
  /\ proc' = [proc EXCEPT ![p].pc = IF live = proc[p].obj.tags THEN "patch" ELSE "tag",
                          ![p].live = live]
  /\ UNCHANGED <<cr, cache, freshCache, queued, freshProc, edits, overtaken>>

ListTags(p) ==
  /\ proc[p].pc = "listTags"
  /\ TagsKnown(p, fs.tags)
  /\ UNCHANGED fs

ToAdd(p) == {k \in Keys : proc[p].obj.tags[k] \notin {NoValue, proc[p].live[k]}}
ToDelete(p) == {k \in Keys : proc[p].obj.tags[k] = NoValue /\ proc[p].live[k] # NoValue}

AddTag(p) ==
  /\ proc[p].pc = "tag"
  /\ \E k \in ToAdd(p) :
       /\ fs' = [fs EXCEPT !.tags[k] = proc[p].obj.tags[k]]
       /\ TagsKnown(p, [proc[p].live EXCEPT ![k] = proc[p].obj.tags[k]])

(* Only once nothing is left to add; a tag that is already gone is no error. *)
DeleteTag(p) ==
  /\ proc[p].pc = "tag"
  /\ ToAdd(p) = {}
  /\ \E k \in ToDelete(p) :
       /\ fs' = [fs EXCEPT !.tags[k] = NoValue]
       /\ TagsKnown(p, [proc[p].live EXCEPT ![k] = NoValue])

(* A tag call fails, applied or not: Failed is set and no error is returned. *)
TagFails(p) ==
  /\ proc[p].pc \in {"listTags", "tag"}
  /\ \E t \in {fs.tags} \cup {[fs.tags EXCEPT ![k] = proc[p].obj.tags[k]] :
                                k \in IF ToAdd(p) # {} THEN ToAdd(p) ELSE ToDelete(p)} :
       /\ proc[p].pc = "listTags" => t = fs.tags
       /\ fs' = [fs EXCEPT !.tags = t]
  /\ Goto(p, "patch", Failing(proc[p].obj), FALSE)

GetFails(p) ==
  /\ proc[p].pc = "get"
  /\ Goto(p, "patch", Failing(proc[p].obj), TRUE)
  /\ UNCHANGED fs

-----------------------------------------------------------------------------
(* patchStatus *)

patchStatus(p) ==
  /\ proc[p].pc = "patch"
  /\ p \in freshProc
  /\ Write([cr EXCEPT !.conds = proc[p].obj.conds], {p})
  /\ \E again \in {proc[p].again, TRUE} : Return(p, again)

(* A conflict or a transient error: the key is queued again. *)
PatchRefused(p) ==
  /\ proc[p].pc = "patch"
  /\ Return(p, TRUE)
  /\ freshProc' = freshProc \ {p}
  /\ UNCHANGED <<cr, freshCache>>

-----------------------------------------------------------------------------
(* The operator process, users, the console and Huawei *)

Observe(p) ==
  /\ p \notin freshCache
  /\ cache' = [cache EXCEPT ![p] = cr]
  /\ freshCache' = freshCache \cup {p}
  /\ queued' = queued \cup {p}
  /\ UNCHANGED <<cr, proc, freshProc, fs, edits, overtaken>>

Resync(p) ==
  /\ p \notin queued
  /\ queued' = queued \cup {p}
  /\ UNCHANGED <<cr, cache, freshCache, proc, freshProc, fs, edits, overtaken>>

Crash(p) ==
  /\ proc' = [proc EXCEPT ![p] = Idle]
  /\ cache' = [cache EXCEPT ![p] = cr]
  /\ freshCache' = freshCache \cup {p}
  /\ freshProc' = freshProc \ {p}
  /\ queued' = queued \cup {p}
  /\ UNCHANGED <<cr, fs, edits, overtaken>>

Edit == edits < MaxEdits /\ edits' = edits + 1

EditSpec ==
  /\ Edit
  /\ \E s \in Sizes, g \in Groups \cup {AutoGroup}, t \in Tags, m \in Moves :
       LET r == [cr EXCEPT !.size = s, !.sg = g, !.tags = t, !.moved = m] IN
       /\ r # cr
       /\ Write(r, {})
       /\ overtaken' = (overtaken \/ (s # cr.size /\ "Expanding" \in cr.conds))
  /\ UNCHANGED <<cache, queued, proc, fs>>

(* Someone grows or tags the FS in the console. *)
Console ==
  /\ Edit
  /\ \/ /\ fs.growing = 0
        /\ \E s \in Sizes : s > fs.size /\ fs' = [fs EXCEPT !.growing = s]
     \/ \E k \in Keys, v \in Values \cup {NoValue} : fs' = [fs EXCEPT !.tags[k] = v]
  /\ UNCHANGED <<cr, cache, freshCache, queued, proc, freshProc, overtaken>>

Aside == UNCHANGED <<cr, cache, freshCache, queued, proc, freshProc, edits>>

Elsewhere == Aside /\ UNCHANGED overtaken

Grown ==
  /\ fs.growing # 0 /\ ~fs.failed
  /\ fs' = [fs EXCEPT !.size = fs.growing, !.growing = 0]
  /\ Elsewhere

GrowFails ==
  /\ fs.growing # 0 /\ ~fs.failed
  /\ fs' = [fs EXCEPT !.failed = TRUE]
  /\ Elsewhere

(* A failed expansion is taken up again, or the FS goes back to what it was. *)
Resume ==
  /\ fs.failed
  /\ fs' = [fs EXCEPT !.failed = FALSE]
  /\ Elsewhere

Abandon ==
  /\ fs.failed
  /\ fs' = [fs EXCEPT !.failed = FALSE, !.growing = 0]
  /\ overtaken' = TRUE
  /\ Aside

SgChanged ==
  /\ fs.moving # NoGroup
  /\ fs' = [fs EXCEPT !.sg = fs.moving, !.moving = NoGroup]
  /\ Elsewhere

SgChangeFails ==
  /\ fs.moving # NoGroup
  /\ fs' = [fs EXCEPT !.moving = NoGroup]
  /\ Elsewhere

-----------------------------------------------------------------------------
(* The FS was created for the CR or adopted by its name with other tags, size
   and security group than the spec asks for. *)
Init ==
  /\ cr \in {r \in CR : ~r.moved /\ r.conds = {}}
  /\ cache = [p \in Operators |-> cr]
  /\ freshCache = Operators
  /\ queued = Operators
  /\ proc = [p \in Operators |-> Idle]
  /\ freshProc = {}
  /\ fs \in {f \in Shares : f.growing = 0 /\ ~f.failed /\ f.moving = NoGroup}
  /\ edits = 0
  /\ overtaken = FALSE

Get(p) ==
  \/ GetPending(p) \/ GetErrored(p) \/ GetFails(p)
  \/ GrowWanted(p) \/ GrowMarked(p)
  \/ SgBusy(p) \/ SgWanted(p)
  \/ TagsSkipped(p) \/ TagsWanted(p)

Request(p) ==
  \/ Expand(p) \/ ExpandLost(p) \/ ExpandFails(p)
  \/ ChangeSecurityGroup(p) \/ ChangeSecurityGroupFails(p)
  \/ ListTags(p) \/ AddTag(p) \/ DeleteTag(p) \/ TagFails(p)

Patch(p) == patchStatus(p) \/ PatchRefused(p)

Operator(p) == Reconcile(p) \/ Get(p) \/ Request(p) \/ Patch(p)

Informer(p) == Observe(p) \/ Resync(p)

Next ==
  \/ \E p \in Operators : Operator(p) \/ Informer(p) \/ Crash(p)
  \/ EditSpec \/ Console
  \/ Grown \/ GrowFails \/ Resume \/ Abandon \/ SgChanged \/ SgChangeFails

Spec == Init /\ [][Next]_vars

-----------------------------------------------------------------------------
TypeOK ==
  /\ cr \in CR
  /\ cache \in [Operators -> CR]
  /\ freshCache \subseteq Operators
  /\ queued \subseteq Operators
  /\ proc \in [Operators -> Reconciles]
  /\ freshProc \subseteq Operators
  /\ \A p \in Operators :
       /\ proc[p].pc # "idle" => proc[p].obj \in CR
       /\ proc[p].pc = "changeSg" => proc[p].obj.sg \in Groups
       /\ p \in freshProc => proc[p].pc # "idle"
  /\ fs \in Shares
  /\ fs.failed => fs.growing # 0
  /\ edits \in 0 .. MaxEdits
  /\ overtaken \in BOOLEAN

(* Expanding is the operator's only memory of an ExpandShare (line 409): while
   it is True none is issued, so an FS below the size asked for must really be
   growing, whatever was lost, crashed or read from an old copy.  Holds until
   somebody edits spec.size while Expanding is True, or Huawei gives an
   expansion up. *)
ExpandingMarkerSound ==
  ~overtaken /\ "Expanding" \in cr.conds /\ fs.size < cr.size => fs.growing # 0

-----------------------------------------------------------------------------
(* The inductive invariant behind the theorems of DriftProofs *)

CacheCurrent == \A p \in freshCache : cache[p] = cr

(* Nobody asks for a smaller FS. *)
GrowsUp == fs.growing # 0 => fs.growing > fs.size

(* The size a marked object asks for is there or on its way. *)
Backed(o) == "Expanding" \in o.conds => fs.size >= o.size \/ fs.growing >= o.size

(* The marker is backed in the CR and in a current copy, which asks for the
   stored size. *)
MarkerBacked ==
  ~overtaken =>
    /\ Backed(cr)
    /\ \A p \in freshProc : proc[p].obj.size = cr.size /\ Backed(proc[p].obj)

DriftInv == TypeOK /\ CacheCurrent /\ GrowsUp /\ MarkerBacked

-----------------------------------------------------------------------------
(* Every call returns, the queue is served, the watch delivers, Huawei ends
   what it began. *)
Fairness ==
  /\ \A p \in Operators : WF_vars(Operator(p)) /\ WF_vars(Observe(p))
  /\ WF_vars(Grown) /\ WF_vars(Resume \/ Abandon) /\ WF_vars(SgChanged)

LiveSpec == Spec /\ Fairness

Resyncs == \A p \in Operators : WF_vars(Resync(p))

CanExpand(p) == fs.growing = 0 /\ proc[p].obj.size > fs.size

Fault(p) ==
  \/ GetFails(p) /\ ~fs.failed
  \/ ExpandFails(p) /\ CanExpand(p)
  \/ ExpandLost(p) \/ ChangeSecurityGroupFails(p) \/ TagFails(p)
  \/ PatchRefused(p) /\ p \in freshProc
  \/ Crash(p) /\ proc[p].pc # "idle"

(* What goes well; a step that is both this and a fault is none. *)
Regular(p) ==
  \/ GetPending(p) \/ GetErrored(p)
  \/ GrowWanted(p) \/ GrowMarked(p) \/ SgBusy(p) \/ SgWanted(p)
  \/ TagsSkipped(p) \/ TagsWanted(p) \/ Expand(p) \/ ChangeSecurityGroup(p)
  \/ ListTags(p) \/ AddTag(p) \/ DeleteTag(p)
  \/ patchStatus(p)
  \/ PatchRefused(p) /\ p \notin freshProc

(* From some point on nobody edits anything and nothing fails. *)
Quiet ==
  <>[][EditSpec \/ Console \/ GrowFails \/ SgChangeFails \/ (\E p \in Operators : Fault(p))
       => SgChanged \/ \E p \in Operators : Regular(p)]_vars

Reached ==
  /\ cr.size <= fs.size
  /\ cr.sg \in {AutoGroup, fs.sg}
  /\ cr.tags = fs.tags

(* The conditions tell what is left: a size or field that cannot be reached. *)
Told ==
  /\ "Failed" \in cr.conds <=> cr.size < fs.size \/ cr.moved
  /\ "UpdatingSecurityGroup" \notin cr.conds
  /\ "Expanding" \in cr.conds => cr.size < fs.size

(* The FS reaches its spec and the conditions tell the truth in the end, after
   any partial tag update, lost answer or edit in the middle of a change.  The
   resync is needed: nothing else shows what the console changed, a failed tag
   call ends the reconcile without an error (line 517), and a security group
   that is changed back during a change is taken for settled (line 471). *)
Converges == Quiet /\ Resyncs /\ []~overtaken => <>[](Reached /\ Told)

(* "When spec.size > status.size, the operator issues an ExpandShare"
   (sfsturboinstance_types.go:188-189): an FS that is too small grows in the
   end.  It does not when spec.size was raised again during an expansion:
   Expanding is only taken away where the two sizes are equal (line 441). *)
Grows == Quiet /\ Resyncs => <>[](cr.size <= fs.size)
=============================================================================
