----------------------------- MODULE DriftProofs -----------------------------
(***************************************************************************)
(* Proofs about Drift for any sizes, security groups and tags, any number  *)
(* of operator processes and any number of edits.                          *)
(***************************************************************************)
EXTENDS Drift, TLAPS

(* setCondition returns a CR and changes nothing but the conditions. *)
LEMMA SetCondition ==
  ASSUME NEW o \in CR, NEW true \in SUBSET Conditions, NEW false \in SUBSET Conditions
  PROVE  /\ setCondition(o, true, false) \in CR
         /\ setCondition(o, true, false).size = o.size
         /\ setCondition(o, true, false).sg = o.sg
         /\ setCondition(o, true, false).conds = (o.conds \cup true) \ false
BY DEF setCondition, CR

(* x is what reconcilePoll makes of o: Expanding is never added. *)
Follows(o, x) ==
  /\ x \in CR
  /\ x.size = o.size /\ x.sg = o.sg
  /\ "Expanding" \in x.conds => "Expanding" \in o.conds

LEMMA FollowsStep ==
  ASSUME NEW o \in CR, NEW x, Follows(o, x),
         NEW true \in SUBSET Conditions, NEW false \in SUBSET Conditions,
         "Expanding" \notin true
  PROVE  Follows(o, setCondition(x, true, false))
BY SetCondition DEF Follows

(* The conditions that reconcilePoll names. *)
LEMMA Named ==
  /\ {} \in SUBSET Conditions
  /\ {"Failed"} \in SUBSET Conditions
  /\ {"Expanding"} \in SUBSET Conditions
  /\ {"UpdatingSecurityGroup"} \in SUBSET Conditions
  /\ "Expanding" \notin {"Failed"} /\ "Expanding" \notin {}
  /\ "Expanding" \notin {"UpdatingSecurityGroup"}
BY DEF Conditions

(* Every object that a poll goes on with follows the one it read. *)
LEMMA PollObjects ==
  ASSUME NEW p \in Operators, proc[p].obj \in CR
  PROVE  /\ Follows(proc[p].obj, Failing(proc[p].obj))
         /\ Follows(proc[p].obj, Cleared(p))
         /\ Follows(proc[p].obj, Sized(p))
         /\ Follows(proc[p].obj, SgSettled(p))
         /\ Follows(proc[p].obj, setCondition(Sized(p), {"UpdatingSecurityGroup"}, {}))
<1>1. Follows(proc[p].obj, proc[p].obj)
  BY DEF Follows
<1>2. Follows(proc[p].obj, Failing(proc[p].obj)) /\ Follows(proc[p].obj, Cleared(p))
  BY <1>1, Named, FollowsStep DEF Failing, Cleared
<1>3. Follows(proc[p].obj, setCondition(Cleared(p), {}, {"Expanding"}))
  BY <1>2, Named, FollowsStep
<1>4. Follows(proc[p].obj, Sized(p))
  BY <1>2, <1>3, Named, FollowsStep DEF Sized, Failing
<1>5. /\ Follows(proc[p].obj, SgSettled(p))
      /\ Follows(proc[p].obj, setCondition(Sized(p), {"UpdatingSecurityGroup"}, {}))
  BY <1>4, Named, FollowsStep DEF SgSettled
<1>. QED BY <1>2, <1>4, <1>5

-----------------------------------------------------------------------------
(* Types *)

(* A process whose reconcile becomes r, whatever the others are doing. *)
LEMMA ProcKeeps ==
  ASSUME TypeOK, NEW p \in Operators, NEW r \in Reconciles,
         proc' = [proc EXCEPT ![p] = r],
         r.pc # "idle" => r.obj \in CR,
         r.pc = "changeSg" => r.obj.sg \in Groups,
         freshProc' \subseteq freshProc \cup {p},
         p \in freshProc' => r.pc # "idle",
         cr' \in CR, cache' \in [Operators -> CR], freshCache' \subseteq Operators,
         queued' \subseteq Operators,
         fs' \in Shares, fs'.failed => fs'.growing # 0,
         edits' = edits, overtaken' = overtaken
  PROVE  TypeOK'
<1>1. proc' \in [Operators -> Reconciles] /\ proc'[p] = r
  BY DEF TypeOK
<1>2. \A q \in Operators : q # p => proc'[q] = proc[q]
  BY DEF TypeOK
<1>3. \A q \in Operators :
        /\ proc'[q].pc # "idle" => proc'[q].obj \in CR
        /\ proc'[q].pc = "changeSg" => proc'[q].obj.sg \in Groups
        /\ q \in freshProc' => proc'[q].pc # "idle"
  <2>. TAKE q \in Operators
  <2>1. CASE q = p
    BY <1>1, <2>1
  <2>2. CASE q # p
    BY <1>2, <2>2 DEF TypeOK
  <2>. QED BY <2>1, <2>2
<1>4. freshProc' \subseteq Operators
  BY DEF TypeOK
<1>. QED BY <1>1, <1>3, <1>4 DEF TypeOK

(* A step that goes on to call pc with object o. *)
LEMMA GotoKeeps ==
  ASSUME TypeOK, NEW p \in Operators, proc[p].pc # "idle",
         NEW pc \in Calls \cup {"patch"}, NEW o \in CR, NEW again \in BOOLEAN,
         Goto(p, pc, o, again),
         fs' \in Shares, fs'.failed => fs'.growing # 0,
         pc = "changeSg" => o.sg \in Groups
  PROVE  TypeOK'
<1>. DEFINE r == [proc[p] EXCEPT !.pc = pc, !.obj = o, !.again = again]
<1>1. r \in Reconciles /\ r.pc = pc /\ r.obj = o
  BY DEF TypeOK, Reconciles
<1>2. proc' = [proc EXCEPT ![p] = r]
  BY DEF Goto
<1>3. pc # "idle"
  BY DEF Calls
<1>. HIDE DEF r
<1>4. /\ cr' \in CR /\ cache' \in [Operators -> CR] /\ freshCache' \subseteq Operators
      /\ queued' \subseteq Operators /\ freshProc' \subseteq freshProc \cup {p}
      /\ edits' = edits /\ overtaken' = overtaken
  BY DEF Goto, TypeOK
<1>. QED BY <1>1, <1>2, <1>3, <1>4, ProcKeeps

LEMMA IdleType == Idle \in Reconciles /\ Idle.pc = "idle"
BY DEF Idle, Reconciles, NoTags, Tags

(* A step that ends the reconcile. *)
LEMMA ReturnKeeps ==
  ASSUME TypeOK, NEW p \in Operators, NEW again \in BOOLEAN, Return(p, again),
         cr' \in CR, freshProc' \subseteq freshProc \ {p}, freshCache' \subseteq freshCache
  PROVE  TypeOK'
<1>1. proc' = [proc EXCEPT ![p] = Idle]
  BY DEF Return
<1>2. /\ cache' \in [Operators -> CR] /\ freshCache' \subseteq Operators
      /\ queued' \subseteq Operators /\ freshProc' \subseteq freshProc \cup {p}
      /\ fs' \in Shares /\ (fs'.failed => fs'.growing # 0) /\ p \notin freshProc'
      /\ edits' = edits /\ overtaken' = overtaken
  BY DEF Return, TypeOK
<1>. QED BY <1>1, <1>2, IdleType, ProcKeeps

(* A step of a tag update, which knows live to be the tags of the FS. *)
LEMMA TagsKeep ==
  ASSUME TypeOK, NEW p \in Operators, proc[p].pc \in {"listTags", "tag"},
         NEW live \in Tags, TagsKnown(p, live),
         fs' \in Shares, fs'.failed = fs.failed, fs'.growing = fs.growing
  PROVE  TypeOK'
<1>. DEFINE pc == IF live = proc[p].obj.tags THEN "patch" ELSE "tag"
            r == [proc[p] EXCEPT !.pc = pc, !.live = live]
<1>1. /\ r \in Reconciles /\ r.pc \in {"patch", "tag"} /\ r.obj = proc[p].obj
      /\ proc[p].obj \in CR
  BY DEF TypeOK, Reconciles, Calls
<1>2. proc' = [proc EXCEPT ![p] = r]
  BY DEF TagsKnown
<1>. HIDE DEF r, pc
<1>3. /\ cr' \in CR /\ cache' \in [Operators -> CR] /\ freshCache' \subseteq Operators
      /\ queued' \subseteq Operators /\ freshProc' \subseteq freshProc \cup {p}
      /\ (fs'.failed => fs'.growing # 0)
      /\ edits' = edits /\ overtaken' = overtaken
  BY DEF TagsKnown, TypeOK
<1>. QED BY <1>1, <1>2, <1>3, ProcKeeps

(* A write moves the resourceVersion or leaves the CR as it was. *)
LEMMA WriteEffect ==
  ASSUME NEW r \in CR, NEW writer, Write(r, writer)
  PROVE  /\ cr' = r
         /\ freshCache' \subseteq freshCache /\ freshProc' \subseteq freshProc
         /\ cr' # cr => freshCache' = {} /\ freshProc' = {}
         /\ freshProc' \subseteq freshProc \ writer
BY DEF Write

LEMMA TypeInit == Init => TypeOK
<1>. SUFFICES ASSUME Init PROVE TypeOK
  OBVIOUS
<1>1. proc \in [Operators -> Reconciles] /\ \A p \in Operators : proc[p].pc = "idle"
  BY IdleType DEF Init
<1>2. /\ cr \in CR /\ cache \in [Operators -> CR]
      /\ freshCache \subseteq Operators /\ queued \subseteq Operators /\ freshProc = {}
  BY DEF Init
<1>3. fs \in Shares /\ ~fs.failed
  BY DEF Init
<1>4. overtaken \in BOOLEAN /\ edits = 0
  BY DEF Init
<1>5. edits \in 0 .. MaxEdits
  BY <1>4, ConstantsAssumption
<1>. QED BY <1>1, <1>2, <1>3, <1>4, <1>5 DEF TypeOK

LEMMA GetType ==
  ASSUME TypeOK, NEW p \in Operators, Get(p)
  PROVE  TypeOK'
<1>1. proc[p].pc = "get" /\ proc[p].pc # "idle" /\ proc[p].obj \in CR /\ UNCHANGED fs
  BY DEF Get, GetPending, GetErrored, GetFails, GrowWanted, GrowMarked, SgBusy, SgWanted,
         TagsSkipped, TagsWanted, GetAvailable, TypeOK, Return
<1>2. fs' \in Shares /\ (fs'.failed => fs'.growing # 0)
  BY <1>1 DEF TypeOK
<1>3. /\ Failing(proc[p].obj) \in CR /\ Cleared(p) \in CR /\ Sized(p) \in CR /\ SgSettled(p) \in CR
      /\ setCondition(Sized(p), {"UpdatingSecurityGroup"}, {}) \in CR
  BY <1>1, PollObjects DEF Follows
<1>4. SgDrift(p) => Sized(p).sg \in Groups
  BY <1>1, PollObjects DEF Follows, SgDrift, CR
<1>5. CASE GetPending(p)
  BY <1>5, ReturnKeeps DEF GetPending, TypeOK
<1>6. CASE GetErrored(p) \/ GetFails(p)
  BY <1>1, <1>2, <1>3, <1>6, GotoKeeps DEF GetErrored, GetFails, Calls
<1>7. CASE GrowWanted(p) \/ GrowMarked(p)
  BY <1>1, <1>2, <1>3, <1>7, GotoKeeps DEF GrowWanted, GrowMarked, Calls
<1>8. CASE SgBusy(p) \/ SgWanted(p)
  BY <1>1, <1>2, <1>3, <1>8, <1>4, GotoKeeps DEF SgBusy, SgWanted, Calls
<1>9. CASE TagsSkipped(p) \/ TagsWanted(p)
  BY <1>1, <1>2, <1>3, <1>9, GotoKeeps DEF TagsSkipped, TagsWanted, Calls
<1>. QED BY <1>5, <1>6, <1>7, <1>8, <1>9 DEF Get

(* The changes that requests and the console make to the FS. *)
LEMMA FsUpdates ==
  ASSUME TypeOK
  PROVE  /\ \A s \in Sizes : [fs EXCEPT !.growing = s] \in Shares
         /\ \A g \in Groups \cup {NoGroup} : [fs EXCEPT !.moving = g] \in Shares
         /\ \A t \in Tags : [fs EXCEPT !.tags = t] \in Shares
         /\ \A k \in Keys, v \in Values \cup {NoValue} :
              /\ [fs EXCEPT !.tags[k] = v] \in Shares
              /\ [fs.tags EXCEPT ![k] = v] \in Tags
<1>1. fs \in Shares /\ fs.tags \in Tags
  BY DEF TypeOK, Shares
<1>2. \A k \in Keys, v \in Values \cup {NoValue} : [fs.tags EXCEPT ![k] = v] \in Tags
  BY <1>1 DEF Tags
<1>3. /\ \A s \in Sizes : [fs EXCEPT !.growing = s] \in Shares
      /\ \A g \in Groups \cup {NoGroup} : [fs EXCEPT !.moving = g] \in Shares
      /\ \A t \in Tags : [fs EXCEPT !.tags = t] \in Shares
  BY <1>1 DEF Shares
<1>4. \A k, v : [fs EXCEPT !.tags[k] = v] = [fs EXCEPT !.tags = [fs.tags EXCEPT ![k] = v]]
  BY <1>1 DEF Shares
<1>. QED BY <1>2, <1>3, <1>4

LEMMA LiveUpdates ==
  ASSUME TypeOK, NEW p \in Operators, NEW k \in Keys, NEW v \in Values \cup {NoValue}
  PROVE  [proc[p].live EXCEPT ![k] = v] \in Tags
<1>1. proc[p].live \in Tags
  BY DEF TypeOK, Reconciles
<1>. QED BY <1>1 DEF Tags

LEMMA RequestType ==
  ASSUME TypeOK, NEW p \in Operators, Request(p)
  PROVE  TypeOK'
<1>1. proc[p].pc # "idle" /\ proc[p].obj \in CR
  BY DEF Request, Expand, ExpandLost, ExpandFails, ChangeSecurityGroup, ChangeSecurityGroupFails,
         ListTags, AddTag, DeleteTag, TagFails, TypeOK
<1>2. /\ proc[p].obj.size \in Sizes /\ proc[p].obj.size # 0 /\ proc[p].obj.tags \in Tags
      /\ fs \in Shares /\ (fs.failed => fs.growing # 0)
  BY <1>1, ConstantsAssumption DEF CR, TypeOK
<1>3. /\ Failing(proc[p].obj) \in CR
      /\ setCondition(proc[p].obj, {"Expanding"}, {}) \in CR
      /\ setCondition(proc[p].obj, {"UpdatingSecurityGroup"}, {}) \in CR
      /\ setCondition(proc[p].obj, {}, {"UpdatingSecurityGroup"}) \in CR
  BY <1>1, Named, SetCondition DEF Failing
<1>4. CASE Expand(p) \/ ExpandLost(p)
  <2>1. fs' = [fs EXCEPT !.growing = proc[p].obj.size]
    BY <1>4 DEF Expand, ExpandLost
  <2>2. fs' \in Shares /\ fs'.growing # 0
    BY <2>1, <1>2, FsUpdates DEF TypeOK, Shares
  <2>. QED BY <1>1, <1>3, <1>4, <2>2, GotoKeeps DEF Expand, ExpandLost
<1>5. CASE ExpandFails(p)
  BY <1>1, <1>2, <1>3, <1>5, GotoKeeps DEF ExpandFails
<1>6. CASE ChangeSecurityGroup(p) \/ ChangeSecurityGroupFails(p)
  <2>1. PICK g \in Groups \cup {NoGroup} : fs' = [fs EXCEPT !.moving = g]
    BY <1>2, <1>6 DEF ChangeSecurityGroup, ChangeSecurityGroupFails, TypeOK, Shares
  <2>2. fs' \in Shares /\ (fs'.failed => fs'.growing # 0)
    BY <2>1, <1>2, FsUpdates DEF TypeOK, Shares
  <2>. QED BY <1>1, <1>3, <1>6, <2>2, GotoKeeps DEF ChangeSecurityGroup, ChangeSecurityGroupFails
<1>7. CASE ListTags(p)
  <2>1. fs.tags \in Tags
    BY <1>2 DEF Shares
  <2>. QED BY <1>2, <1>7, <2>1, TagsKeep DEF ListTags
<1>8. CASE AddTag(p) \/ DeleteTag(p)
  <2>1. PICK k \in Keys, v \in Values \cup {NoValue} :
          /\ fs' = [fs EXCEPT !.tags[k] = v]
          /\ TagsKnown(p, [proc[p].live EXCEPT ![k] = v])
    BY <1>2, <1>8 DEF AddTag, DeleteTag, ToAdd, ToDelete, Tags
  <2>2. /\ fs' \in Shares /\ [proc[p].live EXCEPT ![k] = v] \in Tags
        /\ fs'.failed = fs.failed /\ fs'.growing = fs.growing
    BY <2>1, <1>2, FsUpdates, LiveUpdates DEF TypeOK, Shares
  <2>. QED BY <1>8, <2>1, <2>2, TagsKeep DEF AddTag, DeleteTag
<1>9. CASE TagFails(p)
  <2>1. PICK t \in Tags : fs' = [fs EXCEPT !.tags = t]
    <3>1. \A k \in ToAdd(p) \cup ToDelete(p) : [fs.tags EXCEPT ![k] = proc[p].obj.tags[k]] \in Tags
      BY <1>2, FsUpdates DEF ToAdd, ToDelete, Tags, TypeOK
    <3>. QED BY <1>2, <1>9, <3>1 DEF TagFails, Shares
  <2>2. fs' \in Shares /\ (fs'.failed => fs'.growing # 0)
    BY <2>1, <1>2, FsUpdates DEF TypeOK, Shares
  <2>. QED BY <1>1, <1>3, <1>9, <2>2, GotoKeeps DEF TagFails
<1>. QED BY <1>4, <1>5, <1>6, <1>7, <1>8, <1>9 DEF Request

LEMMA PatchType ==
  ASSUME TypeOK, NEW p \in Operators, Patch(p)
  PROVE  TypeOK'
<1>1. CASE patchStatus(p)
  <2>1. [cr EXCEPT !.conds = proc[p].obj.conds] \in CR
    BY <1>1 DEF patchStatus, TypeOK, CR
  <2>2. cr' \in CR /\ freshProc' \subseteq freshProc \ {p} /\ freshCache' \subseteq freshCache
    BY <1>1, <2>1, WriteEffect DEF patchStatus
  <2>. QED BY <1>1, <2>2, ReturnKeeps DEF patchStatus, TypeOK, Reconciles
<1>2. CASE PatchRefused(p)
  BY <1>2, ReturnKeeps DEF PatchRefused, TypeOK
<1>. QED BY <1>1, <1>2 DEF Patch

LEMMA ReconcileType ==
  ASSUME TypeOK, NEW p \in Operators, Reconcile(p)
  PROVE  TypeOK'
<1>. DEFINE r == [Idle EXCEPT !.pc = "get", !.obj = cache[p]]
<1>1. r \in Reconciles /\ r.pc = "get" /\ r.obj \in CR
  BY IdleType DEF Idle, Reconciles, Calls, TypeOK
<1>2. proc' = [proc EXCEPT ![p] = r]
  BY DEF Reconcile
<1>. HIDE DEF r
<1>3. /\ cr' \in CR /\ cache' \in [Operators -> CR] /\ freshCache' \subseteq Operators
      /\ queued' \subseteq Operators /\ freshProc' \subseteq freshProc \cup {p}
      /\ fs' \in Shares /\ (fs'.failed => fs'.growing # 0)
      /\ edits' = edits /\ overtaken' = overtaken
  BY DEF Reconcile, TypeOK
<1>. QED BY <1>1, <1>2, <1>3, ProcKeeps

LEMMA ProcessType ==
  ASSUME TypeOK, NEW p \in Operators, Informer(p) \/ Crash(p)
  PROVE  TypeOK'
<1>1. CASE Observe(p)
  BY <1>1 DEF Observe, TypeOK
<1>2. CASE Resync(p)
  BY <1>2 DEF Resync, TypeOK
<1>3. CASE Crash(p)
  <2>1. /\ proc' = [proc EXCEPT ![p] = Idle]
        /\ cr' \in CR /\ cache' \in [Operators -> CR] /\ freshCache' \subseteq Operators
        /\ queued' \subseteq Operators /\ freshProc' \subseteq freshProc \cup {p}
        /\ p \notin freshProc'
        /\ fs' \in Shares /\ (fs'.failed => fs'.growing # 0)
        /\ edits' = edits /\ overtaken' = overtaken
    BY <1>3 DEF Crash, TypeOK
  <2>. QED BY <2>1, IdleType, ProcKeeps
<1>. QED BY <1>1, <1>2, <1>3 DEF Informer

(* Steps of users and of Huawei. *)
Outside ==
  \/ EditSpec \/ Console
  \/ Grown \/ GrowFails \/ Resume \/ Abandon \/ SgChanged \/ SgChangeFails

LEMMA OutsideType == TypeOK /\ Outside => TypeOK'
<1>. SUFFICES ASSUME TypeOK, Outside PROVE TypeOK'
  OBVIOUS
<1>. USE DEF TypeOK
<1>4. CASE EditSpec
  <2>1. PICK s \in Sizes, g \in Groups \cup {AutoGroup}, t \in Tags, m \in Moves :
          Write([cr EXCEPT !.size = s, !.sg = g, !.tags = t, !.moved = m], {})
    BY <1>4 DEF EditSpec
  <2>2. [cr EXCEPT !.size = s, !.sg = g, !.tags = t, !.moved = m] \in CR
    BY <2>1, ConstantsAssumption DEF CR
  <2>3. cr' \in CR /\ freshCache' \subseteq freshCache /\ freshProc' \subseteq freshProc
    BY <2>1, <2>2, WriteEffect
  <2>. QED BY <1>4, <2>3, ConstantsAssumption DEF EditSpec, Edit
<1>5. CASE Console
  <2>1. fs' \in Shares /\ (fs'.failed => fs'.growing # 0)
    <3>1. CASE \E s \in Sizes : fs' = [fs EXCEPT !.growing = s]
      BY <3>1, FsUpdates, ConstantsAssumption DEF Shares
    <3>2. CASE \E k \in Keys, v \in Values \cup {NoValue} : fs' = [fs EXCEPT !.tags[k] = v]
      BY <3>2, FsUpdates DEF Shares
    <3>. QED BY <1>5, <3>1, <3>2 DEF Console
  <2>. QED BY <1>5, <2>1, ConstantsAssumption DEF Console, Edit
<1>6. CASE Grown \/ GrowFails \/ Resume \/ Abandon
  <2>1. fs' \in Shares /\ (fs'.failed => fs'.growing # 0)
    BY <1>6 DEF Grown, GrowFails, Resume, Abandon, Shares, Elsewhere
  <2>. QED BY <1>6, <2>1 DEF Grown, GrowFails, Resume, Abandon, Elsewhere, Aside
<1>7. CASE SgChanged \/ SgChangeFails
  <2>1. fs' \in Shares /\ (fs'.failed => fs'.growing # 0)
    BY <1>7 DEF SgChanged, SgChangeFails, Shares
  <2>. QED BY <1>7, <2>1 DEF SgChanged, SgChangeFails, Elsewhere, Aside
<1>. QED BY <1>4, <1>5, <1>6, <1>7 DEF Outside

LEMMA TypeStep == TypeOK /\ [Next]_vars => TypeOK'
<1>1. TypeOK /\ UNCHANGED vars => TypeOK'
  BY DEF TypeOK, vars
<1>. QED BY <1>1, GetType, RequestType, PatchType, ReconcileType, ProcessType, OutsideType
        DEF Next, Operator, Outside

(* The state keeps its types, whatever the spec asks for. *)
THEOREM TypeCorrect == Spec => []TypeOK
BY TypeInit, TypeStep, PTL DEF Spec

-----------------------------------------------------------------------------
(* The Expanding marker *)

LEMMA SizesPositive ==
  /\ \A o \in CR : o.size \in Nat /\ o.size > 0
  /\ \A f \in Shares : f.size \in Nat /\ f.size > 0 /\ f.growing \in Nat
<1>1. \A s \in Sizes : s \in Nat /\ s > 0
  BY ConstantsAssumption
<1>. QED BY <1>1 DEF CR, Shares

(* The FS keeps its size and target, starts to grow or has grown. *)
FsGrows ==
  \/ fs'.size = fs.size /\ fs'.growing = fs.growing
  \/ fs'.size = fs.size /\ fs.growing = 0 /\ fs'.growing > fs.size
  \/ fs'.size = fs.growing /\ fs.growing > fs.size /\ fs'.growing = 0

(* Backed depends on the size, the marker and the FS, which never shrinks. *)
LEMMA StaysBacked ==
  ASSUME NEW o \in CR, NEW x, Backed(o), Follows(o, x),
         fs \in Shares, fs' \in Shares, FsGrows
  PROVE  "Expanding" \in x.conds => fs'.size >= x.size \/ fs'.growing >= x.size
<1>1. /\ o.size \in Nat /\ o.size > 0 /\ fs.size \in Nat /\ fs.growing \in Nat
      /\ fs'.size \in Nat /\ fs'.growing \in Nat
  BY SizesPositive
<1>. QED BY <1>1 DEF Backed, Follows, FsGrows

LEMMA DriftInit == Init => DriftInv
BY TypeInit DEF Init, DriftInv, CacheCurrent, GrowsUp, MarkerBacked, Backed

(* The object of a current reconcile is as backed after a step as before. *)
LEMMA ObjectStaysBacked ==
  ASSUME DriftInv, TypeOK', FsGrows, ~overtaken, NEW q \in freshProc,
         Follows(proc[q].obj, proc'[q].obj)
  PROVE  proc'[q].obj.size = cr.size /\ Backed(proc[q].obj)'
<1>1. /\ proc[q].obj \in CR /\ fs \in Shares /\ fs' \in Shares
      /\ Backed(proc[q].obj) /\ proc[q].obj.size = cr.size
  BY DEF DriftInv, TypeOK, MarkerBacked
<1>. QED BY <1>1, StaysBacked DEF Follows, Backed

LEMMA ObjectFollowsItself ==
  ASSUME TypeOK, NEW q \in freshProc
  PROVE  Follows(proc[q].obj, proc[q].obj)
BY DEF Follows, TypeOK

(* What a step has to establish when it keeps the stored CR and the caches. *)
LEMMA KeepsStored ==
  ASSUME DriftInv, TypeOK', UNCHANGED <<cr, cache>>,
         freshCache' \subseteq freshCache, freshProc' \subseteq freshProc, FsGrows,
         ~overtaken' => /\ ~overtaken
                        /\ \A q \in freshProc' :
                             proc'[q].obj.size = cr.size /\ Backed(proc[q].obj)'
  PROVE  DriftInv'
<1>1. cr \in CR /\ fs \in Shares /\ fs' \in Shares /\ Follows(cr, cr)
  BY DEF DriftInv, TypeOK, Follows
<1>2. ~overtaken' => Backed(cr)'
  BY <1>1, StaysBacked DEF DriftInv, MarkerBacked, Backed
<1>3. GrowsUp'
  BY DEF DriftInv, GrowsUp, FsGrows
<1>. QED BY <1>2, <1>3 DEF DriftInv, CacheCurrent, MarkerBacked

(* A step of p's reconcile whose object follows the one it had. *)
LEMMA ReconcileKeeps ==
  ASSUME DriftInv, TypeOK', UNCHANGED <<cr, cache, overtaken>>, NEW p \in Operators,
         freshCache' \subseteq freshCache, freshProc' \subseteq freshProc, FsGrows,
         \A q \in Operators : q # p => proc'[q] = proc[q],
         p \in freshProc' => Follows(proc[p].obj, proc'[p].obj)
  PROVE  DriftInv'
<1>1. ASSUME NEW q \in freshProc' PROVE Follows(proc[q].obj, proc'[q].obj)
  <2>1. CASE q = p
    BY <1>1, <2>1
  <2>2. CASE q # p
    BY <1>1, <2>2, ObjectFollowsItself DEF DriftInv, TypeOK
  <2>. QED BY <2>1, <2>2
<1>. QED BY <1>1, ObjectStaysBacked, KeepsStored

(* Only p's own reconcile is changed by its calls. *)
LEMMA OthersKeep ==
  ASSUME TypeOK, NEW p \in Operators, Get(p) \/ Request(p) \/ Patch(p)
  PROVE  \A q \in Operators : q # p => proc'[q] = proc[q]
<1>1. CASE Get(p)
  BY <1>1 DEF TypeOK, Get, GetPending, GetErrored, GetFails, GrowWanted, GrowMarked,
       SgBusy, SgWanted, TagsSkipped, TagsWanted, Return, Goto
<1>2. CASE Request(p)
  BY <1>2 DEF TypeOK, Request, Expand, ExpandLost, ExpandFails, ChangeSecurityGroup,
       ChangeSecurityGroupFails, ListTags, AddTag, DeleteTag, TagFails, Goto, TagsKnown
<1>3. CASE Patch(p)
  BY <1>3 DEF TypeOK, Patch, patchStatus, PatchRefused, Return
<1>. QED BY <1>1, <1>2, <1>3

LEMMA GetBacked ==
  ASSUME DriftInv, NEW p \in Operators, Get(p)
  PROVE  DriftInv'
<1>1. /\ proc[p] \in Reconciles /\ proc[p].obj \in CR
      /\ UNCHANGED <<fs, cr, cache, overtaken>>
      /\ freshCache' \subseteq freshCache /\ freshProc' \subseteq freshProc
  BY DEF Get, GetPending, GetErrored, GetFails, GrowWanted, GrowMarked, SgBusy, SgWanted,
         TagsSkipped, TagsWanted, GetAvailable, DriftInv, TypeOK, Return, Goto
<1>2. TypeOK'
  BY GetType DEF DriftInv
<1>3. p \in freshProc' => Follows(proc[p].obj, proc'[p].obj)
  <2>1. ASSUME NEW pc, NEW o, NEW again, Goto(p, pc, o, again) PROVE proc'[p].obj = o
    BY <1>1, <2>1 DEF Goto, DriftInv, TypeOK, Reconciles
  <2>2. /\ Follows(proc[p].obj, Failing(proc[p].obj)) /\ Follows(proc[p].obj, Cleared(p))
        /\ Follows(proc[p].obj, Sized(p)) /\ Follows(proc[p].obj, SgSettled(p))
        /\ Follows(proc[p].obj, setCondition(Sized(p), {"UpdatingSecurityGroup"}, {}))
    BY <1>1, PollObjects
  <2>3. CASE GetPending(p)
    BY <2>3 DEF GetPending
  <2>4. CASE ~GetPending(p)
    BY <2>1, <2>2, <2>4 DEF GetErrored, GetFails, GrowWanted, GrowMarked, SgBusy,
           SgWanted, TagsSkipped, TagsWanted, Get
  <2>. QED BY <2>3, <2>4
<1>. QED BY <1>1, <1>2, <1>3, OthersKeep, ReconcileKeeps DEF DriftInv, FsGrows

LEMMA RequestBacked ==
  ASSUME DriftInv, NEW p \in Operators, Request(p)
  PROVE  DriftInv'
<1>1. /\ proc[p] \in Reconciles /\ proc[p].obj \in CR
      /\ UNCHANGED <<cr, cache, freshCache, freshProc, overtaken>>
  BY DEF Request, Expand, ExpandLost, ExpandFails, ChangeSecurityGroup, ChangeSecurityGroupFails,
         ListTags, AddTag, DeleteTag, TagFails, Goto, TagsKnown, DriftInv, TypeOK
<1>2. TypeOK' /\ \A q \in Operators : q # p => proc'[q] = proc[q]
  BY RequestType, OthersKeep DEF DriftInv
<1>3. fs \in Shares
  BY DEF DriftInv, TypeOK
<1>4. ASSUME NEW pc, NEW o, NEW again, Goto(p, pc, o, again) PROVE proc'[p].obj = o
  BY <1>1, <1>4 DEF Goto, DriftInv, TypeOK, Reconciles
<1>5. CASE Expand(p) \/ ExpandLost(p)
  <2>1. /\ fs'.size = fs.size /\ fs.growing = 0 /\ fs'.growing = proc[p].obj.size
        /\ proc[p].obj.size > fs.size
    BY <1>3, <1>5 DEF Expand, ExpandLost, Shares
  <2>2. proc'[p].obj.size = proc[p].obj.size
    <3>1. /\ Failing(proc[p].obj).size = proc[p].obj.size
          /\ setCondition(proc[p].obj, {"Expanding"}, {}).size = proc[p].obj.size
      BY <1>1 DEF Failing, setCondition, CR
    <3>. QED BY <1>4, <1>5, <3>1 DEF Expand, ExpandLost
  <2>3. Backed(proc[p].obj)'
    <3>1. proc[p].obj.size \in Nat
      BY <1>1, SizesPositive
    <3>. QED BY <2>1, <2>2, <3>1 DEF Backed
  <2>4. FsGrows
    BY <2>1 DEF FsGrows
  <2>5. ASSUME ~overtaken, NEW q \in freshProc
        PROVE  proc'[q].obj.size = cr.size /\ Backed(proc[q].obj)'
    <3>1. CASE q = p
      BY <2>2, <2>3, <2>5, <3>1 DEF DriftInv, MarkerBacked
    <3>2. CASE q # p
      <4>1. proc'[q] = proc[q]
        BY <1>2, <2>5, <3>2 DEF DriftInv, TypeOK
      <4>. QED BY <1>2, <2>4, <2>5, <4>1, ObjectFollowsItself, ObjectStaysBacked DEF DriftInv
    <3>. QED BY <3>1, <3>2
  <2>. QED BY <1>1, <1>2, <2>4, <2>5, KeepsStored
<1>6. CASE ~(Expand(p) \/ ExpandLost(p))
  <2>1. FsGrows
    BY <1>3, <1>6 DEF Request, ExpandFails, ChangeSecurityGroup, ChangeSecurityGroupFails,
           ListTags, AddTag, DeleteTag, TagFails, Shares, FsGrows
  <2>2. Follows(proc[p].obj, proc'[p].obj)
    <3>1. Follows(proc[p].obj, proc[p].obj)
      BY <1>1 DEF Follows
    <3>2. /\ Follows(proc[p].obj, Failing(proc[p].obj))
          /\ Follows(proc[p].obj, setCondition(proc[p].obj, {"UpdatingSecurityGroup"}, {}))
          /\ Follows(proc[p].obj, setCondition(proc[p].obj, {}, {"UpdatingSecurityGroup"}))
      BY <1>1, <3>1, Named, FollowsStep DEF Failing
    <3>3. ASSUME NEW live, TagsKnown(p, live) PROVE proc'[p].obj = proc[p].obj
      BY <1>1, <3>3 DEF TagsKnown, DriftInv, TypeOK, Reconciles
    <3>. QED BY <1>4, <1>6, <3>1, <3>2, <3>3
           DEF Request, ExpandFails, ChangeSecurityGroup, ChangeSecurityGroupFails,
               ListTags, AddTag, DeleteTag, TagFails
  <2>. QED BY <1>1, <1>2, <2>1, <2>2, ReconcileKeeps
<1>. QED BY <1>5, <1>6

LEMMA PatchBacked ==
  ASSUME DriftInv, NEW p \in Operators, Patch(p)
  PROVE  DriftInv'
<1>1. TypeOK' /\ \A q \in Operators : q # p => proc'[q] = proc[q]
  BY PatchType, OthersKeep DEF DriftInv
<1>2. CASE patchStatus(p)
  <2>1. cr \in CR /\ proc[p].obj \in CR /\ p \in freshProc /\ UNCHANGED <<cache, fs, overtaken>>
    BY <1>2 DEF patchStatus, Return, DriftInv, TypeOK
  <2>. DEFINE r == [cr EXCEPT !.conds = proc[p].obj.conds]
  <2>2. /\ r \in CR /\ r.size = cr.size /\ r.conds = proc[p].obj.conds
        /\ ~overtaken => r.size = proc[p].obj.size
    BY <2>1 DEF CR, DriftInv, MarkerBacked
  <2>3. /\ cr' = r /\ freshCache' \subseteq freshCache /\ freshProc' \subseteq freshProc \ {p}
        /\ freshCache' # {} \/ freshProc' # {} => cr' = cr
    BY <1>2, <2>2, WriteEffect DEF patchStatus
  <2>4. ~overtaken' => Backed(cr)'
    BY <2>1, <2>2, <2>3 DEF Backed, DriftInv, MarkerBacked
  <2>5. CacheCurrent'
    BY <2>1, <2>3 DEF CacheCurrent, DriftInv
  <2>6. ASSUME ~overtaken', NEW q \in freshProc'
        PROVE  proc'[q].obj.size = cr'.size /\ Backed(proc[q].obj)'
    <3>1. q \in freshProc /\ proc'[q] = proc[q] /\ cr' = cr
      BY <1>1, <2>3, <2>6 DEF DriftInv, TypeOK
    <3>. QED BY <2>1, <2>6, <3>1 DEF Backed, DriftInv, MarkerBacked
  <2>. QED BY <1>1, <2>1, <2>4, <2>5, <2>6 DEF DriftInv, GrowsUp, MarkerBacked
<1>3. CASE PatchRefused(p)
  <2>1. /\ UNCHANGED <<cr, cache, fs, freshCache, overtaken>>
        /\ freshProc' \subseteq freshProc /\ p \notin freshProc'
    BY <1>3 DEF PatchRefused, Return
  <2>. QED BY <1>1, <2>1, ReconcileKeeps DEF FsGrows
<1>. QED BY <1>2, <1>3 DEF Patch

LEMMA ReconcileBacked ==
  ASSUME DriftInv, NEW p \in Operators, Reconcile(p)
  PROVE  DriftInv'
<1>1. TypeOK'
  BY ReconcileType DEF DriftInv
<1>2. p \notin freshProc
  BY DEF Reconcile, DriftInv, TypeOK
<1>3. /\ UNCHANGED <<cr, cache, freshCache, fs, overtaken>>
      /\ freshProc' \subseteq freshProc \cup {p}
      /\ p \in freshProc' => cache[p] = cr
  BY <1>2 DEF Reconcile, DriftInv, CacheCurrent
<1>4. proc'[p].obj = cache[p] /\ \A q \in Operators : q # p => proc'[q] = proc[q]
  BY DEF Reconcile, Idle, DriftInv, TypeOK
<1>5. ASSUME ~overtaken', NEW q \in freshProc'
      PROVE  proc'[q].obj.size = cr.size /\ Backed(proc[q].obj)'
  <2>1. CASE q = p
    BY <1>3, <1>4, <1>5, <2>1 DEF Backed, DriftInv, MarkerBacked
  <2>2. CASE q # p
    <3>1. q \in freshProc /\ proc'[q] = proc[q]
      BY <1>3, <1>4, <1>5, <2>2 DEF DriftInv, TypeOK
    <3>. QED BY <1>3, <1>5, <3>1 DEF Backed, DriftInv, MarkerBacked
  <2>. QED BY <2>1, <2>2
<1>6. ~overtaken' => Backed(cr)'
  BY <1>3 DEF Backed, DriftInv, MarkerBacked
<1>. QED BY <1>1, <1>3, <1>5, <1>6 DEF DriftInv, CacheCurrent, GrowsUp, MarkerBacked

LEMMA ProcessBacked ==
  ASSUME DriftInv, NEW p \in Operators, Informer(p) \/ Crash(p)
  PROVE  DriftInv'
<1>1. TypeOK'
  BY ProcessType DEF DriftInv
<1>2. /\ UNCHANGED <<cr, fs, overtaken>> /\ freshProc' \subseteq freshProc
      /\ \A q \in freshProc' : proc'[q] = proc[q]
  BY DEF Informer, Observe, Resync, Crash, DriftInv, TypeOK
<1>3. CacheCurrent'
  BY DEF Informer, Observe, Resync, Crash, DriftInv, TypeOK, CacheCurrent
<1>4. MarkerBacked'
  BY <1>2 DEF DriftInv, MarkerBacked, Backed
<1>. QED BY <1>1, <1>2, <1>3, <1>4 DEF DriftInv, GrowsUp

LEMMA OutsideBacked == DriftInv /\ Outside => DriftInv'
<1>. SUFFICES ASSUME DriftInv, Outside PROVE DriftInv'
  OBVIOUS
<1>1. TypeOK' /\ fs \in Shares /\ cr \in CR
  BY OutsideType DEF DriftInv, TypeOK
<1>2. CASE EditSpec
  <2>1. PICK s \in Sizes, g \in Groups \cup {AutoGroup}, t \in Tags, m \in Moves :
          /\ [cr EXCEPT !.size = s, !.sg = g, !.tags = t, !.moved = m] # cr
          /\ Write([cr EXCEPT !.size = s, !.sg = g, !.tags = t, !.moved = m], {})
          /\ overtaken' = (overtaken \/ (s # cr.size /\ "Expanding" \in cr.conds))
    BY <1>2 DEF EditSpec
  <2>. DEFINE r == [cr EXCEPT !.size = s, !.sg = g, !.tags = t, !.moved = m]
  <2>2. r \in CR /\ r.size = s /\ r.conds = cr.conds
    BY <1>1, <2>1, ConstantsAssumption DEF CR
  <2>3. cr' = r /\ freshCache' = {} /\ freshProc' = {}
    BY <2>1, <2>2, WriteEffect
  <2>4. ~overtaken' => ~overtaken /\ (s # cr.size => "Expanding" \notin cr.conds)
    BY <2>1
  <2>5. UNCHANGED <<fs, cache, proc>>
    BY <1>2 DEF EditSpec
  <2>6. ~overtaken' => Backed(cr)'
    BY <2>2, <2>3, <2>4, <2>5 DEF Backed, DriftInv, MarkerBacked
  <2>. QED BY <1>1, <2>3, <2>5, <2>6 DEF DriftInv, CacheCurrent, GrowsUp, MarkerBacked
<1>3. CASE Abandon
  <2>1. fs'.growing = 0 /\ overtaken' /\ UNCHANGED <<cr, cache, freshCache>>
    BY <1>1, <1>3 DEF Abandon, Aside, Shares
  <2>. QED BY <1>1, <2>1 DEF DriftInv, CacheCurrent, GrowsUp, MarkerBacked
<1>4. CASE Console \/ Grown \/ GrowFails \/ Resume \/ SgChanged \/ SgChangeFails
  <2>1. FsGrows
    BY <1>1, <1>4 DEF Console, Grown, GrowFails, Resume, SgChanged, SgChangeFails, Shares,
                      DriftInv, GrowsUp, FsGrows
  <2>2. UNCHANGED <<cr, cache, freshCache, freshProc, proc, overtaken>>
    BY <1>4 DEF Console, Grown, GrowFails, Resume, SgChanged, SgChangeFails, Elsewhere, Aside
  <2>3. ASSUME ~overtaken, NEW q \in freshProc
        PROVE  proc'[q].obj.size = cr.size /\ Backed(proc[q].obj)'
    BY <1>1, <2>1, <2>2, <2>3, ObjectFollowsItself, ObjectStaysBacked DEF DriftInv
  <2>. QED BY <1>1, <2>1, <2>2, <2>3, KeepsStored
<1>. QED BY <1>2, <1>3, <1>4 DEF Outside

LEMMA BackedStep == DriftInv /\ [Next]_vars => DriftInv'
<1>1. DriftInv /\ UNCHANGED vars => DriftInv'
  BY DEF DriftInv, TypeOK, CacheCurrent, GrowsUp, MarkerBacked, Backed, vars
<1>. QED BY <1>1, GetBacked, RequestBacked, PatchBacked, ReconcileBacked, ProcessBacked,
            OutsideBacked DEF Next, Operator, Outside

LEMMA BackedSound == DriftInv => ExpandingMarkerSound
<1>. SUFFICES ASSUME DriftInv PROVE ExpandingMarkerSound
  OBVIOUS
<1>1. cr.size \in Nat /\ cr.size > 0 /\ fs.size \in Nat
  BY SizesPositive DEF DriftInv, TypeOK
<1>. QED BY <1>1 DEF DriftInv, MarkerBacked, Backed, ExpandingMarkerSound

(* A current copy of a marked CR asks for a size that is there or on its way,
   until a size is edited under the marker or an expansion given up. *)
THEOREM MarkerInvariant == Spec => []DriftInv
BY DriftInit, BackedStep, PTL DEF Spec

(* Until then Expanding never stops an expansion that is needed, over lost
   answers, crashes and stale copies, however many processes are running. *)
THEOREM MarkerSound == Spec => []ExpandingMarkerSound
BY DriftInit, BackedStep, BackedSound, PTL DEF Spec
=============================================================================
