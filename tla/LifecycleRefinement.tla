------------------------- MODULE LifecycleRefinement -------------------------
(***************************************************************************)
(* Lifecycle implements FsLifecycle, for any sets of CRs, ids, operator    *)
(* processes and choices: every step of a user, of a reconcile or of       *)
(* Huawei is a step of FsLifecycle on the stored CRs, or changes nothing   *)
(* that FsLifecycle sees.  Two invariants of the stored CRs follow.        *)
(*                                                                         *)
(* The argument: CopyExact.  A write is accepted only from a copy at the   *)
(* stored resourceVersion, so that what the reconcile decided on is still  *)
(* what is stored; and what it learned of the FS can only have gone on     *)
(* towards its end in between.                                             *)
(***************************************************************************)
EXTENDS LifecycleSafetyProofs

USE DEF FsIdOf, hasConditionTrue

RefInv == IndInv /\ CopyExact

-----------------------------------------------------------------------------
(* The status that may follow, in terms of the stored CR *)

Shown(o) == o.conds \ {"Failed"}

(* The fsId i and conditions t may follow those of s, a CR with fsName n, when
   the file systems are cl. *)
MayFollow(s, i, t, cl, n) ==
  \/ /\ ~s.del /\ s.fsId = NoId
     /\ i \in Ids /\ cl[i].name = n
     /\ t = Shown(s) \cup {"Provisioning"}
  \/ /\ ~s.del /\ s.fsId # NoId /\ i = s.fsId
     /\ t = (Shown(s) \cup {"Ready"}) \ {"Provisioning"}
  \/ ~s.del /\ i = s.fsId /\ t = Shown(s) \ {"Provisioning"}
  \/ /\ ~s.del /\ s.fsId # NoId /\ cl[s.fsId].st = "none"
     /\ i = NoId /\ t = Shown(s) \ {"Ready"}
  \/ /\ s.del /\ s.fsId # NoId /\ cl[s.fsId].st \in {"deleting", "none"}
     /\ i = s.fsId /\ t = (Shown(s) \cup {"Deleting"}) \ {"Ready"}
  \/ /\ s.del /\ (s.fsId = NoId \/ s.policy # "Delete" \/ cl[s.fsId].st = "none")
     /\ i = s.fsId /\ t = Shown(s) \ {"Deleting"}

LEMMA PublishesView ==
  ASSUME NEW c \in CRs, NEW i, NEW t
  PROVE  /\ store[c] # Absent =>
              (F!Publishes(c, i, t) <=> MayFollow(store[c], i, t, cloud, FsName[c]))
         /\ store'[c] # Absent =>
              (F!Publishes(c, i, t)' <=> MayFollow(store'[c], i, t, cloud', FsName[c]))
<1> USE DEF Stored, View, Shown, MayFollow, F!Publishes, F!Binds, F!Readies, F!Settles,
            F!Unbinds, F!Marks, F!Unmarks, F!Honoured
<1>1. store[c] # Absent =>
        (F!Publishes(c, i, t) <=> MayFollow(store[c], i, t, cloud, FsName[c]))
  OBVIOUS
<1>2. store'[c] # Absent =>
        (F!Publishes(c, i, t)' <=> MayFollow(store'[c], i, t, cloud', FsName[c]))
  OBVIOUS
<1>. QED BY <1>1, <1>2

(* CopyExact for one copy: o, about to do pc, of the stored CR s. *)
ExactFits(pc, o, s, cl, n) ==
  /\ pc \in {"addFin", "create", "find", "poll"} => ~s.del
  /\ pc \in {"delGet", "delShare", "patchThenRemove", "removeFin"} => s.del
  /\ pc # "addFin" => s.fin
  /\ pc \in {"create", "find", "poll", "delGet", "delShare"} =>
       o.fsId = s.fsId /\ o.conds = s.conds
  /\ pc \in {"patch", "patchThenRemove"} =>
       \/ o.fsId = s.fsId /\ Shown(o) = Shown(s)
       \/ MayFollow(s, o.fsId, Shown(o), cl, n)

LEMMA CopyExactFits ==
  ASSUME TypeInv
  PROVE  CopyExact <=> \A p \in freshProc :
           ExactFits(proc[p].pc, proc[p].obj, store[proc[p].key], cloud, FsName[proc[p].key])
<1>1. ASSUME NEW p \in freshProc
      PROVE  proc[p].key \in CRs /\ store[proc[p].key] # Absent
  BY DEF TypeInv, TypeOK, CopyStored
<1>2. \A p \in freshProc :
        F!Publishes(proc[p].key, proc[p].obj.fsId, proc[p].obj.conds \ {"Failed"})
          <=> MayFollow(store[proc[p].key], proc[p].obj.fsId, Shown(proc[p].obj), cloud,
                        FsName[proc[p].key])
  BY <1>1, PublishesView DEF Shown
<1>. QED BY <1>2 DEF CopyExact, ExactFits, Shown

(* The same after a step. *)
LEMMA ExactAfter ==
  ASSUME TypeInv',
         \A p \in freshProc' :
           ExactFits(proc'[p].pc, proc'[p].obj, store'[proc'[p].key], cloud', FsName[proc'[p].key])
  PROVE  CopyExact'
<1>1. ASSUME NEW p \in freshProc'
      PROVE  proc'[p].key \in CRs /\ store'[proc'[p].key] # Absent
  BY DEF TypeInv, TypeOK, CopyStored
<1>2. ASSUME NEW p \in freshProc'
      PROVE  F!Publishes(proc[p].key, proc[p].obj.fsId, proc[p].obj.conds \ {"Failed"})'
               <=> MayFollow(store'[proc'[p].key], proc'[p].obj.fsId, Shown(proc'[p].obj), cloud',
                             FsName[proc'[p].key])
  BY <1>1 DEF Stored, View, Shown, MayFollow, F!Publishes, F!Binds, F!Readies, F!Settles,
     F!Unbinds, F!Marks, F!Unmarks, F!Honoured
<1>. QED BY <1>2 DEF CopyExact, ExactFits, Shown

(* Nothing comes back from deletion while a CR or a copy of one mentions it. *)
DoomKept ==
  /\ SharesKept
  /\ \A i \in Ids \cap Mentioned :
       cloud[i].st \in {"deleting", "none"} => cloud'[i].st \in {"deleting", "none"}

(* Copies of a CR that did not change are still exact. *)
LEMMA OtherExact ==
  ASSUME TypeInv, CopyExact, DoomKept, NEW q \in freshProc
  PROVE  ExactFits(proc[q].pc, proc[q].obj, store[proc[q].key], cloud', FsName[proc[q].key])
<1>. DEFINE o == proc[q].obj
            s == store[proc[q].key]
            n == FsName[proc[q].key]
<1>1. /\ proc[q].key \in CRs /\ s # Absent /\ s \in CR
      /\ o \in CR /\ o # Absent /\ q \in Operators
  BY AbsentAssumption DEF TypeInv, TypeOK, CopyStored
<1>2. ExactFits(proc[q].pc, o, s, cloud, n)
  BY CopyExactFits
<1>3. o.fsId \in Mentioned /\ s.fsId \in Mentioned /\ s.fsId \in Ids \cup {NoId}
  BY <1>1, MentionedIds DEF CR
<1>4. /\ s.fsId \in Ids =>
           /\ cloud[s.fsId].st = "none" => cloud'[s.fsId].st = "none"
           /\ cloud[s.fsId].st \in {"deleting", "none"} =>
                cloud'[s.fsId].st \in {"deleting", "none"}
      /\ o.fsId \in Ids => cloud'[o.fsId].name = cloud[o.fsId].name
  BY <1>3 DEF DoomKept, SharesKept
<1>. HIDE DEF o, s, n
<1>5. MayFollow(s, o.fsId, Shown(o), cloud, n) => MayFollow(s, o.fsId, Shown(o), cloud', n)
  BY <1>3, <1>4 DEF MayFollow
<1>6. ExactFits(proc[q].pc, o, s, cloud', n)
  BY <1>2, <1>5 DEF ExactFits
<1>. QED BY <1>6 DEF o, s, n

-----------------------------------------------------------------------------
(* The forms a step takes *)

(* A reconcile that goes on to its next call, without a write. *)
LEMMA GotoExact ==
  ASSUME TypeInv, TypeInv', CopyExact, DoomKept,
         NEW p \in Operators, NEW pc, NEW o, NEW again,
         Goto(p, pc, o, again),
         UNCHANGED <<store, freshProc>>,
         p \in freshProc => ExactFits(pc, o, store[proc[p].key], cloud', FsName[proc[p].key])
  PROVE  CopyExact'
<1>1. /\ proc'[p].key = proc[p].key /\ proc'[p].pc = pc /\ proc'[p].obj = o
      /\ \A q \in Operators : q # p => proc'[q] = proc[q]
  BY DEF Goto, TypeInv, TypeOK
<1>2. freshProc \subseteq Operators
  BY DEF TypeInv, TypeOK
<1>. QED BY <1>1, <1>2, OtherExact, ExactAfter

(* A step after which every current copy is one that was current, untouched. *)
LEMMA AsideExact ==
  ASSUME TypeInv, TypeInv', CopyExact, DoomKept,
         freshProc' \subseteq freshProc,
         \A q \in freshProc' : proc'[q] = proc[q] /\ store'[proc[q].key] = store[proc[q].key]
  PROVE  CopyExact'
BY OtherExact, ExactAfter

(* A reconcile that starts on the cached CR. *)
LEMMA EnterExact ==
  ASSUME TypeInv, TypeInv', CopyExact, DoomKept,
         NEW p \in Operators, NEW c \in CRs,
         Pickup(p, c), NEW pc, NEW o, NEW again,
         Enter(p, c, pc, o, again),
         cache[p][c] = store[c] => ExactFits(pc, o, store[c], cloud, FsName[c])
  PROVE  CopyExact'
<1>1. /\ proc'[p].key = c /\ proc'[p].pc = pc /\ proc'[p].obj = o
      /\ \A q \in Operators : q # p => proc'[q] = proc[q]
      /\ freshProc' = IF <<p, c>> \in freshCache THEN freshProc \cup {p} ELSE freshProc
      /\ proc[p].pc = "idle"
      /\ UNCHANGED <<store, cloud>>
  BY DEF Enter, Pickup, TypeInv, TypeOK
<1>2. p \notin freshProc /\ freshProc \subseteq Operators
  BY <1>1 DEF TypeInv, TypeOK
<1>3. <<p, c>> \in freshCache => cache[p][c] = store[c]
  BY DEF TypeInv, CacheCurrent
<1>4. \A q \in freshProc' :
        ExactFits(proc'[q].pc, proc'[q].obj, store'[proc'[q].key], cloud', FsName[proc'[q].key])
  BY <1>1, <1>2, <1>3, OtherExact
<1>. QED BY <1>4, ExactAfter

(* A write by the reconciles in w, none of which goes on with its copy. *)
LEMMA WriteExact ==
  ASSUME TypeInv, TypeInv', CopyExact, UNCHANGED cloud,
         NEW c \in CRs, NEW r \in CR \cup {Absent}, NEW w \in SUBSET Operators,
         Write(c, r, w, {}),
         \A q \in Operators \ w : proc'[q] = proc[q]
  PROVE  CopyExact'
<1>. DEFINE k == {}
<1>1. Write(c, r, w, k) /\ k \in SUBSET w
  OBVIOUS
<1>. HIDE DEF k
<1>2. /\ freshProc' \subseteq (freshProc \ w) \cup k
      /\ \A q \in freshProc' \ k : store'[proc[q].key] = store[proc[q].key]
  BY <1>1, WriteEffect
<1>3. freshProc \subseteq Operators
  BY DEF TypeInv, TypeOK
<1>4. DoomKept
  BY DEF DoomKept, SharesKept
<1>. QED BY <1>2, <1>3, <1>4, AsideExact DEF k

-----------------------------------------------------------------------------
(* The actions *)

(* What setCondition makes of the conditions, and what recording an id leaves. *)
LEMMA CondsSet ==
  ASSUME NEW o \in CR, NEW true \in SUBSET Conditions, NEW false \in SUBSET Conditions
  PROVE  /\ setCondition(o, true, false) \in CR
         /\ setCondition(o, true, false).conds = (o.conds \cup true) \ false
BY DEF setCondition, CR

LEMMA CondsKept ==
  ASSUME NEW o \in CR, NEW i
  PROVE  [o EXCEPT !.fsId = i].conds = o.conds
BY DEF CR

(* The objects that the calls of a reconcile and its start leave behind. *)
LEMMA ObjectsShown ==
  ASSUME NEW o \in CR
  PROVE  /\ Shown(Failing(o)) = Shown(o)
         /\ \A i \in Ids \cup {NoId} :
              Shown([setCondition(o, {"Provisioning"}, {"Failed"}) EXCEPT !.fsId = i])
                = Shown(o) \cup {"Provisioning"}
         /\ Shown([setCondition(o, {}, {"Ready"}) EXCEPT !.fsId = NoId]) = Shown(o) \ {"Ready"}
         /\ \A t \in {{}, {"Failed"}} :
              Shown(setCondition(setCondition(o, {"Ready"}, {"Provisioning", "Failed"}), t, {}))
                = (Shown(o) \cup {"Ready"}) \ {"Provisioning"}
         /\ Shown(setCondition(o, {"Failed"}, {"Provisioning"})) = Shown(o) \ {"Provisioning"}
         /\ Shown(setCondition(o, {"Deleting"}, {"Ready"})) = (Shown(o) \cup {"Deleting"}) \ {"Ready"}
         /\ Shown(setCondition(o, {}, {"Deleting"})) = Shown(o) \ {"Deleting"}
         /\ Shown(setCondition(o, {}, {"Provisioning"})) = Shown(o) \ {"Provisioning"}
<1>1. /\ {} \in SUBSET Conditions
      /\ \A t \in Conditions : {t} \in SUBSET Conditions
      /\ {"Provisioning", "Failed"} \in SUBSET Conditions
      /\ "Ready" \in Conditions /\ "Provisioning" \in Conditions
      /\ "Deleting" \in Conditions /\ "Failed" \in Conditions
  BY DEF Conditions
<1>2. Failing(o).conds = (o.conds \cup {"Failed"}) \ {}
  BY <1>1, CondsSet DEF Failing
<1>3. \A i \in Ids \cup {NoId} :
        [setCondition(o, {"Provisioning"}, {"Failed"}) EXCEPT !.fsId = i].conds
          = (o.conds \cup {"Provisioning"}) \ {"Failed"}
  BY <1>1, CondsSet, CondsKept
<1>4. [setCondition(o, {}, {"Ready"}) EXCEPT !.fsId = NoId].conds = (o.conds \cup {}) \ {"Ready"}
  BY <1>1, CondsSet, CondsKept
<1>5. setCondition(o, {"Failed"}, {"Provisioning"}).conds
        = (o.conds \cup {"Failed"}) \ {"Provisioning"}
  BY <1>1, CondsSet
<1>6. setCondition(o, {"Deleting"}, {"Ready"}).conds = (o.conds \cup {"Deleting"}) \ {"Ready"}
  BY <1>1, CondsSet
<1>7. \A t \in Conditions : setCondition(o, {}, {t}).conds = (o.conds \cup {}) \ {t}
  BY <1>1, CondsSet
<1>8. \A t \in {{}, {"Failed"}} :
        setCondition(setCondition(o, {"Ready"}, {"Provisioning", "Failed"}), t, {}).conds
          = (((o.conds \cup {"Ready"}) \ {"Provisioning", "Failed"}) \cup t) \ {}
  <2>. DEFINE a == setCondition(o, {"Ready"}, {"Provisioning", "Failed"})
  <2>1. a \in CR /\ a.conds = (o.conds \cup {"Ready"}) \ {"Provisioning", "Failed"}
    BY <1>1, CondsSet
  <2>. HIDE DEF a
  <2>2. \A t \in {{}, {"Failed"}} : setCondition(a, t, {}).conds = (a.conds \cup t) \ {}
    BY <1>1, <2>1, CondsSet
  <2>. QED BY <2>1, <2>2 DEF a
<1>. QED BY <1>1, <1>2, <1>3, <1>4, <1>5, <1>6, <1>7, <1>8 DEF Shown

(* A call of reconcile p that leads it to write the status of o. *)
LEMMA PublishExact ==
  ASSUME TypeInv, TypeInv', CopyExact, DoomKept,
         NEW p \in Operators, NEW pc \in {"patch", "patchThenRemove"}, NEW o, NEW again,
         Goto(p, pc, o, again),
         UNCHANGED <<store, freshProc>>,
         p \in freshProc =>
           LET s == store[proc[p].key] IN
             /\ s.fin
             /\ pc = "patchThenRemove" => s.del
             /\ \/ o.fsId = s.fsId /\ Shown(o) = Shown(s)
                \/ MayFollow(s, o.fsId, Shown(o), cloud', FsName[proc[p].key])
  PROVE  CopyExact'
<1>1. p \in freshProc => ExactFits(pc, o, store[proc[p].key], cloud', FsName[proc[p].key])
  BY DEF ExactFits
<1>. QED BY <1>1, GotoExact

(* No call brings an FS back from deletion. *)
LEMMA CallDooms ==
  ASSUME TypeInv, IdInv, NEW p \in Operators, HuaweiCall(p)
  PROVE  DoomKept
<1>1. cloud \in [Ids -> Shares]
  BY DEF TypeInv, TypeOK
<1>2. CASE UNCHANGED cloud
  BY <1>2 DEF DoomKept, SharesKept
<1>3. CASE CreateAccepted(p) \/ CreateLost(p)
  <2>1. PICK i \in FreshIds :
          cloud' = [cloud EXCEPT ![i] = [st |-> "creating", name |-> FsName[proc[p].key]]]
    BY <1>3 DEF CreateAccepted, CreateLost
  <2>. QED BY <1>1, <2>1, FreshShares DEF DoomKept, FreshIds
<1>4. CASE DeleteAccepted(p) \/ DeleteLost(p)
  <2>1. /\ Exists(proc[p].obj.fsId)
        /\ cloud' = [cloud EXCEPT ![proc[p].obj.fsId].st = "deleting"]
    BY <1>4 DEF DeleteAccepted, DeleteLost
  <2>. QED BY <1>1, <2>1, MovedShares DEF DoomKept, Exists, Shares
<1>. QED BY <1>2, <1>3, <1>4 DEF HuaweiCall, CreateCollides, FindByName, PollGone,
            PollAvailable, PollErrored, PollPending, Polled, DeleteGetGone, DeleteGetExists,
            DeleteInFlight, CallFails

LEMMA HuaweiCallExact ==
  ASSUME TypeInv, TypeInv', IdInv, CopyExact, NEW p \in Operators, HuaweiCall(p)
  PROVE  CopyExact'
<1>. DEFINE o == proc[p].obj
            s == store[proc[p].key]
            n == FsName[proc[p].key]
            i == proc[p].obj.fsId
<1>1. DoomKept
  BY CallDooms
<1>2. proc[p].pc # "idle"
  BY DEF HuaweiCall, CreateAccepted, CreateLost, CreateCollides, FindByName, PollGone,
         PollAvailable, PollErrored, PollPending, Polled, DeleteGetGone, DeleteGetExists,
         DeleteInFlight, DeleteAccepted, DeleteLost, CallFails, Called
<1>3. o \in CR /\ cloud \in [Ids -> Shares] /\ freshProc \subseteq Operators
  BY <1>2 DEF TypeInv, TypeOK
<1>4. StepFits(proc[p].pc, i)
  BY StepIdsFits DEF IdInv
(* What a current copy knows when the call returns. *)
<1>5. ASSUME p \in freshProc, proc[p].pc \in {"create", "find", "poll", "delGet", "delShare"}
      PROVE  /\ s.fin /\ i = s.fsId /\ Shown(o) = Shown(s)
             /\ proc[p].pc \in {"create", "find", "poll"} => ~s.del
             /\ proc[p].pc \in {"delGet", "delShare"} => s.del
  BY <1>5, CopyExactFits DEF ExactFits, Shown
<1>6. /\ Shown(Failing(o)) = Shown(o) /\ Failing(o).fsId = i
      /\ \A j \in Ids : LET r == [setCondition(o, {"Provisioning"}, {"Failed"}) EXCEPT !.fsId = j] IN
           Shown(r) = Shown(o) \cup {"Provisioning"} /\ r.fsId = j
      /\ LET r == [setCondition(o, {}, {"Ready"}) EXCEPT !.fsId = NoId] IN
           Shown(r) = Shown(o) \ {"Ready"} /\ r.fsId = NoId
      /\ \A t \in {{}, {"Failed"}} :
           LET r == setCondition(setCondition(o, {"Ready"}, {"Provisioning", "Failed"}), t, {}) IN
             Shown(r) = (Shown(o) \cup {"Ready"}) \ {"Provisioning"} /\ r.fsId = i
      /\ LET r == setCondition(o, {"Failed"}, {"Provisioning"}) IN
           Shown(r) = Shown(o) \ {"Provisioning"} /\ r.fsId = i
      /\ LET r == setCondition(o, {"Deleting"}, {"Ready"}) IN
           Shown(r) = (Shown(o) \cup {"Deleting"}) \ {"Ready"} /\ r.fsId = i
      /\ LET r == setCondition(o, {}, {"Deleting"}) IN
           Shown(r) = Shown(o) \ {"Deleting"} /\ r.fsId = i
  BY <1>3, ObjectsShown, CallObjectIds
<1>7. CASE CreateAccepted(p)
  <2>1. PICK j \in FreshIds :
          /\ cloud' = [cloud EXCEPT ![j] = [st |-> "creating", name |-> n]]
          /\ RecordId(p, j)
    BY <1>7 DEF CreateAccepted
  <2>. DEFINE r == [setCondition(o, {"Provisioning"}, {"Failed"}) EXCEPT !.fsId = j]
  <2>2. j \in Ids /\ cloud'[j].name = n
    BY <1>3, <2>1 DEF FreshIds
  <2>3. Shown(r) = Shown(o) \cup {"Provisioning"} /\ r.fsId = j /\ Goto(p, "patch", r, TRUE)
    BY <1>6, <2>1, <2>2 DEF RecordId
  <2>. HIDE DEF r
  <2>4. i = NoId /\ proc[p].pc = "create" /\ UNCHANGED <<store, freshProc>>
    BY <1>4, <1>7 DEF CreateAccepted, Called, StepFits
  <2>5. p \in freshProc => s.fin /\ MayFollow(s, r.fsId, Shown(r), cloud', n)
    BY <1>5, <2>2, <2>3, <2>4 DEF MayFollow
  <2>. QED BY <1>1, <2>3, <2>4, <2>5, PublishExact
<1>8. CASE CreateLost(p) \/ DeleteLost(p) \/ CallFails(p)
  <2>1. /\ Goto(p, "patch", Failing(o), TRUE) /\ UNCHANGED <<store, freshProc>>
        /\ proc[p].pc \in {"create", "find", "poll", "delGet", "delShare"}
    BY <1>8 DEF CreateLost, DeleteLost, CallFails, Fail, Called
  <2>2. p \in freshProc =>
          s.fin /\ Failing(o).fsId = s.fsId /\ Shown(Failing(o)) = Shown(s)
    BY <1>5, <1>6, <2>1
  <2>. QED BY <1>1, <2>1, <2>2, PublishExact
<1>9. CASE CreateCollides(p)
  <2>1. p \in freshProc => ExactFits("find", o, s, cloud', n)
    BY <1>9, CopyExactFits DEF CreateCollides, Called, ExactFits
  <2>. QED BY <1>1, <1>9, <2>1, GotoExact DEF CreateCollides, Called
<1>10. CASE FindByName(p)
  <2>1. PICK j \in SharesNamed(n) : RecordId(p, j)
    BY <1>10 DEF FindByName
  <2>. DEFINE r == [setCondition(o, {"Provisioning"}, {"Failed"}) EXCEPT !.fsId = j]
  <2>2. j \in Ids /\ cloud'[j].name = n
    BY <1>10, <2>1 DEF SharesNamed, FindByName
  <2>3. Shown(r) = Shown(o) \cup {"Provisioning"} /\ r.fsId = j /\ Goto(p, "patch", r, TRUE)
    BY <1>6, <2>1, <2>2 DEF RecordId
  <2>. HIDE DEF r
  <2>4. i = NoId /\ proc[p].pc = "find" /\ UNCHANGED <<store, freshProc>>
    BY <1>4, <1>10 DEF FindByName, Called, StepFits
  <2>5. p \in freshProc => s.fin /\ MayFollow(s, r.fsId, Shown(r), cloud', n)
    BY <1>5, <2>2, <2>3, <2>4 DEF MayFollow
  <2>. QED BY <1>1, <2>3, <2>4, <2>5, PublishExact
<1>11. CASE PollGone(p)
  <2>. DEFINE r == [setCondition(o, {}, {"Ready"}) EXCEPT !.fsId = NoId]
  <2>1. Shown(r) = Shown(o) \ {"Ready"} /\ r.fsId = NoId
    BY <1>6
  <2>2. Goto(p, "patch", r, TRUE) /\ UNCHANGED <<store, freshProc, cloud>> /\ proc[p].pc = "poll"
    BY <1>11 DEF PollGone, Called
  <2>. HIDE DEF r
  <2>3. i \in Ids /\ cloud[i].st = "none" /\ i # NoId
    BY <1>4, <1>11, ConstantsAssumption DEF PollGone, Called, Exists, StepFits
  <2>4. p \in freshProc => s.fin /\ MayFollow(s, r.fsId, Shown(r), cloud', n)
    BY <1>5, <2>1, <2>2, <2>3 DEF MayFollow
  <2>. QED BY <1>1, <2>2, <2>4, PublishExact
<1>12. CASE PollAvailable(p)
  <2>1. PICK t \in {{}, {"Failed"}} :
          Goto(p, "patch",
               setCondition(setCondition(o, {"Ready"}, {"Provisioning", "Failed"}), t, {}), FALSE)
    BY <1>12 DEF PollAvailable
  <2>. DEFINE r == setCondition(setCondition(o, {"Ready"}, {"Provisioning", "Failed"}), t, {})
  <2>2. Shown(r) = (Shown(o) \cup {"Ready"}) \ {"Provisioning"} /\ r.fsId = i /\ Goto(p, "patch", r, FALSE)
    BY <1>6, <2>1
  <2>. HIDE DEF r
  <2>3. UNCHANGED <<store, freshProc>> /\ proc[p].pc = "poll" /\ i # NoId
    BY <1>4, <1>12, ConstantsAssumption DEF PollAvailable, Polled, Called, StepFits
  <2>4. p \in freshProc => s.fin /\ MayFollow(s, r.fsId, Shown(r), cloud', n)
    BY <1>5, <2>2, <2>3 DEF MayFollow
  <2>. QED BY <1>1, <2>2, <2>3, <2>4, PublishExact
<1>13. CASE PollErrored(p)
  <2>. DEFINE r == setCondition(o, {"Failed"}, {"Provisioning"})
  <2>1. Shown(r) = Shown(o) \ {"Provisioning"} /\ r.fsId = i
    BY <1>6
  <2>2. /\ Goto(p, "patch", r, FALSE) /\ UNCHANGED <<store, freshProc>>
        /\ proc[p].pc = "poll"
    BY <1>13 DEF PollErrored, Polled, Called
  <2>. HIDE DEF r
  <2>3. p \in freshProc => s.fin /\ MayFollow(s, r.fsId, Shown(r), cloud', n)
    BY <1>5, <2>1, <2>2 DEF MayFollow
  <2>. QED BY <1>1, <2>2, <2>3, PublishExact
<1>14. CASE PollPending(p) \/ DeleteInFlight(p)
  <2>1. /\ freshProc' = freshProc \ {p} /\ UNCHANGED store
        /\ proc' = [proc EXCEPT ![p] = Idle]
    BY <1>14 DEF PollPending, DeleteInFlight, Polled, Called, Return
  <2>. QED BY <1>1, <1>3, <2>1, AsideExact
<1>15. CASE DeleteGetGone(p)
  <2>. DEFINE r == setCondition(o, {}, {"Deleting"})
  <2>1. Shown(r) = Shown(o) \ {"Deleting"} /\ r.fsId = i
    BY <1>6
  <2>2. /\ Goto(p, "patchThenRemove", r, FALSE) /\ UNCHANGED <<store, freshProc, cloud>>
        /\ proc[p].pc = "delGet"
    BY <1>15 DEF DeleteGetGone, Called
  <2>. HIDE DEF r
  <2>3. cloud[i].st = "none"
    BY <1>4, <1>15 DEF DeleteGetGone, Called, Exists, StepFits
  <2>4. p \in freshProc => s.fin /\ s.del /\ MayFollow(s, r.fsId, Shown(r), cloud', n)
    BY <1>5, <2>1, <2>2, <2>3 DEF MayFollow
  <2>. QED BY <1>1, <2>2, <2>4, PublishExact
<1>16. CASE DeleteGetExists(p)
  <2>1. p \in freshProc => ExactFits("delShare", o, s, cloud', n)
    BY <1>16, CopyExactFits DEF DeleteGetExists, Called, ExactFits
  <2>. QED BY <1>1, <1>16, <2>1, GotoExact DEF DeleteGetExists, Called
<1>17. CASE DeleteAccepted(p)
  <2>. DEFINE r == setCondition(o, {"Deleting"}, {"Ready"})
  <2>1. Shown(r) = (Shown(o) \cup {"Deleting"}) \ {"Ready"} /\ r.fsId = i
    BY <1>6
  <2>2. /\ Goto(p, "patch", r, TRUE) /\ UNCHANGED <<store, freshProc>>
        /\ proc[p].pc = "delShare"
    BY <1>17 DEF DeleteAccepted, Called
  <2>. HIDE DEF r
  <2>3. i # NoId /\ cloud'[i].st = "deleting"
    BY <1>3, <1>4, <1>17, ConstantsAssumption DEF DeleteAccepted, Called, StepFits, Shares
  <2>4. p \in freshProc => s.fin /\ MayFollow(s, r.fsId, Shown(r), cloud', n)
    BY <1>5, <2>1, <2>2, <2>3 DEF MayFollow
  <2>. QED BY <1>1, <2>2, <2>4, PublishExact
<1>. QED BY <1>7, <1>8, <1>9, <1>10, <1>11, <1>12, <1>13, <1>14, <1>15, <1>16, <1>17 DEF HuaweiCall

LEMMA ApiWriteExact ==
  ASSUME TypeInv, TypeInv', IdInv, CopyExact, NEW p \in Operators, ApiWrite(p)
  PROVE  CopyExact'
<1>1. DoomKept
  BY DEF DoomKept, SharesKept, ApiWrite, AddFinalizer, patchStatus, patchThenRemove,
     patchMissedThenRemove, patchLostThenReturn, removeFinalizer, WriteMissed, WriteRefused
<1>2. freshProc \subseteq Operators
  BY DEF TypeInv, TypeOK
<1>3. CASE AddFinalizer(p) \/ patchStatus(p) \/ patchLostThenReturn(p) \/ removeFinalizer(p)
  <2>. DEFINE w == {p}
  <2>1. /\ p \in freshProc /\ UNCHANGED cloud /\ proc' = [proc EXCEPT ![p] = Idle]
        /\ \E r \in {[store[proc[p].key] EXCEPT !.fin = TRUE], StatusWritten(p),
                     Collected([store[proc[p].key] EXCEPT !.fin = FALSE])} :
             Write(proc[p].key, r, w, {})
    BY <1>3 DEF AddFinalizer, patchStatus, patchLostThenReturn, removeFinalizer, Return
  <2>2. /\ proc[p].key \in CRs
        /\ [store[proc[p].key] EXCEPT !.fin = TRUE] \in CR
        /\ StatusWritten(p) \in CR
        /\ Collected([store[proc[p].key] EXCEPT !.fin = FALSE]) \in CR \cup {Absent}
    BY <2>1, CurrentCopy, Updates
  <2>3. PICK r \in CR \cup {Absent} : Write(proc[p].key, r, w, {})
    BY <2>1, <2>2
  <2>4. w \in SUBSET Operators /\ \A q \in Operators \ w : proc'[q] = proc[q]
    BY <2>1
  <2>. HIDE DEF w
  <2>. QED BY <2>1, <2>2, <2>3, <2>4, WriteExact
<1>4. CASE patchThenRemove(p)
  <2>. DEFINE w == {p}
              c == proc[p].key
              r == StatusWritten(p)
  <2>1. /\ p \in freshProc /\ proc[p].pc = "patchThenRemove"
        /\ Write(c, r, w, w) /\ UNCHANGED cloud
        /\ proc' = [proc EXCEPT ![p] = [pc |-> "removeFin", key |-> c,
                                        obj |-> [r EXCEPT !.fin = FALSE], again |-> FALSE]]
    BY <1>4 DEF patchThenRemove, Goto
  <2>2. c \in CRs /\ r \in CR /\ r.fin /\ r.del
    <3>1. store[c].fin /\ store[c].del
      BY <2>1, CopyExactFits DEF ExactFits
    <3>2. r.del = store[c].del
      BY <2>1, CurrentCopy DEF StatusWritten, CR
    <3>. QED BY <2>1, <3>1, <3>2, CurrentCopy
  <2>3. w \in SUBSET Operators /\ w \in SUBSET w
    OBVIOUS
  <2>. HIDE DEF w, c, r
  <2>4. /\ store'[c] = r
        /\ freshProc' \subseteq (freshProc \ w) \cup w
        /\ \A q \in freshProc' \ w : store'[proc[q].key] = store[proc[q].key]
    BY <2>1, <2>2, <2>3, WriteEffect
  <2>5. /\ proc'[p].key = c /\ proc'[p].pc = "removeFin"
        /\ \A q \in Operators : q # p => proc'[q] = proc[q]
    BY <2>1 DEF TypeInv, TypeOK
  <2>6. ExactFits(proc'[p].pc, proc'[p].obj, store'[proc'[p].key], cloud', FsName[proc'[p].key])
    BY <2>2, <2>4, <2>5 DEF ExactFits
  <2>7. ASSUME NEW q \in freshProc', q # p
        PROVE  ExactFits(proc'[q].pc, proc'[q].obj, store'[proc'[q].key], cloud', FsName[proc'[q].key])
    <3>1. q \in freshProc /\ proc'[q] = proc[q] /\ store'[proc[q].key] = store[proc[q].key]
      BY <1>2, <2>1, <2>4, <2>5, <2>7 DEF w
    <3>. QED BY <1>1, <3>1, OtherExact
  <2>8. \A q \in freshProc' :
          ExactFits(proc'[q].pc, proc'[q].obj, store'[proc'[q].key], cloud', FsName[proc'[q].key])
    BY <2>6, <2>7
  <2>. QED BY <2>8, ExactAfter
<1>5. CASE patchMissedThenRemove(p)
  <2>1. p \notin freshProc
    BY <1>5 DEF patchMissedThenRemove, TypeInv, CopyStored
  <2>. QED BY <1>1, <1>5, <2>1, GotoExact DEF patchMissedThenRemove
<1>6. CASE WriteMissed(p) \/ WriteRefused(p)
  <2>1. /\ freshProc' = freshProc \ {p} /\ UNCHANGED store
        /\ proc' = [proc EXCEPT ![p] = Idle]
    BY <1>6 DEF WriteMissed, WriteRefused, Return
  <2>. QED BY <1>1, <1>2, <2>1, AsideExact
<1>. QED BY <1>3, <1>4, <1>5, <1>6 DEF ApiWrite

LEMMA ReconcileExact ==
  ASSUME TypeInv, TypeInv', IdInv, CopyExact,
         NEW p \in Operators, NEW c \in CRs, Reconcile(p, c)
  PROVE  CopyExact'
<1>. DEFINE o == cache[p][c]
<1>1. Pickup(p, c) /\ DoomKept /\ freshProc \subseteq Operators
  BY DEF Reconcile, NothingToDo, DropUnrecorded, RetainShare, DeleteShare, Terminating,
     EnsureFinalizer, SkipPaused, StartCreate, StartPoll, Wanted, Pickup, DoomKept, SharesKept,
     TypeInv, TypeOK
<1>2. CASE NothingToDo(p, c)
  BY <1>1, <1>2, AsideExact DEF NothingToDo, Pickup
<1>3. CASE ~NothingToDo(p, c)
  <2>1. o # Absent /\ o \in CR
    BY <1>3 DEF Reconcile, DropUnrecorded, RetainShare, DeleteShare, Terminating, EnsureFinalizer,
                SkipPaused, StartCreate, StartPoll, Wanted, TypeInv, TypeOK
  <2>2. /\ LET r == setCondition(o, {}, {"Deleting"}) IN
             r.fsId = o.fsId /\ Shown(r) = Shown(o) \ {"Deleting"}
        /\ LET r == setCondition(o, {}, {"Provisioning"}) IN
             r.fsId = o.fsId /\ Shown(r) = Shown(o) \ {"Provisioning"}
    BY <2>1, CallObjectIds, ObjectsShown
  <2>. HIDE DEF o
  <2>. USE <1>1 DEF Terminating, Wanted, ExactFits, o
  <2>3. CASE DropUnrecorded(p, c)
    BY <2>3, EnterExact DEF DropUnrecorded
  <2>4. CASE RetainShare(p, c)
    BY <2>2, <2>4, EnterExact DEF RetainShare, MayFollow
  <2>5. CASE DeleteShare(p, c)
    BY <2>5, EnterExact DEF DeleteShare
  <2>6. CASE EnsureFinalizer(p, c)
    BY <2>6, EnterExact DEF EnsureFinalizer
  <2>7. CASE SkipPaused(p, c)
    BY <2>2, <2>7, EnterExact DEF SkipPaused, MayFollow
  <2>8. CASE StartCreate(p, c)
    BY <2>8, EnterExact DEF StartCreate
  <2>9. CASE StartPoll(p, c)
    BY <2>9, EnterExact DEF StartPoll
  <2>. QED BY <1>3, <2>3, <2>4, <2>5, <2>6, <2>7, <2>8, <2>9 DEF Reconcile
<1>. QED BY <1>2, <1>3

LEMMA UserExact ==
  ASSUME TypeInv, TypeInv', CopyExact, NEW c \in CRs, UserStep(c) \/ Unhold(c)
  PROVE  CopyExact'
<1>. DEFINE w == {}
<1>1. PICK r \in CR \cup {Absent} : Write(c, r, w, {})
  BY UserWrites
<1>2. w \in SUBSET Operators /\ \A q \in Operators \ w : proc'[q] = proc[q]
  BY UserWrites DEF Elsewhere
<1>3. UNCHANGED cloud
  BY UserWrites DEF Elsewhere
<1>. HIDE DEF w
<1>. QED BY <1>1, <1>2, <1>3, WriteExact

LEMMA HuaweiExact ==
  ASSUME TypeInv, TypeInv', CopyExact, NEW i \in Ids, HuaweiStep(i)
  PROVE  CopyExact'
<1>1. PICK st : /\ cloud[i].st # "none"
                /\ cloud[i].st = "deleting" => st = "none"
                /\ cloud' = [cloud EXCEPT ![i].st = st]
                /\ UNCHANGED <<store, cache, freshCache, queue, proc, freshProc>>
  BY DEF HuaweiStep, Provision, Suspend, Resume, Destroy, Vanish, MoveShare
<1>2. cloud \in [Ids -> Shares]
  BY DEF TypeInv, TypeOK
<1>3. DoomKept
  BY <1>1, <1>2, MovedShares DEF DoomKept, Shares
<1>. QED BY <1>1, <1>3, AsideExact

LEMMA OperatorExact ==
  ASSUME TypeInv, TypeInv', CopyExact, NEW p \in Operators
  PROVE  /\ Crash(p) => CopyExact'
         /\ \A c \in CRs : Informer(p, c) => CopyExact'
<1>1. freshProc \subseteq Operators
  BY DEF TypeInv, TypeOK
<1>2. UNCHANGED cloud => DoomKept
  BY DEF DoomKept, SharesKept
<1>3. Crash(p) => CopyExact'
  BY <1>1, <1>2, AsideExact DEF Crash
<1>4. ASSUME NEW c \in CRs, Informer(p, c) PROVE CopyExact'
  BY <1>1, <1>2, <1>4, AsideExact DEF Informer, Observe, Resync
<1>. QED BY <1>3, <1>4

-----------------------------------------------------------------------------
(* The invariant *)

LEMMA RefInvInit == Init => RefInv
<1>1. Init => CopyExact
  BY DEF Init, CopyExact
<1>. QED BY <1>1, IndInvInit DEF RefInv

LEMMA RefInvStep == RefInv /\ [Next]_vars => RefInv'
<1> SUFFICES ASSUME IndInv, IndInv', CopyExact, [Next]_vars PROVE CopyExact'
  BY IndInvStep DEF RefInv
<1>. TypeInv /\ TypeInv' /\ IdInv
  BY DEF IndInv, TypeInv, IdInv
<1>1. CASE UNCHANGED vars
  BY <1>1, AsideExact DEF vars, DoomKept, SharesKept
<1>2. ASSUME NEW p \in Operators, ApiWrite(p) \/ HuaweiCall(p) \/ Crash(p) PROVE CopyExact'
  BY <1>2, ApiWriteExact, HuaweiCallExact, OperatorExact
<1>3. ASSUME NEW p \in Operators, NEW c \in CRs, Reconcile(p, c) \/ Informer(p, c) PROVE CopyExact'
  BY <1>3, ReconcileExact, OperatorExact
<1>4. ASSUME NEW c \in CRs, UserStep(c) \/ Unhold(c) PROVE CopyExact'
  BY <1>4, UserExact
<1>5. ASSUME NEW i \in Ids, HuaweiStep(i) PROVE CopyExact'
  BY <1>5, HuaweiExact
<1>. QED BY <1>1, <1>2, <1>3, <1>4, <1>5 DEF Next

(* Whatever is stale, lost or interrupted, a copy from which a write would be
   accepted is exact: it differs from the stored CR by one legal step. *)
THEOREM CopiesExact == Spec => []CopyExact
<1>1. RefInv => CopyExact
  BY DEF RefInv
<1>. QED BY <1>1, RefInvInit, RefInvStep, PTL DEF Spec

-----------------------------------------------------------------------------
(* Every step is a step of FsLifecycle, or a stutter *)

(* The records of FsLifecycle. *)
Records == [st : {"none", "live", "terminating"}, guarded : BOOLEAN, policy : {"Retain", "Delete"},
            id : Ids \cup {NoId}, shown : SUBSET Conditions]

LEMMA ViewOf ==
  ASSUME NEW o \in CR
  PROVE  /\ View(o) \in Records
         /\ View(o).st = IF o.del THEN "terminating" ELSE "live"
         /\ View(o).guarded = o.fin
         /\ View(o).policy = o.policy
         /\ View(o).id = o.fsId
         /\ View(o).shown = Shown(o)
BY AbsentAssumption DEF View, Shown, Records, CR

LEMMA RecordEqual ==
  ASSUME NEW v \in Records, NEW w \in Records,
         v.st = w.st, v.guarded = w.guarded, v.policy = w.policy, v.id = w.id, v.shown = w.shown
  PROVE  v = w
BY DEF Records

(* How the record of a CR changes with the CR: r's fields decide. *)

LEMMA ViewFin ==
  ASSUME NEW s \in CR, NEW b \in BOOLEAN
  PROVE  View([s EXCEPT !.fin = b]) = [View(s) EXCEPT !.guarded = b]
<1>. DEFINE r == [s EXCEPT !.fin = b]
            v == View(s)
            w == [v EXCEPT !.guarded = b]
<1>1. /\ r \in CR /\ r.fin = b
      /\ r.del = s.del /\ r.policy = s.policy /\ r.fsId = s.fsId /\ Shown(r) = Shown(s)
  BY DEF CR, Shown
<1>2. v \in Records
  BY ViewOf
<1>. HIDE DEF r
<1>3. /\ View(r) \in Records /\ View(r).guarded = b /\ View(r).st = v.st
      /\ View(r).policy = v.policy /\ View(r).id = v.id /\ View(r).shown = v.shown
  BY <1>1, ViewOf
<1>. HIDE DEF v
<1>4. /\ w \in Records /\ w.guarded = b /\ w.st = v.st
      /\ w.policy = v.policy /\ w.id = v.id /\ w.shown = v.shown
  BY <1>2 DEF Records
<1>. HIDE DEF w
<1>5. View(r) = w
  BY <1>3, <1>4, RecordEqual
<1>. QED BY <1>5 DEF r, v, w

LEMMA ViewStatus ==
  ASSUME NEW s \in CR, NEW r \in CR,
         r.del = s.del, r.policy = s.policy, r.fin = s.fin
  PROVE  View(r) = [View(s) EXCEPT !.id = r.fsId, !.shown = Shown(r)]
<1>. DEFINE v == View(s)
            i == r.fsId
            u == Shown(r)
            w == [v EXCEPT !.id = i, !.shown = u]
<1>1. v \in Records /\ i \in Ids \cup {NoId} /\ u \in SUBSET Conditions
  BY ViewOf DEF CR, Shown
<1>2. /\ View(r) \in Records /\ View(r).id = i /\ View(r).shown = u
      /\ View(r).st = v.st /\ View(r).policy = v.policy /\ View(r).guarded = v.guarded
  BY ViewOf
<1>. HIDE DEF v, i, u
<1>3. /\ w \in Records /\ w.id = i /\ w.shown = u
      /\ w.st = v.st /\ w.policy = v.policy /\ w.guarded = v.guarded
  BY <1>1 DEF Records
<1>. HIDE DEF w
<1>4. View(r) = w
  BY <1>2, <1>3, RecordEqual
<1>. QED BY <1>4 DEF v, i, u, w

LEMMA ViewPolicy ==
  ASSUME NEW s \in CR, NEW pol \in {"Retain", "Delete"}, NEW z \in BOOLEAN
  PROVE  View([s EXCEPT !.policy = pol, !.paused = z]) = [View(s) EXCEPT !.policy = pol]
<1>. DEFINE r == [s EXCEPT !.policy = pol, !.paused = z]
            v == View(s)
            w == [v EXCEPT !.policy = pol]
<1>1. /\ r \in CR /\ r.policy = pol
      /\ r.del = s.del /\ r.fin = s.fin /\ r.fsId = s.fsId /\ Shown(r) = Shown(s)
  BY DEF CR, Shown
<1>2. v \in Records
  BY ViewOf
<1>. HIDE DEF r
<1>3. /\ View(r) \in Records /\ View(r).policy = pol /\ View(r).st = v.st
      /\ View(r).guarded = v.guarded /\ View(r).id = v.id /\ View(r).shown = v.shown
  BY <1>1, ViewOf
<1>. HIDE DEF v
<1>4. /\ w \in Records /\ w.policy = pol /\ w.st = v.st
      /\ w.guarded = v.guarded /\ w.id = v.id /\ w.shown = v.shown
  BY <1>2 DEF Records
<1>. HIDE DEF w
<1>5. View(r) = w
  BY <1>3, <1>4, RecordEqual
<1>. QED BY <1>5 DEF r, v, w

LEMMA ViewDel ==
  ASSUME NEW s \in CR, NEW h \in BOOLEAN
  PROVE  View([s EXCEPT !.del = TRUE, !.held = h]) = [View(s) EXCEPT !.st = "terminating"]
<1>. DEFINE r == [s EXCEPT !.del = TRUE, !.held = h]
            v == View(s)
            w == [v EXCEPT !.st = "terminating"]
<1>1. /\ r \in CR /\ r.del
      /\ r.policy = s.policy /\ r.fin = s.fin /\ r.fsId = s.fsId /\ Shown(r) = Shown(s)
  BY DEF CR, Shown
<1>2. v \in Records
  BY ViewOf
<1>. HIDE DEF r
<1>3. /\ View(r) \in Records /\ View(r).st = "terminating" /\ View(r).policy = v.policy
      /\ View(r).guarded = v.guarded /\ View(r).id = v.id /\ View(r).shown = v.shown
  BY <1>1, ViewOf
<1>. HIDE DEF v
<1>4. /\ w \in Records /\ w.st = "terminating" /\ w.policy = v.policy
      /\ w.guarded = v.guarded /\ w.id = v.id /\ w.shown = v.shown
  BY <1>2 DEF Records
<1>. HIDE DEF w
<1>5. View(r) = w
  BY <1>3, <1>4, RecordEqual
<1>. QED BY <1>5 DEF r, v, w

LEMMA ViewHeld ==
  ASSUME NEW s \in CR
  PROVE  View([s EXCEPT !.held = FALSE]) = View(s)
<1>. DEFINE r == [s EXCEPT !.held = FALSE]
<1>1. /\ r \in CR /\ r.del = s.del
      /\ r.policy = s.policy /\ r.fin = s.fin /\ r.fsId = s.fsId /\ r.conds = s.conds
  BY DEF CR
<1>. HIDE DEF r
<1>2. View(r) = View(s)
  BY <1>1, AbsentAssumption DEF View
<1>. QED BY <1>2 DEF r

LEMMA StoredIs ==
  ASSUME NEW c \in CRs
  PROVE  Stored[c] = View(store[c])
BY DEF Stored

(* A write to key c changes one stored record. *)
LEMMA Becomes ==
  ASSUME TypeInv, NEW c \in CRs, NEW r \in CR \cup {Absent}, NEW w, NEW k, Write(c, r, w, k)
  PROVE  Stored' = [Stored EXCEPT ![c] = View(r)]
<1>1. store'[c] = r /\ \A d \in CRs : d # c => store'[d] = store[d]
  BY WrittenKey
<1>. QED BY <1>1 DEF Stored

LEMMA StatusFields ==
  ASSUME TypeInv, IdInv, NEW p \in freshProc
  PROVE  LET s == store[proc[p].key]
             r == StatusWritten(p) IN
         /\ r.del = s.del /\ r.fin = s.fin /\ r.policy = s.policy
         /\ r.fsId = proc[p].obj.fsId /\ Shown(r) = Shown(proc[p].obj)
<1>. DEFINE s == store[proc[p].key]
            i == proc[p].obj.fsId
            t == proc[p].obj.conds
<1>1. s \in CR /\ i \in Ids \cup {NoId} /\ t \in SUBSET Conditions
  BY CurrentCopy DEF CR
<1>2. StatusWritten(p) = [s EXCEPT !.fsId = i, !.conds = t]
  BY DEF StatusWritten
<1>. HIDE DEF s, i, t
<1>3. LET r == [s EXCEPT !.fsId = i, !.conds = t] IN
        r.del = s.del /\ r.fin = s.fin /\ r.policy = s.policy /\ r.fsId = i /\ r.conds = t
  BY <1>1 DEF CR
<1>. QED BY <1>2, <1>3 DEF s, i, t, Shown

(* The reconciler's writes. *)
LEMMA ApiWriteSteps ==
  ASSUME TypeInv, IdInv, CopyExact, NEW p \in Operators, ApiWrite(p)
  PROVE  UNCHANGED <<Stored, cloud>> \/ \E c \in CRs : F!CRStep(c)
<1>. DEFINE c == proc[p].key
            s == store[proc[p].key]
            o == proc[p].obj
<1>1. UNCHANGED cloud
  BY DEF ApiWrite, AddFinalizer, patchStatus, patchThenRemove, patchMissedThenRemove,
     patchLostThenReturn, removeFinalizer, WriteMissed, WriteRefused
<1>2. CASE patchMissedThenRemove(p) \/ WriteMissed(p) \/ WriteRefused(p)
  BY <1>1, <1>2 DEF patchMissedThenRemove, WriteMissed, WriteRefused, Stored
<1>3. ASSUME p \in freshProc
      PROVE  /\ c \in CRs /\ s \in CR /\ s # Absent /\ o \in CR
             /\ ExactFits(proc[p].pc, o, s, cloud, FsName[c])
             /\ CopyFits(proc[p].pc, o, s)
             /\ Stored[c] = View(s)
  BY <1>3, CurrentCopy, CopyExactFits, StoredIs
<1>4. CASE AddFinalizer(p)
  <2>. DEFINE r == [s EXCEPT !.fin = TRUE]
  <2>1. /\ p \in freshProc /\ proc[p].pc = "addFin"
        /\ \E w : Write(c, r, w, {})
    BY <1>4 DEF AddFinalizer
  <2>2. r \in CR
    BY <1>3, <2>1, Updates
  <2>3. Stored' = [Stored EXCEPT ![c] = View(r)]
    <3>. HIDE DEF r, c
    <3>. QED BY <1>3, <2>1, <2>2, Becomes
  <2>4. ~s.del
    BY <1>3, <2>1 DEF ExactFits
  <2>5. View(r) = [View(s) EXCEPT !.guarded = TRUE]
    BY <1>3, <2>1, ViewFin
  <2>6. View(s).st = "live"
    BY <1>3, <2>1, <2>4, ViewOf
  <2>. HIDE DEF r, s, c, o
  <2>7. F!Guard(c)
    BY <1>1, <1>3, <2>1, <2>3, <2>5, <2>6 DEF F!Guard, F!Become
  <2>. QED BY <1>3, <2>1, <2>7 DEF F!CRStep
<1>5. CASE patchStatus(p) \/ patchThenRemove(p) \/ patchLostThenReturn(p)
  <2>. DEFINE r == StatusWritten(p)
  <2>1. /\ p \in freshProc /\ proc[p].pc \in {"patch", "patchThenRemove"}
        /\ \E w, k : Write(c, r, w, k)
    BY <1>5 DEF patchStatus, patchThenRemove, patchLostThenReturn
  <2>2. r \in CR /\ r # Absent
    BY <2>1, CurrentCopy
  <2>3. Stored' = [Stored EXCEPT ![c] = View(r)]
    <3>. HIDE DEF r, c
    <3>. QED BY <1>3, <2>1, <2>2, Becomes
  <2>4. View(r) = [View(s) EXCEPT !.id = o.fsId, !.shown = Shown(o)]
    <3>1. /\ r.del = s.del /\ r.fin = s.fin /\ r.policy = s.policy
          /\ r.fsId = o.fsId /\ Shown(r) = Shown(o)
      BY <2>1, StatusFields
    <3>2. s \in CR
      BY <1>3, <2>1
    <3>. HIDE DEF r, s, o
    <3>3. View(r) = [View(s) EXCEPT !.id = r.fsId, !.shown = Shown(r)]
      BY <2>2, <3>1, <3>2, ViewStatus
    <3>. QED BY <3>1, <3>3
  <2>5. View(s).guarded /\ View(s).id = s.fsId /\ View(s).shown = Shown(s)
    BY <1>3, <2>1, ViewOf DEF ExactFits
  <2>6. CASE o.fsId = s.fsId /\ Shown(o) = Shown(s)
    <3>1. View(r) = View(s)
      <4>1. /\ r.del = s.del /\ r.fin = s.fin /\ r.policy = s.policy
            /\ r.fsId = s.fsId /\ Shown(r) = Shown(s)
        BY <1>3, <2>1, <2>2, <2>6, StatusFields
      <4>. HIDE DEF r, s, o
      <4>. QED BY <1>3, <2>1, <2>2, <4>1 DEF View, Shown
    <3>2. Stored' = Stored
      <4>. HIDE DEF r, s, c
      <4>. QED BY <1>3, <2>1, <2>3, <3>1 DEF Stored
    <3>. QED BY <1>1, <3>2
  <2>7. CASE MayFollow(s, o.fsId, Shown(o), cloud, FsName[c])
    <3>1. F!Publishes(c, o.fsId, Shown(o))
      BY <1>3, <2>1, <2>7, PublishesView
    <3>2. o.fsId \in Ids \cup {NoId} /\ Shown(o) \in SUBSET F!Standing
      BY <1>3, <2>1 DEF CR, Shown, Conditions, F!Standing
    <3>. HIDE DEF r, s, c, o
    <3>3. F!Publish(c)
      BY <1>1, <1>3, <2>1, <2>3, <2>4, <2>5, <3>1, <3>2 DEF F!Publish, F!Become
    <3>. QED BY <1>3, <2>1, <3>3 DEF F!CRStep
  <2>. QED BY <1>3, <2>1, <2>6, <2>7 DEF ExactFits
<1>6. CASE removeFinalizer(p)
  <2>. DEFINE u == [s EXCEPT !.fin = FALSE]
              r == Collected(u)
  <2>1. /\ p \in freshProc /\ proc[p].pc = "removeFin"
        /\ \E w : Write(c, r, w, {})
    BY <1>6 DEF removeFinalizer
  <2>2. u \in CR /\ r \in {u, Absent}
    BY <1>3, <2>1, Updates
  <2>3. Stored' = [Stored EXCEPT ![c] = View(r)]
    <3>. HIDE DEF r, u, c
    <3>. QED BY <1>3, <2>1, <2>2, Becomes
  <2>4. s.del /\ s.fin
    BY <1>3, <2>1 DEF ExactFits
  <2>5. View(u) = [View(s) EXCEPT !.guarded = FALSE]
    BY <1>3, <2>1, ViewFin
  <2>6. /\ View(s).st = "terminating" /\ View(s).guarded
        /\ View(s).id = s.fsId /\ View(s).policy = s.policy
    BY <1>3, <2>1, <2>4, ViewOf
  <2>7. View(Absent) = F!Blank
    BY DEF View, F!Blank
  <2>8. s.fsId = NoId \/ s.policy # "Delete" \/ cloud[s.fsId].st = "none"
    BY <1>3, <2>1 DEF CopyFits
  <2>. HIDE DEF r, u, s, c, o
  <2>9. F!Unguard(c)
    BY <1>1, <1>3, <2>1, <2>2, <2>3, <2>5, <2>6, <2>7, <2>8
       DEF F!Unguard, F!Honoured, F!Become
  <2>. QED BY <1>3, <2>1, <2>9 DEF F!CRStep
<1>. QED BY <1>2, <1>4, <1>5, <1>6 DEF ApiWrite

LEMMA UserSteps ==
  ASSUME TypeInv, NEW c \in CRs, UserStep(c) \/ Unhold(c)
  PROVE  UNCHANGED <<Stored, cloud>> \/ F!CRStep(c)
<1>. DEFINE s == store[c]
<1>1. UNCHANGED cloud
  BY UserWrites DEF Elsewhere
<1>2. Stored[c] = View(s) /\ (s # Absent => s \in CR)
  BY StoredIs DEF TypeInv, TypeOK
<1>3. View(Absent) = F!Blank
  BY DEF View, F!Blank
<1>4. Policies \subseteq {"Retain", "Delete"} /\ Pauses \subseteq BOOLEAN /\ Foreground \subseteq BOOLEAN
  BY ConstantsAssumption
<1>5. CASE UserCreate(c)
  <2>. DEFINE r(pol, z) == [del |-> FALSE, fin |-> FALSE, held |-> FALSE, policy |-> pol,
                            paused |-> z, fsId |-> NoId, conds |-> {}]
  <2>1. PICK pol \in Policies, z \in Pauses : Write(c, r(pol, z), {}, {})
    BY <1>5 DEF UserCreate
  <2>2. r(pol, z) \in CR
    BY <1>4 DEF CR
  <2>3. Stored' = [Stored EXCEPT ![c] = View(r(pol, z))]
    <3>. DEFINE w == {}
    <3>1. Write(c, r(pol, z), w, w)
      BY <2>1
    <3>. HIDE DEF r, w
    <3>. QED BY <2>2, <3>1, Becomes
  <2>4. View(r(pol, z)) = [F!Blank EXCEPT !.st = "live", !.policy = pol]
    <3>. DEFINE b == F!Blank
                v == [b EXCEPT !.st = "live", !.policy = pol]
    <3>1. /\ b \in Records /\ ~b.guarded /\ b.id = NoId /\ b.shown = {}
          /\ pol \in {"Retain", "Delete"}
      BY <1>4 DEF F!Blank, Records
    <3>. HIDE DEF b
    <3>2. /\ v \in Records /\ v.st = "live" /\ v.policy = pol
          /\ ~v.guarded /\ v.id = NoId /\ v.shown = {}
      BY <3>1 DEF Records
    <3>3. /\ View(r(pol, z)) \in Records /\ View(r(pol, z)).st = "live"
          /\ View(r(pol, z)).policy = pol /\ ~View(r(pol, z)).guarded
          /\ View(r(pol, z)).id = NoId /\ View(r(pol, z)).shown = {}
      BY <2>2, ViewOf DEF Shown
    <3>. HIDE DEF v, r
    <3>4. v.guarded = View(r(pol, z)).guarded
      BY <3>2, <3>3 DEF Records
    <3>5. View(r(pol, z)) = v
      BY <3>2, <3>3, <3>4, RecordEqual
    <3>. QED BY <3>5 DEF b, v
  <2>5. View(s).st = "none" /\ pol \in {"Retain", "Delete"}
    BY <1>4, <1>5 DEF UserCreate, View
  <2>. HIDE DEF r, s
  <2>6. F!Open(c)
    BY <1>1, <1>2, <2>3, <2>4, <2>5 DEF F!Open, F!Become
  <2>. QED BY <2>6 DEF F!CRStep
<1>6. CASE UserDelete(c)
  <2>1. PICK h \in Foreground : Write(c, Collected([s EXCEPT !.del = TRUE, !.held = h]), {}, {})
    BY <1>6 DEF UserDelete
  <2>. DEFINE u == [s EXCEPT !.del = TRUE, !.held = h]
              r == Collected(u)
  <2>2. s \in CR /\ s # Absent /\ ~s.del /\ h \in BOOLEAN
    BY <1>2, <1>4, <1>6 DEF UserDelete
  <2>3. u \in CR /\ u.fin = s.fin
    BY <2>2 DEF CR
  <2>4. r \in {u, Absent} /\ (r = Absent => ~s.fin)
    <3>. HIDE DEF u
    <3>. QED BY <2>3, AbsentAssumption DEF Collected
  <2>5. Stored' = [Stored EXCEPT ![c] = View(r)]
    <3>. DEFINE w == {}
    <3>1. Write(c, r, w, w)
      BY <2>1
    <3>. HIDE DEF r, u, w
    <3>. QED BY <2>3, <2>4, <3>1, Becomes
  <2>6. View(u) = [View(s) EXCEPT !.st = "terminating"]
    BY <2>2, ViewDel
  <2>7. View(s).st = "live" /\ View(s).guarded = s.fin
    BY <2>2, ViewOf
  <2>. HIDE DEF r, u, s
  <2>8. CASE r = u
    <3>1. F!Terminate(c)
      BY <1>1, <1>2, <2>5, <2>6, <2>7, <2>8 DEF F!Terminate, F!Become
    <3>. QED BY <3>1 DEF F!CRStep
  <2>9. CASE r = Absent
    <3>1. F!Close(c)
      BY <1>1, <1>2, <1>3, <2>4, <2>5, <2>7, <2>9 DEF F!Close, F!Become
    <3>. QED BY <3>1 DEF F!CRStep
  <2>. QED BY <2>4, <2>8, <2>9
<1>7. CASE UserEdit(c)
  <2>1. PICK pol \in Policies, z \in Pauses :
          Write(c, [s EXCEPT !.policy = pol, !.paused = z], {}, {})
    BY <1>7 DEF UserEdit
  <2>. DEFINE r == [s EXCEPT !.policy = pol, !.paused = z]
  <2>2. s \in CR /\ s # Absent /\ pol \in {"Retain", "Delete"} /\ z \in BOOLEAN
    BY <1>2, <1>4, <1>7 DEF UserEdit
  <2>3. r \in CR
    BY <2>2 DEF CR
  <2>4. Stored' = [Stored EXCEPT ![c] = View(r)]
    <3>. DEFINE w == {}
    <3>1. Write(c, r, w, w)
      BY <2>1
    <3>. HIDE DEF r, w
    <3>. QED BY <2>3, <3>1, Becomes
  <2>5. View(r) = [View(s) EXCEPT !.policy = pol]
    BY <2>2, ViewPolicy
  <2>6. View(s).st # "none"
    BY <2>2, ViewOf
  <2>. HIDE DEF r, s
  <2>7. F!Edit(c)
    BY <1>1, <1>2, <2>2, <2>4, <2>5, <2>6 DEF F!Edit, F!Become
  <2>. QED BY <2>7 DEF F!CRStep
<1>8. CASE Unhold(c)
  <2>. DEFINE u == [s EXCEPT !.held = FALSE]
              r == Collected(u)
  <2>1. s \in CR /\ s # Absent /\ Write(c, r, {}, {})
    BY <1>2, <1>8 DEF Unhold
  <2>2. u \in CR /\ u.fin = s.fin
    BY <2>1 DEF CR
  <2>3. r \in {u, Absent} /\ (r = Absent => ~s.fin)
    <3>. HIDE DEF u
    <3>. QED BY <2>2, AbsentAssumption DEF Collected
  <2>4. Stored' = [Stored EXCEPT ![c] = View(r)]
    <3>. DEFINE w == {}
    <3>1. Write(c, r, w, w)
      BY <2>1
    <3>. HIDE DEF r, u, w
    <3>. QED BY <2>2, <2>3, <3>1, Becomes
  <2>5. View(u) = View(s)
    BY <2>1, ViewHeld
  <2>6. View(s).st # "none" /\ View(s).guarded = s.fin
    BY <2>1, ViewOf
  <2>. HIDE DEF r, u, s
  <2>7. CASE r = u
    BY <1>1, <1>2, <2>4, <2>5, <2>7 DEF Stored
  <2>8. CASE r = Absent
    <3>1. F!Close(c)
      BY <1>1, <1>2, <1>3, <2>3, <2>4, <2>6, <2>8 DEF F!Close, F!Become
    <3>. QED BY <3>1 DEF F!CRStep
  <2>. QED BY <2>3, <2>7, <2>8
<1>. QED BY <1>5, <1>6, <1>7, <1>8 DEF UserStep

(* What a Huawei call does to the file systems. *)
LEMMA CallSteps ==
  ASSUME TypeInv, IdInv, NEW p \in Operators, HuaweiCall(p)
  PROVE  UNCHANGED <<Stored, cloud>> \/ \E i \in Ids : F!Issue(i) \/ F!Move(i)
<1>1. UNCHANGED Stored
  BY DEF Stored, HuaweiCall, CreateAccepted, CreateLost, CreateCollides, FindByName, PollGone,
     PollAvailable, PollErrored, PollPending, Polled, DeleteGetGone, DeleteGetExists,
     DeleteInFlight, DeleteAccepted, DeleteLost, CallFails, Called
<1>2. CASE CreateAccepted(p) \/ CreateLost(p)
  <2>. DEFINE n == FsName[proc[p].key]
  <2>1. PICK i \in FreshIds :
          cloud' = [cloud EXCEPT ![i] = [st |-> "creating", name |-> n]]
    BY <1>2 DEF CreateAccepted, CreateLost
  <2>2. proc[p].key \in CRs /\ n \in Names
    BY <1>2, ConstantsAssumption DEF CreateAccepted, CreateLost, Called, TypeInv, TypeOK
  <2>3. \A j \in Ids : cloud[j].st # "none" => cloud[j].name # n
    BY <1>2 DEF CreateAccepted, CreateLost, SharesNamed, Exists
  <2>4. i \in Ids /\ cloud[i].st = "none" /\ i \notin Mentioned
    BY <2>1 DEF FreshIds
  <2>5. \A c \in CRs : Stored[c].id # i
    <3>1. \A c \in CRs : FsIdOf(store[c]) # i /\ i # NoId
      BY <2>4, MentionedIds, ConstantsAssumption
    <3>2. ASSUME NEW c \in CRs PROVE Stored[c].id = FsIdOf(store[c])
      <4>1. CASE store[c] = Absent
        <5>1. View(Absent).id = NoId
          BY DEF View
        <5>. QED BY <4>1, <5>1, StoredIs
      <4>2. CASE store[c] # Absent
        BY <4>2, StoredIs, ViewOf DEF TypeInv, TypeOK
      <4>. QED BY <4>1, <4>2
    <3>. QED BY <3>1, <3>2
  <2>. HIDE DEF n
  <2>6. F!Issue(i)
    BY <1>1, <2>1, <2>2, <2>3, <2>4, <2>5 DEF F!Issue
  <2>. QED BY <2>4, <2>6
<1>3. CASE DeleteAccepted(p) \/ DeleteLost(p)
  <2>1. PICK i \in Ids : cloud[i].st # "none" /\ cloud' = [cloud EXCEPT ![i].st = "deleting"]
    BY <1>3 DEF DeleteAccepted, DeleteLost, Exists
  <2>2. cloud \in [Ids -> Shares]
    BY DEF TypeInv, TypeOK
  <2>3. CASE cloud[i].st = "deleting"
    <3>1. cloud' = cloud
      BY <2>1, <2>2, <2>3 DEF Shares
    <3>. QED BY <1>1, <3>1
  <2>4. CASE cloud[i].st # "deleting"
    <3>1. F!Move(i)
      BY <1>1, <2>1, <2>2, <2>4 DEF F!Move, F!Follows, Shares
    <3>. QED BY <3>1
  <2>. QED BY <2>3, <2>4
<1>4. CASE ~(CreateAccepted(p) \/ CreateLost(p) \/ DeleteAccepted(p) \/ DeleteLost(p))
  BY <1>1, <1>4 DEF HuaweiCall, CreateCollides, FindByName, PollGone, PollAvailable, PollErrored,
     PollPending, Polled, DeleteGetGone, DeleteGetExists, DeleteInFlight, CallFails
<1>. QED BY <1>2, <1>3, <1>4

LEMMA HuaweiSteps ==
  ASSUME TypeInv, NEW i \in Ids, HuaweiStep(i)
  PROVE  F!Move(i)
<1>1. PICK st \in {"available", "error", "deleting", "none"} :
        /\ F!Follows(cloud[i].st, st)
        /\ cloud' = [cloud EXCEPT ![i].st = st]
        /\ UNCHANGED store
  BY ConstantsAssumption
     DEF HuaweiStep, Provision, Suspend, Resume, Destroy, Vanish, MoveShare, F!Follows
<1>. QED BY <1>1 DEF F!Move, Stored

-----------------------------------------------------------------------------
(* The theorems *)

LEMMA StepsMap == RefInv /\ [Next]_vars => [F!Next]_(F!vars)
<1> SUFFICES ASSUME TypeInv, IdInv, CopyExact, [Next]_vars
             PROVE  UNCHANGED <<Stored, cloud>> \/ F!Next
  BY IndInvParts DEF RefInv, F!vars
<1>1. CASE UNCHANGED vars
  BY <1>1 DEF vars, Stored
<1>2. ASSUME NEW p \in Operators, ApiWrite(p) PROVE UNCHANGED <<Stored, cloud>> \/ F!Next
  BY <1>2, ApiWriteSteps DEF F!Next
<1>3. ASSUME NEW p \in Operators, HuaweiCall(p) PROVE UNCHANGED <<Stored, cloud>> \/ F!Next
  BY <1>3, CallSteps DEF F!Next
<1>4. ASSUME NEW p \in Operators, NEW c \in CRs, Reconcile(p, c) \/ Informer(p, c)
      PROVE  UNCHANGED <<Stored, cloud>>
  BY <1>4 DEF Stored, Informer, Observe, Resync, Reconcile, NothingToDo, DropUnrecorded,
     RetainShare, DeleteShare, Terminating, EnsureFinalizer, SkipPaused, StartCreate, StartPoll,
     Wanted, Pickup
<1>5. ASSUME NEW c \in CRs, UserStep(c) \/ Unhold(c)
      PROVE  UNCHANGED <<Stored, cloud>> \/ F!Next
  BY <1>5, UserSteps DEF F!Next
<1>6. ASSUME NEW i \in Ids, HuaweiStep(i) PROVE F!Next
  BY <1>6, HuaweiSteps DEF F!Next
<1>7. ASSUME NEW p \in Operators, Crash(p) PROVE UNCHANGED <<Stored, cloud>>
  BY <1>7 DEF Stored, Crash
<1>. QED BY <1>1, <1>2, <1>3, <1>4, <1>5, <1>6, <1>7 DEF Next

(* Lifecycle implements FsLifecycle: whatever is stale, lost, interrupted or
   done by a second operator process, a stored CR moves only by its steps, of
   which those that forget, mark or let go of a file system look at it as it is
   at that moment. *)
THEOREM Refinement == Spec => Implements
<1>1. Init => F!Init
  BY DEF Init, F!Init, F!Blank, Stored, View
<1>. QED BY <1>1, StepsMap, RefInvInit, RefInvStep, PTL DEF Spec, Implements, F!Spec

-----------------------------------------------------------------------------
(* What the stored CRs inherit *)

LEMMA StoredTypes ==
  ASSUME TypeInv
  PROVE  Stored \in [CRs -> Records] /\ cloud \in [Ids -> Shares]
<1>1. View(Absent) \in Records
  BY DEF View, Records
<1>2. \A c \in CRs : View(store[c]) \in Records
  BY <1>1, ViewOf DEF TypeInv, TypeOK
<1>. QED BY <1>2 DEF Stored, TypeInv, TypeOK

(* The status invariants for one record r and the file systems cl. *)
SoundIn(r, cl) ==
  /\ "Deleting" \in r.shown =>
       r.st = "terminating" /\ r.id # NoId /\ cl[r.id].st \in {"deleting", "none"}
  /\ "Ready" \in r.shown =>
       r.id # NoId /\ "Provisioning" \notin r.shown /\ "Deleting" \notin r.shown

LEMMA SoundParts ==
  /\ F!MarkerSound /\ F!ReadySound <=> \A c \in CRs : SoundIn(Stored[c], cloud)
  /\ (F!MarkerSound /\ F!ReadySound)' <=> \A c \in CRs : SoundIn(Stored'[c], cloud')
BY DEF F!MarkerSound, F!ReadySound, SoundIn

LEMMA BecomeSound ==
  ASSUME NEW R, NEW c \in CRs, NEW r, R \in [CRs -> Records], Stored = R,
         F!Become(c, r), SoundIn(r, cloud), \A d \in CRs : SoundIn(Stored[d], cloud)
  PROVE  \A d \in CRs : SoundIn(Stored'[d], cloud')
<1>1. \A d \in CRs : Stored'[d] = IF d = c THEN r ELSE Stored[d]
  BY DEF F!Become
<1>2. cloud' = cloud
  BY DEF F!Become
<1>. QED BY <1>1, <1>2

(* A status that may be published is sound. *)
LEMMA PublishedSound ==
  ASSUME NEW c \in CRs, NEW i \in Ids \cup {NoId}, NEW t \in SUBSET F!Standing,
         Stored[c] \in Records, SoundIn(Stored[c], cloud), F!Publishes(c, i, t)
  PROVE  SoundIn([Stored[c] EXCEPT !.id = i, !.shown = t], cloud)
<1>. DEFINE r == Stored[c]
            w == [r EXCEPT !.id = i, !.shown = t]
<1>1. w.id = i /\ w.shown = t /\ w.st = r.st
  BY DEF Records
<1>. HIDE DEF w
<1>2. SoundIn(w, cloud)
  <2>. USE <1>1, ConstantsAssumption DEF SoundIn
  <2>1. CASE F!Binds(c, i, t)
    BY <2>1 DEF F!Binds
  <2>2. CASE F!Readies(c, i, t)
    BY <2>2 DEF F!Readies
  <2>3. CASE F!Settles(c, i, t)
    BY <2>3 DEF F!Settles
  <2>4. CASE F!Unbinds(c, i, t)
    BY <2>4 DEF F!Unbinds
  <2>5. CASE F!Marks(c, i, t)
    BY <2>5 DEF F!Marks
  <2>6. CASE F!Unmarks(c, i, t)
    BY <2>6 DEF F!Unmarks
  <2>. QED BY <2>1, <2>2, <2>3, <2>4, <2>5, <2>6 DEF F!Publishes
<1>. QED BY <1>2 DEF w

LEMMA SoundStep ==
  ASSUME Stored \in [CRs -> Records], cloud \in [Ids -> Shares],
         F!MarkerSound, F!ReadySound, [F!Next]_(F!vars)
  PROVE  (F!MarkerSound /\ F!ReadySound)'
<1> SUFFICES \A c \in CRs : SoundIn(Stored'[c], cloud')
  BY SoundParts
<1>1. \A c \in CRs : SoundIn(Stored[c], cloud) /\ Stored[c] \in Records
  BY SoundParts
<1>2. CASE UNCHANGED F!vars
  BY <1>1, <1>2 DEF F!vars, SoundIn
<1>3. ASSUME NEW c \in CRs, F!CRStep(c) PROVE \A d \in CRs : SoundIn(Stored'[d], cloud')
  <2>. DEFINE s == Stored[c]
  <2>1. s \in Records /\ SoundIn(s, cloud)
    BY <1>1
  <2>2. SoundIn(F!Blank, cloud)
    BY DEF F!Blank, SoundIn
  <2>3. CASE F!Open(c)
    <3>1. PICK pol \in {"Retain", "Delete"} : F!Become(c, [F!Blank EXCEPT !.st = "live", !.policy = pol])
      BY <2>3 DEF F!Open
    <3>2. [F!Blank EXCEPT !.st = "live", !.policy = pol].shown = {}
      BY DEF F!Blank
    <3>3. SoundIn([F!Blank EXCEPT !.st = "live", !.policy = pol], cloud)
      BY <3>2 DEF SoundIn
    <3>. QED BY <1>1, <3>1, <3>3, BecomeSound
  <2>4. CASE F!Edit(c)
    <3>1. PICK pol \in {"Retain", "Delete"} : F!Become(c, [s EXCEPT !.policy = pol])
      BY <2>4 DEF F!Edit
    <3>2. SoundIn([s EXCEPT !.policy = pol], cloud)
      BY <2>1 DEF SoundIn, Records
    <3>. QED BY <1>1, <3>1, <3>2, BecomeSound
  <2>5. CASE F!Terminate(c)
    <3>1. F!Become(c, [s EXCEPT !.st = "terminating"])
      BY <2>5 DEF F!Terminate
    <3>2. SoundIn([s EXCEPT !.st = "terminating"], cloud)
      BY <2>1 DEF SoundIn, Records
    <3>. QED BY <1>1, <3>1, <3>2, BecomeSound
  <2>6. CASE F!Close(c)
    BY <1>1, <2>2, <2>6, BecomeSound DEF F!Close
  <2>7. CASE F!Guard(c)
    <3>1. F!Become(c, [s EXCEPT !.guarded = TRUE])
      BY <2>7 DEF F!Guard
    <3>2. SoundIn([s EXCEPT !.guarded = TRUE], cloud)
      BY <2>1 DEF SoundIn, Records
    <3>. QED BY <1>1, <3>1, <3>2, BecomeSound
  <2>8. CASE F!Unguard(c)
    <3>1. PICK r \in {F!Blank, [s EXCEPT !.guarded = FALSE]} : F!Become(c, r)
      BY <2>8 DEF F!Unguard
    <3>2. SoundIn([s EXCEPT !.guarded = FALSE], cloud)
      BY <2>1 DEF SoundIn, Records
    <3>. QED BY <1>1, <2>2, <3>1, <3>2, BecomeSound
  <2>9. CASE F!Publish(c)
    <3>1. PICK i \in Ids \cup {NoId}, t \in SUBSET F!Standing :
            F!Publishes(c, i, t) /\ F!Become(c, [s EXCEPT !.id = i, !.shown = t])
      BY <2>9 DEF F!Publish
    <3>2. SoundIn([s EXCEPT !.id = i, !.shown = t], cloud)
      BY <2>1, <3>1, PublishedSound
    <3>. QED BY <1>1, <3>1, <3>2, BecomeSound
  <2>. QED BY <1>3, <2>3, <2>4, <2>5, <2>6, <2>7, <2>8, <2>9 DEF F!CRStep
<1>4. ASSUME NEW i \in Ids, F!Issue(i) \/ F!Move(i) PROVE \A d \in CRs : SoundIn(Stored'[d], cloud')
  <2>1. \A d \in CRs : Stored'[d] = Stored[d]
    BY <1>4 DEF F!Issue, F!Move
  <2>2. \A d \in CRs : Stored[d].id \in Ids \cup {NoId}
    BY <1>1 DEF Records
  <2>3. CASE F!Issue(i)
    <3>1. \A j \in Ids : j # i => cloud'[j] = cloud[j]
      BY <2>3 DEF F!Issue
    <3>2. \A d \in CRs : Stored[d].id # i
      BY <2>3 DEF F!Issue
    <3>. QED BY <1>1, <2>1, <2>2, <3>1, <3>2 DEF SoundIn
  <2>4. CASE F!Move(i)
    <3>1. \A j \in Ids : cloud[j].st \in {"deleting", "none"} => cloud'[j].st \in {"deleting", "none"}
      BY <2>4 DEF F!Move, F!Follows, Shares
    <3>. QED BY <1>1, <2>1, <2>2, <3>1 DEF SoundIn
  <2>. QED BY <1>4, <2>3, <2>4
<1>. QED BY <1>2, <1>3, <1>4 DEF F!Next

SoundInv == RefInv /\ F!MarkerSound /\ F!ReadySound

LEMMA SoundInvInit == Init => SoundInv
<1>1. Init => F!MarkerSound /\ F!ReadySound
  BY DEF Init, Stored, View, F!MarkerSound, F!ReadySound
<1>. QED BY <1>1, RefInvInit DEF SoundInv

LEMMA SoundInvStep == SoundInv /\ [Next]_vars => SoundInv'
<1> SUFFICES ASSUME SoundInv, [Next]_vars PROVE (F!MarkerSound /\ F!ReadySound)'
  BY RefInvStep DEF SoundInv
<1>1. Stored \in [CRs -> Records] /\ cloud \in [Ids -> Shares]
  BY IndInvParts, StoredTypes DEF SoundInv, RefInv
<1>2. [F!Next]_(F!vars)
  BY StepsMap DEF SoundInv
<1>. QED BY <1>1, <1>2, SoundStep DEF SoundInv

(* The Deleting condition is the only marker that DeleteShare was issued: it
   stands only while the FS is on its way out, whatever answers were lost. *)
THEOREM DeletingSound == Spec => []DeletingMarkerSound
<1>1. SoundInv => DeletingMarkerSound
  <2> SUFFICES ASSUME SoundInv, NEW c \in CRs, store[c] # Absent, "Deleting" \in store[c].conds
               PROVE  /\ store[c].del /\ store[c].fsId # NoId
                      /\ cloud[store[c].fsId].st \in {"deleting", "none"}
    BY DEF DeletingMarkerSound
  <2>1. store[c] \in CR
    BY IndInvParts DEF SoundInv, RefInv, TypeInv, TypeOK
  <2>2. "Deleting" \in Shown(store[c])
    BY DEF Shown
  <2>3. Stored[c] = View(store[c])
    BY StoredIs
  <2>. QED BY <2>1, <2>2, <2>3, ViewOf DEF SoundInv, F!MarkerSound
<1>. QED BY <1>1, SoundInvInit, SoundInvStep, PTL DEF Spec

(* Ready comes with an fsId and never beside Provisioning or Deleting, though
   the three are written by different branches on copies of different ages. *)
THEOREM ReadySafe == Spec => []ReadyAgrees
<1>1. SoundInv => ReadyAgrees
  <2> SUFFICES ASSUME SoundInv, NEW c \in CRs, store[c] # Absent, "Ready" \in store[c].conds
               PROVE  /\ store[c].fsId # NoId
                      /\ "Provisioning" \notin store[c].conds /\ "Deleting" \notin store[c].conds
    BY DEF ReadyAgrees
  <2>1. store[c] \in CR
    BY IndInvParts DEF SoundInv, RefInv, TypeInv, TypeOK
  <2>2. Stored[c] = View(store[c])
    BY StoredIs
  <2>3. Stored[c].shown = Shown(store[c]) /\ Stored[c].id = store[c].fsId
    BY <2>1, <2>2, ViewOf
  <2>4. /\ "Ready" \in Stored[c].shown
        /\ "Provisioning" \in store[c].conds => "Provisioning" \in Stored[c].shown
        /\ "Deleting" \in store[c].conds => "Deleting" \in Stored[c].shown
    BY <2>3 DEF Shown
  <2>. QED BY <2>3, <2>4 DEF SoundInv, F!ReadySound
<1>. QED BY <1>1, SoundInvInit, SoundInvStep, PTL DEF Spec
=============================================================================
