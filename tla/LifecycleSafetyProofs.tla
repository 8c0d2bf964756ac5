------------------------ MODULE LifecycleSafetyProofs ------------------------
(***************************************************************************)
(* Proofs of the safety properties of Lifecycle: a CR records only file    *)
(* systems of its own spec.fsName, it forgets one only when Huawei has     *)
(* none, and it loses its finalizer only when its reclaim policy has been  *)
(* honoured.  For any sets of CRs, ids, operator processes and choices.    *)
(*                                                                         *)
(* The argument: an id is handed on only between copies of one CR, and the *)
(* API server accepts a write only from a copy at the stored               *)
(* resourceVersion, which CopyAgrees ties to the stored CR at every step   *)
(* of a reconcile.                                                         *)
(***************************************************************************)
EXTENDS LifecycleProofs

USE DEF FsIdOf, hasConditionTrue

IdInv == NamesAgree /\ StepIds /\ CopyAgrees

LEMMA IndInvParts == IndInv <=> TypeInv /\ IdInv
BY DEF IndInv, TypeInv, IdInv

(* No step renames an FS that a CR or a copy of one mentions, or brings it back. *)
SharesKept ==
  \A i \in Ids \cap Mentioned :
    /\ cloud'[i].name = cloud[i].name
    /\ cloud[i].st = "none" => cloud'[i].st = "none"

LEMMA MentionedIds ==
  /\ \A c \in CRs : FsIdOf(store[c]) \in Mentioned
  /\ \A p \in Operators, c \in CRs : FsIdOf(cache[p][c]) \in Mentioned
  /\ \A p \in Operators : FsIdOf(proc[p].obj) \in Mentioned
BY DEF Mentioned

LEMMA UnchangedShares ==
  ASSUME UNCHANGED cloud
  PROVE  SharesKept
BY DEF SharesKept

(* Huawei gives a new FS an id that nothing mentions. *)
LEMMA FreshShares ==
  ASSUME NEW i \in FreshIds, NEW s,
         cloud' = [cloud EXCEPT ![i] = s], cloud \in [Ids -> Shares]
  PROVE  SharesKept
BY DEF SharesKept, FreshIds

LEMMA MovedShares ==
  ASSUME NEW i \in Ids, NEW st, cloud[i].st # "none",
         cloud' = [cloud EXCEPT ![i].st = st], cloud \in [Ids -> Shares]
  PROVE  SharesKept
BY DEF SharesKept, Shares

LEMMA StoreIds ==
  ASSUME TypeInv, NEW c \in CRs, FsIdOf(store[c]) # NoId
  PROVE  FsIdOf(store[c]) \in Ids /\ store[c] \in CR /\ FsIdOf(store[c]) = store[c].fsId
BY DEF TypeInv, TypeOK, CR

-----------------------------------------------------------------------------
(* The forms a step takes *)

(* What the copy o of a reconcile about to do pc must have in common with s. *)
CopyFits(pc, o, s) ==
  /\ \/ o.fsId = s.fsId
     \/ pc = "patch" /\ s.fsId = NoId
     \/ pc = "patch" /\ o.fsId = NoId /\ cloud[s.fsId].st = "none"
  /\ pc \in {"patchThenRemove", "removeFin"} =>
       s.fsId = NoId \/ s.policy # "Delete" \/ cloud[s.fsId].st = "none"

LEMMA CopyAgreesFits ==
  CopyAgrees <=> \A p \in freshProc : CopyFits(proc[p].pc, proc[p].obj, store[proc[p].key])
BY DEF CopyAgrees, CopyFits

StepFits(pc, i) ==
  /\ pc \in {"create", "find"} => i = NoId
  /\ pc \in {"poll", "delGet", "delShare", "patchThenRemove"} => i \in Ids

LEMMA StepIdsFits == StepIds <=> \A p \in Operators : StepFits(proc[p].pc, proc[p].obj.fsId)
BY DEF StepIds, StepFits

(* Copies of a CR that did not change still fit it. *)
LEMMA OtherFits ==
  ASSUME TypeInv, IdInv, SharesKept,
         NEW q \in freshProc,
         proc'[q] = proc[q], store'[proc[q].key] = store[proc[q].key]
  PROVE  CopyFits(proc[q].pc, proc[q].obj, store[proc[q].key])'
<1>. DEFINE s == store[proc[q].key]
<1>1. proc[q].key \in CRs /\ s # Absent /\ s \in CR
  BY DEF TypeInv, TypeOK, CopyStored
<1>2. s.fsId \in Ids => s.fsId \in Mentioned
  BY <1>1, MentionedIds
<1>3. s.fsId \in Ids \cup {NoId}
  BY <1>1 DEF CR
<1>4. s.fsId \in Ids => (cloud[s.fsId].st = "none" => cloud'[s.fsId].st = "none")
  BY <1>2 DEF SharesKept
<1>5. CopyFits(proc[q].pc, proc[q].obj, s)
  BY CopyAgreesFits DEF IdInv
<1>. QED
  BY <1>3, <1>4, <1>5 DEF CopyFits

(* A reconcile that goes on to its next call, without a write. *)
LEMMA GotoKeeps ==
  ASSUME TypeInv, TypeInv', IdInv, SharesKept,
         NEW p \in Operators, proc[p].pc # "idle",
         NEW pc \in Steps, NEW o \in CR, NEW again \in BOOLEAN,
         Goto(p, pc, o, again),
         UNCHANGED <<store, cache, freshProc>>,
         o.fsId \in Ids => cloud'[o.fsId].name = FsName[proc[p].key],
         StepFits(pc, o.fsId),
         p \in freshProc => CopyFits(pc, o, store[proc[p].key])
  PROVE  IdInv'
<1>1. /\ proc'[p].key = proc[p].key /\ proc'[p].pc = pc /\ proc'[p].obj = o
      /\ \A q \in Operators : q # p => proc'[q] = proc[q]
  BY DEF Goto, TypeInv, TypeOK
<1>2. o # Absent
  BY AbsentAssumption
<1>3. NamesAgree'
  <2>1. \A i \in Ids \cap Mentioned : cloud'[i].name = cloud[i].name
    BY DEF SharesKept
  <2>2. \A c \in CRs : FsIdOf(store[c]) \in Ids => cloud'[FsIdOf(store[c])].name = FsName[c]
    BY <2>1, MentionedIds DEF IdInv, NamesAgree
  <2>3. \A q \in Operators, c \in CRs :
          FsIdOf(cache[q][c]) \in Ids => cloud'[FsIdOf(cache[q][c])].name = FsName[c]
    BY <2>1, MentionedIds DEF IdInv, NamesAgree
  <2>4. \A q \in Operators :
          FsIdOf(proc'[q].obj) \in Ids => cloud'[FsIdOf(proc'[q].obj)].name = FsName[proc'[q].key]
    BY <1>1, <1>2, <2>1, MentionedIds DEF IdInv, NamesAgree
  <2>. QED BY <2>2, <2>3, <2>4 DEF NamesAgree
<1>4. StepIds'
  BY <1>1, StepIdsFits DEF IdInv, StepIds, StepFits
<1>5. CopyAgrees'
  <2>1. ASSUME NEW q \in freshProc, q # p
        PROVE  CopyFits(proc[q].pc, proc[q].obj, store[proc[q].key])'
    BY <1>1, <2>1, OtherFits DEF TypeInv, TypeOK
  <2>2. p \in freshProc => CopyFits(proc[p].pc, proc[p].obj, store[proc[p].key])'
    <3>. DEFINE r == store[proc[p].key]
    <3>1. SUFFICES ASSUME p \in freshProc PROVE CopyFits(pc, o, r)'
      BY <1>1
    <3>2. r \in CR /\ r.fsId \in Ids \cup {NoId} /\ r # Absent
      BY <3>1, AbsentAssumption DEF TypeInv, TypeOK, CopyStored, CR
    <3>3. r.fsId \in Ids => (cloud[r.fsId].st = "none" => cloud'[r.fsId].st = "none")
      <4>1. r.fsId \in Mentioned
        BY <3>2, MentionedIds DEF TypeInv, TypeOK
      <4>. QED BY <4>1 DEF SharesKept
    <3>4. r' = r
      BY <1>1
    <3>. QED BY <3>1, <3>2, <3>3, <3>4 DEF CopyFits
  <2>3. \A q \in freshProc' : CopyFits(proc[q].pc, proc[q].obj, store[proc[q].key])'
    BY <2>1, <2>2
  <2>. QED BY <2>3 DEF CopyAgrees, CopyFits
<1>. QED BY <1>3, <1>4, <1>5 DEF IdInv

(* A reconcile that returns, without a write. *)
LEMMA ReturnKeeps ==
  ASSUME TypeInv, IdInv, SharesKept,
         NEW p \in Operators, NEW again \in BOOLEAN,
         proc' = [proc EXCEPT ![p] = Idle],
         freshProc' = freshProc \ {p},
         UNCHANGED store,
         \A q \in Operators, c \in CRs : cache'[q][c] \in {cache[q][c], store[c]}
  PROVE  IdInv'
<1>1. /\ proc'[p] = Idle
      /\ \A q \in Operators : q # p => proc'[q] = proc[q]
  BY DEF TypeInv, TypeOK
<1>2. NamesAgree'
  <2>1. \A i \in Ids \cap Mentioned : cloud'[i].name = cloud[i].name
    BY DEF SharesKept
  <2>2. \A c \in CRs : FsIdOf(store[c]) \in Ids => cloud'[FsIdOf(store[c])].name = FsName[c]
    BY <2>1, MentionedIds DEF IdInv, NamesAgree
  <2>3. \A q \in Operators, c \in CRs :
          FsIdOf(cache[q][c]) \in Ids => cloud'[FsIdOf(cache[q][c])].name = FsName[c]
    BY <2>1, MentionedIds DEF IdInv, NamesAgree
  <2>4. \A q \in Operators, c \in CRs :
          FsIdOf(cache'[q][c]) \in Ids => cloud'[FsIdOf(cache'[q][c])].name = FsName[c]
    BY <2>2, <2>3
  <2>5. \A q \in Operators :
          FsIdOf(proc'[q].obj) \in Ids => cloud'[FsIdOf(proc'[q].obj)].name = FsName[proc'[q].key]
    BY <1>1, <2>1, MentionedIds, ConstantsAssumption DEF IdInv, NamesAgree, Idle
  <2>. QED BY <2>2, <2>4, <2>5 DEF NamesAgree
<1>3. StepIds'
  BY <1>1 DEF IdInv, StepIds, Idle
<1>4. CopyAgrees'
  <2>1. \A q \in freshProc' : CopyFits(proc[q].pc, proc[q].obj, store[proc[q].key])'
    BY <1>1, OtherFits DEF TypeInv, TypeOK
  <2>. QED BY <2>1 DEF CopyAgrees, CopyFits
<1>. QED BY <1>2, <1>3, <1>4 DEF IdInv

(* A step that leaves the CRs and the reconciles alone. *)
LEMMA AsideKeeps ==
  ASSUME TypeInv, IdInv, SharesKept,
         UNCHANGED <<store, proc, freshProc>>,
         \A q \in Operators, c \in CRs : cache'[q][c] \in {cache[q][c], store[c]}
  PROVE  IdInv'
<1>1. NamesAgree'
  <2>1. \A i \in Ids \cap Mentioned : cloud'[i].name = cloud[i].name
    BY DEF SharesKept
  <2>2. \A c \in CRs : FsIdOf(store[c]) \in Ids => cloud'[FsIdOf(store[c])].name = FsName[c]
    BY <2>1, MentionedIds DEF IdInv, NamesAgree
  <2>3. \A q \in Operators, c \in CRs :
          FsIdOf(cache[q][c]) \in Ids => cloud'[FsIdOf(cache[q][c])].name = FsName[c]
    BY <2>1, MentionedIds DEF IdInv, NamesAgree
  <2>4. \A q \in Operators, c \in CRs :
          FsIdOf(cache'[q][c]) \in Ids => cloud'[FsIdOf(cache'[q][c])].name = FsName[c]
    BY <2>2, <2>3
  <2>5. \A q \in Operators :
          FsIdOf(proc[q].obj) \in Ids => cloud'[FsIdOf(proc[q].obj)].name = FsName[proc[q].key]
    BY <2>1, MentionedIds DEF IdInv, NamesAgree
  <2>. QED BY <2>2, <2>4, <2>5 DEF NamesAgree
<1>2. StepIds'
  BY DEF IdInv, StepIds
<1>3. CopyAgrees'
  <2>1. \A q \in freshProc' : CopyFits(proc[q].pc, proc[q].obj, store[proc[q].key])'
    BY OtherFits
  <2>. QED BY <2>1 DEF CopyAgrees, CopyFits
<1>. QED BY <1>1, <1>2, <1>3 DEF IdInv

(* A reconcile that starts on the cached CR. *)
LEMMA EnterKeeps ==
  ASSUME TypeInv, IdInv,
         NEW p \in Operators, NEW c \in CRs,
         Pickup(p, c), cache[p][c] # Absent,
         NEW pc \in Steps \ {"idle"}, NEW o \in CR, NEW again \in BOOLEAN,
         Enter(p, c, pc, o, again),
         o.fsId = cache[p][c].fsId,
         StepFits(pc, o.fsId),
         pc \in {"patchThenRemove", "removeFin"} =>
           cache[p][c].fsId = NoId \/ cache[p][c].policy # "Delete"
  PROVE  IdInv'
<1>1. /\ proc'[p].key = c /\ proc'[p].pc = pc /\ proc'[p].obj = o
      /\ \A q \in Operators : q # p => proc'[q] = proc[q]
      /\ freshProc' = IF <<p, c>> \in freshCache THEN freshProc \cup {p} ELSE freshProc
      /\ proc[p].pc = "idle"
      /\ UNCHANGED <<store, cache, freshCache, cloud>>
  BY DEF Enter, Pickup, TypeInv, TypeOK
<1>2. o # Absent
  BY AbsentAssumption
<1>3. NamesAgree'
  <2>1. FsIdOf(o) \in Ids => cloud[FsIdOf(o)].name = FsName[c]
    BY <1>2 DEF IdInv, NamesAgree
  <2>. QED BY <1>1, <2>1 DEF IdInv, NamesAgree
<1>4. StepIds'
  BY <1>1 DEF IdInv, StepIds, StepFits
<1>5. CopyAgrees'
  <2>1. p \notin freshProc
    BY <1>1 DEF TypeInv, TypeOK
  <2>2. ASSUME NEW q \in freshProc
        PROVE  CopyFits(proc[q].pc, proc[q].obj, store[proc[q].key])'
    BY <1>1, <2>1, UnchangedShares, OtherFits DEF TypeInv, TypeOK
  <2>3. ASSUME <<p, c>> \in freshCache
        PROVE  CopyFits(proc[p].pc, proc[p].obj, store[proc[p].key])'
    <3>1. cache[p][c] = store[c]
      BY <2>3 DEF TypeInv, CacheCurrent
    <3>. QED BY <1>1, <3>1 DEF CopyFits
  <2>4. \A q \in freshProc' : CopyFits(proc[q].pc, proc[q].obj, store[proc[q].key])'
    BY <1>1, <2>2, <2>3
  <2>. QED BY <2>4 DEF CopyAgrees, CopyFits
<1>. QED BY <1>3, <1>4, <1>5 DEF IdInv

(* A user, or another controller, writes r to key c. *)
LEMMA ElsewhereKeeps ==
  ASSUME TypeInv, IdInv,
         NEW c \in CRs, NEW r \in CR \cup {Absent},
         Write(c, r, {}, {}), Elsewhere,
         FsIdOf(r) \in {NoId, FsIdOf(store[c])}
  PROVE  IdInv'
<1>1. /\ store'[c] = r
      /\ \A d \in CRs : d # c => store'[d] = store[d]
      /\ freshProc' \subseteq freshProc
      /\ \A q \in freshProc' : store'[proc[q].key] = store[proc[q].key]
  <2>. DEFINE w == {}
  <2>1. Write(c, r, w, w) /\ w \in SUBSET Operators /\ w \in SUBSET w
    OBVIOUS
  <2>. HIDE DEF w
  <2>2. /\ store'[c] = r
        /\ \A d \in CRs : d # c => store'[d] = store[d]
        /\ freshProc' \subseteq (freshProc \ w) \cup w
        /\ \A q \in freshProc' \ w : store'[proc[q].key] = store[proc[q].key]
    BY <2>1, WriteEffect
  <2>. QED BY <2>2 DEF w
<1> USE DEF Elsewhere
<1>2. NamesAgree'
  BY <1>1, ConstantsAssumption DEF IdInv, NamesAgree
<1>3. StepIds'
  BY DEF IdInv, StepIds
<1>4. CopyAgrees'
  <2>1. \A q \in freshProc' : CopyFits(proc[q].pc, proc[q].obj, store[proc[q].key])'
    BY <1>1, UnchangedShares, OtherFits
  <2>. QED BY <2>1 DEF CopyAgrees, CopyFits
<1>. QED BY <1>2, <1>3, <1>4 DEF IdInv

(* A reconcile that writes r to its key and returns. *)
LEMMA WriteReturnKeeps ==
  ASSUME TypeInv, IdInv,
         NEW p \in Operators, proc[p].pc # "idle",
         NEW r \in CR \cup {Absent}, NEW again \in BOOLEAN,
         Write(proc[p].key, r, {p}, {}),
         Return(p, again),
         UNCHANGED <<cache, cloud>>,
         FsIdOf(r) \in {NoId, FsIdOf(store[proc[p].key]), FsIdOf(proc[p].obj)}
  PROVE  IdInv'
<1>. DEFINE c == proc[p].key
<1>1. c \in CRs
  BY DEF TypeInv, TypeOK
<1>2. /\ store'[c] = r
      /\ \A d \in CRs : d # c => store'[d] = store[d]
      /\ freshProc' \subseteq freshProc \ {p}
      /\ \A q \in freshProc' : store'[proc[q].key] = store[proc[q].key]
  <2>. DEFINE w == {p}
              k == {}
  <2>1. Write(c, r, w, k) /\ w \in SUBSET Operators /\ k \in SUBSET w
    OBVIOUS
  <2>. HIDE DEF w, k, c
  <2>2. /\ store'[c] = r
        /\ \A d \in CRs : d # c => store'[d] = store[d]
        /\ freshProc' \subseteq (freshProc \ w) \cup k
        /\ \A q \in freshProc' \ k : store'[proc[q].key] = store[proc[q].key]
    BY <1>1, <2>1, WriteEffect
  <2>. QED BY <2>2 DEF w, k
<1>3. /\ proc'[p] = Idle
      /\ \A q \in Operators : q # p => proc'[q] = proc[q]
  BY DEF Return, TypeInv, TypeOK
<1>4. NamesAgree'
  <2>1. FsIdOf(r) \in Ids => cloud[FsIdOf(r)].name = FsName[c]
    BY <1>1, ConstantsAssumption DEF IdInv, NamesAgree
  <2>. HIDE DEF c
  <2>2. \A d \in CRs : FsIdOf(store'[d]) \in Ids => cloud[FsIdOf(store'[d])].name = FsName[d]
    BY <1>2, <2>1 DEF IdInv, NamesAgree
  <2>3. \A q \in Operators :
          FsIdOf(proc'[q].obj) \in Ids => cloud[FsIdOf(proc'[q].obj)].name = FsName[proc'[q].key]
    BY <1>3, ConstantsAssumption DEF IdInv, NamesAgree, Idle
  <2>. QED BY <2>2, <2>3 DEF IdInv, NamesAgree
<1>5. StepIds'
  BY <1>3 DEF IdInv, StepIds, Idle
<1>6. CopyAgrees'
  <2>1. \A q \in freshProc' : CopyFits(proc[q].pc, proc[q].obj, store[proc[q].key])'
    BY <1>2, <1>3, UnchangedShares, OtherFits DEF TypeInv, TypeOK
  <2>. QED BY <2>1 DEF CopyAgrees, CopyFits
<1>. QED BY <1>4, <1>5, <1>6 DEF IdInv

-----------------------------------------------------------------------------
(* The actions *)

LEMMA UpdatedFields ==
  ASSUME NEW o \in CR
  PROVE  /\ \A i \in Ids \cup {NoId} : [o EXCEPT !.fsId = i].fsId = i
         /\ \A b \in BOOLEAN : /\ [o EXCEPT !.fin = b].fsId = o.fsId
                              /\ [o EXCEPT !.held = b].fsId = o.fsId
         /\ FsIdOf(Collected(o)) \in {NoId, o.fsId}
BY DEF CR, Collected

(* The copy that removeFinalizer writes. *)
LEMMA WithoutFinalizer ==
  ASSUME NEW o \in CR
  PROVE  /\ [o EXCEPT !.fin = FALSE] \in CR
         /\ [o EXCEPT !.fin = FALSE] # Absent
         /\ [o EXCEPT !.fin = FALSE].fsId = o.fsId
<1>1. [o EXCEPT !.fin = FALSE] \in CR
  BY Updates
<1>. QED BY <1>1, UpdatedFields, AbsentAssumption

(* Only recording and forgetting an id change the id of a copy. *)
LEMMA CallObjectIds ==
  ASSUME NEW o \in CR
  PROVE  /\ Failing(o).fsId = o.fsId
         /\ \A i \in Ids \cup {NoId} :
              [setCondition(o, {"Provisioning"}, {"Failed"}) EXCEPT !.fsId = i].fsId = i
         /\ [setCondition(o, {}, {"Ready"}) EXCEPT !.fsId = NoId].fsId = NoId
         /\ \A t \in {{}, {"Failed"}} :
              setCondition(setCondition(o, {"Ready"}, {"Provisioning", "Failed"}), t, {}).fsId = o.fsId
         /\ setCondition(o, {"Failed"}, {"Provisioning"}).fsId = o.fsId
         /\ setCondition(o, {"Deleting"}, {"Ready"}).fsId = o.fsId
         /\ setCondition(o, {}, {"Deleting"}).fsId = o.fsId
         /\ setCondition(o, {}, {"Provisioning"}).fsId = o.fsId
<1> USE DEF Conditions
<1>1. \A t, f \in SUBSET Conditions :
        setCondition(o, t, f) \in CR /\ setCondition(o, t, f).fsId = o.fsId
  BY SetCondition
<1>2. Failing(o).fsId = o.fsId
  BY <1>1 DEF Failing
<1>3. \A i \in Ids \cup {NoId} :
        [setCondition(o, {"Provisioning"}, {"Failed"}) EXCEPT !.fsId = i].fsId = i
  BY <1>1, UpdatedFields
<1>4. [setCondition(o, {}, {"Ready"}) EXCEPT !.fsId = NoId].fsId = NoId
  BY <1>1, UpdatedFields
<1>5. \A t \in {{}, {"Failed"}} :
        setCondition(setCondition(o, {"Ready"}, {"Provisioning", "Failed"}), t, {}).fsId = o.fsId
  <2>. DEFINE a == setCondition(o, {"Ready"}, {"Provisioning", "Failed"})
  <2>1. a \in CR /\ a.fsId = o.fsId
    BY <1>1
  <2>. HIDE DEF a
  <2>2. \A t \in {{}, {"Failed"}} : setCondition(a, t, {}).fsId = a.fsId
    BY <2>1, SetCondition
  <2>. QED BY <2>1, <2>2 DEF a
<1>. QED BY <1>1, <1>2, <1>3, <1>4, <1>5

(* A call whose reconcile goes on to patch with the id it had. *)
LEMMA PatchKeeps ==
  ASSUME TypeInv, TypeInv', IdInv, SharesKept,
         NEW p \in Operators,
         proc[p].pc \notin {"idle", "patch", "removeFin"},
         NEW o \in CR, NEW again \in BOOLEAN,
         Goto(p, "patch", o, again),
         UNCHANGED <<store, cache, freshProc>>,
         o.fsId = proc[p].obj.fsId
  PROVE  IdInv'
<1>1. proc[p].key \in CRs /\ proc[p].obj \in CR /\ proc[p].obj # Absent
  BY AbsentAssumption DEF TypeInv, TypeOK
<1>2. o.fsId \in Ids => cloud'[o.fsId].name = FsName[proc[p].key]
  <2>1. FsIdOf(proc[p].obj) = o.fsId /\ o.fsId \in Mentioned
    BY <1>1, MentionedIds
  <2>. QED BY <2>1 DEF IdInv, NamesAgree, SharesKept
<1>3. StepFits("patch", o.fsId)
  BY DEF StepFits
<1>4. ASSUME p \in freshProc PROVE CopyFits("patch", o, store[proc[p].key])
  <2>1. CopyFits(proc[p].pc, proc[p].obj, store[proc[p].key])
    BY <1>4, CopyAgreesFits DEF IdInv
  <2>. QED BY <2>1 DEF CopyFits
<1>. QED BY <1>2, <1>3, <1>4, GotoKeeps DEF Steps

(* A call whose reconcile, having no FS recorded, records i. *)
LEMMA RecordKeeps ==
  ASSUME TypeInv, TypeInv', IdInv, SharesKept,
         NEW p \in Operators, proc[p].pc \in {"create", "find"},
         NEW i \in Ids, RecordId(p, i),
         UNCHANGED <<store, cache, freshProc>>,
         cloud'[i].name = FsName[proc[p].key]
  PROVE  IdInv'
<1>. DEFINE o == [setCondition(proc[p].obj, {"Provisioning"}, {"Failed"}) EXCEPT !.fsId = i]
<1>1. proc[p].obj \in CR /\ proc[p].key \in CRs
  BY DEF TypeInv, TypeOK
<1>2. o \in CR /\ o.fsId = i
  BY <1>1, CallObjects, CallObjectIds
<1>3. Goto(p, "patch", o, TRUE)
  BY DEF RecordId
<1>. HIDE DEF o
<1>4. StepFits("patch", o.fsId)
  BY DEF StepFits
<1>5. ASSUME p \in freshProc PROVE CopyFits("patch", o, store[proc[p].key])
  <2>1. CopyFits(proc[p].pc, proc[p].obj, store[proc[p].key])
    BY <1>5, CopyAgreesFits DEF IdInv
  <2>2. proc[p].obj.fsId = NoId
    BY DEF IdInv, StepIds
  <2>3. store[proc[p].key].fsId = NoId
    BY <2>1, <2>2 DEF CopyFits
  <2>. QED BY <2>3 DEF CopyFits
<1>. QED BY <1>2, <1>3, <1>4, <1>5, GotoKeeps DEF Steps

LEMMA HuaweiCallKeeps ==
  ASSUME TypeInv, TypeInv', IdInv, NEW p \in Operators, HuaweiCall(p)
  PROVE  IdInv'
<1>1. proc[p].pc # "idle"
  BY DEF HuaweiCall, CreateAccepted, CreateLost, CreateCollides, FindByName, PollGone,
         PollAvailable, PollErrored, PollPending, Polled, DeleteGetGone, DeleteGetExists,
         DeleteInFlight, DeleteAccepted, DeleteLost, CallFails, Called
<1>2. proc[p].obj \in CR /\ proc[p].obj # Absent /\ proc[p].key \in CRs
      /\ cloud \in [Ids -> Shares]
  BY <1>1, AbsentAssumption DEF TypeInv, TypeOK
<1>3. p \in freshProc => CopyFits(proc[p].pc, proc[p].obj, store[proc[p].key])
  BY CopyAgreesFits DEF IdInv
<1>4. StepFits(proc[p].pc, proc[p].obj.fsId)
  BY StepIdsFits DEF IdInv
<1>5. proc[p].obj.fsId \in Ids => cloud[proc[p].obj.fsId].name = FsName[proc[p].key]
  BY <1>2 DEF IdInv, NamesAgree
<1>6. CASE CreateAccepted(p)
  <2>1. PICK i \in FreshIds :
          /\ cloud' = [cloud EXCEPT ![i] = [st |-> "creating", name |-> FsName[proc[p].key]]]
          /\ RecordId(p, i)
    BY <1>6 DEF CreateAccepted
  <2>2. i \in Ids /\ cloud'[i].name = FsName[proc[p].key]
    BY <1>2, <2>1 DEF FreshIds
  <2>3. SharesKept
    BY <1>2, <2>1, FreshShares
  <2>. QED BY <1>6, <2>1, <2>2, <2>3, RecordKeeps DEF CreateAccepted, Called
<1>7. CASE CreateLost(p)
  <2>1. SharesKept
    BY <1>2, <1>7, FreshShares DEF CreateLost
  <2>. QED BY <1>2, <1>7, <2>1, CallObjects, CallObjectIds, PatchKeeps DEF CreateLost, Called, Fail
<1>8. CASE CreateCollides(p)
  <2>1. StepFits("find", proc[p].obj.fsId)
    BY <1>4, <1>8 DEF StepFits, CreateCollides, Called
  <2>2. p \in freshProc => CopyFits("find", proc[p].obj, store[proc[p].key])
    BY <1>3, <1>8 DEF CopyFits, CreateCollides, Called
  <2>. QED BY <1>1, <1>2, <1>5, <1>8, <2>1, <2>2, UnchangedShares, GotoKeeps
           DEF CreateCollides, Called, Steps
<1>9. CASE FindByName(p)
  <2>1. PICK i \in SharesNamed(FsName[proc[p].key]) : RecordId(p, i)
    BY <1>9 DEF FindByName
  <2>2. i \in Ids /\ cloud[i].name = FsName[proc[p].key]
    BY <2>1 DEF SharesNamed
  <2>. QED BY <1>9, <2>1, <2>2, UnchangedShares, RecordKeeps DEF FindByName, Called
<1>10. CASE PollGone(p)
  <2>. DEFINE o == [setCondition(proc[p].obj, {}, {"Ready"}) EXCEPT !.fsId = NoId]
  <2>1. o \in CR /\ o.fsId = NoId
    BY <1>2, CallObjects, CallObjectIds
  <2>2. Goto(p, "patch", o, TRUE) /\ UNCHANGED <<store, cache, freshProc, cloud>>
    BY <1>10 DEF PollGone, Called
  <2>. HIDE DEF o
  <2>3. cloud[proc[p].obj.fsId].st = "none"
    BY <1>4, <1>10 DEF PollGone, Called, Exists, StepFits
  <2>4. p \in freshProc => CopyFits("patch", o, store[proc[p].key])
    BY <1>3, <1>10, <2>1, <2>2, <2>3 DEF CopyFits, PollGone, Called
  <2>5. StepFits("patch", o.fsId) /\ o.fsId \notin Ids
    BY <2>1, ConstantsAssumption DEF StepFits
  <2>. QED BY <1>1, <2>1, <2>2, <2>4, <2>5, UnchangedShares, GotoKeeps DEF Steps
<1>11. CASE PollAvailable(p)
  <2>1. PICK t \in {{}, {"Failed"}} :
          Goto(p, "patch",
               setCondition(setCondition(proc[p].obj, {"Ready"}, {"Provisioning", "Failed"}), t, {}),
               FALSE)
    BY <1>11 DEF PollAvailable
  <2>. QED BY <1>2, <1>11, <2>1, CallObjects, CallObjectIds, UnchangedShares, PatchKeeps
           DEF PollAvailable, Polled, Called
<1>12. CASE PollErrored(p)
  BY <1>2, <1>12, CallObjects, CallObjectIds, UnchangedShares, PatchKeeps
     DEF PollErrored, Polled, Called
<1>13. CASE PollPending(p)
  BY <1>13, UnchangedShares, ReturnKeeps DEF PollPending, Polled, Called, Return
<1>14. CASE DeleteGetGone(p)
  <2>. DEFINE o == setCondition(proc[p].obj, {}, {"Deleting"})
  <2>1. o \in CR /\ o.fsId = proc[p].obj.fsId
    BY <1>2, CallObjects, CallObjectIds
  <2>2. Goto(p, "patchThenRemove", o, FALSE) /\ UNCHANGED <<store, cache, freshProc, cloud>>
    BY <1>14 DEF DeleteGetGone, Called
  <2>. HIDE DEF o
  <2>3. proc[p].obj.fsId \in Ids /\ cloud[proc[p].obj.fsId].st = "none"
    BY <1>4, <1>14 DEF DeleteGetGone, Called, Exists, StepFits
  <2>4. p \in freshProc => CopyFits("patchThenRemove", o, store[proc[p].key])
    BY <1>3, <1>14, <2>1, <2>2, <2>3 DEF CopyFits, DeleteGetGone, Called
  <2>5. StepFits("patchThenRemove", o.fsId)
    BY <2>1, <2>3 DEF StepFits
  <2>. QED BY <1>1, <1>5, <2>1, <2>2, <2>4, <2>5, UnchangedShares, GotoKeeps DEF Steps
<1>15. CASE DeleteGetExists(p)
  <2>1. StepFits("delShare", proc[p].obj.fsId)
    BY <1>4, <1>15 DEF StepFits, DeleteGetExists, Called
  <2>2. p \in freshProc => CopyFits("delShare", proc[p].obj, store[proc[p].key])
    BY <1>3, <1>15 DEF CopyFits, DeleteGetExists, Called
  <2>. QED BY <1>1, <1>2, <1>5, <1>15, <2>1, <2>2, UnchangedShares, GotoKeeps
           DEF DeleteGetExists, Called, Steps
<1>16. CASE DeleteInFlight(p)
  BY <1>16, UnchangedShares, ReturnKeeps DEF DeleteInFlight, Called, Return
<1>17. CASE DeleteAccepted(p)
  <2>1. SharesKept
    BY <1>2, <1>17, MovedShares DEF DeleteAccepted, Exists
  <2>. QED BY <1>2, <1>17, <2>1, CallObjects, CallObjectIds, PatchKeeps DEF DeleteAccepted, Called
<1>18. CASE DeleteLost(p)
  <2>1. SharesKept
    BY <1>2, <1>18, MovedShares DEF DeleteLost, Exists
  <2>. QED BY <1>2, <1>18, <2>1, CallObjects, CallObjectIds, PatchKeeps DEF DeleteLost, Called, Fail
<1>19. CASE CallFails(p)
  BY <1>2, <1>19, CallObjects, CallObjectIds, UnchangedShares, PatchKeeps DEF CallFails, Fail
<1>. QED BY <1>6, <1>7, <1>8, <1>9, <1>10, <1>11, <1>12, <1>13, <1>14, <1>15, <1>16, <1>17,
            <1>18, <1>19 DEF HuaweiCall

(* What a current reconcile about to do a step of ApiWrite knows of the CR. *)
LEMMA CurrentCopy ==
  ASSUME TypeInv, IdInv, NEW p \in freshProc
  PROVE  /\ p \in Operators /\ proc[p].key \in CRs
         /\ store[proc[p].key] \in CR /\ store[proc[p].key] # Absent
         /\ proc[p].obj \in CR /\ proc[p].obj # Absent
         /\ StatusWritten(p) \in CR /\ StatusWritten(p) # Absent
         /\ StatusWritten(p).fsId = proc[p].obj.fsId
         /\ StatusWritten(p).fin = store[proc[p].key].fin
         /\ StatusWritten(p).policy = store[proc[p].key].policy
         /\ CopyFits(proc[p].pc, proc[p].obj, store[proc[p].key])
BY StatusWrittenIsCR, CopyAgreesFits, AbsentAssumption DEF TypeInv, TypeOK, IdInv

LEMMA ApiWriteKeeps ==
  ASSUME TypeInv, TypeInv', IdInv, NEW p \in Operators, ApiWrite(p)
  PROVE  IdInv'
<1>1. CASE AddFinalizer(p)
  <2>. DEFINE r == [store[proc[p].key] EXCEPT !.fin = TRUE]
  <2>1. /\ p \in freshProc /\ proc[p].pc # "idle"
        /\ Write(proc[p].key, r, {p}, {}) /\ Return(p, TRUE) /\ UNCHANGED <<cache, cloud>>
    BY <1>1 DEF AddFinalizer
  <2>2. r \in CR /\ r # Absent /\ FsIdOf(r) = FsIdOf(store[proc[p].key])
    BY <2>1, CurrentCopy, Updates, UpdatedFields, AbsentAssumption
  <2>. HIDE DEF r
  <2>. QED BY <2>1, <2>2, WriteReturnKeeps
<1>2. CASE patchStatus(p) \/ patchLostThenReturn(p)
  <2>1. PICK again \in {proc[p].again, TRUE} : Return(p, again)
    BY <1>2 DEF patchStatus, patchLostThenReturn
  <2>2. again \in BOOLEAN
    BY <2>1 DEF TypeInv, TypeOK, Reconciles
  <2>3. /\ p \in freshProc /\ proc[p].pc # "idle"
        /\ Write(proc[p].key, StatusWritten(p), {p}, {}) /\ UNCHANGED <<cache, cloud>>
    BY <1>2 DEF patchStatus, patchLostThenReturn
  <2>4. StatusWritten(p) \in CR /\ FsIdOf(StatusWritten(p)) = FsIdOf(proc[p].obj)
    BY <2>3, CurrentCopy
  <2>. QED BY <2>1, <2>2, <2>3, <2>4, WriteReturnKeeps
<1>3. CASE patchThenRemove(p)
  <2>. DEFINE w == {p}
              c == proc[p].key
              r == StatusWritten(p)
              o == [r EXCEPT !.fin = FALSE]
  <2>1. /\ p \in freshProc /\ proc[p].pc = "patchThenRemove"
        /\ Write(c, r, w, w) /\ UNCHANGED <<cache, queue, cloud>>
        /\ proc' = [proc EXCEPT ![p] = [pc |-> "removeFin", key |-> c, obj |-> o, again |-> FALSE]]
    BY <1>3 DEF patchThenRemove, Goto
  <2>2. /\ c \in CRs /\ r \in CR /\ r # Absent
        /\ o \in CR /\ o # Absent /\ o.fsId = r.fsId
        /\ r.fsId = proc[p].obj.fsId /\ r.fsId = store[c].fsId
        /\ r.fsId = NoId \/ r.policy # "Delete" \/ cloud[r.fsId].st = "none"
    <3>1. CopyFits(proc[p].pc, proc[p].obj, store[c]) /\ r \in CR
      BY <2>1, CurrentCopy
    <3>2. o \in CR /\ o # Absent /\ o.fsId = r.fsId
      <4>. HIDE DEF r
      <4>. QED BY <3>1, WithoutFinalizer
    <3>. HIDE DEF o
    <3>3. r.fsId = proc[p].obj.fsId /\ r.policy = store[c].policy /\ c \in CRs /\ r # Absent
      BY <2>1, CurrentCopy
    <3>. HIDE DEF r, c
    <3>. QED BY <2>1, <3>1, <3>2, <3>3 DEF CopyFits
  <2>3. w \in SUBSET Operators /\ w \in SUBSET w
    OBVIOUS
  <2>. HIDE DEF w, c, r, o
  <2>4. /\ store'[c] = r
        /\ \A d \in CRs : d # c => store'[d] = store[d]
        /\ freshProc' \subseteq (freshProc \ w) \cup w
        /\ \A q \in freshProc' \ w : store'[proc[q].key] = store[proc[q].key]
    BY <2>1, <2>2, <2>3, WriteEffect
  <2>5. /\ proc'[p].key = c /\ proc'[p].pc = "removeFin" /\ proc'[p].obj = o
        /\ \A q \in Operators : q # p => proc'[q] = proc[q]
    BY <2>1 DEF TypeInv, TypeOK
  <2>6. NamesAgree'
    <3>1. r.fsId \in Ids => cloud[r.fsId].name = FsName[c]
      BY <2>1, <2>2, CurrentCopy DEF IdInv, NamesAgree, c
    <3>2. \A d \in CRs : FsIdOf(store'[d]) \in Ids => cloud[FsIdOf(store'[d])].name = FsName[d]
      BY <2>2, <2>4, <3>1 DEF IdInv, NamesAgree
    <3>3. \A q \in Operators :
            FsIdOf(proc'[q].obj) \in Ids => cloud[FsIdOf(proc'[q].obj)].name = FsName[proc'[q].key]
      BY <2>2, <2>5, <3>1 DEF IdInv, NamesAgree
    <3>. QED BY <2>1, <3>2, <3>3 DEF IdInv, NamesAgree
  <2>7. StepIds'
    BY <2>5 DEF IdInv, StepIds
  <2>8. CopyAgrees'
    <3>1. ASSUME NEW q \in freshProc', q # p
          PROVE  CopyFits(proc[q].pc, proc[q].obj, store[proc[q].key])'
      BY <2>1, <2>4, <2>5, <3>1, UnchangedShares, OtherFits DEF TypeInv, TypeOK, w
    <3>2. CopyFits(proc[p].pc, proc[p].obj, store[proc[p].key])'
      BY <2>1, <2>2, <2>4, <2>5 DEF CopyFits
    <3>3. \A q \in freshProc' : CopyFits(proc[q].pc, proc[q].obj, store[proc[q].key])'
      BY <3>1, <3>2
    <3>. QED BY <3>3 DEF CopyAgrees, CopyFits
  <2>. QED BY <2>6, <2>7, <2>8 DEF IdInv
<1>4. CASE patchMissedThenRemove(p)
  <2>. DEFINE o == [proc[p].obj EXCEPT !.fin = FALSE]
  <2>1. /\ proc[p].pc = "patchThenRemove" /\ store[proc[p].key] = Absent
        /\ Goto(p, "removeFin", o, FALSE)
        /\ UNCHANGED <<store, cache, freshCache, queue, freshProc, cloud>>
    BY <1>4 DEF patchMissedThenRemove
  <2>2. /\ proc[p].obj \in CR /\ proc[p].obj # Absent
        /\ o \in CR /\ o.fsId = proc[p].obj.fsId /\ p \notin freshProc
    BY <2>1, Updates, UpdatedFields, AbsentAssumption DEF TypeInv, TypeOK, CopyStored
  <2>. HIDE DEF o
  <2>3. o.fsId \in Ids => cloud'[o.fsId].name = FsName[proc[p].key]
    BY <2>1, <2>2 DEF IdInv, NamesAgree
  <2>4. StepFits("removeFin", o.fsId)
    BY DEF StepFits
  <2>. QED BY <2>1, <2>2, <2>3, <2>4, UnchangedShares, GotoKeeps DEF Steps
<1>5. CASE removeFinalizer(p)
  <2>. DEFINE s == [store[proc[p].key] EXCEPT !.fin = FALSE]
  <2>1. PICK again \in BOOLEAN : Return(p, again)
    BY <1>5 DEF removeFinalizer
  <2>2. /\ p \in freshProc /\ proc[p].pc # "idle"
        /\ Write(proc[p].key, Collected(s), {p}, {}) /\ UNCHANGED <<cache, cloud>>
    BY <1>5 DEF removeFinalizer
  <2>3. s \in CR /\ s.fsId = FsIdOf(store[proc[p].key])
    BY <2>2, CurrentCopy, Updates, UpdatedFields
  <2>. HIDE DEF s
  <2>4. Collected(s) \in CR \cup {Absent} /\ FsIdOf(Collected(s)) \in {NoId, FsIdOf(store[proc[p].key])}
    BY <2>3, Updates, UpdatedFields
  <2>. QED BY <2>1, <2>2, <2>4, WriteReturnKeeps
<1>6. CASE WriteMissed(p) \/ WriteRefused(p)
  BY <1>6, UnchangedShares, ReturnKeeps DEF WriteMissed, WriteRefused, Return, TypeInv, TypeOK, Reconciles
<1>. QED BY <1>1, <1>2, <1>3, <1>4, <1>5, <1>6 DEF ApiWrite

LEMMA ReconcileKeeps ==
  ASSUME TypeInv, IdInv, NEW p \in Operators, NEW c \in CRs, Reconcile(p, c)
  PROVE  IdInv'
<1>1. CASE NothingToDo(p, c)
  BY <1>1, UnchangedShares, AsideKeeps DEF NothingToDo, Pickup
<1>2. CASE ~NothingToDo(p, c)
  <2>. DEFINE o == cache[p][c]
  <2>1. o # Absent /\ o \in CR /\ Pickup(p, c)
    BY <1>2 DEF Reconcile, DropUnrecorded, RetainShare, DeleteShare, Terminating, EnsureFinalizer,
                SkipPaused, StartCreate, StartPoll, Wanted, TypeInv, TypeOK
  <2>2. o.fsId \in Ids \cup {NoId}
    BY <2>1 DEF CR
  <2>. HIDE DEF o
  <2>3. /\ [o EXCEPT !.fin = FALSE] \in CR /\ [o EXCEPT !.fin = FALSE].fsId = o.fsId
        /\ [o EXCEPT !.fin = TRUE] \in CR /\ [o EXCEPT !.fin = TRUE].fsId = o.fsId
    BY <2>1, Updates, UpdatedFields
  <2>4. /\ setCondition(o, {}, {"Deleting"}) \in CR
        /\ setCondition(o, {}, {"Deleting"}).fsId = o.fsId
        /\ setCondition(o, {}, {"Provisioning"}) \in CR
        /\ setCondition(o, {}, {"Provisioning"}).fsId = o.fsId
    BY <2>1, CallObjects, CallObjectIds
  <2> USE <2>1, <2>2 DEF o, Steps, StepFits, Terminating, Wanted
  <2>5. CASE DropUnrecorded(p, c)
    BY <2>3, <2>5, EnterKeeps DEF DropUnrecorded
  <2>6. CASE RetainShare(p, c)
    BY <2>4, <2>6, EnterKeeps DEF RetainShare
  <2>7. CASE DeleteShare(p, c)
    BY <2>7, EnterKeeps DEF DeleteShare
  <2>8. CASE EnsureFinalizer(p, c)
    BY <2>3, <2>8, EnterKeeps DEF EnsureFinalizer
  <2>9. CASE SkipPaused(p, c)
    BY <2>4, <2>9, EnterKeeps DEF SkipPaused
  <2>10. CASE StartCreate(p, c)
    BY <2>10, EnterKeeps DEF StartCreate
  <2>11. CASE StartPoll(p, c)
    BY <2>11, EnterKeeps DEF StartPoll
  <2>. QED BY <1>2, <2>5, <2>6, <2>7, <2>8, <2>9, <2>10, <2>11 DEF Reconcile
<1>. QED BY <1>1, <1>2

(* What users and other controllers may make r of the CR c: they keep its
   fsId and our finalizer, so that a CR with our finalizer stays. *)
UserMade(c, r) ==
  IF store[c] = Absent
  THEN r \in CR /\ r.fsId = NoId
  ELSE \/ r = Absent /\ ~store[c].fin
       \/ /\ r \in CR
          /\ r.fsId = store[c].fsId /\ r.fin = store[c].fin
          /\ store[c].del => r.del

LEMMA UserWrites ==
  ASSUME TypeInv, NEW c \in CRs, UserStep(c) \/ Unhold(c)
  PROVE  Elsewhere /\ \E r \in CR \cup {Absent} : UserMade(c, r) /\ Write(c, r, {}, {})
<1>1. store[c] # Absent => store[c] \in CR
  BY DEF TypeInv, TypeOK
<1>2. Policies \subseteq {"Retain", "Delete"} /\ Pauses \subseteq BOOLEAN /\ Foreground \subseteq BOOLEAN
  BY ConstantsAssumption
<1>3. CASE UserCreate(c)
  <2>1. PICK pol \in Policies, z \in Pauses :
          Write(c, [del |-> FALSE, fin |-> FALSE, held |-> FALSE, policy |-> pol,
                    paused |-> z, fsId |-> NoId, conds |-> {}], {}, {})
    BY <1>3 DEF UserCreate
  <2>. DEFINE r == [del |-> FALSE, fin |-> FALSE, held |-> FALSE, policy |-> pol,
                    paused |-> z, fsId |-> NoId, conds |-> {}]
  <2>2. r \in CR /\ r.fsId = NoId
    BY <1>2 DEF CR
  <2>. HIDE DEF r
  <2>3. UserMade(c, r) /\ Elsewhere
    BY <1>3, <2>2 DEF UserCreate, UserMade
  <2>. QED BY <2>1, <2>2, <2>3 DEF r
<1>4. CASE UserDelete(c)
  <2>1. PICK h \in Foreground : Write(c, Collected([store[c] EXCEPT !.del = TRUE, !.held = h]), {}, {})
    BY <1>4 DEF UserDelete
  <2>. DEFINE s == [store[c] EXCEPT !.del = TRUE, !.held = h]
  <2>2. s \in CR /\ s.fsId = store[c].fsId /\ s.fin = store[c].fin /\ s.del /\ store[c] # Absent
    BY <1>1, <1>2, <1>4 DEF UserDelete, CR
  <2>. HIDE DEF s
  <2>3. UserMade(c, Collected(s)) /\ Collected(s) \in CR \cup {Absent}
    BY <2>2, Updates DEF UserMade, Collected
  <2>. QED BY <1>4, <2>1, <2>3 DEF UserDelete, s
<1>5. CASE UserEdit(c)
  <2>1. PICK pol \in Policies, z \in Pauses :
          Write(c, [store[c] EXCEPT !.policy = pol, !.paused = z], {}, {})
    BY <1>5 DEF UserEdit
  <2>. DEFINE s == [store[c] EXCEPT !.policy = pol, !.paused = z]
  <2>2. /\ s \in CR /\ store[c] # Absent
        /\ s.fsId = store[c].fsId /\ s.fin = store[c].fin /\ s.del = store[c].del
    BY <1>1, <1>2, <1>5 DEF UserEdit, CR
  <2>. HIDE DEF s
  <2>3. UserMade(c, s)
    BY <2>2 DEF UserMade
  <2>. QED BY <1>5, <2>1, <2>2, <2>3 DEF UserEdit, s
<1>6. CASE Unhold(c)
  <2>. DEFINE s == [store[c] EXCEPT !.held = FALSE]
  <2>1. /\ s \in CR /\ store[c] # Absent
        /\ s.fsId = store[c].fsId /\ s.fin = store[c].fin /\ s.del = store[c].del
    BY <1>1, <1>6 DEF Unhold, CR
  <2>2. Write(c, Collected(s), {}, {}) /\ Elsewhere
    BY <1>6 DEF Unhold
  <2>. HIDE DEF s
  <2>3. UserMade(c, Collected(s)) /\ Collected(s) \in CR \cup {Absent}
    BY <2>1, Updates DEF UserMade, Collected
  <2>. QED BY <2>2, <2>3
<1>. QED BY <1>3, <1>4, <1>5, <1>6 DEF UserStep

LEMMA UserKeeps ==
  ASSUME TypeInv, IdInv, NEW c \in CRs, UserStep(c) \/ Unhold(c)
  PROVE  IdInv'
<1>1. PICK r \in CR \cup {Absent} : UserMade(c, r) /\ Write(c, r, {}, {})
  BY UserWrites
<1>2. FsIdOf(r) \in {NoId, FsIdOf(store[c])}
  BY <1>1 DEF UserMade
<1>. QED BY <1>1, <1>2, UserWrites, ElsewhereKeeps

LEMMA HuaweiKeeps ==
  ASSUME TypeInv, IdInv, NEW i \in Ids, HuaweiStep(i)
  PROVE  IdInv'
<1>1. PICK st : /\ cloud[i].st # "none"
                /\ cloud' = [cloud EXCEPT ![i].st = st]
                /\ UNCHANGED <<store, cache, freshCache, queue, proc, freshProc>>
  BY DEF HuaweiStep, Provision, Suspend, Resume, Destroy, Vanish, MoveShare
<1>2. SharesKept
  BY <1>1, MovedShares DEF TypeInv, TypeOK
<1>. QED BY <1>1, <1>2, AsideKeeps

LEMMA OperatorKeeps ==
  ASSUME TypeInv, IdInv, NEW p \in Operators
  PROVE  /\ Crash(p) => IdInv'
         /\ \A c \in CRs : Informer(p, c) => IdInv'
<1>1. ASSUME Crash(p) PROVE IdInv'
  <2>1. \A q \in Operators, c \in CRs : cache'[q][c] \in {cache[q][c], store[c]}
    BY <1>1 DEF Crash, TypeInv, TypeOK
  <2>. QED BY <1>1, <2>1, UnchangedShares, ReturnKeeps DEF Crash
<1>2. ASSUME NEW c \in CRs, Observe(p, c) PROVE IdInv'
  <2>1. \A q \in Operators, d \in CRs : cache'[q][d] \in {cache[q][d], store[d]}
    BY <1>2 DEF Observe, TypeInv, TypeOK
  <2>. QED BY <1>2, <2>1, UnchangedShares, AsideKeeps DEF Observe
<1>3. ASSUME NEW c \in CRs, Resync(p, c) PROVE IdInv'
  BY <1>3, UnchangedShares, AsideKeeps DEF Resync
<1>. QED BY <1>1, <1>2, <1>3 DEF Informer

-----------------------------------------------------------------------------
(* The theorems *)

LEMMA IndInvInit == Init => IndInv
<1>1. Init => TypeInv
  BY TypeInvInit
<1>2. Init => IdInv
  BY ConstantsAssumption DEF Init, IdInv, NamesAgree, StepIds, CopyAgrees, Idle
<1>. QED BY <1>1, <1>2, IndInvParts

LEMMA IndInvStep == IndInv /\ [Next]_vars => IndInv'
<1> SUFFICES ASSUME TypeInv, TypeInv', IdInv, [Next]_vars PROVE IdInv'
  BY TypeInvStep, IndInvParts DEF IndInv, TypeInv, IdInv
<1>1. CASE UNCHANGED vars
  BY <1>1, UnchangedShares, AsideKeeps DEF vars
<1>2. ASSUME NEW p \in Operators, ApiWrite(p) \/ HuaweiCall(p) \/ Crash(p) PROVE IdInv'
  BY <1>2, ApiWriteKeeps, HuaweiCallKeeps, OperatorKeeps
<1>3. ASSUME NEW p \in Operators, NEW c \in CRs, Reconcile(p, c) \/ Informer(p, c) PROVE IdInv'
  BY <1>3, ReconcileKeeps, OperatorKeeps
<1>4. ASSUME NEW c \in CRs, UserStep(c) \/ Unhold(c) PROVE IdInv'
  BY <1>4, UserKeeps
<1>5. ASSUME NEW i \in Ids, HuaweiStep(i) PROVE IdInv'
  BY <1>5, HuaweiKeeps
<1>. QED BY <1>1, <1>2, <1>3, <1>4, <1>5 DEF Next

(* Ids flow only between copies of one CR, and a reconcile at the stored
   resourceVersion agrees with the stored CR at each of its steps. *)
THEOREM Inductive == Spec => []IndInv
BY IndInvInit, IndInvStep, PTL DEF Spec

(* CRs that record the same FS carry the same spec.fsName, however many
   operators run, whatever is stale, lost, destroyed or created again. *)
THEOREM OneNamePerFs == Spec => []OneFsPerName
<1>1. IndInv => OneFsPerName
  <2> SUFFICES ASSUME IndInv, NEW c \in CRs, NEW d \in CRs,
                      FsIdOf(store[c]) # NoId, FsIdOf(store[c]) = FsIdOf(store[d])
               PROVE  FsName[c] = FsName[d]
    BY DEF OneFsPerName
  <2>1. FsIdOf(store[c]) \in Ids
    BY StoreIds, IndInvParts
  <2>. QED BY <2>1 DEF IndInv, NamesAgree
<1>. QED BY <1>1, Inductive, PTL

(* With an fsName of its own for each CR, no two CRs record the same FS. *)
THEOREM OneCRPerFs ==
  ASSUME \A c, d \in CRs : FsName[c] = FsName[d] => c = d
  PROVE  Spec => []OneFsPerCR
<1>1. OneFsPerName => OneFsPerCR
  BY DEF OneFsPerName, OneFsPerCR
<1>. QED BY <1>1, OneNamePerFs, PTL

-----------------------------------------------------------------------------
(* Action properties *)

(* The ways in which the stored CR c changes. *)
StoreStep(c) ==
  \/ store'[c] = store[c]
  \/ UserMade(c, store'[c])
  \/ \E p \in freshProc :
       /\ proc[p].key = c
       /\ \/ store'[c] = [store[c] EXCEPT !.fin = TRUE]
          \/ proc[p].pc \in {"patch", "patchThenRemove"} /\ store'[c] = StatusWritten(p)
          \/ proc[p].pc = "removeFin" /\ store'[c] = Collected([store[c] EXCEPT !.fin = FALSE])

LEMMA WrittenKey ==
  ASSUME TypeInv, NEW c \in CRs, NEW r, NEW writer, NEW keep, Write(c, r, writer, keep)
  PROVE  store'[c] = r /\ \A d \in CRs : d # c => store'[d] = store[d]
BY DEF Write, TypeInv, TypeOK

LEMMA StoreSteps ==
  ASSUME IndInv, [Next]_vars, NEW c \in CRs
  PROVE  StoreStep(c)
<1>. TypeInv /\ IdInv
  BY IndInvParts
<1>1. CASE UNCHANGED store
  BY <1>1 DEF StoreStep
<1>2. ASSUME NEW p \in Operators, ApiWrite(p) PROVE StoreStep(c)
  <2>1. CASE p \notin freshProc
    BY <1>1, <1>2, <2>1 DEF ApiWrite, AddFinalizer, patchStatus, patchThenRemove,
       patchMissedThenRemove, patchLostThenReturn, removeFinalizer, WriteMissed, WriteRefused
  <2>2. CASE p \in freshProc
    <3>. DEFINE d == proc[p].key
    <3>1. d \in CRs
      BY <2>2, CurrentCopy
    <3>2. CASE AddFinalizer(p)
      <4>. DEFINE r == [store[d] EXCEPT !.fin = TRUE]
      <4>1. Write(d, r, {p}, {})
        BY <3>2 DEF AddFinalizer
      <4>. HIDE DEF r
      <4>2. store'[d] = r /\ (c # d => store'[c] = store[c])
        BY <3>1, <4>1, WrittenKey
      <4>. QED BY <2>2, <4>2 DEF StoreStep, r
    <3>3. CASE patchStatus(p) \/ patchThenRemove(p) \/ patchLostThenReturn(p)
      <4>1. /\ proc[p].pc \in {"patch", "patchThenRemove"}
            /\ \E k \in {{}, {p}} : Write(d, StatusWritten(p), {p}, k)
        BY <3>3 DEF patchStatus, patchThenRemove, patchLostThenReturn
      <4>2. store'[d] = StatusWritten(p) /\ (c # d => store'[c] = store[c])
        BY <3>1, <4>1, WrittenKey
      <4>. QED BY <2>2, <4>1, <4>2 DEF StoreStep
    <3>4. CASE removeFinalizer(p)
      <4>. DEFINE r == Collected([store[d] EXCEPT !.fin = FALSE])
      <4>1. proc[p].pc = "removeFin" /\ Write(d, r, {p}, {})
        BY <3>4 DEF removeFinalizer
      <4>. HIDE DEF r
      <4>2. store'[d] = r /\ (c # d => store'[c] = store[c])
        BY <3>1, <4>1, WrittenKey
      <4>. QED BY <2>2, <4>1, <4>2 DEF StoreStep, r
    <3>5. CASE patchMissedThenRemove(p) \/ WriteMissed(p) \/ WriteRefused(p)
      BY <1>1, <3>5 DEF patchMissedThenRemove, WriteMissed, WriteRefused
    <3>. QED BY <1>2, <3>2, <3>3, <3>4, <3>5 DEF ApiWrite
  <2>. QED BY <2>1, <2>2
<1>3. ASSUME NEW p \in Operators, HuaweiCall(p) \/ Crash(p) PROVE StoreStep(c)
  BY <1>1, <1>3 DEF Crash, HuaweiCall, CreateAccepted, CreateLost, CreateCollides, FindByName,
     PollGone, PollAvailable, PollErrored, PollPending, Polled, DeleteGetGone, DeleteGetExists,
     DeleteInFlight, DeleteAccepted, DeleteLost, CallFails, Called
<1>4. ASSUME NEW p \in Operators, NEW d \in CRs, Reconcile(p, d) \/ Informer(p, d)
      PROVE  StoreStep(c)
  BY <1>1, <1>4 DEF Informer, Observe, Resync, Reconcile, NothingToDo, DropUnrecorded, RetainShare,
     DeleteShare, Terminating, EnsureFinalizer, SkipPaused, StartCreate, StartPoll, Wanted, Pickup
<1>5. ASSUME NEW d \in CRs, UserStep(d) \/ Unhold(d) PROVE StoreStep(c)
  <2>1. PICK r \in CR \cup {Absent} : UserMade(d, r) /\ Write(d, r, {}, {})
    BY <1>5, UserWrites
  <2>2. store'[d] = r /\ (c # d => store'[c] = store[c])
    BY <2>1, WrittenKey
  <2>. QED BY <2>1, <2>2 DEF StoreStep
<1>6. ASSUME NEW i \in Ids, HuaweiStep(i) PROVE StoreStep(c)
  BY <1>1, <1>6 DEF HuaweiStep, Provision, Suspend, Resume, Destroy, Vanish, MoveShare
<1>7. CASE UNCHANGED vars
  BY <1>1, <1>7 DEF vars
<1>. QED BY <1>2, <1>3, <1>4, <1>5, <1>6, <1>7 DEF Next

(* A recorded fsId is only ever cleared, and only when Huawei has no such FS:
   neither a stale copy nor another operator detaches a live FS from its CR. *)
THEOREM NeverForgets == Spec => RecordedNotForgotten
<1>1. ASSUME IndInv, [Next]_vars, NEW c \in CRs,
             store[c] # Absent, store'[c] # Absent,
             store[c].fsId # NoId, store'[c].fsId # store[c].fsId
      PROVE  store'[c].fsId = NoId /\ cloud[store[c].fsId].st = "none"
  <2>. TypeInv /\ IdInv
    BY <1>1, IndInvParts
  <2>1. store[c] \in CR
    BY <1>1 DEF TypeInv, TypeOK
  <2>2. StoreStep(c)
    BY <1>1, StoreSteps
  <2>3. CASE UserMade(c, store'[c])
    BY <1>1, <2>3 DEF UserMade
  <2>4. ASSUME NEW p \in freshProc, proc[p].key = c,
               proc[p].pc \in {"patch", "patchThenRemove"}, store'[c] = StatusWritten(p)
        PROVE  store'[c].fsId = NoId /\ cloud[store[c].fsId].st = "none"
    BY <1>1, <2>4, CurrentCopy DEF CopyFits
  <2>5. \A b \in BOOLEAN : [store[c] EXCEPT !.fin = b].fsId = store[c].fsId
    BY <2>1, UpdatedFields
  <2>6. store'[c] # Collected([store[c] EXCEPT !.fin = FALSE])
    BY <1>1, <2>5 DEF Collected
  <2>. QED BY <1>1, <2>2, <2>3, <2>4, <2>5, <2>6 DEF StoreStep
<1>2. IndInv /\ [Next]_vars => [\A c \in CRs : ForgetsOnlyGone(c)]_vars
  BY <1>1 DEF ForgetsOnlyGone
<1>. QED BY <1>2, Inductive, PTL DEF Spec, RecordedNotForgotten

(* A CR loses its finalizer under policy Delete only when the FS it records has
   left Huawei: edits of the policy race with reconcileDelete in vain, as they
   move the resourceVersion its last write depends on. *)
THEOREM HonoursPolicy == Spec => DeleteHonoured
<1>1. ASSUME IndInv, [Next]_vars, NEW c \in CRs,
             FinalizerGoes(c), store[c].policy = "Delete", store[c].fsId # NoId
      PROVE  cloud[store[c].fsId].st = "none"
  <2>. TypeInv /\ IdInv
    BY <1>1, IndInvParts
  <2>1. store[c] \in CR /\ store[c] # Absent /\ store[c].fin
    BY <1>1 DEF TypeInv, TypeOK, FinalizerGoes
  <2>2. StoreStep(c)
    BY <1>1, StoreSteps
  <2>3. store'[c] # store[c] /\ ~UserMade(c, store'[c])
    BY <1>1, AbsentAssumption DEF FinalizerGoes, UserMade
  <2>4. PICK p \in freshProc :
          /\ proc[p].key = c
          /\ \/ store'[c] = [store[c] EXCEPT !.fin = TRUE]
             \/ proc[p].pc \in {"patch", "patchThenRemove"} /\ store'[c] = StatusWritten(p)
             \/ proc[p].pc = "removeFin"
    BY <2>2, <2>3 DEF StoreStep
  <2>5. store'[c] # [store[c] EXCEPT !.fin = TRUE]
    <3>1. [store[c] EXCEPT !.fin = TRUE] \in CR /\ [store[c] EXCEPT !.fin = TRUE].fin
      BY <2>1 DEF CR
    <3>. HIDE DEF CR
    <3>. QED BY <1>1, <3>1, AbsentAssumption DEF FinalizerGoes
  <2>6. store'[c] # StatusWritten(p)
    BY <1>1, <2>1, <2>4, CurrentCopy DEF FinalizerGoes
  <2>. QED BY <1>1, <2>4, <2>5, <2>6, CurrentCopy DEF CopyFits
<1>2. IndInv /\ [Next]_vars => [\A c \in CRs : LeavesNoFs(c)]_vars
  BY <1>1 DEF LeavesNoFs
<1>. QED BY <1>2, Inductive, PTL DEF Spec, DeleteHonoured
=============================================================================
