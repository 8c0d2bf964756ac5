--------------------------- MODULE LifecycleProofs ---------------------------
(***************************************************************************)
(* Proofs about Lifecycle for any sets of CRs, file system ids, operator   *)
(* processes and user choices.                                             *)
(***************************************************************************)
EXTENDS Lifecycle, TLAPS

USE DEF FsIdOf, hasConditionTrue

-----------------------------------------------------------------------------
(* Objects *)

(* setCondition returns a CR and changes nothing but the conditions. *)
LEMMA SetCondition ==
  ASSUME NEW o \in CR, NEW true \in SUBSET Conditions, NEW false \in SUBSET Conditions
  PROVE  /\ setCondition(o, true, false) \in CR
         /\ setCondition(o, true, false).fsId = o.fsId
         /\ setCondition(o, true, false).fin = o.fin
BY DEF setCondition, CR

(* Recording an id, or writing the finalizer, leaves a CR. *)
LEMMA Updates ==
  ASSUME NEW o \in CR
  PROVE  /\ \A i \in Ids \cup {NoId} : [o EXCEPT !.fsId = i] \in CR
         /\ \A b \in BOOLEAN : [o EXCEPT !.fin = b] \in CR
         /\ \A b \in BOOLEAN : [o EXCEPT !.held = b] \in CR
         /\ Collected(o) \in {o, Absent}
BY DEF CR, Collected

-----------------------------------------------------------------------------
(* Types, and what being current means *)

TypeInv == TypeOK /\ CacheCurrent /\ CopyStored

(* A write to the API server changes one key; whatever stays current is a copy
   of another key, the writer's own, or of an unchanged CR. *)
LEMMA WriteEffect ==
  ASSUME TypeInv,
         NEW c \in CRs, NEW r \in CR \cup {Absent},
         NEW writer \in SUBSET Operators, NEW keep \in SUBSET writer,
         Write(c, r, writer, keep)
  PROVE  /\ store' \in [CRs -> CR \cup {Absent}]
         /\ store'[c] = r
         /\ \A d \in CRs : d # c => store'[d] = store[d]
         /\ freshCache' \subseteq freshCache
         /\ \A e \in freshCache' : store'[e[2]] = store[e[2]]
         /\ freshProc' \subseteq (freshProc \ writer) \cup keep
         /\ \A q \in freshProc' \ keep : proc[q].key \in CRs /\ store'[proc[q].key] = store[proc[q].key]
<1> USE DEF TypeInv, TypeOK, Write
<1>1. PICK bumped \in {TRUE, r # store[c]} :
        /\ store' = [store EXCEPT ![c] = r]
        /\ freshCache' = IF bumped THEN {e \in freshCache : e[2] # c} ELSE freshCache
        /\ freshProc' = {q \in freshProc \ writer : bumped => proc[q].key # c} \cup keep
  OBVIOUS
<1>2. /\ store' \in [CRs -> CR \cup {Absent}]
      /\ store'[c] = r
      /\ \A d \in CRs : d # c => store'[d] = store[d]
  BY <1>1
<1>3. ~bumped => store' = store
  BY <1>1
<1>4. freshCache' \subseteq freshCache /\ \A e \in freshCache' : store'[e[2]] = store[e[2]]
  <2>1. CASE bumped
    BY <2>1, <1>1, <1>2
  <2>2. CASE ~bumped
    BY <2>2, <1>1, <1>3
  <2>. QED BY <2>1, <2>2
<1>5. /\ freshProc' \subseteq (freshProc \ writer) \cup keep
      /\ \A q \in freshProc' \ keep : proc[q].key \in CRs /\ store'[proc[q].key] = store[proc[q].key]
  <2>1. \A q \in freshProc : proc[q].key \in CRs
    OBVIOUS
  <2>2. CASE bumped
    BY <2>1, <2>2, <1>1, <1>2
  <2>3. CASE ~bumped
    BY <2>1, <2>3, <1>1, <1>3
  <2>. QED BY <2>2, <2>3
<1>. QED BY <1>2, <1>4, <1>5

(* A reconcile that goes on to its next call, without a write. *)
LEMMA GotoTypes ==
  ASSUME TypeInv,
         NEW p \in Operators, proc[p].pc # "idle",
         NEW pc \in Steps, NEW o \in CR, NEW again \in BOOLEAN,
         Goto(p, pc, o, again),
         UNCHANGED <<store, cache, freshCache, queue, freshProc>>,
         cloud' \in [Ids -> Shares], pc # "idle"
  PROVE  TypeInv'
<1> USE DEF TypeInv, TypeOK, CacheCurrent, CopyStored
<1>1. /\ proc' = [proc EXCEPT ![p] = [pc |-> pc, key |-> proc[p].key, obj |-> o, again |-> again]]
      /\ proc[p].key \in CRs
  BY DEF Goto
<1>2. /\ proc' \in [Operators -> Reconciles]
      /\ proc'[p].key = proc[p].key /\ proc'[p].pc = pc /\ proc'[p].obj = o
      /\ \A q \in Operators : q # p => proc'[q] = proc[q]
  BY <1>1 DEF Reconciles
<1>3. \A q \in Operators : proc'[q].pc # "idle" => proc'[q].key \in CRs /\ proc'[q].obj \in CR
  BY <1>1, <1>2
<1>4. \A q \in freshProc : proc'[q].pc # "idle" /\ store[proc'[q].key] # Absent
  BY <1>2
<1>. QED BY <1>2, <1>3, <1>4

(* A reconcile that returns, without a write. *)
LEMMA ReturnTypes ==
  ASSUME TypeInv,
         NEW p \in Operators, proc[p].pc # "idle",
         NEW again \in BOOLEAN,
         Return(p, again),
         freshProc' = freshProc \ {p},
         UNCHANGED <<store, cache, freshCache, cloud>>
  PROVE  TypeInv'
<1> USE DEF TypeInv, TypeOK, CacheCurrent, CopyStored
<1>1. /\ proc' \in [Operators -> Reconciles]
      /\ proc'[p] = Idle
      /\ \A q \in Operators : q # p => proc'[q] = proc[q]
  BY DEF Return, Idle, Reconciles, Steps
<1>2. queue' \in [Operators -> SUBSET CRs]
  BY DEF Return
<1>3. \A q \in Operators : proc'[q].pc # "idle" => proc'[q].key \in CRs /\ proc'[q].obj \in CR
  BY <1>1 DEF Idle
<1>4. \A q \in freshProc' : proc'[q].pc # "idle" /\ store[proc'[q].key] # Absent
  BY <1>1
<1>. QED BY <1>1, <1>2, <1>3, <1>4

(* A reconcile that writes r to its key and returns. *)
LEMMA WriteReturnTypes ==
  ASSUME TypeInv,
         NEW p \in Operators, proc[p].pc # "idle",
         NEW r \in CR \cup {Absent}, NEW again \in BOOLEAN,
         Write(proc[p].key, r, {p}, {}),
         Return(p, again),
         UNCHANGED <<cache, cloud>>
  PROVE  TypeInv'
<1>1. proc[p].key \in CRs
  BY DEF TypeInv, TypeOK
<1>2. /\ store' \in [CRs -> CR \cup {Absent}]
      /\ freshCache' \subseteq freshCache
      /\ \A e \in freshCache' : store'[e[2]] = store[e[2]]
      /\ freshProc' \subseteq freshProc \ {p}
      /\ \A q \in freshProc' : store'[proc[q].key] = store[proc[q].key]
  <2>. DEFINE w == {p}
              k == {}
  <2>1. Write(proc[p].key, r, w, k) /\ w \in SUBSET Operators /\ k \in SUBSET w
    OBVIOUS
  <2>. HIDE DEF w, k
  <2>2. /\ store' \in [CRs -> CR \cup {Absent}]
        /\ freshCache' \subseteq freshCache
        /\ \A e \in freshCache' : store'[e[2]] = store[e[2]]
        /\ freshProc' \subseteq (freshProc \ w) \cup k
        /\ \A q \in freshProc' \ k : store'[proc[q].key] = store[proc[q].key]
    BY <1>1, <2>1, WriteEffect
  <2>. QED BY <2>2 DEF w, k
<1> USE DEF TypeInv, TypeOK, CacheCurrent, CopyStored
<1>3. /\ proc' \in [Operators -> Reconciles]
      /\ proc'[p] = Idle
      /\ \A q \in Operators : q # p => proc'[q] = proc[q]
  BY DEF Return, Idle, Reconciles, Steps
<1>4. queue' \in [Operators -> SUBSET CRs]
  BY <1>1 DEF Return
<1>5. \A q \in Operators : proc'[q].pc # "idle" => proc'[q].key \in CRs /\ proc'[q].obj \in CR
  BY <1>3 DEF Idle
<1>6. \A q \in freshProc' : proc'[q].pc # "idle" /\ store'[proc'[q].key] # Absent
  BY <1>2, <1>3
<1>7. \A e \in freshCache' : cache'[e[1]][e[2]] = store'[e[2]]
  BY <1>2
<1>. QED BY <1>2, <1>3, <1>4, <1>5, <1>6, <1>7

(* A reconcile that starts on the cached CR. *)
LEMMA EnterTypes ==
  ASSUME TypeInv,
         NEW p \in Operators, NEW c \in CRs,
         Pickup(p, c), cache[p][c] # Absent,
         NEW pc \in Steps \ {"idle"}, NEW o \in CR, NEW again \in BOOLEAN,
         Enter(p, c, pc, o, again)
  PROVE  TypeInv'
<1> USE DEF TypeInv, TypeOK, CacheCurrent, CopyStored, Pickup, Enter
<1>1. /\ proc' \in [Operators -> Reconciles]
      /\ proc'[p].key = c /\ proc'[p].pc = pc /\ proc'[p].obj = o
      /\ \A q \in Operators : q # p => proc'[q] = proc[q]
  BY DEF Reconciles
<1>2. queue' \in [Operators -> SUBSET CRs]
  OBVIOUS
<1>3. \A q \in Operators : proc'[q].pc # "idle" => proc'[q].key \in CRs /\ proc'[q].obj \in CR
  BY <1>1
<1>4. \A q \in freshProc' : proc'[q].pc # "idle" /\ store[proc'[q].key] # Absent
  <2>1. CASE <<p, c>> \in freshCache
    <3>1. store[c] # Absent
      BY <2>1
    <3>. QED BY <3>1, <1>1
  <2>2. CASE <<p, c>> \notin freshCache
    BY <2>2, <1>1
  <2>. QED BY <2>1, <2>2
<1>5. freshProc' \subseteq Operators
  OBVIOUS
<1>. QED BY <1>1, <1>2, <1>3, <1>4, <1>5

(* A user, or another controller, writes r to key c. *)
LEMMA ElsewhereTypes ==
  ASSUME TypeInv,
         NEW c \in CRs, NEW r \in CR \cup {Absent},
         Write(c, r, {}, {}), Elsewhere
  PROVE  TypeInv'
<1>1. /\ store' \in [CRs -> CR \cup {Absent}]
      /\ freshCache' \subseteq freshCache
      /\ \A e \in freshCache' : store'[e[2]] = store[e[2]]
      /\ freshProc' \subseteq freshProc
      /\ \A q \in freshProc' : store'[proc[q].key] = store[proc[q].key]
  <2>. DEFINE w == {}
  <2>1. Write(c, r, w, w) /\ w \in SUBSET Operators /\ w \in SUBSET w
    OBVIOUS
  <2>. HIDE DEF w
  <2>2. /\ store' \in [CRs -> CR \cup {Absent}]
        /\ freshCache' \subseteq freshCache
        /\ \A e \in freshCache' : store'[e[2]] = store[e[2]]
        /\ freshProc' \subseteq (freshProc \ w) \cup w
        /\ \A q \in freshProc' \ w : store'[proc[q].key] = store[proc[q].key]
    BY <2>1, WriteEffect
  <2>. QED BY <2>2 DEF w
<1>. QED BY <1>1 DEF TypeInv, TypeOK, CacheCurrent, CopyStored, Elsewhere

(* What the status write of a current reconcile leaves is a CR. *)
LEMMA StatusWrittenIsCR ==
  ASSUME TypeInv, NEW p \in freshProc
  PROVE  /\ p \in Operators /\ proc[p].pc # "idle" /\ proc[p].key \in CRs
         /\ store[proc[p].key] \in CR
         /\ StatusWritten(p) \in CR
         /\ StatusWritten(p).fsId = proc[p].obj.fsId
         /\ StatusWritten(p).fin = store[proc[p].key].fin
         /\ StatusWritten(p).policy = store[proc[p].key].policy
<1>1. /\ p \in Operators /\ proc[p].pc # "idle" /\ proc[p].key \in CRs
      /\ store[proc[p].key] \in CR
      /\ proc[p].obj \in CR
  BY DEF TypeInv, TypeOK, CopyStored
<1>2. proc[p].obj.fsId \in Ids \cup {NoId} /\ proc[p].obj.conds \in SUBSET Conditions
  BY <1>1 DEF CR
<1>. DEFINE s == store[proc[p].key]
            o == proc[p].obj
<1>. HIDE DEF s, o
<1>3. ASSUME s \in CR, o.fsId \in Ids \cup {NoId}, o.conds \in SUBSET Conditions
      PROVE  LET r == [s EXCEPT !.fsId = o.fsId, !.conds = o.conds] IN
               r \in CR /\ r.fsId = o.fsId /\ r.fin = s.fin /\ r.policy = s.policy
  BY <1>3 DEF CR
<1>. QED BY <1>1, <1>2, <1>3 DEF s, o, StatusWritten

LEMMA ApiWriteTypes ==
  ASSUME TypeInv, NEW p \in Operators, ApiWrite(p)
  PROVE  TypeInv'
<1>1. CASE AddFinalizer(p)
  <2>1. [store[proc[p].key] EXCEPT !.fin = TRUE] \in CR
    BY <1>1, StatusWrittenIsCR, Updates DEF AddFinalizer
  <2>. QED BY <1>1, <2>1, WriteReturnTypes DEF AddFinalizer
<1>2. CASE patchStatus(p)
  <2>1. PICK again \in {proc[p].again, TRUE} : Return(p, again)
    BY <1>2 DEF patchStatus
  <2>2. again \in BOOLEAN
    BY <2>1 DEF TypeInv, TypeOK, Reconciles
  <2>. QED BY <1>2, <2>1, <2>2, StatusWrittenIsCR, WriteReturnTypes DEF patchStatus
<1>3. CASE patchThenRemove(p)
  <2>. DEFINE w == {p}
  <2>1. /\ p \in freshProc /\ proc[p].key \in CRs /\ StatusWritten(p) \in CR
        /\ Write(proc[p].key, StatusWritten(p), w, w)
    BY <1>3, StatusWrittenIsCR DEF patchThenRemove
  <2>2. w \in SUBSET Operators /\ w \in SUBSET w
    OBVIOUS
  <2>. HIDE DEF w
  <2>3. /\ store' \in [CRs -> CR \cup {Absent}]
        /\ store'[proc[p].key] = StatusWritten(p)
        /\ freshCache' \subseteq freshCache
        /\ \A e \in freshCache' : store'[e[2]] = store[e[2]]
        /\ freshProc' \subseteq (freshProc \ w) \cup w
        /\ \A q \in freshProc' \ w : store'[proc[q].key] = store[proc[q].key]
    BY <2>1, <2>2, WriteEffect
  <2>. USE DEF w
  <2>. DEFINE o == [StatusWritten(p) EXCEPT !.fin = FALSE]
  <2>4. o \in CR
    BY <2>1, Updates
  <2>5. proc' = [proc EXCEPT ![p] = [pc |-> "removeFin", key |-> proc[p].key,
                                     obj |-> o, again |-> FALSE]]
    BY <1>3 DEF patchThenRemove, Goto
  <2>. HIDE DEF o
  <2>. USE DEF TypeInv, TypeOK, CacheCurrent, CopyStored
  <2>6. /\ proc' \in [Operators -> Reconciles]
        /\ proc'[p].key = proc[p].key /\ proc'[p].pc = "removeFin" /\ proc'[p].obj = o
        /\ \A q \in Operators : q # p => proc'[q] = proc[q]
    BY <2>1, <2>4, <2>5 DEF Reconciles, Steps
  <2>7. \A q \in Operators : proc'[q].pc # "idle" => proc'[q].key \in CRs /\ proc'[q].obj \in CR
    BY <2>1, <2>4, <2>6
  <2>8. StatusWritten(p) # Absent
    BY <2>1, AbsentAssumption
  <2>9. \A q \in freshProc' : proc'[q].pc # "idle" /\ store'[proc'[q].key] # Absent
    BY <2>1, <2>3, <2>6, <2>8
  <2>10. \A e \in freshCache' : cache'[e[1]][e[2]] = store'[e[2]]
    BY <1>3, <2>3 DEF patchThenRemove
  <2>. QED BY <1>3, <2>1, <2>3, <2>6, <2>7, <2>9, <2>10 DEF patchThenRemove
<1>4. CASE patchMissedThenRemove(p)
  <2>1. [proc[p].obj EXCEPT !.fin = FALSE] \in CR
    BY <1>4, Updates DEF patchMissedThenRemove, TypeInv, TypeOK
  <2>. QED BY <1>4, <2>1, GotoTypes DEF patchMissedThenRemove, TypeInv, TypeOK, Steps
<1>5. CASE patchLostThenReturn(p)
  BY <1>5, StatusWrittenIsCR, WriteReturnTypes DEF patchLostThenReturn
<1>6. CASE removeFinalizer(p)
  <2>1. PICK again \in BOOLEAN : Return(p, again)
    BY <1>6 DEF removeFinalizer
  <2>2. Collected([store[proc[p].key] EXCEPT !.fin = FALSE]) \in CR \cup {Absent}
    BY <1>6, StatusWrittenIsCR, Updates DEF removeFinalizer
  <2>. QED BY <1>6, <2>1, <2>2, WriteReturnTypes DEF removeFinalizer
<1>7. CASE WriteMissed(p)
  BY <1>7, ReturnTypes DEF WriteMissed, TypeInv, TypeOK, Reconciles
<1>8. CASE WriteRefused(p)
  BY <1>8, ReturnTypes DEF WriteRefused
<1>. QED BY <1>1, <1>2, <1>3, <1>4, <1>5, <1>6, <1>7, <1>8 DEF ApiWrite

(* The object that each Huawei call leaves is a CR. *)
LEMMA CallObjects ==
  ASSUME NEW o \in CR
  PROVE  /\ Failing(o) \in CR
         /\ \A i \in Ids \cup {NoId} :
              [setCondition(o, {"Provisioning"}, {"Failed"}) EXCEPT !.fsId = i] \in CR
         /\ [setCondition(o, {}, {"Ready"}) EXCEPT !.fsId = NoId] \in CR
         /\ \A t \in {{}, {"Failed"}} :
              setCondition(setCondition(o, {"Ready"}, {"Provisioning", "Failed"}), t, {}) \in CR
         /\ setCondition(o, {"Failed"}, {"Provisioning"}) \in CR
         /\ setCondition(o, {"Deleting"}, {"Ready"}) \in CR
         /\ setCondition(o, {}, {"Deleting"}) \in CR
         /\ setCondition(o, {}, {"Provisioning"}) \in CR
<1> USE DEF Conditions
<1>1. \A t, f \in SUBSET Conditions : setCondition(o, t, f) \in CR
  BY SetCondition
<1>2. Failing(o) \in CR
  BY <1>1 DEF Failing
<1>3. \A i \in Ids \cup {NoId} :
        [setCondition(o, {"Provisioning"}, {"Failed"}) EXCEPT !.fsId = i] \in CR
  BY <1>1, Updates
<1>4. [setCondition(o, {}, {"Ready"}) EXCEPT !.fsId = NoId] \in CR
  BY <1>1, Updates
<1>5. \A t \in {{}, {"Failed"}} :
        setCondition(setCondition(o, {"Ready"}, {"Provisioning", "Failed"}), t, {}) \in CR
  <2>. DEFINE a == setCondition(o, {"Ready"}, {"Provisioning", "Failed"})
  <2>1. a \in CR
    BY <1>1
  <2>. HIDE DEF a
  <2>2. \A t \in {{}, {"Failed"}} : setCondition(a, t, {}) \in CR
    BY <2>1, SetCondition
  <2>. QED BY <2>2 DEF a
<1>. QED BY <1>1, <1>2, <1>3, <1>4, <1>5

LEMMA HuaweiCallTypes ==
  ASSUME TypeInv, NEW p \in Operators, HuaweiCall(p)
  PROVE  TypeInv'
<1>1. proc[p].pc # "idle"
  BY DEF HuaweiCall, CreateAccepted, CreateLost, CreateCollides, FindByName, PollGone,
         PollAvailable, PollErrored, PollPending, Polled, DeleteGetGone, DeleteGetExists,
         DeleteInFlight, DeleteAccepted, DeleteLost, CallFails, Called
<1>2. proc[p].obj \in CR /\ proc[p].key \in CRs /\ FsName[proc[p].key] \in Names
  BY <1>1, ConstantsAssumption DEF TypeInv, TypeOK
<1>3. cloud \in [Ids -> Shares]
  BY DEF TypeInv, TypeOK
<1> USE DEF Steps
<1>4. CASE CreateAccepted(p)
  <2>1. PICK i \in FreshIds :
          /\ cloud' = [cloud EXCEPT ![i] = [st |-> "creating", name |-> FsName[proc[p].key]]]
          /\ RecordId(p, i)
    BY <1>4 DEF CreateAccepted
  <2>2. i \in Ids /\ cloud' \in [Ids -> Shares]
    BY <2>1, <1>2, <1>3 DEF FreshIds, Shares
  <2>. QED BY <1>1, <1>2, <1>4, <2>1, <2>2, CallObjects, GotoTypes
           DEF CreateAccepted, Called, RecordId
<1>5. CASE CreateLost(p)
  <2>1. cloud' \in [Ids -> Shares]
    BY <1>2, <1>3, <1>5 DEF CreateLost, FreshIds, Shares
  <2>. QED BY <1>1, <1>2, <1>5, <2>1, CallObjects, GotoTypes DEF CreateLost, Called, Fail
<1>6. CASE CreateCollides(p)
  BY <1>1, <1>2, <1>3, <1>6, GotoTypes DEF CreateCollides, Called
<1>7. CASE FindByName(p)
  <2>1. PICK i \in SharesNamed(FsName[proc[p].key]) : RecordId(p, i)
    BY <1>7 DEF FindByName
  <2>. QED BY <1>1, <1>2, <1>3, <1>7, <2>1, CallObjects, GotoTypes
           DEF FindByName, Called, RecordId, SharesNamed
<1>8. CASE PollGone(p)
  BY <1>1, <1>2, <1>3, <1>8, CallObjects, GotoTypes DEF PollGone, Called
<1>9. CASE PollAvailable(p)
  <2>1. PICK t \in {{}, {"Failed"}} :
          Goto(p, "patch",
               setCondition(setCondition(proc[p].obj, {"Ready"}, {"Provisioning", "Failed"}), t, {}),
               FALSE)
    BY <1>9 DEF PollAvailable
  <2>. QED BY <1>1, <1>2, <1>3, <1>9, <2>1, CallObjects, GotoTypes
           DEF PollAvailable, Polled, Called
<1>10. CASE PollErrored(p)
  BY <1>1, <1>2, <1>3, <1>10, CallObjects, GotoTypes DEF PollErrored, Polled, Called
<1>11. CASE PollPending(p)
  BY <1>1, <1>11, ReturnTypes DEF PollPending, Polled, Called
<1>12. CASE DeleteGetGone(p)
  BY <1>1, <1>2, <1>3, <1>12, CallObjects, GotoTypes DEF DeleteGetGone, Called
<1>13. CASE DeleteGetExists(p)
  BY <1>1, <1>2, <1>3, <1>13, GotoTypes DEF DeleteGetExists, Called
<1>14. CASE DeleteInFlight(p)
  BY <1>1, <1>14, ReturnTypes DEF DeleteInFlight, Called
<1>15. CASE DeleteAccepted(p)
  <2>1. cloud' \in [Ids -> Shares]
    BY <1>3, <1>15 DEF DeleteAccepted, Exists, Shares
  <2>. QED BY <1>1, <1>2, <1>15, <2>1, CallObjects, GotoTypes DEF DeleteAccepted, Called
<1>16. CASE DeleteLost(p)
  <2>1. cloud' \in [Ids -> Shares]
    BY <1>3, <1>16 DEF DeleteLost, Exists, Shares
  <2>. QED BY <1>1, <1>2, <1>16, <2>1, CallObjects, GotoTypes DEF DeleteLost, Called, Fail
<1>17. CASE CallFails(p)
  BY <1>1, <1>2, <1>3, <1>17, CallObjects, GotoTypes DEF CallFails, Fail
<1>. QED BY <1>4, <1>5, <1>6, <1>7, <1>8, <1>9, <1>10, <1>11, <1>12, <1>13, <1>14, <1>15,
            <1>16, <1>17 DEF HuaweiCall

LEMMA ReconcileTypes ==
  ASSUME TypeInv, NEW p \in Operators, NEW c \in CRs, Reconcile(p, c)
  PROVE  TypeInv'
<1>1. CASE NothingToDo(p, c)
  BY <1>1 DEF NothingToDo, Pickup, TypeInv, TypeOK, CacheCurrent, CopyStored
<1>2. CASE cache[p][c] = Absent /\ ~NothingToDo(p, c)
  BY <1>2 DEF Reconcile, DropUnrecorded, RetainShare, DeleteShare, Terminating,
              EnsureFinalizer, SkipPaused, StartCreate, StartPoll, Wanted
<1>3. CASE cache[p][c] # Absent
  <2>. DEFINE o == cache[p][c]
  <2>1. o \in CR
    BY <1>3 DEF TypeInv, TypeOK
  <2>. HIDE DEF o
  <2>2. [o EXCEPT !.fin = FALSE] \in CR /\ [o EXCEPT !.fin = TRUE] \in CR
    BY <2>1, Updates
  <2>3. setCondition(o, {}, {"Deleting"}) \in CR /\ setCondition(o, {}, {"Provisioning"}) \in CR
    BY <2>1, CallObjects
  <2> USE <1>3 DEF o, Steps, Terminating, Wanted
  <2>4. CASE DropUnrecorded(p, c)
    BY <2>2, <2>4, EnterTypes DEF DropUnrecorded
  <2>5. CASE RetainShare(p, c)
    BY <2>3, <2>5, EnterTypes DEF RetainShare
  <2>6. CASE DeleteShare(p, c)
    BY <2>1, <2>6, EnterTypes DEF DeleteShare
  <2>7. CASE EnsureFinalizer(p, c)
    BY <2>2, <2>7, EnterTypes DEF EnsureFinalizer
  <2>8. CASE SkipPaused(p, c)
    BY <2>3, <2>8, EnterTypes DEF SkipPaused
  <2>9. CASE StartCreate(p, c)
    BY <2>1, <2>9, EnterTypes DEF StartCreate
  <2>10. CASE StartPoll(p, c)
    BY <2>1, <2>10, EnterTypes DEF StartPoll
  <2>. QED BY <1>1, <2>4, <2>5, <2>6, <2>7, <2>8, <2>9, <2>10 DEF Reconcile
<1>. QED BY <1>1, <1>2, <1>3

LEMMA OperatorTypes ==
  ASSUME TypeInv, NEW p \in Operators
  PROVE  /\ Crash(p) => TypeInv'
         /\ \A c \in CRs : Informer(p, c) => TypeInv'
<1> USE DEF TypeInv, TypeOK, CacheCurrent, CopyStored
<1>1. ASSUME Crash(p) PROVE TypeInv'
  <2> USE <1>1 DEF Crash
  <2>1. /\ proc' \in [Operators -> Reconciles]
        /\ proc'[p] = Idle
        /\ \A q \in Operators : q # p => proc'[q] = proc[q]
    BY DEF Idle, Reconciles, Steps
  <2>2. \A q \in Operators : proc'[q].pc # "idle" => proc'[q].key \in CRs /\ proc'[q].obj \in CR
    BY <2>1 DEF Idle
  <2>3. \A q \in freshProc' : proc'[q].pc # "idle" /\ store'[proc'[q].key] # Absent
    BY <2>1
  <2>4. cache' \in [Operators -> [CRs -> CR \cup {Absent}]]
    OBVIOUS
  <2>5. /\ freshCache' \subseteq Operators \X CRs
        /\ \A e \in freshCache' : cache'[e[1]][e[2]] = store'[e[2]]
    OBVIOUS
  <2>. QED BY <2>1, <2>2, <2>3, <2>4, <2>5
<1>2. ASSUME NEW c \in CRs, Observe(p, c) PROVE TypeInv'
  <2> USE <1>2 DEF Observe
  <2>1. cache' \in [Operators -> [CRs -> CR \cup {Absent}]]
    OBVIOUS
  <2>2. \A q \in Operators, d \in CRs : <<q, d>> # <<p, c>> => cache'[q][d] = cache[q][d]
    OBVIOUS
  <2>3. /\ freshCache' \subseteq Operators \X CRs
        /\ \A e \in freshCache' : cache'[e[1]][e[2]] = store'[e[2]]
    BY <2>2
  <2>. QED BY <2>1, <2>3
<1>3. ASSUME NEW c \in CRs, Resync(p, c) PROVE TypeInv'
  BY <1>3 DEF Resync
<1>. QED BY <1>1, <1>2, <1>3 DEF Informer

LEMMA UserTypes ==
  ASSUME TypeInv, NEW c \in CRs, UserStep(c) \/ Unhold(c)
  PROVE  TypeInv'
<1>1. store[c] # Absent => store[c] \in CR
  BY DEF TypeInv, TypeOK
<1>2. Policies \subseteq {"Retain", "Delete"} /\ Pauses \subseteq BOOLEAN /\ Foreground \subseteq BOOLEAN
  BY ConstantsAssumption
<1>3. CASE UserCreate(c)
  <2>1. PICK pol \in Policies, z \in Pauses :
          Write(c, [del |-> FALSE, fin |-> FALSE, held |-> FALSE, policy |-> pol,
                    paused |-> z, fsId |-> NoId, conds |-> {}], {}, {})
    BY <1>3 DEF UserCreate
  <2>2. [del |-> FALSE, fin |-> FALSE, held |-> FALSE, policy |-> pol,
         paused |-> z, fsId |-> NoId, conds |-> {}] \in CR
    BY <1>2 DEF CR
  <2>. QED BY <1>3, <2>1, <2>2, ElsewhereTypes DEF UserCreate
<1>4. CASE UserDelete(c)
  <2>1. PICK h \in Foreground : Write(c, Collected([store[c] EXCEPT !.del = TRUE, !.held = h]), {}, {})
    BY <1>4 DEF UserDelete
  <2>2. [store[c] EXCEPT !.del = TRUE, !.held = h] \in CR
    BY <1>1, <1>2, <1>4 DEF UserDelete, CR
  <2>3. Collected([store[c] EXCEPT !.del = TRUE, !.held = h]) \in CR \cup {Absent}
    BY <2>2, Updates
  <2>. QED BY <1>4, <2>1, <2>3, ElsewhereTypes DEF UserDelete
<1>5. CASE UserEdit(c)
  <2>1. PICK pol \in Policies, z \in Pauses :
          Write(c, [store[c] EXCEPT !.policy = pol, !.paused = z], {}, {})
    BY <1>5 DEF UserEdit
  <2>2. [store[c] EXCEPT !.policy = pol, !.paused = z] \in CR
    BY <1>1, <1>2, <1>5 DEF UserEdit, CR
  <2>. QED BY <1>5, <2>1, <2>2, ElsewhereTypes DEF UserEdit
<1>6. CASE Unhold(c)
  <2>1. Collected([store[c] EXCEPT !.held = FALSE]) \in CR \cup {Absent}
    BY <1>1, <1>6, Updates DEF Unhold
  <2>. QED BY <1>6, <2>1, ElsewhereTypes DEF Unhold
<1>. QED BY <1>3, <1>4, <1>5, <1>6 DEF UserStep

LEMMA HuaweiTypes ==
  ASSUME TypeInv, NEW i \in Ids, HuaweiStep(i)
  PROVE  TypeInv'
<1>1. cloud' \in [Ids -> Shares]
  BY ConstantsAssumption
     DEF HuaweiStep, Provision, Suspend, Resume, Destroy, Vanish, MoveShare, TypeInv, TypeOK, Shares
<1>2. UNCHANGED <<store, cache, freshCache, queue, proc, freshProc>>
  BY DEF HuaweiStep, Provision, Suspend, Resume, Destroy, Vanish, MoveShare
<1>. QED BY <1>1, <1>2 DEF TypeInv, TypeOK, CacheCurrent, CopyStored

LEMMA TypeInvStep == TypeInv /\ [Next]_vars => TypeInv'
<1> SUFFICES ASSUME TypeInv, [Next]_vars PROVE TypeInv'
  OBVIOUS
<1>1. CASE UNCHANGED vars
  BY <1>1 DEF vars, TypeInv, TypeOK, CacheCurrent, CopyStored
<1>2. ASSUME NEW p \in Operators, ApiWrite(p) \/ HuaweiCall(p) \/ Crash(p) PROVE TypeInv'
  BY <1>2, ApiWriteTypes, HuaweiCallTypes, OperatorTypes
<1>3. ASSUME NEW p \in Operators, NEW c \in CRs, Reconcile(p, c) \/ Informer(p, c) PROVE TypeInv'
  BY <1>3, ReconcileTypes, OperatorTypes
<1>4. ASSUME NEW c \in CRs, UserStep(c) \/ Unhold(c) PROVE TypeInv'
  BY <1>4, UserTypes
<1>5. ASSUME NEW i \in Ids, HuaweiStep(i) PROVE TypeInv'
  BY <1>5, HuaweiTypes
<1>. QED BY <1>1, <1>2, <1>3, <1>4, <1>5 DEF Next

LEMMA TypeInvInit == Init => TypeInv
BY DEF Init, TypeInv, TypeOK, CacheCurrent, CopyStored, Idle, Reconciles, Steps, Shares

(* The variables of the controller, its caches and the two APIs keep their
   types, and what is at the stored resourceVersion has the stored CR. *)
THEOREM TypeCorrect == Spec => []TypeOK /\ []TypeInv
<1>1. TypeInv => TypeOK
  BY DEF TypeInv
<1>. QED BY <1>1, TypeInvInit, TypeInvStep, PTL DEF Spec
=============================================================================
