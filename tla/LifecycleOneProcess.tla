------------------------- MODULE LifecycleOneProcess -------------------------
(***************************************************************************)
(* What one operator process gets right that two of them do not: it        *)
(* creates only under a standing finalizer and deletes only the FS of a CR *)
(* that is terminating, although both calls go to Huawei, which knows no   *)
(* resourceVersion, on behalf of a copy of any age.                        *)
(*                                                                         *)
(* The argument: OldCopies.  Only this process removes the finalizer, and  *)
(* only from a copy that is current; the cache is then no older than the   *)
(* start of that reconcile, and so shows the deletion and the policy that  *)
(* the removal was decided on.                                             *)
(***************************************************************************)
EXTENDS LifecycleRefinement

(* Anchored, with the file systems as a parameter. *)
AnchoredIn(o, s, cl) ==
  /\ o.fin /\ ~o.del => s # Absent /\ s.fin
  /\ o.fin /\ o.del /\ o.policy = "Delete" /\ o.fsId \in Ids /\ cl[o.fsId].st # "none" =>
       s # Absent /\ s.fin /\ s.del /\ s.fsId = o.fsId

LEMMA NextKeepsShares ==
  ASSUME TypeInv, IdInv, [Next]_vars
  PROVE  SharesKept
<1>1. CASE UNCHANGED cloud
  BY <1>1, UnchangedShares
<1>2. ASSUME NEW p \in Operators, HuaweiCall(p) PROVE SharesKept
  BY <1>2, CallDooms DEF DoomKept
<1>3. ASSUME NEW i \in Ids, HuaweiStep(i) PROVE SharesKept
  <2>1. PICK st : cloud[i].st # "none" /\ cloud' = [cloud EXCEPT ![i].st = st]
    BY <1>3 DEF HuaweiStep, Provision, Suspend, Resume, Destroy, Vanish, MoveShare
  <2>. QED BY <2>1, MovedShares DEF TypeInv, TypeOK
<1>4. ASSUME NEW p \in Operators, ApiWrite(p) \/ Crash(p) PROVE UNCHANGED cloud
  BY <1>4 DEF ApiWrite, AddFinalizer, patchStatus, patchThenRemove, patchMissedThenRemove,
     patchLostThenReturn, removeFinalizer, WriteMissed, WriteRefused, Crash
<1>5. ASSUME NEW p \in Operators, NEW c \in CRs, Reconcile(p, c) \/ Informer(p, c)
      PROVE  UNCHANGED cloud
  BY <1>5 DEF Informer, Observe, Resync, Reconcile, NothingToDo, DropUnrecorded, RetainShare,
     DeleteShare, Terminating, EnsureFinalizer, SkipPaused, StartCreate, StartPoll, Wanted, Pickup
<1>6. ASSUME NEW c \in CRs, UserStep(c) \/ Unhold(c) PROVE UNCHANGED cloud
  BY <1>6, UserWrites DEF Elsewhere
<1>. QED BY <1>1, <1>2, <1>3, <1>4, <1>5, <1>6 DEF Next, vars

-----------------------------------------------------------------------------
(* The stored CR moves, and a copy of it stays *)

LEMMA Finalized ==
  ASSUME NEW s \in CR
  PROVE  LET r == [s EXCEPT !.fin = TRUE] IN
         r \in CR /\ r.fin = TRUE /\ r.del = s.del /\ r.fsId = s.fsId
BY DEF CR

(* A terminating CR keeps its fsId. *)
LEMMA TerminatingId ==
  ASSUME TypeInv, IdInv, CopyExact, NEW p \in freshProc,
         proc[p].pc \in {"patch", "patchThenRemove"}, store[proc[p].key].del
  PROVE  proc[p].obj.fsId = store[proc[p].key].fsId
BY CopyExactFits DEF ExactFits, MayFollow

LEMMA AnchoredKept ==
  ASSUME IndInv, CopyExact, [Next]_vars,
         NEW c \in CRs, NEW o \in CR, o.fsId \in Mentioned,
         AnchoredIn(o, store[c], cloud),
         \A p \in freshProc :
           proc[p].key = c /\ proc[p].pc = "removeFin" => o.del /\ o.policy = store[c].policy
  PROVE  AnchoredIn(o, store'[c], cloud')
<1>. TypeInv /\ IdInv
  BY IndInvParts
<1>. DEFINE s == store[c]
            r == store'[c]
<1>1. o.fsId \in Ids /\ cloud'[o.fsId].st # "none" => cloud[o.fsId].st # "none"
  BY NextKeepsShares DEF SharesKept
<1>2. s # Absent => s \in CR
  BY DEF TypeInv, TypeOK
<1>3. StoreStep(c)
  BY StoreSteps
<1>. HIDE DEF s, r
<1>4. AnchoredIn(o, s, cloud)
  BY DEF s
<1>5. CASE r = s
  BY <1>1, <1>4, <1>5 DEF AnchoredIn, r
<1>6. CASE UserMade(c, r)
  <2>1. s = Absent \/ (r = Absent /\ ~s.fin)
          \/ (r # Absent /\ r.fin = s.fin /\ r.fsId = s.fsId /\ (s.del => r.del))
    BY <1>6, AbsentAssumption DEF UserMade, s
  <2>2. AnchoredIn(o, r, cloud')
    BY <1>1, <1>4, <2>1 DEF AnchoredIn
  <2>. QED BY <2>2 DEF r
<1>7. ASSUME NEW p \in freshProc, proc[p].key = c, r = [s EXCEPT !.fin = TRUE]
      PROVE  AnchoredIn(o, r, cloud')
  <2>1. s \in CR
    BY <1>7, CurrentCopy DEF s
  <2>. DEFINE t == [s EXCEPT !.fin = TRUE]
  <2>2. t \in CR /\ t.fin = TRUE /\ t.del = s.del /\ t.fsId = s.fsId
    BY <2>1, Finalized
  <2>3. r = t
    BY <1>7
  <2>. HIDE DEF t
  <2>4. r # Absent /\ r.fin /\ r.del = s.del /\ r.fsId = s.fsId
    BY <2>2, <2>3, AbsentAssumption
  <2>. QED BY <1>1, <1>4, <2>4 DEF AnchoredIn
<1>8. ASSUME NEW p \in freshProc, proc[p].key = c,
             proc[p].pc \in {"patch", "patchThenRemove"}, r = StatusWritten(p)
      PROVE  AnchoredIn(o, r, cloud')
  <2>1. /\ r # Absent /\ r.fin = s.fin /\ r.del = s.del
        /\ s.del => r.fsId = s.fsId
    BY <1>8, CurrentCopy, StatusFields, TerminatingId DEF s
  <2>. QED BY <1>1, <1>4, <2>1 DEF AnchoredIn
<1>9. ASSUME NEW p \in freshProc, proc[p].key = c, proc[p].pc = "removeFin"
      PROVE  AnchoredIn(o, r, cloud')
  <2>1. s.fsId = NoId \/ s.policy # "Delete" \/ cloud[s.fsId].st = "none"
    BY <1>9, CurrentCopy DEF CopyFits, s
  <2>2. o.del /\ o.policy = s.policy
    BY <1>9 DEF s
  <2>. QED BY <1>1, <1>4, <2>1, <2>2, ConstantsAssumption DEF AnchoredIn
<1>. QED BY <1>3, <1>5, <1>6, <1>7, <1>8, <1>9 DEF StoreStep, s, r

-----------------------------------------------------------------------------
(* The steps of the process and of its cache *)

(* What may become of the reconcile of p: nothing, its end, its next call, or
   the first call of another one that has read the cache. *)
ProcStep(p) ==
  \/ /\ proc'[p] = proc[p]
     /\ p \in freshProc' =>
          p \in freshProc /\ store'[proc[p].key] = store[proc[p].key]
  \/ proc'[p] = Idle /\ p \notin freshProc'
  \/ /\ proc[p].pc # "idle" /\ proc'[p].key = proc[p].key
     /\ proc'[p].pc \notin {"create", "delGet"}
     /\ proc'[p].pc = "find" => proc[p].pc = "create" /\ proc'[p].obj = proc[p].obj
     /\ proc'[p].pc = "delShare" => proc[p].pc = "delGet" /\ proc'[p].obj = proc[p].obj
     /\ p \in freshProc' =>
          LET c == proc[p].key IN
          p \in freshProc /\ store'[c].del = store[c].del /\ store'[c].policy = store[c].policy
  \/ \E c \in CRs :
       /\ UNCHANGED <<store, cache, cloud>>
       /\ cache[p][c] # Absent
       /\ proc'[p].key = c
       /\ p \in freshProc' => <<p, c>> \in freshCache
       /\ proc'[p].pc \notin {"find", "delShare"}
       /\ proc'[p].pc = "create" =>
            proc'[p].obj = cache[p][c] /\ cache[p][c].fin /\ ~cache[p][c].del
       /\ proc'[p].pc = "delGet" =>
            /\ proc'[p].obj = cache[p][c] /\ cache[p][c].fin /\ cache[p][c].del
            /\ cache[p][c].policy = "Delete"

LEMMA ApiWriteProc ==
  ASSUME TypeInv, IdInv, NEW p \in Operators, ApiWrite(p)
  PROVE  ProcStep(p)
<1>. DEFINE c == proc[p].key
<1>1. CASE \E again \in BOOLEAN : Return(p, again) /\ p \notin freshProc'
  BY <1>1 DEF Return, ProcStep, TypeInv, TypeOK
<1>2. CASE AddFinalizer(p) \/ patchStatus(p) \/ patchLostThenReturn(p) \/ removeFinalizer(p)
  <2>1. \E r : Write(c, r, {p}, {})
    BY <1>2 DEF AddFinalizer, patchStatus, patchLostThenReturn, removeFinalizer
  <2>2. p \notin freshProc'
    BY <2>1 DEF Write
  <2>3. \E again \in BOOLEAN : Return(p, again)
    BY <1>2 DEF AddFinalizer, patchStatus, patchLostThenReturn, removeFinalizer, TypeInv, TypeOK,
       Reconciles
  <2>. QED BY <1>1, <2>2, <2>3
<1>3. CASE WriteMissed(p) \/ WriteRefused(p)
  BY <1>1, <1>3 DEF WriteMissed, WriteRefused, TypeInv, TypeOK, Reconciles
<1>4. CASE patchThenRemove(p)
  <2>1. /\ proc[p].pc = "patchThenRemove" /\ p \in freshProc
        /\ \E o : Goto(p, "removeFin", o, FALSE)
        /\ Write(c, StatusWritten(p), {p}, {p})
    BY <1>4 DEF patchThenRemove
  <2>2. proc'[p].key = c /\ proc'[p].pc = "removeFin"
    BY <2>1 DEF Goto, TypeInv, TypeOK
  <2>3. c \in CRs
    BY <2>1, CurrentCopy
  <2>4. store'[c] = StatusWritten(p)
    <3>. HIDE DEF c
    <3>. QED BY <2>1, <2>3, WrittenKey
  <2>5. store'[c].del = store[c].del /\ store'[c].policy = store[c].policy
    BY <2>1, <2>4, StatusFields
  <2>. QED BY <2>1, <2>2, <2>5 DEF ProcStep
<1>5. CASE patchMissedThenRemove(p)
  BY <1>5 DEF patchMissedThenRemove, Goto, ProcStep, TypeInv, TypeOK
<1>. QED BY <1>2, <1>3, <1>4, <1>5 DEF ApiWrite

LEMMA HuaweiCallProc ==
  ASSUME TypeInv, NEW p \in Operators, HuaweiCall(p)
  PROVE  ProcStep(p)
<1>1. proc[p].pc # "idle" /\ UNCHANGED store
  BY DEF HuaweiCall, CreateAccepted, CreateLost, CreateCollides, FindByName, PollGone,
     PollAvailable, PollErrored, PollPending, Polled, DeleteGetGone, DeleteGetExists,
     DeleteInFlight, DeleteAccepted, DeleteLost, CallFails, Called
<1>2. CASE \E again : Return(p, again) /\ p \notin freshProc'
  BY <1>2 DEF Return, ProcStep, TypeInv, TypeOK
<1>3. ASSUME NEW pc \in {"patch", "patchThenRemove"}, NEW o, NEW again, Goto(p, pc, o, again),
             UNCHANGED freshProc
      PROVE  ProcStep(p)
  <2>1. proc'[p].key = proc[p].key /\ proc'[p].pc = pc
    BY <1>3 DEF Goto, TypeInv, TypeOK
  <2>. QED BY <1>1, <1>3, <2>1 DEF ProcStep
<1>4. CASE PollPending(p) \/ DeleteInFlight(p)
  BY <1>2, <1>4 DEF PollPending, DeleteInFlight
<1>5. CASE CreateCollides(p)
  BY <1>1, <1>5 DEF CreateCollides, Called, Goto, ProcStep, TypeInv, TypeOK
<1>6. CASE DeleteGetExists(p)
  BY <1>1, <1>6 DEF DeleteGetExists, Called, Goto, ProcStep, TypeInv, TypeOK
<1>7. CASE ~(PollPending(p) \/ DeleteInFlight(p) \/ CreateCollides(p) \/ DeleteGetExists(p))
  BY <1>3, <1>7 DEF HuaweiCall, CreateAccepted, CreateLost, FindByName, PollGone, PollAvailable,
     PollErrored, DeleteGetGone, DeleteAccepted, DeleteLost, CallFails, RecordId, Fail
<1>. QED BY <1>4, <1>5, <1>6, <1>7

LEMMA ReconcileProc ==
  ASSUME TypeInv, NEW p \in Operators, NEW c \in CRs, Reconcile(p, c)
  PROVE  ProcStep(p)
<1>. DEFINE k == cache[p][c]
<1>1. CASE NothingToDo(p, c)
  BY <1>1 DEF NothingToDo, Pickup, ProcStep
<1>2. CASE ~NothingToDo(p, c)
  <2>1. UNCHANGED <<store, cache, cloud>> /\ k # Absent /\ proc[p].pc = "idle"
    BY <1>2 DEF Reconcile, DropUnrecorded, RetainShare, DeleteShare, Terminating,
       EnsureFinalizer, SkipPaused, StartCreate, StartPoll, Wanted, Pickup
  <2>2. PICK pc, o, again :
          /\ Enter(p, c, pc, o, again)
          /\ pc \notin {"find", "delShare"}
          /\ pc = "create" => o = k /\ k.fin /\ ~k.del
          /\ pc = "delGet" => o = k /\ k.fin /\ k.del /\ k.policy = "Delete"
    <3>1. CASE DropUnrecorded(p, c) \/ RetainShare(p, c) \/ EnsureFinalizer(p, c)
                 \/ SkipPaused(p, c) \/ StartPoll(p, c)
      <4>1. \E pc \in {"removeFin", "patchThenRemove", "addFin", "patch", "poll"} :
              \E o, again : Enter(p, c, pc, o, again)
        BY <3>1 DEF DropUnrecorded, RetainShare, EnsureFinalizer, SkipPaused, StartPoll
      <4>. QED BY <4>1
    <3>2. CASE DeleteShare(p, c)
      <4>1. /\ Enter(p, c, "delGet", k, FALSE)
            /\ k.fin /\ k.del /\ k.policy = "Delete"
        BY <3>2 DEF DeleteShare, Terminating
      <4>. WITNESS "delGet", k, FALSE
      <4>. QED BY <4>1
    <3>3. CASE StartCreate(p, c)
      <4>1. Enter(p, c, "create", k, FALSE) /\ k.fin /\ ~k.del
        BY <3>3 DEF StartCreate, Wanted
      <4>. WITNESS "create", k, FALSE
      <4>. QED BY <4>1
    <3>. QED BY <1>2, <3>1, <3>2, <3>3 DEF Reconcile
  <2>3. proc'[p] = [pc |-> pc, key |-> c, obj |-> o, again |-> again]
    BY <2>2 DEF Enter, TypeInv, TypeOK
  <2>4. p \in freshProc' => <<p, c>> \in freshCache
    BY <2>1, <2>2 DEF Enter, TypeInv, TypeOK
  <2>. QED BY <2>1, <2>2, <2>3, <2>4 DEF ProcStep
<1>. QED BY <1>1, <1>2

LEMMA ProcSteps ==
  ASSUME TypeInv, IdInv, NEW p, Operators = {p}, [Next]_vars
  PROVE  ProcStep(p)
<1>1. CASE UNCHANGED <<store, proc, freshProc>>
  BY <1>1 DEF ProcStep
<1>2. CASE ApiWrite(p) \/ HuaweiCall(p)
  BY <1>2, ApiWriteProc, HuaweiCallProc
<1>3. CASE Crash(p)
  BY <1>3 DEF Crash, ProcStep, TypeInv, TypeOK
<1>4. ASSUME NEW c \in CRs, Reconcile(p, c) PROVE ProcStep(p)
  BY <1>4, ReconcileProc
<1>5. ASSUME NEW c \in CRs, Informer(p, c) PROVE UNCHANGED <<store, proc, freshProc>>
  BY <1>5 DEF Informer, Observe, Resync
<1>6. ASSUME NEW c \in CRs, UserStep(c) \/ Unhold(c) PROVE ProcStep(p)
  <2>1. PICK r \in CR \cup {Absent} : Write(c, r, {}, {}) /\ Elsewhere
    BY <1>6, UserWrites
  <2>. DEFINE w == {}
  <2>2. Write(c, r, w, w) /\ w \in SUBSET Operators /\ w \in SUBSET w
    BY <2>1
  <2>. HIDE DEF w
  <2>3. /\ freshProc' \subseteq (freshProc \ w) \cup w
        /\ \A q \in freshProc' \ w : store'[proc[q].key] = store[proc[q].key]
    BY <2>2, WriteEffect
  <2>. QED BY <2>1, <2>3 DEF ProcStep, Elsewhere, w
<1>7. ASSUME NEW i \in Ids, HuaweiStep(i) PROVE UNCHANGED <<store, proc, freshProc>>
  BY <1>7 DEF HuaweiStep, Provision, Suspend, Resume, Destroy, Vanish, MoveShare
<1>. QED BY <1>1, <1>2, <1>3, <1>4, <1>5, <1>6, <1>7 DEF Next, vars

(* The cache is filled from the store only. *)
LEMMA CacheSteps ==
  ASSUME TypeInv, [Next]_vars, NEW p \in Operators, NEW c \in CRs
  PROVE  cache'[p][c] = cache[p][c] \/ (cache'[p][c] = store[c] /\ UNCHANGED store)
<1>1. CASE UNCHANGED cache
  BY <1>1
<1>2. ASSUME NEW q \in Operators, NEW d \in CRs, Informer(q, d)
      PROVE  UNCHANGED store /\ cache'[p][c] \in {cache[p][c], store[c]}
  BY <1>2 DEF Informer, Observe, Resync, TypeInv, TypeOK
<1>3. ASSUME NEW q \in Operators, Crash(q)
      PROVE  UNCHANGED store /\ cache'[p][c] \in {cache[p][c], store[c]}
  BY <1>3 DEF Crash, TypeInv, TypeOK
<1>4. ASSUME NEW q \in Operators, ApiWrite(q) \/ HuaweiCall(q) PROVE UNCHANGED cache
  BY <1>4 DEF ApiWrite, AddFinalizer, patchStatus, patchThenRemove, patchMissedThenRemove,
     patchLostThenReturn, removeFinalizer, WriteMissed, WriteRefused, HuaweiCall, CreateAccepted,
     CreateLost, CreateCollides, FindByName, PollGone, PollAvailable, PollErrored, PollPending,
     Polled, DeleteGetGone, DeleteGetExists, DeleteInFlight, DeleteAccepted, DeleteLost, CallFails,
     Called
<1>5. ASSUME NEW q \in Operators, NEW d \in CRs, Reconcile(q, d) PROVE UNCHANGED cache
  BY <1>5 DEF Reconcile, NothingToDo, DropUnrecorded, RetainShare, DeleteShare, Terminating,
     EnsureFinalizer, SkipPaused, StartCreate, StartPoll, Wanted, Pickup
<1>6. ASSUME NEW d \in CRs, UserStep(d) \/ Unhold(d) PROVE UNCHANGED cache
  BY <1>6, UserWrites DEF Elsewhere
<1>7. ASSUME NEW i \in Ids, HuaweiStep(i) PROVE UNCHANGED cache
  BY <1>7 DEF HuaweiStep, Provision, Suspend, Resume, Destroy, Vanish, MoveShare
<1>. QED BY <1>1, <1>2, <1>3, <1>4, <1>5, <1>6, <1>7 DEF Next, vars

-----------------------------------------------------------------------------
(* Old copies stay anchored *)

(* OldCopies for the reconcile r, with the stored CRs st and the file systems cl. *)
ObjectAnchored(r, st, cl) ==
  /\ r.pc \in {"create", "find"} =>
       r.obj.fin /\ ~r.obj.del /\ AnchoredIn(r.obj, st[r.key], cl)
  /\ r.pc \in {"delGet", "delShare"} =>
       /\ r.obj.fin /\ r.obj.del /\ r.obj.policy = "Delete"
       /\ AnchoredIn(r.obj, st[r.key], cl)

CacheAnchored(p) == \A d \in CRs : cache[p][d] # Absent => AnchoredIn(cache[p][d], store[d], cloud)

CacheRecent(p) ==
  p \in freshProc =>
    LET c == proc[p].key IN
    cache[p][c] # Absent /\ cache[p][c].del = store[c].del /\ cache[p][c].policy = store[c].policy

LEMMA OldCopiesParts ==
  ASSUME NEW p, Operators = {p}
  PROVE  /\ OldCopies <=> CacheAnchored(p) /\ ObjectAnchored(proc[p], store, cloud) /\ CacheRecent(p)
         /\ OldCopies' <=>
              CacheAnchored(p)' /\ ObjectAnchored(proc'[p], store', cloud') /\ CacheRecent(p)'
BY DEF OldCopies, Anchored, AnchoredIn, Exists, CacheAnchored, ObjectAnchored, CacheRecent

LEMMA CacheAnchoredStep ==
  ASSUME RefInv, NEW p, Operators = {p}, OldCopies, [Next]_vars
  PROVE  CacheAnchored(p)'
<1>. TypeInv /\ IdInv /\ IndInv /\ CopyExact
  BY IndInvParts DEF RefInv
<1> SUFFICES ASSUME NEW d \in CRs, cache'[p][d] # Absent
             PROVE  AnchoredIn(cache'[p][d], store'[d], cloud')
  BY DEF CacheAnchored
<1>1. CASE cache'[p][d] = cache[p][d]
  <2>. DEFINE o == cache[p][d]
  <2>1. o \in CR /\ o # Absent /\ o.fsId \in Mentioned
    BY <1>1, MentionedIds DEF TypeInv, TypeOK, FsIdOf
  <2>2. AnchoredIn(o, store[d], cloud)
    BY <2>1, OldCopiesParts DEF CacheAnchored
  <2>3. ASSUME NEW q \in freshProc, proc[q].key = d, proc[q].pc = "removeFin"
        PROVE  o.del /\ o.policy = store[d].policy
    <3>1. q = p /\ store[d].del
      BY <2>3, CurrentCopy DEF CopyExact
    <3>. QED BY <2>3, <3>1, OldCopiesParts DEF CacheRecent
  <2>. HIDE DEF o
  <2>4. AnchoredIn(o, store'[d], cloud')
    BY <2>1, <2>2, <2>3, AnchoredKept
  <2>. QED BY <1>1, <2>4 DEF o
<1>2. CASE cache'[p][d] = store[d] /\ UNCHANGED store
  BY <1>2 DEF AnchoredIn
<1>. QED BY <1>1, <1>2, CacheSteps

LEMMA ObjectAnchoredStep ==
  ASSUME RefInv, NEW p, Operators = {p}, OldCopies, [Next]_vars
  PROVE  ObjectAnchored(proc'[p], store', cloud')
<1>. TypeInv /\ IdInv /\ IndInv /\ CopyExact
  BY IndInvParts DEF RefInv
<1>. DEFINE r == proc[p]
            o == proc[p].obj
            c == proc[p].key
<1>1. ASSUME r.pc \in {"create", "find", "delGet", "delShare"}
      PROVE  AnchoredIn(o, store'[c], cloud')
  <2>1. c \in CRs /\ o \in CR /\ o # Absent /\ o.fsId \in Mentioned
    BY <1>1, MentionedIds, AbsentAssumption DEF TypeInv, TypeOK, FsIdOf
  <2>2. AnchoredIn(o, store[c], cloud)
    BY <1>1, OldCopiesParts DEF ObjectAnchored
  <2>3. \A q \in freshProc : proc[q].pc # "removeFin"
    BY <1>1 DEF TypeInv, TypeOK
  <2>. HIDE DEF o, c
  <2>. QED BY <2>1, <2>2, <2>3, AnchoredKept
<1>2. ObjectAnchored(r, store, cloud)
  BY OldCopiesParts
<1>3. ObjectAnchored(r, store', cloud')
  BY <1>1, <1>2 DEF ObjectAnchored
<1>4. CASE proc'[p] = r
  BY <1>3, <1>4
<1>5. CASE proc'[p] = Idle
  BY <1>5 DEF Idle, ObjectAnchored
<1>6. CASE /\ proc'[p].key = c /\ proc'[p].pc \notin {"create", "delGet"}
           /\ proc'[p].pc = "find" => r.pc = "create" /\ proc'[p].obj = o
           /\ proc'[p].pc = "delShare" => r.pc = "delGet" /\ proc'[p].obj = o
  BY <1>3, <1>6 DEF ObjectAnchored
<1>7. ASSUME NEW d \in CRs, UNCHANGED <<store, cloud>>, cache[p][d] # Absent, proc'[p].key = d,
             proc'[p].pc \notin {"find", "delShare"},
             proc'[p].pc = "create" =>
               proc'[p].obj = cache[p][d] /\ cache[p][d].fin /\ ~cache[p][d].del,
             proc'[p].pc = "delGet" =>
               /\ proc'[p].obj = cache[p][d] /\ cache[p][d].fin /\ cache[p][d].del
               /\ cache[p][d].policy = "Delete"
      PROVE  ObjectAnchored(proc'[p], store', cloud')
  <2>1. AnchoredIn(cache[p][d], store'[d], cloud')
    BY <1>7, OldCopiesParts DEF CacheAnchored
  <2>. QED BY <1>7, <2>1 DEF ObjectAnchored
<1>8. ProcStep(p)
  BY ProcSteps
<1>. QED BY <1>4, <1>5, <1>6, <1>7, <1>8 DEF ProcStep

LEMMA CacheRecentStep ==
  ASSUME RefInv, NEW p, Operators = {p}, OldCopies, [Next]_vars
  PROVE  CacheRecent(p)'
<1>. TypeInv /\ IdInv /\ IndInv /\ CopyExact
  BY IndInvParts DEF RefInv
<1> SUFFICES ASSUME p \in freshProc'
             PROVE  LET d == proc'[p].key IN
                    /\ cache'[p][d] # Absent
                    /\ cache'[p][d].del = store'[d].del /\ cache'[p][d].policy = store'[d].policy
  BY DEF CacheRecent
<1>. DEFINE c == proc[p].key
<1>1. ASSUME p \in freshProc, proc'[p].key = c,
             store'[c].del = store[c].del, store'[c].policy = store[c].policy
      PROVE  /\ cache'[p][c] # Absent
             /\ cache'[p][c].del = store'[c].del /\ cache'[p][c].policy = store'[c].policy
  <2>1. c \in CRs /\ store[c] # Absent
    BY <1>1, CurrentCopy
  <2>2. /\ cache[p][c] # Absent
        /\ cache[p][c].del = store[c].del /\ cache[p][c].policy = store[c].policy
    BY <1>1, OldCopiesParts DEF CacheRecent
  <2>3. cache'[p][c] = cache[p][c] \/ cache'[p][c] = store[c]
    BY <2>1, CacheSteps
  <2>. QED BY <1>1, <2>1, <2>2, <2>3
<1>2. ASSUME NEW d \in CRs, UNCHANGED <<store, cache>>, cache[p][d] # Absent, proc'[p].key = d,
             <<p, d>> \in freshCache
      PROVE  /\ cache'[p][d] # Absent
             /\ cache'[p][d].del = store'[d].del /\ cache'[p][d].policy = store'[d].policy
  BY <1>2 DEF TypeInv, CacheCurrent
<1>3. ProcStep(p)
  BY ProcSteps
<1>4. CASE proc'[p] = proc[p]
           /\ p \in freshProc /\ store'[c] = store[c]
  BY <1>1, <1>4
<1>5. CASE /\ proc'[p].key = c
           /\ p \in freshProc /\ store'[c].del = store[c].del /\ store'[c].policy = store[c].policy
  BY <1>1, <1>5
<1>. QED BY <1>2, <1>3, <1>4, <1>5 DEF ProcStep

-----------------------------------------------------------------------------
(* The theorems *)

OneInv == RefInv /\ OldCopies

LEMMA OneInvInit ==
  ASSUME NEW p, Operators = {p}
  PROVE  Init => OneInv
<1>1. Init => OldCopies
  BY DEF Init, Idle, OldCopies
<1>. QED BY <1>1, RefInvInit DEF OneInv

LEMMA OneInvStep ==
  ASSUME NEW p, Operators = {p}
  PROVE  OneInv /\ [Next]_vars => OneInv'
<1> SUFFICES ASSUME OneInv, [Next]_vars PROVE OneInv'
  OBVIOUS
<1>1. RefInv'
  BY RefInvStep DEF OneInv
<1>2. OldCopies'
  BY OldCopiesParts, CacheAnchoredStep, ObjectAnchoredStep, CacheRecentStep DEF OneInv
<1>. QED BY <1>1, <1>2 DEF OneInv

(* With one operator process, however old a cached CR or the object of a
   reconcile is: one that shows the finalizer is right that it stands until the
   CR terminates, and one of a CR to tear down that its FS is still to delete. *)
THEOREM OldCopiesAnchored ==
  ASSUME NEW p, Operators = {p}
  PROVE  Spec => []OldCopies
<1>1. OneInv => OldCopies
  BY DEF OneInv
<1>2. Init => OneInv
  BY OneInvInit
<1>3. OneInv /\ [Next]_vars => OneInv'
  BY OneInvStep
<1>. QED BY <1>1, <1>2, <1>3, PTL DEF Spec

(* With one operator process CreateShare is accepted only while the finalizer
   of a CR of that fsName stands, though Huawei checks no resourceVersion. *)
THEOREM CreatesGuarded ==
  ASSUME NEW p, Operators = {p}
  PROVE  Spec => CreateUnderFinalizer
<1>. DEFINE Guarded ==
       \A i \in Ids :
         cloud[i].st = "none" /\ cloud'[i].st = "creating"
         => \E c \in CRs : /\ FsName[c] = cloud'[i].name
                           /\ store[c] # Absent /\ store[c].fin
<1>1. OneInv /\ [Next]_vars => [Guarded]_vars
  <2> SUFFICES ASSUME OneInv, Next,
                      NEW i \in Ids, cloud[i].st = "none", cloud'[i].st = "creating"
               PROVE  \E c \in CRs : /\ FsName[c] = cloud'[i].name
                                     /\ store[c] # Absent /\ store[c].fin
    OBVIOUS
  <2>. TypeInv /\ OldCopies
    BY IndInvParts DEF OneInv, RefInv
  <2>1. CASE CreateAccepted(p) \/ CreateLost(p)
    <3>1. PICK j \in FreshIds :
            cloud' = [cloud EXCEPT ![j] = [st |-> "creating", name |-> FsName[proc[p].key]]]
      BY <2>1 DEF CreateAccepted, CreateLost
    <3>2. cloud'[i].name = FsName[proc[p].key]
      BY <3>1 DEF TypeInv, TypeOK, FreshIds
    <3>3. proc[p].pc = "create" /\ proc[p].key \in CRs
      BY <2>1 DEF CreateAccepted, CreateLost, Called, TypeInv, TypeOK
    <3>4. store[proc[p].key] # Absent /\ store[proc[p].key].fin
      BY <3>3, OldCopiesParts DEF ObjectAnchored, AnchoredIn
    <3>. QED BY <3>2, <3>3, <3>4
  <2>2. CASE ~(CreateAccepted(p) \/ CreateLost(p))
    <3>1. cloud' = cloud \/ DeleteAccepted(p) \/ DeleteLost(p) \/ \E j \in Ids : HuaweiStep(j)
      <4>1. ASSUME HuaweiCall(p)
            PROVE  cloud' = cloud \/ DeleteAccepted(p) \/ DeleteLost(p)
        BY <2>2, <4>1 DEF HuaweiCall, CreateCollides, FindByName, PollGone, PollAvailable,
           PollErrored, PollPending, Polled, DeleteGetGone, DeleteGetExists, DeleteInFlight,
           CallFails
      <4>2. ASSUME ApiWrite(p) \/ Crash(p) PROVE cloud' = cloud
        BY <4>2 DEF ApiWrite, AddFinalizer, patchStatus, patchThenRemove, patchMissedThenRemove,
           patchLostThenReturn, removeFinalizer, WriteMissed, WriteRefused, Crash
      <4>3. ASSUME NEW c \in CRs, Reconcile(p, c) \/ Informer(p, c) PROVE cloud' = cloud
        BY <4>3 DEF Informer, Observe, Resync, Reconcile, NothingToDo, DropUnrecorded,
           RetainShare, DeleteShare, Terminating, EnsureFinalizer, SkipPaused, StartCreate,
           StartPoll, Wanted, Pickup
      <4>4. ASSUME NEW c \in CRs, UserStep(c) \/ Unhold(c) PROVE cloud' = cloud
        BY <4>4, UserWrites DEF Elsewhere
      <4>. QED BY <4>1, <4>2, <4>3, <4>4 DEF Next
    <3>2. ASSUME NEW j \in Ids, NEW st, st # "creating", cloud' = [cloud EXCEPT ![j].st = st]
          PROVE  FALSE
      BY <3>2 DEF TypeInv, TypeOK, Shares
    <3>3. CASE DeleteAccepted(p) \/ DeleteLost(p)
      BY <3>2, <3>3 DEF DeleteAccepted, DeleteLost, Exists
    <3>4. ASSUME NEW j \in Ids, HuaweiStep(j) PROVE FALSE
      BY <3>2, <3>4, ConstantsAssumption
         DEF HuaweiStep, Provision, Suspend, Resume, Destroy, Vanish, MoveShare
    <3>. QED BY <3>1, <3>3, <3>4
  <2>. QED BY <2>1, <2>2
<1>2. Init => OneInv
  BY OneInvInit
<1>3. OneInv /\ [Next]_vars => OneInv'
  BY OneInvStep
<1>. QED BY <1>1, <1>2, <1>3, PTL DEF Spec, CreateUnderFinalizer

(* With one operator process DeleteShare reaches only the recorded FS of a CR
   that is terminating, though the reconcile may work on an old copy. *)
THEOREM DeletesTerminating ==
  ASSUME NEW q, Operators = {q}
  PROVE  Spec => DeleteOnlyTerminating
<1>1. OneInv /\ [Next]_vars => [\A p \in Operators : DeletesItsOwn(p)]_vars
  <2> SUFFICES ASSUME OneInv, DeleteAccepted(q) \/ DeleteLost(q)
               PROVE  LET c == proc[q].key IN
                      store[c] # Absent /\ store[c].del /\ store[c].fsId = proc[q].obj.fsId
    BY DEF DeletesItsOwn
  <2>1. /\ proc[q].pc = "delShare"
        /\ proc[q].obj.fsId \in Ids /\ cloud[proc[q].obj.fsId].st # "none"
    BY DEF DeleteAccepted, DeleteLost, Called, Exists
  <2>2. ObjectAnchored(proc[q], store, cloud)
    BY OldCopiesParts DEF OneInv
  <2>. QED BY <2>1, <2>2 DEF ObjectAnchored, AnchoredIn
<1>2. Init => OneInv
  BY OneInvInit
<1>3. OneInv /\ [Next]_vars => OneInv'
  BY OneInvStep
<1>. QED BY <1>1, <1>2, <1>3, PTL DEF Spec, DeleteOnlyTerminating
=============================================================================
