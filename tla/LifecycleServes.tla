--------------------------- MODULE LifecycleServes ---------------------------
(***************************************************************************)
(* Lifecycle implements CrLife, from which Volumes takes its CRs and FSes, *)
(* for any sets of CRs, names, ids, operator processes and choices.        *)
(*                                                                         *)
(* The argument: every step of Lifecycle is one of FsLifecycle, and each   *)
(* of those is a step of CrLife or one that CrLife does not see, given     *)
(* that no two FSes have one name and that a CR records nothing before it  *)
(* has its finalizer.                                                      *)
(***************************************************************************)
EXTENDS LifecycleRefinement

(* Huawei has no two FSes of one name. *)
NamesOnce ==
  \A i, j \in Ids :
    cloud[i].st # "none" /\ cloud[j].st # "none" /\ cloud[i].name = cloud[j].name => i = j

(* Nothing is recorded before the finalizer is there. *)
GuardFirst ==
  \A c \in CRs :
    Stored[c].st # "terminating" /\ ~Stored[c].guarded
      => Stored[c].id = NoId /\ "Deleting" \notin Stored[c].shown

ServesInv == RefInv /\ NamesOnce /\ GuardFirst

-----------------------------------------------------------------------------
LEMMA NamesOnceStep ==
  ASSUME cloud \in [Ids -> Shares], NamesOnce, [F!Next]_(F!vars)
  PROVE  NamesOnce'
<1>1. CASE UNCHANGED cloud
  BY <1>1 DEF NamesOnce
<1>2. ASSUME NEW i \in Ids, F!Issue(i) PROVE NamesOnce'
  <2>1. PICK n \in Names :
          /\ \A j \in Ids : cloud[j].st # "none" => cloud[j].name # n
          /\ cloud' = [cloud EXCEPT ![i] = [st |-> "creating", name |-> n]]
    BY <1>2 DEF F!Issue
  <2>2. cloud'[i].name = n /\ \A j \in Ids : j # i => cloud'[j] = cloud[j]
    BY <2>1
  <2>. QED BY <2>1, <2>2 DEF NamesOnce
<1>3. ASSUME NEW i \in Ids, F!Move(i) PROVE NamesOnce'
  <2>1. PICK st \in {"available", "error", "deleting", "none"} :
          F!Follows(cloud[i].st, st) /\ cloud' = [cloud EXCEPT ![i].st = st]
    BY <1>3 DEF F!Move
  <2>2. cloud[i].st # "none"
    BY <2>1 DEF F!Follows
  <2>3. \A j \in Ids : /\ cloud'[j].name = cloud[j].name
                       /\ cloud'[j].st # "none" => cloud[j].st # "none"
    BY <2>1, <2>2 DEF Shares
  <2>. QED BY <2>3 DEF NamesOnce
<1>4. ASSUME NEW c \in CRs, F!CRStep(c) PROVE UNCHANGED cloud
  BY <1>4 DEF F!CRStep, F!Open, F!Edit, F!Terminate, F!Close, F!Guard, F!Unguard, F!Publish, F!Become
<1>. QED BY <1>1, <1>2, <1>3, <1>4 DEF F!Next, F!vars

(* One record of GuardFirst. *)
Guarded(r) == r.st # "terminating" /\ ~r.guarded => r.id = NoId /\ "Deleting" \notin r.shown

LEMMA GuardFirstStep ==
  ASSUME Stored \in [CRs -> Records], GuardFirst, [F!Next]_(F!vars)
  PROVE  GuardFirst'
<1>1. \A c \in CRs : Stored[c] \in Records /\ Guarded(Stored[c])
  BY DEF GuardFirst, Guarded
<1>2. SUFFICES \A c \in CRs : Guarded(Stored'[c])
  BY DEF GuardFirst, Guarded
<1>3. CASE UNCHANGED Stored
  BY <1>1, <1>3
<1>4. ASSUME NEW c \in CRs, F!CRStep(c) PROVE \A d \in CRs : Guarded(Stored'[d])
  <2>. DEFINE s == Stored[c]
  <2>1. s \in Records /\ Guarded(s)
    BY <1>1
  <2>2. ASSUME NEW r, F!Become(c, r), Guarded(r) PROVE \A d \in CRs : Guarded(Stored'[d])
    BY <1>1, <2>2 DEF F!Become
  <2>3. /\ Guarded(F!Blank)
        /\ \A pol : Guarded([F!Blank EXCEPT !.st = "live", !.policy = pol])
    BY DEF F!Blank, Guarded
  <2>4. /\ \A pol : Guarded([s EXCEPT !.policy = pol])
        /\ Guarded([s EXCEPT !.st = "terminating"])
        /\ Guarded([s EXCEPT !.guarded = TRUE])
    BY <2>1 DEF Guarded, Records
  <2>5. CASE F!Open(c) \/ F!Edit(c) \/ F!Terminate(c) \/ F!Close(c) \/ F!Guard(c)
    BY <2>2, <2>3, <2>4, <2>5 DEF F!Open, F!Edit, F!Terminate, F!Close, F!Guard
  <2>6. CASE F!Unguard(c)
    <3>1. Guarded([s EXCEPT !.guarded = FALSE])
      BY <2>1, <2>6 DEF F!Unguard, Guarded, Records
    <3>. QED BY <2>2, <2>3, <2>6, <3>1 DEF F!Unguard
  <2>7. CASE F!Publish(c)
    <3>1. PICK i \in Ids \cup {NoId}, t \in SUBSET F!Standing :
            s.guarded /\ F!Become(c, [s EXCEPT !.id = i, !.shown = t])
      BY <2>7 DEF F!Publish
    <3>2. Guarded([s EXCEPT !.id = i, !.shown = t])
      BY <2>1, <3>1 DEF Guarded, Records
    <3>. QED BY <2>2, <3>1, <3>2
  <2>. QED BY <1>4, <2>5, <2>6, <2>7 DEF F!CRStep
<1>5. ASSUME NEW i \in Ids, F!Issue(i) \/ F!Move(i) PROVE UNCHANGED Stored
  BY <1>5 DEF F!Issue, F!Move
<1>. QED BY <1>3, <1>4, <1>5 DEF F!Next, F!vars

LEMMA ServesInvInit == Init => ServesInv
<1>1. Init => NamesOnce /\ GuardFirst
  BY DEF Init, NamesOnce, GuardFirst, Stored, View
<1>. QED BY <1>1, RefInvInit DEF ServesInv

LEMMA ServesInvStep == ServesInv /\ [Next]_vars => ServesInv'
<1> SUFFICES ASSUME ServesInv, [Next]_vars PROVE ServesInv'
  OBVIOUS
<1>1. Stored \in [CRs -> Records] /\ cloud \in [Ids -> Shares]
  BY IndInvParts, StoredTypes DEF ServesInv, RefInv
<1>2. [F!Next]_(F!vars)
  BY StepsMap DEF ServesInv
<1>. QED BY <1>1, <1>2, NamesOnceStep, GuardFirstStep, RefInvStep DEF ServesInv

-----------------------------------------------------------------------------
(* The FS of a name *)

(* Of a name there is at most one FS, and that is the one of NamedShares. *)
LEMMA ShareOfName ==
  ASSUME NamesOnce, NEW n \in Names
  PROVE  /\ NamedShares[n] = NoId <=> SharesNamed(n) = {}
         /\ \A i \in Ids : NamedShares[n] = i <=> cloud[i].st # "none" /\ cloud[i].name = n
<1>1. SharesNamed(n) = {i \in Ids : cloud[i].st # "none" /\ cloud[i].name = n}
  BY DEF SharesNamed, Exists
<1>2. NamedShares[n] = IdIn(SharesNamed(n))
  BY DEF NamedShares
<1>3. \A i, j \in SharesNamed(n) : i = j
  BY <1>1 DEF NamesOnce
<1>4. SharesNamed(n) # {} => (CHOOSE i \in SharesNamed(n) : TRUE) \in SharesNamed(n)
  OBVIOUS
<1>5. NoId \notin SharesNamed(n)
  BY <1>1, ConstantsAssumption
<1>6. /\ NamedShares[n] = NoId <=> SharesNamed(n) = {}
      /\ \A i : i \in SharesNamed(n) => NamedShares[n] = i
      /\ NamedShares[n] # NoId => NamedShares[n] \in SharesNamed(n)
  BY <1>2, <1>3, <1>4, <1>5 DEF IdIn
<1>. QED BY <1>1, <1>6, ConstantsAssumption

(* When the FSes of one name become those of S and the others stay. *)
LEMMA NameChanges ==
  ASSUME NEW n \in Names, NEW S,
         SharesNamed(n)' = S,
         \A m \in Names : m # n => SharesNamed(m)' = SharesNamed(m)
  PROVE  NamedShares' = [NamedShares EXCEPT ![n] = IdIn(S)]
<1>1. NamedShares' = [m \in Names |-> IdIn(SharesNamed(m)')]
  BY DEF NamedShares, IdIn
<1>2. \A m \in Names : IdIn(SharesNamed(m)') = IF m = n THEN IdIn(S) ELSE IdIn(SharesNamed(m))
  OBVIOUS
<1>. QED BY <1>1, <1>2 DEF NamedShares

LEMMA NamesStay == UNCHANGED cloud => UNCHANGED NamedShares
BY DEF NamedShares, SharesNamed, Exists

(* Huawei's steps. *)
LEMMA IssueServes ==
  ASSUME NamesOnce, Stored \in [CRs -> Records], cloud \in [Ids -> Shares],
         NEW i \in Ids, F!Issue(i)
  PROVE  L!Next
<1>1. PICK n \in Names :
        /\ \A j \in Ids : cloud[j].st # "none" => cloud[j].name # n
        /\ cloud' = [cloud EXCEPT ![i] = [st |-> "creating", name |-> n]]
  BY DEF F!Issue
<1>2. cloud[i].st = "none" /\ (\A c \in CRs : Stored[c].id # i) /\ UNCHANGED Stored
  BY DEF F!Issue
<1>3. /\ cloud'[i] = [st |-> "creating", name |-> n]
      /\ \A j \in Ids : j # i => cloud'[j] = cloud[j]
  BY <1>1
<1>4. SharesNamed(n)' = {i} /\ \A m \in Names : m # n => SharesNamed(m)' = SharesNamed(m)
  BY <1>1, <1>2, <1>3 DEF SharesNamed, Exists
<1>5. NamedShares' = [NamedShares EXCEPT ![n] = i]
  <2>1. IdIn({i}) = i
    BY DEF IdIn
  <2>. QED BY <1>4, <2>1, NameChanges
<1>6. NamedShares[n] = NoId
  BY <1>1, ShareOfName DEF SharesNamed, Exists
<1>7. \A m \in Names : NamedShares[m] # i
  BY <1>2, ShareOfName
<1>8. \A c \in CRs : Held[c].fsId # i
  BY <1>2, ConstantsAssumption DEF Held, Phase
<1>9. UNCHANGED Held
  BY <1>2 DEF Held
<1>10. L!Issue(n, i)
  BY <1>5, <1>6, <1>7, <1>8, <1>9 DEF L!Issue
<1>. QED BY <1>10 DEF L!Next

LEMMA MoveServes ==
  ASSUME NamesOnce, Stored \in [CRs -> Records], cloud \in [Ids -> Shares],
         NEW i \in Ids, F!Move(i)
  PROVE  UNCHANGED <<Held, NamedShares>> \/ L!Next
<1>1. PICK st \in {"available", "error", "deleting", "none"} :
        F!Follows(cloud[i].st, st) /\ cloud' = [cloud EXCEPT ![i].st = st]
  BY DEF F!Move
<1>2. UNCHANGED Held
  BY DEF F!Move, Held
<1>3. /\ cloud'[i].st = st /\ cloud'[i].name = cloud[i].name /\ cloud[i].st # "none"
      /\ \A j \in Ids : j # i => cloud'[j] = cloud[j]
  BY <1>1 DEF Shares, F!Follows
<1>4. CASE st # "none"
  <2>1. \A m \in Names : SharesNamed(m)' = SharesNamed(m)
    BY <1>3, <1>4 DEF SharesNamed, Exists
  <2>2. UNCHANGED NamedShares
    <3>1. NamedShares' = [m \in Names |-> IdIn(SharesNamed(m)')]
      BY DEF NamedShares, IdIn
    <3>. QED BY <2>1, <3>1 DEF NamedShares
  <2>. QED BY <1>2, <2>2
<1>5. CASE st = "none"
  <2>1. PICK n \in Names : cloud[i].name = n
    BY DEF Shares
  <2>2. \A j \in Ids : cloud[j].st # "none" /\ cloud[j].name = n => j = i
    BY <1>3, <2>1 DEF NamesOnce
  <2>3. SharesNamed(n)' = {} /\ \A m \in Names : m # n => SharesNamed(m)' = SharesNamed(m)
    BY <1>3, <1>5, <2>1, <2>2 DEF SharesNamed, Exists
  <2>4. NamedShares[n] = i
    BY <1>3, <2>1, ShareOfName
  <2>5. NamedShares' = [NamedShares EXCEPT ![n] = NoId]
    <3>1. IdIn({}) = NoId
      BY DEF IdIn
    <3>. QED BY <2>1, <2>3, <3>1, NameChanges
  <2>6. L!Lose(n)
    BY <1>2, <2>4, <2>5, ConstantsAssumption DEF L!Lose
  <2>. QED BY <2>1, <2>6 DEF L!Next
<1>. QED BY <1>4, <1>5

-----------------------------------------------------------------------------
(* The CRs *)

LEMMA BecomeServes ==
  ASSUME NEW c \in CRs, NEW r, F!Become(c, r)
  PROVE  Held' = [Held EXCEPT ![c] = Phase(r)] /\ UNCHANGED NamedShares
<1>1. Stored' = [Stored EXCEPT ![c] = r] /\ UNCHANGED cloud
  BY DEF F!Become
<1>2. Stored \in [CRs -> {Stored[d] : d \in CRs}]
  BY DEF Stored
<1>3. \A d \in CRs : Stored'[d] = IF d = c THEN r ELSE Stored[d]
  BY <1>1, <1>2
<1>4. Held' = [d \in CRs |-> Phase(Stored'[d])]
  BY DEF Held
<1>5. Held' = [Held EXCEPT ![c] = Phase(r)]
  <2>1. \A d \in CRs : Phase(Stored'[d]) = IF d = c THEN Phase(r) ELSE Phase(Stored[d])
    BY <1>3
  <2>. QED BY <1>4, <2>1 DEF Held
<1>. QED BY <1>1, <1>5, NamesStay

(* The phase of a record in terms of its parts. *)
LEMMA PhaseOf ==
  ASSUME NEW r \in Records
  PROVE  /\ ~r.guarded => Phase(r) = L!Nobody
         /\ r.guarded => /\ Phase(r).st = IF r.st = "live" THEN "live" ELSE r.policy
                         /\ Phase(r).fsId = r.id
                         /\ Phase(r).deleting = ("Deleting" \in r.shown)
         /\ Phase(r) \in [st : {"absent", "live", "Retain", "Delete"}, fsId : Ids \cup {NoId},
                          deleting : BOOLEAN]
         /\ Phase(r).st # "absent" <=> r.guarded
<1>1. CASE ~r.guarded
  BY <1>1 DEF Phase, L!Nobody
<1>2. CASE r.guarded
  <2>1. Phase(r) = [st |-> IF r.st = "live" THEN "live" ELSE r.policy, fsId |-> r.id,
                    deleting |-> "Deleting" \in r.shown]
    BY <1>2 DEF Phase
  <2>2. Phase(r).deleting = ("Deleting" \in r.shown)
    BY <2>1
  <2>5. ("Deleting" \in r.shown) \in BOOLEAN
    OBVIOUS
  <2>3. Phase(r).st = (IF r.st = "live" THEN "live" ELSE r.policy) /\ Phase(r).fsId = r.id
    BY <2>1
  <2>4. r.id \in Ids \cup {NoId} /\ r.policy \in {"Retain", "Delete"}
    BY DEF Records
  <2>. QED BY <1>2, <2>1, <2>2, <2>3, <2>4, <2>5
<1>. QED BY <1>1, <1>2

LEMMA HeldOf ==
  ASSUME NEW c \in CRs
  PROVE  /\ Held[c] = Phase(Stored[c])
         /\ \A x : [Held EXCEPT ![c] = x] = Held <=> x = Held[c]
BY DEF Held

(* What a change of one part of a record is to its phase. *)
LEMMA PhaseAfter ==
  ASSUME NEW s \in Records
  PROVE  /\ \A pol \in {"Retain", "Delete"} :
              Phase([s EXCEPT !.policy = pol]) =
                IF s.guarded /\ s.st # "live" THEN [Phase(s) EXCEPT !.st = pol] ELSE Phase(s)
         /\ s.st = "live" =>
              Phase([s EXCEPT !.st = "terminating"]) =
                IF s.guarded THEN [Phase(s) EXCEPT !.st = s.policy] ELSE Phase(s)
         /\ Phase([s EXCEPT !.guarded = FALSE]) = L!Nobody
<1>. DEFINE P(st, id, del) == [st |-> st, fsId |-> id, deleting |-> del]
            ph == IF s.st = "live" THEN "live" ELSE s.policy
<1>1. Phase(s) = IF s.guarded THEN P(ph, s.id, "Deleting" \in s.shown) ELSE L!Nobody
  BY DEF Phase, L!Nobody
<1>2. ASSUME NEW pol \in {"Retain", "Delete"}
      PROVE  Phase([s EXCEPT !.policy = pol]) =
               IF s.guarded THEN P(IF s.st = "live" THEN "live" ELSE pol, s.id, "Deleting" \in s.shown)
               ELSE L!Nobody
  BY DEF Phase, Records, L!Nobody
<1>3. Phase([s EXCEPT !.st = "terminating"]) =
        IF s.guarded THEN P(s.policy, s.id, "Deleting" \in s.shown) ELSE L!Nobody
  BY DEF Phase, Records, L!Nobody
<1>4. Phase([s EXCEPT !.guarded = FALSE]) = L!Nobody
  BY DEF Phase, Records, L!Nobody
<1>6. \A a, b, d, x : [P(a, b, d) EXCEPT !.st = x] = P(x, b, d)
  OBVIOUS
<1>. HIDE DEF P
<1>8. \A pol \in {"Retain", "Delete"} :
              Phase([s EXCEPT !.policy = pol]) =
                IF s.guarded /\ s.st # "live" THEN [Phase(s) EXCEPT !.st = pol] ELSE Phase(s)
  BY <1>1, <1>2, <1>6
<1>9. s.st = "live" =>
              Phase([s EXCEPT !.st = "terminating"]) =
                IF s.guarded THEN [Phase(s) EXCEPT !.st = s.policy] ELSE Phase(s)
  BY <1>1, <1>3, <1>6
<1>. QED BY <1>4, <1>8, <1>9

(* A step of record c is one of Held[c], or is not seen. *)
LEMMA StepServes ==
  ASSUME NEW c \in CRs, NEW r, F!Become(c, r)
  PROVE  L!Become(c, Phase(r)) /\ (Phase(r) = Phase(Stored[c]) => UNCHANGED <<Held, NamedShares>>)
BY BecomeServes, HeldOf DEF L!Become

(* What CrLife reads of CR c and of its FS. *)
LEMMA ServesReads ==
  ASSUME NamesOnce, NEW c \in CRs, Stored[c] \in Records, Stored[c].guarded
  PROVE  /\ Held[c] = Phase(Stored[c])
         /\ Held[c].st = IF Stored[c].st = "live" THEN "live" ELSE Stored[c].policy
         /\ Held[c].fsId = Stored[c].id
         /\ F!Honoured(c) /\ Stored[c].st # "live" => L!Honoured(c)
         /\ \A i \in Ids : cloud[i].name = FsName[c] =>
              i = L!ShareOf(c) \/ \A n \in Names : NamedShares[n] # i
         /\ Stored[c].id # NoId /\ cloud[Stored[c].id].st = "none" => Stored[c].id # L!ShareOf(c)
<1>1. /\ Held[c] = Phase(Stored[c])
      /\ Held[c].st = IF Stored[c].st = "live" THEN "live" ELSE Stored[c].policy
      /\ Held[c].fsId = Stored[c].id
  BY HeldOf, PhaseOf
<1>2. FsName[c] \in Names /\ Stored[c].id \in Ids \cup {NoId} /\ Stored[c].policy \in {"Retain", "Delete"}
  BY ConstantsAssumption DEF Records
<1>3. \A i \in Ids : cloud[i].name = FsName[c] =>
        i = L!ShareOf(c) \/ \A n \in Names : NamedShares[n] # i
  BY <1>2, ShareOfName DEF L!ShareOf
<1>4. Stored[c].id # NoId /\ cloud[Stored[c].id].st = "none" => Stored[c].id # L!ShareOf(c)
  BY <1>2, ShareOfName DEF L!ShareOf
<1>5. F!Honoured(c) /\ Stored[c].st # "live" => L!Honoured(c)
  BY <1>1, <1>2, <1>4 DEF F!Honoured, L!Honoured
<1>. QED BY <1>1, <1>3, <1>4, <1>5

LEMMA UserServes ==
  ASSUME NEW c \in CRs, Stored[c] \in Records, F!Open(c) \/ F!Edit(c) \/ F!Terminate(c) \/ F!Close(c)
  PROVE  UNCHANGED <<Held, NamedShares>> \/ L!CrStep(c)
<1>. DEFINE s == Stored[c]
<1>1. s.st = "none" => ~s.guarded
  BY DEF Stored, View
<1>2. /\ Held[c] = Phase(s)
      /\ s.guarded => Held[c].st = IF s.st = "live" THEN "live" ELSE s.policy
      /\ s.policy \in {"Retain", "Delete"}
  BY HeldOf, PhaseOf DEF Records
<1>3. CASE F!Open(c)
  <2>1. PICK pol : s.st = "none" /\ F!Become(c, [F!Blank EXCEPT !.st = "live", !.policy = pol])
    BY <1>3 DEF F!Open
  <2>2. Phase([F!Blank EXCEPT !.st = "live", !.policy = pol]) = Phase(s)
    BY <1>1, <2>1 DEF F!Blank, Phase
  <2>. QED BY <2>1, <2>2, StepServes
<1>4. CASE F!Close(c)
  <2>1. Phase(F!Blank) = Phase(s)
    BY <1>4 DEF F!Close, F!Blank, Phase
  <2>. QED BY <1>4, <2>1, StepServes DEF F!Close
<1>5. CASE F!Edit(c)
  <2>1. PICK pol \in {"Retain", "Delete"} : F!Become(c, [s EXCEPT !.policy = pol])
    BY <1>5 DEF F!Edit
  <2>2. CASE s.guarded /\ s.st # "live" /\ pol # s.policy
    <3>1. L!Become(c, [Held[c] EXCEPT !.st = pol])
      <4>1. Phase([s EXCEPT !.policy = pol]) = [Held[c] EXCEPT !.st = pol]
        BY <1>2, <2>2, PhaseAfter
      <4>2. L!Become(c, Phase([s EXCEPT !.policy = pol]))
        BY <2>1, StepServes
      <4>. QED BY <4>1, <4>2
    <3>2. L!EditPolicy(c)
      BY <1>2, <2>2, <3>1 DEF L!EditPolicy, L!Terminating
    <3>. QED BY <3>2 DEF L!CrStep
  <2>3. CASE ~(s.guarded /\ s.st # "live")
    BY <2>1, <2>3, StepServes, PhaseAfter
  <2>4. CASE pol = s.policy
    <3>1. [s EXCEPT !.policy = pol] = s
      BY <2>4 DEF Records
    <3>. QED BY <2>1, <3>1, StepServes
  <2>. QED BY <2>2, <2>3, <2>4
<1>6. CASE F!Terminate(c)
  <2>1. s.st = "live" /\ F!Become(c, [s EXCEPT !.st = "terminating"])
    BY <1>6 DEF F!Terminate
  <2>2. CASE s.guarded
    <3>1. L!Become(c, [Held[c] EXCEPT !.st = s.policy])
      <4>1. Phase([s EXCEPT !.st = "terminating"]) = [Held[c] EXCEPT !.st = s.policy]
        BY <1>2, <2>1, <2>2, PhaseAfter
      <4>2. L!Become(c, Phase([s EXCEPT !.st = "terminating"]))
        BY <2>1, StepServes
      <4>. QED BY <4>1, <4>2
    <3>2. L!UserDelete(c)
      BY <1>2, <2>1, <2>2, <3>1 DEF L!UserDelete
    <3>. QED BY <3>2 DEF L!CrStep
  <2>3. CASE ~s.guarded
    BY <2>1, <2>3, StepServes, PhaseAfter
  <2>. QED BY <2>2, <2>3
<1>. QED BY <1>3, <1>4, <1>5, <1>6

LEMMA FinalizerServes ==
  ASSUME NamesOnce, GuardFirst, NEW c \in CRs, Stored[c] \in Records, F!Guard(c) \/ F!Unguard(c)
  PROVE  UNCHANGED <<Held, NamedShares>> \/ L!CrStep(c)
<1>. DEFINE s == Stored[c]
<1>1. CASE F!Guard(c)
  <2>1. s.st = "live" /\ F!Become(c, [s EXCEPT !.guarded = TRUE])
    BY <1>1 DEF F!Guard
  <2>2. CASE s.guarded
    <3>1. [s EXCEPT !.guarded = TRUE] = s
      BY <2>2 DEF Records
    <3>. QED BY <2>1, <3>1, StepServes
  <2>3. CASE ~s.guarded
    <3>1. s.id = NoId /\ "Deleting" \notin s.shown
      BY <2>1, <2>3 DEF GuardFirst
    <3>2. Phase([s EXCEPT !.guarded = TRUE]) = [L!Nobody EXCEPT !.st = "live"]
      <4>. DEFINE r == [s EXCEPT !.guarded = TRUE]
      <4>1. r.guarded /\ r.st = "live" /\ r.id = NoId /\ r.shown = s.shown
        BY <2>1, <3>1 DEF Records
      <4>. HIDE DEF r
      <4>2. ("Deleting" \in r.shown) = FALSE
        BY <3>1, <4>1
      <4>3. Phase(r) = [st |-> "live", fsId |-> NoId, deleting |-> FALSE]
        BY <4>1, <4>2 DEF Phase
      <4>4. [L!Nobody EXCEPT !.st = "live"] = [st |-> "live", fsId |-> NoId, deleting |-> FALSE]
        <5>. DEFINE f == FALSE
        <5>1. [[st |-> "absent", fsId |-> NoId, deleting |-> f] EXCEPT !.st = "live"]
                = [st |-> "live", fsId |-> NoId, deleting |-> f]
          <6>. HIDE DEF f
          <6>. QED OBVIOUS
        <5>. QED BY <5>1 DEF L!Nobody
      <4>. QED BY <4>3, <4>4 DEF r
    <3>3. Held[c] = L!Nobody
      BY <2>3, HeldOf, PhaseOf
    <3>4. L!Deploy(c)
      BY <2>1, <3>2, <3>3, StepServes DEF L!Deploy, L!Nobody
    <3>. QED BY <3>4 DEF L!CrStep
  <2>. QED BY <2>2, <2>3
<1>2. CASE F!Unguard(c)
  <2>1. PICK r \in {F!Blank, [s EXCEPT !.guarded = FALSE]} : F!Become(c, r)
    BY <1>2 DEF F!Unguard
  <2>2. s.st = "terminating" /\ s.guarded /\ F!Honoured(c)
    BY <1>2 DEF F!Unguard
  <2>3. Phase(r) = L!Nobody
    <3>1. Phase(F!Blank) = L!Nobody
      BY DEF F!Blank, Phase, L!Nobody
    <3>2. Phase([s EXCEPT !.guarded = FALSE]) = L!Nobody
      BY PhaseAfter
    <3>. QED BY <2>1, <3>1, <3>2
  <2>4. L!Honoured(c)
    BY <2>2, ServesReads
  <2>5. L!Retire(c)
    BY <2>1, <2>3, <2>4, StepServes DEF L!Retire
  <2>. QED BY <2>5 DEF L!CrStep
<1>. QED BY <1>1, <1>2

LEMMA PublishServes ==
  ASSUME NamesOnce, NEW c \in CRs, Stored[c] \in Records, F!Publish(c)
  PROVE  UNCHANGED <<Held, NamedShares>> \/ L!CrStep(c)
<1>. DEFINE s == Stored[c]
<1>1. PICK i \in Ids \cup {NoId}, t \in SUBSET F!Standing :
        F!Publishes(c, i, t) /\ F!Become(c, [s EXCEPT !.id = i, !.shown = t])
  BY DEF F!Publish
<1>2. s.guarded
  BY DEF F!Publish
<1>3. s.policy \in {"Retain", "Delete"} /\ s.id \in Ids \cup {NoId} /\ NoId \notin Ids
  BY ConstantsAssumption DEF Records
<1>4. PICK w : w = [s EXCEPT !.id = i, !.shown = t]
  OBVIOUS
<1>5. L!Become(c, Phase(w)) /\ (Phase(w) = Phase(s) => UNCHANGED <<Held, NamedShares>>)
  BY <1>1, <1>4, StepServes
<1>6. PICK del, was : del = ("Deleting" \in t) /\ was = ("Deleting" \in s.shown)
  OBVIOUS
<1>7. /\ del = was => Phase(w) = [Held[c] EXCEPT !.fsId = i]
      /\ i = s.id => Phase(w) = [Held[c] EXCEPT !.deleting = del]
      /\ del = was /\ i = s.id => Phase(w) = Phase(s)
  <2>. DEFINE P(id, d) == [st |-> IF s.st = "live" THEN "live" ELSE s.policy, fsId |-> id, deleting |-> d]
  <2>1. Phase(s) = P(s.id, "Deleting" \in s.shown)
    BY <1>2 DEF Phase
  <2>2. Phase(w) = P(i, "Deleting" \in t)
    BY <1>2, <1>4 DEF Phase, Records
  <2>3. /\ [P(s.id, was) EXCEPT !.fsId = i] = P(i, was)
        /\ [P(s.id, was) EXCEPT !.deleting = del] = P(s.id, del)
    OBVIOUS
  <2>. HIDE DEF P
  <2>4. Held[c] = P(s.id, was) /\ Phase(s) = P(s.id, was) /\ Phase(w) = P(i, del)
    BY <1>6, <2>1, <2>2, HeldOf
  <2>. QED BY <2>3, <2>4
<1>8. ("Deleting" \in t <=> "Deleting" \in s.shown) => del = was
  BY <1>6
<1>9. CASE F!Binds(c, i, t)
  <2>1. L!Become(c, [Held[c] EXCEPT !.fsId = i])
    BY <1>5, <1>7, <1>8, <1>9 DEF F!Binds
  <2>2. L!Record(c, i) /\ i \in Ids
    BY <1>2, <1>9, <2>1, ServesReads DEF F!Binds, L!Record
  <2>. QED BY <2>2 DEF L!CrStep
<1>10. CASE F!Readies(c, i, t) \/ F!Settles(c, i, t)
  BY <1>5, <1>7, <1>8, <1>10 DEF F!Readies, F!Settles
<1>11. CASE F!Unbinds(c, i, t)
  <2>1. L!Become(c, [Held[c] EXCEPT !.fsId = NoId])
    BY <1>5, <1>7, <1>8, <1>11 DEF F!Unbinds
  <2>2. L!Forget(c)
    BY <1>2, <1>11, <2>1, ServesReads DEF F!Unbinds, L!Forget
  <2>. QED BY <2>2 DEF L!CrStep
<1>12. CASE F!Marks(c, i, t)
  <2>1. del = TRUE
    BY <1>12, <1>6 DEF F!Marks
  <2>2. L!Become(c, [Held[c] EXCEPT !.deleting = TRUE])
    BY <1>5, <1>7, <1>8, <1>12, <2>1 DEF F!Marks
  <2>3. L!Mark(c)
    BY <1>2, <1>3, <1>12, <2>2, ServesReads DEF F!Marks, L!Mark, L!Terminating
  <2>. QED BY <2>3 DEF L!CrStep
<1>13. CASE F!Unmarks(c, i, t)
  <2>1. del = FALSE
    <3>1. "Deleting" \notin t
      BY <1>13 DEF F!Unmarks
    <3>2. ("Deleting" \in t) = FALSE
      BY <3>1
    <3>. QED BY <1>6, <3>2, Zenon
  <2>2. L!Become(c, [Held[c] EXCEPT !.deleting = FALSE])
    BY <1>5, <1>7, <1>8, <1>13, <2>1 DEF F!Unmarks
  <2>3. L!Unmark(c)
    BY <1>2, <1>13, <2>2, ServesReads DEF F!Unmarks, L!Unmark
  <2>. QED BY <2>3 DEF L!CrStep
<1>. QED BY <1>1, <1>9, <1>10, <1>11, <1>12, <1>13 DEF F!Publishes

(* Every step of Lifecycle, seen as one of FsLifecycle, is one of CrLife. *)
LEMMA StepsServe == ServesInv /\ [Next]_vars => [L!Next]_(L!vars)
<1> SUFFICES ASSUME ServesInv, [Next]_vars PROVE UNCHANGED <<Held, NamedShares>> \/ L!Next
  BY DEF L!vars
<1>1. Stored \in [CRs -> Records] /\ cloud \in [Ids -> Shares] /\ NamesOnce /\ GuardFirst
  BY IndInvParts, StoredTypes DEF ServesInv, RefInv
<1>2. [F!Next]_(F!vars)
  BY StepsMap DEF ServesInv
<1>3. CASE UNCHANGED F!vars
  BY <1>3, NamesStay DEF F!vars, Held
<1>4. ASSUME NEW c \in CRs, F!CRStep(c) PROVE UNCHANGED <<Held, NamedShares>> \/ L!CrStep(c)
  BY <1>1, <1>4, UserServes, FinalizerServes, PublishServes DEF F!CRStep
<1>5. ASSUME NEW i \in Ids, F!Issue(i) \/ F!Move(i) PROVE UNCHANGED <<Held, NamedShares>> \/ L!Next
  BY <1>1, <1>5, IssueServes, MoveServes
<1>. QED BY <1>2, <1>3, <1>4, <1>5 DEF F!Next, L!Next

(* Lifecycle implements CrLife: what Volumes takes for granted of its CRs and
   FSes holds of the reconciler that works on stale copies next to users, Huawei
   and other operator processes. *)
THEOREM Serves == Spec => ServesVolumes
<1>1. Init => L!Init
  <2> SUFFICES ASSUME Init PROVE L!Init
    OBVIOUS
  <2>1. Held = [c \in CRs |-> L!Nobody]
    BY DEF Init, Held, Stored, View, Phase, L!Nobody
  <2>2. \A n \in Names : SharesNamed(n) = {}
    BY DEF Init, SharesNamed, Exists
  <2>3. IdIn({}) = NoId
    BY DEF IdIn
  <2>4. NamedShares = [n \in Names |-> NoId]
    BY <2>2, <2>3 DEF NamedShares
  <2>. QED BY <2>1, <2>4 DEF L!Init
<1>. QED BY <1>1, ServesInvInit, ServesInvStep, StepsServe, PTL DEF Spec, ServesVolumes, L!Spec
=============================================================================
