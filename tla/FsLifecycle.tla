----------------------------- MODULE FsLifecycle -----------------------------
(***************************************************************************)
(* What the operator promises of an SfsTurboInstance (CR) and its file     *)
(* system (FS), with no operator in it: no cache, no work queue, no        *)
(* reconcile, no lost answers.  There are the CRs as the API server stores *)
(* them, the FSes, and the steps that a stored CR may take next to the     *)
(* state of its FS at that very moment.  Lifecycle implements it: its      *)
(* stale copies and interrupted reconciles never show in the stored CRs.   *)
(***************************************************************************)

CONSTANTS CRs, Names, FsName, Ids, NoId

VARIABLES
  record,  \* each CR: whether it exists, its finalizer, policy and status
  cloud    \* Huawei's file systems

vars == <<record, cloud>>

(* The conditions that say where the FS stands. *)
Standing == {"Ready", "Provisioning", "Deleting"}

Blank == [st |-> "none", guarded |-> FALSE, policy |-> "Retain", id |-> NoId, shown |-> {}]

(* A recorded FS of policy Delete is gone before the CR is. *)
Honoured(c) ==
  \/ record[c].id = NoId
  \/ record[c].policy # "Delete"
  \/ cloud[record[c].id].st = "none"

-----------------------------------------------------------------------------
(* Users and the garbage collector *)

Become(c, r) == record' = [record EXCEPT ![c] = r] /\ UNCHANGED cloud

Open(c) ==
  /\ record[c].st = "none"
  /\ \E pol \in {"Retain", "Delete"} : Become(c, [Blank EXCEPT !.st = "live", !.policy = pol])

Edit(c) ==
  /\ record[c].st # "none"
  /\ \E pol \in {"Retain", "Delete"} : Become(c, [record[c] EXCEPT !.policy = pol])

Terminate(c) ==
  /\ record[c].st = "live"
  /\ Become(c, [record[c] EXCEPT !.st = "terminating"])

(* A CR without our finalizer is not ours to keep. *)
Close(c) ==
  /\ record[c].st # "none" /\ ~record[c].guarded
  /\ Become(c, Blank)

-----------------------------------------------------------------------------
(* The operator *)

Guard(c) ==
  /\ record[c].st = "live"
  /\ Become(c, [record[c] EXCEPT !.guarded = TRUE])

Unguard(c) ==
  /\ record[c].st = "terminating" /\ record[c].guarded
  /\ Honoured(c)
  /\ \E r \in {Blank, [record[c] EXCEPT !.guarded = FALSE]} : Become(c, r)

(* The status writes: the id i and the conditions t that may follow. *)

Binds(c, i, t) ==
  /\ record[c].st = "live" /\ record[c].id = NoId
  /\ i \in Ids /\ cloud[i].name = FsName[c]
  /\ t = record[c].shown \cup {"Provisioning"}

Readies(c, i, t) ==
  /\ record[c].st = "live" /\ record[c].id # NoId
  /\ i = record[c].id
  /\ t = (record[c].shown \cup {"Ready"}) \ {"Provisioning"}

Settles(c, i, t) ==
  /\ record[c].st = "live"
  /\ i = record[c].id
  /\ t = record[c].shown \ {"Provisioning"}

Unbinds(c, i, t) ==
  /\ record[c].st = "live" /\ record[c].id # NoId
  /\ cloud[record[c].id].st = "none"
  /\ i = NoId
  /\ t = record[c].shown \ {"Ready"}

Marks(c, i, t) ==
  /\ record[c].st = "terminating" /\ record[c].id # NoId
  /\ cloud[record[c].id].st \in {"deleting", "none"}
  /\ i = record[c].id
  /\ t = (record[c].shown \cup {"Deleting"}) \ {"Ready"}

Unmarks(c, i, t) ==
  /\ record[c].st = "terminating"
  /\ Honoured(c)
  /\ i = record[c].id
  /\ t = record[c].shown \ {"Deleting"}

Publishes(c, i, t) ==
  \/ Binds(c, i, t)
  \/ Readies(c, i, t)
  \/ Settles(c, i, t)
  \/ Unbinds(c, i, t)
  \/ Marks(c, i, t)
  \/ Unmarks(c, i, t)

Publish(c) ==
  /\ record[c].guarded
  /\ \E i \in Ids \cup {NoId}, t \in SUBSET Standing :
       Publishes(c, i, t) /\ Become(c, [record[c] EXCEPT !.id = i, !.shown = t])

-----------------------------------------------------------------------------
(* Huawei *)

(* A new FS, under an id that no CR records and a name that no FS has. *)
Issue(i) ==
  /\ cloud[i].st = "none"
  /\ \A c \in CRs : record[c].id # i
  /\ \E n \in Names :
       /\ \A j \in Ids : cloud[j].st # "none" => cloud[j].name # n
       /\ cloud' = [cloud EXCEPT ![i] = [st |-> "creating", name |-> n]]
  /\ UNCHANGED record

(* What may become of an FS; nothing comes back from deletion. *)
Follows(from, to) ==
  \/ from = "creating" /\ to \in {"available", "error", "deleting"}
  \/ from \in {"available", "error"} /\ to \in {"available", "error", "deleting"}
  \/ from = "deleting" /\ to = "none"

Move(i) ==
  /\ \E st \in {"available", "error", "deleting", "none"} :
       /\ Follows(cloud[i].st, st)
       /\ cloud' = [cloud EXCEPT ![i].st = st]
  /\ UNCHANGED record

-----------------------------------------------------------------------------
Init ==
  /\ record = [c \in CRs |-> Blank]
  /\ cloud \in [Ids -> {[st |-> "none", name |-> n] : n \in Names}]

CRStep(c) ==
  Open(c) \/ Edit(c) \/ Terminate(c) \/ Close(c) \/ Guard(c) \/ Unguard(c) \/ Publish(c)

Next ==
  \/ \E c \in CRs : CRStep(c)
  \/ \E i \in Ids : Issue(i) \/ Move(i)

Spec == Init /\ [][Next]_vars

-----------------------------------------------------------------------------
(* What follows from the steps alone *)

(* Deleting stands only on a terminating CR whose FS is on its way out. *)
MarkerSound ==
  \A c \in CRs : "Deleting" \in record[c].shown =>
    /\ record[c].st = "terminating" /\ record[c].id # NoId
    /\ cloud[record[c].id].st \in {"deleting", "none"}

(* Ready comes with an FS, and never beside Provisioning or Deleting. *)
ReadySound ==
  \A c \in CRs : "Ready" \in record[c].shown =>
    /\ record[c].id # NoId
    /\ record[c].shown \cap {"Provisioning", "Deleting"} = {}
=============================================================================
