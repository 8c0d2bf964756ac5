# Verification of the SFS Turbo operator

The repository is a Kubernetes operator. A user writes an `SfsTurboInstance`
(here: a CR); the operator creates, polls, updates and deletes a Huawei Cloud
SFS Turbo file system (an FS) for it, and may publish a PersistentVolume and a
PersistentVolumeClaim. This directory holds TLA+ models of its core, the TLC
runs that check them on small instances, and theorems checked by TLAPS.

| read this                              | for                                           |
|----------------------------------------|-----------------------------------------------|
| `Lifecycle.tla`                        | the reconciler, the API server, Huawei        |
| `FsLifecycle.tla`                      | what it promises of a CR and its FS, which it implements |
| `CrLife.tla`                           | what `Volumes` needs of a CR and its FS; `FsLifecycle` in turn implements it |
| `LifecycleProofs.tla`, `LifecycleSafetyProofs.tla`, `LifecycleRefinement.tla`, `LifecycleServes.tla`, `LifecycleOneProcess.tla` | its theorems |
| `MCLifecycle.tla`, `Lifecycle*.cfg`, `LeakOnDelete.cfg` | its runs |
| `Volumes.tla`                          | the PersistentVolume and PersistentVolumeClaim of a CR |
| `VolumesProofs.tla`                    | its theorems                                  |
| `MCVolumes.tla`, `Volumes.cfg`, `StaleHandle.cfg` | its runs                           |
| `Drift.tla`                            | bringing an FS to its spec: size, security group, tags |
| `DriftProofs.tla`                      | its theorems                                  |
| `Drift.cfg`, `ExpandSticks.cfg`        | its runs                                      |
| `Credentials.tla`, `Credentials.cfg`, `ServedExpired.cfg`, `SdkNotRebuilt.cfg` | the pod-agency credential cache |
| `CredentialsProofs.tla`                | its theorems                                  |
| `PROJECT.json`                         | components, runs, hazards, definition-to-source map |

## 1. Inventory

Paths are below `src/`; `ctl` is
`internal/controller/sfsturboinstance_controller.go`, `client` is
`internal/huawei/client.go`.

**Reconciler, life of an FS** (`ctl` 99-406, 530-551, 643-678).
*State*: none of its own; everything is in the CR (`status.fsId`, conditions,
finalizer) and in Huawei. *Operations*: `Reconcile` with its five branches
(delete, add finalizer, paused, create, poll). *Interactions*: reads the CR
from an informer cache, writes it with optimistic concurrency, calls Huawei.
*Hard*: stale cache reads, status writes that fail after Huawei accepted a
request, lost answers, crashes between two calls, users who edit or delete the
CR in the middle, FSes destroyed in the console, two processes at once.
*Correct when*: a recorded FS is never forgotten nor mixed up with another
CR's; the Deleting marker and Ready mean what they say; the finalizer goes only
after the reclaim policy was honoured, and does go in the end; a CR converges.

**Reconciler, spec drift** (`ctl` 401-526, 566-641; `client` 394-520).
*State*: the Expanding and UpdatingSecurityGroup conditions, `status.size`,
`securityGroupId`, `tags`. *Operations*: expand, change the security group, add
and delete tags, report immutable drift. *Hard*: conditions used as "request in
flight" markers across reconciles, early returns that skip later steps, partial
tag updates, spec edits during an expansion. *Correct when*: the Expanding marker
means an expansion that is running or done, and the spec is reached in the end.

**Reconciler, volumes** (`ctl` 683-918). *State*: the PV and the PVC.
*Operations*: `ensurePVPVC`, `buildPV`, `buildPVC`, `cascadeDeletePVPVC`.
*Interactions*: called at the end of a poll that found the FS available and in
the middle of a deletion; the PV controller binds and releases, other users
hold objects of the same names, and the operator sees PVs and PVCs through
informers that lag and does not watch them. *Hard*: create, adopt and clear by
name on old copies, a deletion that is best effort, a redeploy onto a volume
that was left behind, a volume handle that outlives its FS. *Correct when*: a
claimRef goes only if it is stale; PV and PVC go before the FS does; a CR that
stays has its claim bound; the bound volume is the FS in `status.fsId`.

**Huawei client** (`client`, `internal/huawei/errors.go`). *State*: the SDK
client and its last credentials. *Operations*: Create (with adoption of an FS
of the same name on 409), FindByName, Get, Delete, Expand, ChangeSecurityGroup,
tags; classification of errors. *Hard*: adoption, lost answers, credentials
that rotate below the SDK client.

**Pod-agency credentials** (`internal/huawei/podagency.go`). *State*: the last
credentials, when they were fetched, when they expire. *Operations*: `Get`,
`fetch`, `Reset` (tests only). *Hard*: three thresholds that cross for
short-lived tokens, a clock read before a slow request, a fallback to old
credentials, answers whose lifetime nobody looks at. *Correct when*: what Get
answers is alive, a token that was replaced is dropped in time, and refreshes
that succeed keep their distance (a failed one may be repeated at once).

**Configuration and static credentials** (`internal/huawei/auth.go`). Reads
environment variables once at startup. Not modelled.

**Manager** (`cmd/main.go`). Process set-up: controller-runtime's queue,
informer and workers, leader election (off by default). Its runtime behaviour
is the environment of the reconciler in `Lifecycle`.

**CRD types** (`api/v1alpha1`). The fields and conditions; validation and
defaulting run in the API server. **Metrics** (`internal/metrics`): counters
that nothing reads back; not modelled. **Generated deep copies**: no state.

The behaviours that are hard to test are listed, each at its line and with the
properties aimed at it, under `hazards` in `PROJECT.json`.

## 2. Plan

Done: `Lifecycle`, its abstract specification `FsLifecycle` and the refinement,
`CrLife`, by which `Volumes` builds on `Lifecycle`, `Volumes`, `Drift` and
`Credentials`, all checked and proved. What could follow:

1. In `Drift`: Failed is cleared and set again within one reconcile (`ctl` 391,
   432, 459, 521), so a poll that ends in Failed changes the status and wakes
   the controller; Failed stays True although the last reconcile was fine
   (`ctl` 547). This needs the transition times of conditions.
2. The composition of `Drift` and `Volumes`: a security-group change that keeps
   failing returns before `ensurePVPVC` (`ctl` 481).
3. Edits of `spec.fsName` and `spec.pvcName`, which are documented as immutable
   and not enforced.

## 3. Lifecycle

### What it models

`store` is the API server's CRs; `cache[p]`, `queue[p]` and `proc[p]` are the
informer cache, the work queue and the reconcile in progress of operator
process `p`; `cloud` is Huawei's FSes by id. `proc[p]` records which call comes
next, the CR's key, the in-memory object, and whether the reconcile requeues.

| in the model                            | in the code                                      |
|-----------------------------------------|--------------------------------------------------|
| `Reconcile(p, c)`: one action per branch | `Reconcile` up to its first API call            |
| `StartCreate`, `CreateAccepted`, `CreateLost`, `CreateCollides`, `FindByName` | `reconcileCreate`, `Client.Create`, `FindByName` |
| `StartPoll`, `PollGone`, `PollAvailable`, `PollErrored`, `PollPending` | `reconcilePoll`, `Client.Get`   |
| `DropUnrecorded`, `RetainShare`, `DeleteShare`, `DeleteGet...`, `DeleteInFlight`, `DeleteAccepted`, `DeleteLost` | `reconcileDelete`, `Client.Delete` |
| `AddFinalizer`, `patchStatus`, `patchThenRemove`, `removeFinalizer` | the writes to the API server   |
| `WriteRefused`, `WriteMissed`, `patchLostThenReturn`, `CallFails` | their error paths                |
| `Observe`, `Resync`, `Crash`            | the watch, the periodic resync, the process      |
| `UserCreate`, `UserDelete`, `UserEdit`, `Unhold` | users and the garbage collector         |
| `Provision`, `Suspend`, `Resume`, `Destroy`, `Vanish` | Huawei and its console             |

A step is one call that leaves the process; the code between two calls runs in
the step that precedes it, so everything else may happen between any two calls.

### Decisions

- **resourceVersion.** `freshCache` and `freshProc` hold the copies that are at
  the stored version. An update from any other copy is refused
  (`WriteRefused`), as the API server does. A write that changes nothing the
  model shows may or may not move the version: reasons, messages and times are
  not modelled and may have changed.
- **Cache.** An entry lags behind by any number of versions and catches up in
  one step (watch events coalesce). A restart lists anew.
- **Lost answers.** A refused write can also be one that was applied: the
  reconcile then returns its error, which is `patchStatus` with a requeue,
  or `patchLostThenReturn` in the middle of a deletion.
- **One worker** per process (`MaxConcurrentReconciles` is not set), so `proc`
  holds one reconcile. `Operators` with two members is the case of a rolling
  update without leader election.
- **Conditions** are the set of types that are True.
- **FS ids** are unique forever in Huawei. Here an id is used again once its FS
  is gone and no copy mentions it, which keeps `Ids` finite without letting an
  old id come alive in anyone's memory. `|Ids|` bounds the FSes and memories of
  FSes at one time; when none is left, creation fails.
- **Names** are unique in Huawei: CreateShare for a taken name answers 409, as
  the adoption code in `client` expects. `spec.fsName` is fixed per CR, as
  documented.
- **Known limitation: a shared `fsName`.** The types speak of one CR per FS
  (`types.go:277`). Adoption (`client` 266) does not look whether another CR
  records the FS, so two CRs that carry one `fsName` come to share an FS, and
  deleting either deletes it for both. The properties say "of the same fsName"
  where this matters, and `OneCRPerFs` is proved for distinct names.
- **Not modelled**: FSes created in the console before the CR (adopting them is
  documented behaviour), finalizers removed by hand, `pvcName` (see `Volumes`),
  spec drift (see `Drift`), more than one page of ListShares, and the wording
  of conditions.

### What it implements

`FsLifecycle` has no operator in it: a CR as it is stored (`record`), the FSes
(`cloud`), and the steps a stored CR may take: bind an FS of its name, become
ready, forget an FS that is gone, be marked as deleting once the FS is on its way
out, lose the finalizer once the policy is honoured; the last three next to the
FS *as it is at that moment*. There are no copies, no queue, no lost answers and no
crashes. `Implements` says that `Lifecycle` is an implementation of it under
the mapping `Stored`, which reads the stored CRs and drops what `FsLifecycle`
does not speak of (reasons of failure, pauses, others' finalizers). It is the
operator's main promise, with its limits: however old the copy that a reconcile
decided on and whatever Huawei answered when, what it writes fits the stored CR
at that moment, and forgetting an FS, marking it as deleting and dropping the
finalizer fit the FS as it is by then. Becoming ready and binding an id look at
less: a bound id is one that an FS of that name had, and an FS may have failed
or gone since the Get by which the CR becomes Ready, which no client can
exclude. A CR that is Ready stays Ready when its FS goes to error later (`ctl`
539-545); `ReadyAgrees` says nothing of that case.

### How Volumes builds on it

`CrLife` is coarser still: a CR without its finalizer is absent, a terminating
one is its reclaim policy, of the conditions only Deleting is left, and an FS is
the id that its name has at Huawei, or none. `ServesVolumes` says that
`Lifecycle` implements it under `Held` and `NamedShares`. The other half is in
`Volumes`, whose CRs and FSes take the steps of `CrLife` and no others: every
such action is the `CrLife` step with what the composition adds to it, which is

- that the operator has one worker, so its own steps on a CR come between two
  reconciles of volumes;
- that the informer's copy of a terminating CR may be older than the stored one;
- that an FS id which a PV still mentions is not issued again (`CrLife` knows no
  PVs, and ids are unique at Huawei);
- the bound `Meddled` on steps of others that a run needs to be finite.

So what holds of PVs and PVCs in `Volumes` holds next to a reconciler that
restarts, loses answers and works on old copies the way `Lifecycle` does, and no
step of a CR that `Lifecycle` can take was left out of `Volumes` by mistake.
Two of them are easily overlooked from the side of `Volumes`: a policy edited
while the CR terminates, and an FS that is gone by the time its id is recorded.

### Runs

| run | instance | what it shows |
|---|---|---|
| `one_cr` | 1 CR, 1 process, 2 ids; all policies, pauses, foreground deletion, outcomes (0.8M states) | `FsLifecycle` is implemented; a current copy is exact, an old one anchored; the Deleting marker is sound; Ready agrees with the rest of the status; an id is forgotten only when its FS is gone; policy honoured; Create only under the finalizer; Delete only for a terminating CR |
| `two_crs` | 2 CRs with distinct names, 1 process, 2 ids, symmetric; policy Delete, every FS becomes available (1.8M states) | FSes are not mixed up; the invariant of the proofs holds |
| `two_operators` | 1 CR, 2 processes, 2 ids, symmetric; policy Delete, provisioning never ends (1.4M states) | the resourceVersion alone keeps marker, id and finalizer right without leader election |
| `liveness` | 1 CR, 1 process, 2 ids, both policies, foreground and background deletion, both outcomes, no pauses (0.15M states) | DeletionCompletes and Converges; `CrLife` is implemented (`ServesVolumes`) |
| `leak_on_delete` | as `one_cr` with policy Delete | finding: an FS can leak |

Two ids are enough for the hard cases: an FS being replaced while copies still
mention the old one, and two CRs that each have one. Two CRs are the smallest
number that can be mixed up. Two processes are what a rolling update runs. The
two larger runs restrict policies and outcomes because the properties checked
there do not depend on them; `one_cr` takes all of them. Deadlock is not
checked: with no CR and an empty queue the system rests.

`CreateUnderFinalizer` and `DeleteOnlyTerminating` are about one process. With
two, one may create while the other has just removed the finalizer; nothing in
the repository promises otherwise.

### Fairness

`ApiWrite` and `HuaweiCall` are weakly fair: every call returns. `Reconcile(p,
c)` is strongly fair: the worker takes keys in turn but is busy in between, so
that picking up a key is not continuously enabled; the queue is FIFO and a key
that keeps being queued is served. `Observe` is weakly fair: the watch
delivers. Huawei finishes creations and deletions, and the garbage collector
removes its finalizer. Nothing is assumed of users or of faults; instead the
two properties have the premise `Quiet`: from some point on users, the console
and Huawei's suspension leave the CR alone and no call fails any more. `Quiet`
excludes no step that is ordinary work as well (a write whose answer is lost
and one that asks for a requeue can be the same step), since a premise that
forbids ordinary work would be met by standing still only. A refused write
from a stale copy is not excluded either: conflicts go on as long as the cache
lags. `Converges` also needs the informer's periodic
resync (`Resyncs`, ten hours in controller-runtime): a Ready CR is not polled
again (`ctl` 537), so nothing else would show that its FS was destroyed.
Without it TLC finds the CR Ready forever. `DeletionCompletes` needs no resync.

### Finding

`NoLeakedFs`: `docs/ARCHITECTURE.md:82-84` promises that no FS leaks when the CR
is deleted in the middle of a reconcile. CreateShare is accepted before
`status.fsId` is written. If that write is lost (conflict, timeout, crash) and
the CR is deleted before the next reconcile adopts the FS, an empty `fsId` is
taken to mean that there is none (`ctl` 195) and the finalizer goes.

Other words of the repository that the code does not keep, where the model
follows the code:

- `docs/EXAMPLES/06-paused-reconcile.yaml:8` says that a paused operator will
  "NOT process deletion (finalizer stays". The deletion branch comes first
  (`ctl` 133 before 155): `Terminating` does not look at the pause, and a paused
  CR that is deleted is torn down like any other.
- `types.go:261` has the finalizer added "after first successful create". It is
  added before anything is created (`ctl` 141-152), on which
  `CreateUnderFinalizer` rests.
- `types.go:277-280` says that the operator renders no PV or PVC. It does
  (`ctl` 683-918, module `Volumes`).
- `client` 287 says "we paginate". `FindByName` sends one ListShares and reads
  one page of its answer.

## 4. Drift

### What it models

The `available` branch of `reconcilePoll` for one CR whose FS is recorded, and
any number of operator processes. `cr` is the stored CR, `cache[p]` and `proc[p]`
the informer's copy and the reconcile in progress of process `p`, `fs` the FS;
`freshCache` and `freshProc` say which copies are at the stored resourceVersion.

| in the model                                   | in the code                                |
|------------------------------------------------|--------------------------------------------|
| `Reconcile`, `GetPending`, `GetErrored`, `GetFails` | `reconcilePoll` up to the status it finds |
| `GrowWanted`, `GrowMarked`                     | size drift, without and with Expanding     |
| `Sized`, `immutableDrift`                      | a shrinking size, an expansion that ended, immutable fields |
| `SgBusy`, `SgWanted`, `SgSettled`              | security-group drift                       |
| `TagsSkipped`, `TagsWanted`                    | whether tags are looked at                 |
| `Expand`, `ExpandLost`, `ExpandFails`          | `Client.Expand`                            |
| `ChangeSecurityGroup`, `ChangeSecurityGroupFails` | `Client.ChangeSecurityGroup`            |
| `ListTags`, `AddTag`, `DeleteTag`, `TagFails`  | `reconcileTagsDrift` and the tag calls     |
| `patchStatus`, `PatchRefused`                  | the status write                           |
| `EditSpec`, `Console`                          | users of the CR and of Huawei's console    |
| `Grown`, `GrowFails`, `Resume`, `Abandon`, `SgChanged`, `SgChangeFails` | Huawei                       |

### Decisions

- **An expansion is a status** (121, or 308 once it failed), so Get does not
  answer "available" while one runs; a security-group change is a sub-status of
  an available FS. The comments disagree about 121: `client` 387 and `ctl` 398-400
  call it a status, `client` 75 and 531-534 a sub-status. The model takes the
  first reading, on which the control flow of `ctl` 398-426 rests.
- **The first FS is arbitrary**: `Client.Create` adopts an FS of the CR's name
  without comparing its size, group or tags with the spec.
- **Huawei's refusals.** ExpandShare is refused while an expansion runs, and
  for a size that is not larger. A failed expansion is resumed by Huawei or
  abandoned.
- **The console** changes size and tags. It does not change the group.
- **Overtaken expansions.** `overtaken` remembers that `spec.size` was edited
  while the CR showed Expanding, or that Huawei gave an expansion up. Users may
  do so at any time; what is not true from then on says `~overtaken` and is a
  finding. No action reads the variable.
- **Immutable fields** (type, zone, network, key) are one bit, `moved`: whether
  the spec names others than the FS has.
- **Processes.** Calls to Huawei carry no resourceVersion. Leader election is off
  by default (`cmd/main.go:69`, `values.yaml:119`), so `Operators` is any set and
  the theorems hold for all of them. The runs have one process: with two, a tag
  and an edit the state space is too large for them, so that for more than one
  process `Converges` is not examined.
- **Two requests at once.** Huawei is taken to accept a group change while another
  one is in flight, with the later group, or to refuse it. Both happen (see the
  end of this section).
- **Not modelled**: the status fields that mirror Huawei's answer, Ready and
  times, a size that Huawei leaves out of its answer (read as 0), and a CR that
  is deleted, paused or loses its FS, which is `Lifecycle`.

### Runs

| run | instance | what it shows |
|---|---|---|
| `drift` | 1 process, 2 sizes, 2 groups, 1 tag; any edit, failed expansions resumed or given up (1.2M states) | the invariant of the proofs holds; until an expansion is overtaken the Expanding marker is sound, and if none is, size, group and tags reach the spec and the conditions tell what does not |
| `expand_sticks` | 1 process, 3 sizes, 1 group, no tags | finding: an expansion that is never requested |

Every initial pair of CR and FS is taken, so one edit (`MaxEdits`) on top is an
edit in the middle of bringing the FS to the spec. Three sizes are the smallest
number with a size beyond the one being expanded to. Tags are treated key by
key; one key gives adding, deleting and finding it changed. `MaxEdits` is the
only bound; everything else may fail at any time.

### Fairness

The operator's steps, `Observe` and Huawei's endings are weakly fair. `Converges`
has the premise `Quiet`: from some point on there are no edits, crashes or
failures, but for steps that are regular work too (`Regular`). It also needs `Resyncs`, for three reasons in the code: a change in
the console makes no event; a tag call that fails returns no error (`ctl` 517),
so the reconcile is not retried; and a security group that is set back while
its change is in flight finds no drift (`ctl` 471), so the reconcile ends
without a requeue and the change lands later.

### Finding

`Grows`: `types.go:188-189` says that an ExpandShare is issued when
`spec.size` is larger than `status.size`. A user who raises it again while an expansion runs finds the FS at the first
size: when that expansion ends, the size still differs, so Expanding stays True
(`ctl` 441), and because it is True no second ExpandShare is sent (`ctl` 409).
Only lowering `spec.size` to what the FS has, or the console, ends it. An
expansion that Huawei abandons ends the same way.

Two other sentences of the repository do not hold, without a run of their own:

- "avoid issuing a second change while one is in flight" (`client` 500-501). With
  two processes both may poll an idle FS and both send ChangeSecurityGroup, the
  second one while the first change is in flight (`ctl` 471-481: the Get and the
  request are two calls, and nothing at Huawei tells the second sender). With
  one process nothing but the process starts a change, so the sentence is true
  of it and says little; no property states it.
- "The reconciler avoids issuing a second mutation while one is in flight"
  (`client` 78-79). ExpandShare is sent without a look at the sub-status (`ctl`
  409-411, `GrowWanted`), also during a group change, by one process alone.

## 5. Volumes

### What it models

`ensurePVPVC` at the end of a poll and `cascadeDeletePVPVC` inside a deletion.
`cr` and `share` are the CRs and their FSes as `CrLife` has them, `freshCr` the
terminating CRs whose cached copy is current,
`pv` and `pvc` what the API server stores, `seenPv` and `seenPvc` the informers'
copies, `freshPv` and `freshPvc` which of them are current, `proc` the reconcile
in progress.

| in the model                                   | in the code                                |
|------------------------------------------------|--------------------------------------------|
| `Publish`                                      | `reconcilePoll` reaches `ensurePVPVC`      |
| `CreateVolume`, `ClearClaim`, `KeepVolume`     | the PV: absent, Released with a stale claimRef, anything else |
| `CreateClaim`, `KeepClaim`                     | the PVC: absent, anything else             |
| `EnsureFails`                                  | any error of `ensurePVPVC`                 |
| `Tear`                                         | `reconcileDelete` before DeleteShare       |
| `DeleteClaim`, `SkipClaim`, `DeleteVolume`, `SkipVolume` | `cascadeDeletePVPVC`             |
| `CascadeFails`, `DeleteShare`, `DeleteShareFails` | what follows the cascade, failed or not |
| `Create`, `Provision`, `ProvisionGone`, `Forget`, `Unmark`, `Retire` | the FS is made, `status.fsId` recorded and cleared, Deleting cleared, the finalizer removed: steps of `CrLife` |
| `Deploy`, `UserDelete`, `EditPolicy`           | a new CR has its finalizer, users delete it and edit its policy: steps of `CrLife` |
| `IssueElse`, `Lose`                            | FSes that come without a CR waiting for them, FSes that go: steps of `CrLife` |
| `Bind`, `BindOther`, `Release`, `Reopen`, `VolumeGone`, `ClaimGone` | the PV controller and the protection finalizers |
| `DropVolume`, `DropClaim`, `MakeVolume`, `MakeClaim` | other users of the cluster           |

### Decisions

- **Copies.** An informer's copy keeps the fields that the operator reads
  (`PvRead`, `PvcRead`); that the rest may be old as well has no effect. Whether the
  copy is current is kept apart from what is in it (`freshPv`, `freshPvc`).
- **One call with its read.** `r.Get` of a PV or PVC reads an informer, so a
  step is that read and the write it decides on. Caches lag at will: a read that
  came earlier is a cache that was refreshed later.
- **Versions.** `Update` (`ClearClaim`) is accepted only from a current copy;
  `Delete` names the object only and hits what is stored by then; `Create` is
  refused if there is an object.
- **Terminating objects.** A bound PV that is being deleted stays until it is
  released; a PVC goes at any time after its deletion, as its pods let go.
- **claimRef.** `ClearClaim` drops it wholly, name and uid, as the code does, so
  any claim may take the PV next (`BindOther`). A PV that somebody else took is
  `Taken` and excepted from the liveness property: the operator does not fight.
- **The CR** has a policy from the time it is deleted, which its user may flip
  until it is gone. The cascade decides on the informer's copy: what that one says
  is current for the CRs of `freshCr` and anything for the others.
- **Huawei ids** are used again when nothing mentions them, as in `Lifecycle`;
  a PV's handle counts.
- **Names.** An FS has a name and a CR the name of its FS; a name may be taken by
  somebody else (`IssueElse`), and the CR then adopts that FS, as `Client.Create`
  does.
- **Not modelled**: `pvcSize`, `storageClassName` and labels other than
  managed-by, which only fill fields; an FS that is available with an empty
  export path and a `pvcSize` that does not parse (`ctl` 695 and 715: the
  reconcile fails until it changes); edits of `spec.pvcName`.
- **Known limitations of the code.** The cascade deletes PV and PVC by name,
  also when they belong to somebody else (`ctl` 890). Two CRs of two namespaces
  with one `pvcName` share the cluster-wide PV: the owned-by label is written and
  never read. A CR whose FS is already gone at deletion loses its finalizer
  before the cascade (`ctl` 215), so PV and PVC stay.

### Runs

| run | instance | what it shows |
|---|---|---|
| `volumes` | 1 CR, 1 claim, 1 volume, 1 name, 2 ids, others act once (0.43M states) | a claimRef goes only when it is stale; PV and PVC are signalled before DeleteShare; the invariant of the proofs holds; a CR that stays gets its claim bound |
| `stale_handle` | the same, others do nothing | finding: the PV of an FS that was replaced |

Deploying, deleting and deploying again is not bounded, so one CR meets the
volumes that an earlier one of its name left behind, with both policies. Two ids
are an FS and its replacement. `MaxMeddles` bounds what others do: to PVs and PVCs, to the policy of a
terminating CR (`EditPolicy`), and to the FS where nobody waits for one
(`IssueElse`) or before its id is recorded (`ProvisionGone`). One act is a
foreign object in the way, a deletion in the middle of publishing, a PV taken
after its claimRef was cleared, or a policy flipped during a cascade. The
theorems have no bound on CRs, names, claims that share a volume, or acts.

### Fairness

The operator's calls return (`Ensure`, `Cascade`), the informers deliver, the PV
controller works and terminating objects go. `Mounts` has the premises `Quiet`,
as above, and `Resyncs`: a Ready CR is polled again only by the resync, and the
manager watches neither PVs nor PVCs (`ctl` 921-925), so nothing else makes the
operator create what was found terminating.

### Finding

`MountsOwnFs`: `docs/EXAMPLES/05-with-pvc-binding.yaml:36` says the PV is bound to
the FS's export path. When the FS is destroyed in the console the operator
creates another one and is Ready again, but a PV that exists is left alone
(`ctl` 769): pods go on mounting the export path of the FS that is gone.

## 6. Credentials

`PodAgencyProvider.Get` in pod-agency mode and the SDK client above it.
`cache` holds the credentials with expiry and fetch time, `started` the clock
value that a Get in progress read at its start (before the request), `token`
what the metadata service would hand out, `reply` its answer on the way, `answer`
what Get answered last and `sdk` what the SDK client was built from. `Hit`,
`BeginFetch`, `fetch`, `Fallback` and `GiveUp` are the paths of Get; `ensureSDK`
what follows an answer; `Restart` a new process; `Serve` and `Issue` the metadata
service, which may replace its token while an answer is on the way, or never
(`issued` is the history of its tokens); `Tick` the clock, which also runs during
a request. Get holds a mutex for its whole duration, so there is one caller at a
time. `fetch` takes any answer that parses, whatever is left of its life.

Durations are parameters; the run scales them (one unit for 30 s to a few
minutes) and keeps their order: the timeout below the minimum between refreshes,
that below the cap, tokens with lifetimes around each. `Horizon` bounds the
clock and `MaxTokens` the tokens: enough for a token that outlives the cap, two
replacements, an outage and a restart. No theorem depends on either bound.

The run `credentials` (4.5M states) checks three properties. `ServedAlive` says
when an answer from the cache may be dead, with no assumption on the service:
within `MinRefreshLatency` of the fetch of a token that had less than that left,
and, for the fallback, by the time that the failed request took (the clock is
read before it, line 120). `RotationSeen` is the hard cap of lines 34-36 seen
from outside: a token that was replaced is answered no longer than `MaxCacheAge`
and one timeout after that, though it may have been on its way when it was
replaced; only failed refreshes prolong it. `RefreshesApart`: refreshes that
succeed are apart by the minimum. It says nothing of failed ones, which each
Huawei call repeats (the 60 s are counted from the last success), so that "never
refresh more often than every 60s" (line 55) does not hold of requests to a
service that is down.

`served_expired` is a finding: "Get returns the most recent valid credentials.
Refreshes if cache is missing or close to expiry" (`podagency.go:116-117`). Line
86 puts the minimum between refreshes above that: a token that comes with less
than a minute left is answered from the cache after it has expired. That the
service hands out such tokens is a case the repository has in mind: a "wedged
metadata response keeps the same token forever" (34-36), and
`podagency_test.go:42-47` takes one with 10 s left for "still fresh".

`sdk_not_rebuilt` is a finding: after a refresh the SDK client should be built
anew (comments at `client` 143-144 and 172-173), but line 171 compares the new
credentials with the provider's cache, which are the same, so the SDK client
signs with its first token for ever.

## 7. What is proved

Every theorem holds for all values of the constants that satisfy the
assumptions in the modules: any sets of CRs, names, ids and processes, any
durations. All of them follow the same argument: an inductive invariant holds
initially, is kept by each action, and implies the property.

- `TypeCorrect` (`LifecycleProofs`): types, and that a cache entry at the
  stored version has the stored content.
- `Inductive` (`LifecycleSafetyProofs`): `IndInv`. The properties alone are not
  inductive, since a status write brings an id from a copy read long ago. `NamesAgree`
  says that ids travel only between copies of one CR and that each is of an FS
  with that CR's name; it survives creation because only ids that nothing
  mentions are issued. `CopyAgrees` says what a copy whose write would still be
  accepted has in common with the stored CR: the same id, or one to record
  where none is stored, or none where the stored FS is gone; and when the
  finalizer is about to go, the reason why it may. `StepIds` says which steps
  carry an id. A user's edit or another process's write makes the copy stale,
  and then nothing is claimed of it: this is the whole of the optimistic
  concurrency argument.
- `OneNamePerFs` from `NamesAgree`; `OneCRPerFs` in addition when FsName is
  injective; `NeverForgets` and `HonoursPolicy` are action properties from
  `CopyAgrees`.
- `MarkerSound` (`DriftProofs`), for any number of processes. `DriftInv` follows the marker through all its
  copies: a cache entry at the stored version has the stored content
  (`CacheCurrent`), a running expansion goes upward (`GrowsUp`), and until an
  expansion is overtaken a stored or about to be stored marker is backed by an
  expansion of the right size (`Backed`, `MarkerBacked`). A process that asked for
  an expansion on behalf of an old copy cannot store its marker.
- `CopiesExact` and `Refinement` (`LifecycleRefinement`). `CopyExact` strengthens
  `IndInv` to what the refinement needs: a copy at the stored resourceVersion
  knows the stored CR's phase and status until it decides to change it, and the
  status it will write is one that `FsLifecycle` allows *now*. The second part
  survives steps of Huawei because what a reconcile learns of an FS can only
  have gone on towards its end: an FS that is gone or being deleted does not come
  back. Then each write is a step of `FsLifecycle` and every other step maps to
  a step of a user or of Huawei, or to no step.
- `Serves` (`LifecycleServes`): `Lifecycle` implements `CrLife`, by way of
  `FsLifecycle`: `Refinement` turns every step into one of `FsLifecycle`, whose
  steps are then mapped one by one. Two facts are added to the invariant of the
  refinement (`ServesInv`), both about `FsLifecycle` alone. `NamesOnce`: no two FSes have one
  name, without which "the FS of a name" would be a choice and a deletion could
  make another one appear. `GuardFirst`: nothing is recorded before the
  finalizer is there, so that a CR whose finalizer appears is a new one and not
  one that an FS is forgotten with.
- `DeletingSound` and `ReadySafe` (`LifecycleRefinement`): both properties are
  proved of `FsLifecycle`'s steps, where neither copies nor calls occur, and
  carried over by the refinement.
- `OldCopiesAnchored`, `CreatesGuarded`, `DeletesTerminating`
  (`LifecycleOneProcess`), for one operator process. CreateShare and DeleteShare
  go to Huawei, which checks no resourceVersion, on behalf of copies of any age;
  `CopyExact` says nothing of those. `OldCopies` does: a copy with the finalizer
  is right that it stands, or that the FS is still that CR's to delete. Only the
  process itself removes the finalizer, only from a current copy, and its cache
  is then at least as recent as the start of that reconcile: it shows the
  deletion, so nothing will be created from it, and the policy for which the
  removal was right, so nothing is left to delete. A second process breaks the
  first of these steps.
- `ClearsSafely` and `SignalsBeforeDelete` (`VolumesProofs`) from `VolInv`: a
  current copy shows what is stored, the claim of a Released PV does not hold it,
  the CR of a cascade in progress stays terminating (`CascadesLast`), and a
  cascade that missed nothing has signalled what it passed (`Signalled`).
  Neither is about one policy only: a user who flips it during the cascade
  changes nothing in the order of the deletions.
- `TypeCorrect`, `AnswersAlive`, `RotationBounded`, `RefreshSpacing`
  (`CredentialsProofs`) from an invariant that dates what is cached: a Get in
  progress waited no longer than the timeout and had a reason (`CacheInv`), and a
  token replaced at `t` was asked for by then and cached within the timeout after
  it (`RotationInv`). Nothing is assumed of the tokens. `RefreshSpacing` assumes
  that the cap is no shorter than the minimum, as the constants of lines 54-55 are.

`IndInv` itself is checked by TLC in `two_crs`, `CopyExact`, `OldCopies` and
`Implements` in `one_cr`, `ServesVolumes` in `liveness`, `DriftInv` in `drift`, `VolInv` in `volumes`.

Model-checked only: the liveness properties (fairness and ENABLED are beyond
the prover).
