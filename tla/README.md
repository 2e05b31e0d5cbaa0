# Kamisato: TLA+ models, checks and proofs

Kamisato builds Arch Linux packages and serves them from pacman repositories.
This directory models the parts of it in which concurrency, failure and order
matter, checks the models with TLC on small instances, and proves safety
properties of them with TLAPS for every value of the constants. `PROJECT.json`
maps every definition that models code to its lines under `src/`.

To check a run: `tlc -workers 2 -config miko_workers.cfg MCMikoJobs`.
To check the proofs of a module: `tlapm RepoDBProofs.tla`; section 4 names the eight that have some.

## 1. The system

| part | state it keeps | operations | talks to |
|---|---|---|---|
| **miko** job service (`src/miko/service`) | job store, job files, bounded queue, cancel functions, log buffers, output directories | Submit, Cancel, worker loop, artifact sweep, eviction, restore | ayato (upload), build backend, log readers |
| **miko** live logs and build clients (`src/miko/joblog`, `handler`, `client`, `src/thoma`) | per-job buffer, reader count | append, close, SSE readers, wait, download, sign or place | job service |
| **miko** AUR dependencies, worker keys | keystore directory, the order of a job | resolve, trust gate, build in order; create, certify, register | AUR, ayato |
| **ayato** repository database (`src/ayato/repository/repodb*.go`) | `.db`, `.files` and their signatures of one architecture, in a blob store | RepoAddBatch, RepoRemove, RepoRemoveIfMatch, InitArch, ReconcileDB, BackfillSignatures | blob store (compare-and-swap per object), repository tool |
| **ayato** publication (`src/ayato/service/upload*.go, remove.go, reconcile.go`) | package objects, name index, publication lease | UploadFiles with rollback, InitAll, RemovePkg, ReconcileOrphans | repository database, blob store |
| **ayato** upload routes, staged uploads | staged intents | the three routes, presign, commit, collection | publication |
| **ayato** tiers, mirrored upstreams | tiers of a repository; snapshot, validators, overlay, merged database | PromotePackage; sync, rebuild | publication, a mirror |
| **ayato** sessions, CI access, rate limiter | key-value store: refresh tokens, revocations, device grants, log tokens, admins, counters | sign-in, refresh, device flow, revoke; authorise; count | handlers, key-value stores |
| **ayato** key-value stores, migration | rows with times to live; pool pointers, markers, layout version | Set, Add, List, bulk; expand, contract | badger, SQL, Workers KV, blob store |
| **kayo** | catalogs and watermarks, trust file, served pins | sync, review, approve, verify, serve git | ayato, the AUR |
| **ayaka** and the clients | stored sign-in, output directories and manifests, PKGBUILDs, signing key | plan, build sets, CI loop, key commands, login | miko, ayato, the AUR |
| **internal/pacman** | images, containers, output directories | dependency order, builders, signing | container daemon, makepkg |
| **lumine**, deployment, parsers | none | web interface, formats | ayato, miko |

### What is hard here

* miko: several goroutines share one mutex but save files, close logs and touch
  directories outside it; a worker may submit into the queue it drains; a crash
  loses the queue and keeps the files; clients and readers watch a job that may be
  evicted under them.
* repository database: four objects and a store that can swap only one of them at
  a time; a put whose answer is lost may have landed; several servers share a
  bucket without a common lock.
* publication, tiers, upstreams: one change is several writes in several databases.
  A failure is compensated or left for the next run, not rolled back, and on S3
  nothing keeps other servers out meanwhile. Removal and server start take no lease
  even where one exists.
* sessions: get-then-put transitions on a key-value store, markers that must outlive
  the tokens they forbid, revocation racing a rotation.
* kayo: the network may replay, the AUR changes hands, and two processes share files
  they write whole.
* clients and ayaka: several processes share one keyring, one key file, one output
  directory, and may be killed between two writes; every step of the CI loop may fail
  and the loop has no state but what it can see.
* build backends: a context that is cancelled at any moment, and cleanup that must
  happen all the same.

`PROJECT.json`, "hazards", has the most important of these at their lines, with the
properties that are about them. Section 6 has the ones the code does not survive.

## 2. Modules

| module | role |
|---|---|
| `MikoJobs`, `MikoJobsProofs` | the job service of miko; its invariants, proved |
| `JobStream` | a job as its clients see it: live log, readers, download |
| `AurDeps` | AUR dependencies of a job and the trust gate |
| `WorkerKeys` | the shared keystore of miko's hosts and ayato's verification |
| `PackageDB` | what the repository tool does to package sets and file lists (pure) |
| `RepoDBAbstract` | what one database promises: atomic calls with three answers |
| `RepoDB`, `RepoDBProofs` | the database as four objects in a blob store; that it refines `RepoDBAbstract`, proved |
| `Publication`, `PublicationProofs` | uploads, seeding, removal and orphan collection over several databases; their invariants, proved |
| `UploadDoors`, `StagedUpload` | what the three upload routes accept (pure); presigned uploads |
| `Tiers`, `Upstream` | promotion; a repository layered over a mirror |
| `AuthSession`, `CIAccess`, `RateLimit` | sessions; access of CI runs (pure); the limiter |
| `KVStore`, `Migration` | the key-value stores; the layout migration |
| `KayoSource`, `KayoTrust` | a signed catalog from ayato to kayo; trust decisions and pins |
| `ClientSession` | the stored sign-in of the clients and their requests |
| `BuildPlan`, `BuildSet`, `CIPipeline` | planning, building and the CI loop of ayaka |
| `Depend`, `DependCases` | dependency algorithms (pure) and their run on every small input |
| `BuildBackend`, `BuildConfig` | build backends; how configurations resolve (pure) |
| `SigningKey` | the repository's signing key |
| `KeysProofs`, `StoresProofs` | proofs about `WorkerKeys` and `SigningKey`; about `Migration`, `KVStore` and `RateLimit` |
| `ServicesProofs` | proofs about `Upstream`, `StagedUpload`, `Tiers`, `ClientSession`, `JobStream` and `UploadDoors` |
| `TrustProofs` | proofs about `KayoTrust`, `KayoSource`, `CIAccess` and `AuthSession` |
| `ToolsProofs` | proofs about `AurDeps`, `BuildSet` and `BuildBackend` |
| `MCMikoJobs`, `MCRepoDB`, `MCPublication` | instances of one component |
| `MCTrust`, `MCServices`, `MCTools` | instances of many; `MCAuth`, `MCPlan`, `MCBuildSet`, `MCCIPipeline` hold their constants |

Operators whose comment begins with "Deviation" are plausible mistakes in the
definition that follows them. They are used by nothing in the specification;
putting one in the place of its original makes a property fail. Every part of every
checked property has one; `PROJECT.json`, "mutants", lists one per checked property.

The three large MC modules run their components one at a time: `focus` is chosen
initially and says which component moves, the others stay in their initial states.
The state space is the sum of the components', not their product, and a step of the
whole is a step of one component. Components that interact are modelled together in
one module (a client and the server it talks to, a worker and its readers), or one
takes the other's abstract specification (`Publication` takes `RepoDBAbstract`).

### 2.1 MikoJobs

State: `store` (Service.store), `queue` (jobQueue's channel), `running` (the keys
of Service.running), `cancelled` (contexts that were cancelled), `logs` (live
joblog buffers), `sub` and `wk` (where each submission and each worker is), `disk`
(job files), `unsaved` (file operations started after `mu` was released and not
yet on disk), `dirs` (output directories), `published`, `stopping`, `restarts`.

One action is one critical section of `mu`, one queue operation, or one call that
other goroutines can observe the effect of:

* submission: `Submit`, `InsertJob` (with the eviction it decides on), `RemoveEvicted`,
  `Push` (a full queue refuses), `RejectCloseLog`, `RejectFail`;
* worker: `Pop`, `Claim` (skip, or register the cancel function), the second
  critical section `MarkRunning`, which does not read the status, the build and
  its retries, the upload, `Decide`, `Finish`, the rebuild chain of soname changes, the
  sweep of old artifacts, `CloseLog`, `Release`;
* `CancelQueued`, `CancelRunning`, `SweepTick`, `Shutdown`, and `Restart` (a crash at any point, or
  the end of a shutdown, then `restore` from the files).

File writes are steps of their own (`Flush`): an actor goes on only when its own
writes are done, and other actors see the gap. The code only logs a write that fails
(`src/miko/service/service.go:168`); the model has none that does. What makepkg does is its outcome.

### 2.2 PackageDB, RepoDBAbstract, RepoDB

A database is a function from names to versions (0: not there). `.files` also has
the set of packages with a file list, because the tool keeps lists it does not
rebuild. A signature is named by what it signs. `RepoDBAbstract` has one variable
for the database and one per caller: a call is under way, and ends as `ok`
(applied), `failed` (an unmarked error: not applied) or `committed` (the error
marked `CanonicalCommitError`: may be applied).

`RepoDB` has a writer per call: it waits for the mutex of its process, fetches the
four objects one after the other, runs the tool on its workspace, swaps the
canonical object, then compares, reads the ETag of and swaps each derived object,
and looks at the canonical one again. Every conflict, retry, bound and error path
of `dbMutation.run`, `reconcileDBLocked`, `InitArch` and `commitDerivedArtifacts`
is a disjunct. Store calls fail with or without effect; a process crashes with
all its calls. An ETag is the value of the object (equal bytes have equal ETags,
which the code relies on). S3's
409 is a spurious conflict, possible while a writer of another process is at a
put. Left out: a put that lands after its caller gave up, and the `repo-add`
command line tool (its archives are not byte-stable).

### 2.3 Publication

State: `db` and `stored` (the databases and which exist), `obj` (package objects,
with the build they hold and whether they are older than a collection's cutoff),
`lease`, and the progress of each call: `up` (UploadFiles and InitAll), `rm`
(RemovePkg), `gc` (ReconcileOrphans).

An upload goes through `Acquire`, `Accept`, the seeding of new architectures
(`Probe`, `InitArch`, `ListAny`, `Backfill`), `Resolve` (the version gate, one
database after the other), `Capture`, `StoreObject`, `Commit` per architecture,
`StoreNames`; a failure after capture goes to the rollback (`UndoNew`, `UndoStore`,
`UndoAdd`, and `UndoFails`, a restore that fails and is only logged). A database
call is one step and answers as `RepoDBAbstract` says, which `repodb_race` shows
to be sound. `Leased` tells localfs (which has `LockPublication`) from S3.

Abstractions: architectures are visited in any order (the code's order is one of
them); the contents of the name index are dropped (it is never read to serve a
package), that writing it can fail is kept; an object stands for the package and
its signature. Left out: a repository that declares no architecture.

### 2.4 Sign-in and trust

**AuthSession** (`AuthScene` says which requests a behaviour has). `marks` is the key-value
store's rows with their expiry: a token or a session is revoked, a refresh token, a
code or a poll is spent. `tokens` are what clients hold; a signed token carries its own
expiry and the server keeps nothing else of it. A request (`calls`) takes one step per read
or write of the store: refresh (check, spend, look at the session, issue), revoke, code
exchange, device login (start, approve, poll), log tokens, changes of the allowlist under
`adminMu`. A tick is an interval; SQL rows and signed tokens end with the tick of their
expiry, badger's with the one before, as the code's comparisons and badger's whole
seconds make them. PKCE, cookies, origins and the round trip to GitHub are taken as right.
Parts: `SingleUse`, `SignedOutIsRefused`, `BadgerPollServed`, `SomeAdmin`.

**KayoSource**. ayato registers and removes (`aur*`), one record at a time, and answers for its
catalog from a cache or by reading it (`Catalog`) and stamping and signing it later (`Envelope`),
with `CatalogCalls` such answers under way and anything removed in between; kayo
fetches any catalog ever issued (a replaying network), resolves its verifier (pinned, first
use, insecure), verifies signature, expiry and watermark, persists the watermark, swaps the
index and marks it, each a step, with restarts between any two. Parts: `RevocationReaches`
(a removed package is vouched for no longer than MaxAge and the time between reading the catalog
and stamping it), `VouchedIsSigned`, `OneKeyOnFirstUse`, `NoCatalogRollback`.

**KayoTrust**. One package base in three sources whose account and head move. Two
processes review (clone, metadata, open, set aside, publish, save), edit, remove, verify or
serve; each reads the trust file once and writes it whole; `Materialize` is its two renames
with the rollback. Parts: `ServedWasReviewed`, `TakeoverIsCaught`, `PinSurvives`.

**CIAccess** runs the authorisation of the publishing routes on every small request; parts
`CredentialDecides`, `TokenIsPinned`. **RateLimit** has the Get, Add and Set of `bump` as
steps of replicas, on a store that creates atomically and is consistent, or on Workers KV, where a
read may answer with any counter that was stored before; property `LimitHolds`. An event
"pull_request" stands for the three refusals of a run for a pull request; the same-origin check of
cookie requests and an unavailable session store, which refuse more, are left out.

### 2.5 Services and clients

**ClientSession**. The endpoint file, the mode file and the keyring are variables of their own;
storing, editing and revoking a pair is the list of writes the code makes, in its order,
with a failure or a kill after any of them. A refresh takes the refresh lock, reads the
pair, presents it, and stores the answer if the stored pair is still the one presented.
A request follows the transport's rule for what may be sent again. Parts:
`PairsStayTogether`, `SignOutHolds`, `RefreshedOnce`, `DoneOnce`.

**UploadDoors** runs form, batch and staged route on the same small inputs (sizes 0 to 3,
names, signatures, provenance, limits set and unset); parts `DoorsAgree`, `BatchIsWhole`.
**StagedUpload**: intents with presigned puts that may land late or be replaced, the server's
copies (`spoolStagedFile`), validation, publication, answer lost, retry, handler killed, and
the collection at every presign. A version that is published already is acknowledged and nothing is
stored (`Stored`, `How`), so an acknowledgement says which of the two happened; parts `PublishedWasValidated`, `AckedIsPublished`,
`InFlightIsKept`.

**Tiers**: staging, testing and stable of one any package; a promotion reads the source per
architecture, goes through the gate, copies package and signature, stores, commits and, when
it moves, drops the source's; part of it may fail anywhere. The removal of a move clears every
architecture in one step. Parts: `NeverGone`,
`TiersOnlyAdvance`, `PromotedIsServed`. **Upstream**: the snapshot, its validators, the overlay and
the merged databases, with publications, removals, promotions and a sync. Each process runs on one
of the `Servers` (`usHome`), and the mutex that orders merges is one server's (`usLock`); the merged
objects are put without a compare-and-swap. `usClash` says that the last put of the merged
database was by a process whose critical section another server's overlapped. Parts: `LocalStays` and
`QuietIsMerged`, unless `usClash`; `OneServerIsAlone`, it takes two servers;
`ValidatorsFollowSnapshot`.

**JobStream**: the bytes of a capped buffer, its truncation marker, the three steps of
`finalizeLog`, readers under their limit, and a client that polls, downloads and signs or
places, while the job ends, is cancelled or evicted. Parts: `StreamIsWhole`, `LogWithinCap`,
`ReadersAreCounted`, `HandedWasBuilt`.

**Publication** once more, as `Removing` in `MCServices`: two removals and a collection with a
failure and a crash and no upload; `RemovedIsUnlisted` is its `NoDanglingEntry`, and theorem
`RemovedAfterUnlisted` says it of every such instance.

### 2.6 ayaka, builders and stores

**BuildPlan** is the planner's fix-point: each action takes a requested name, resolves one
dependency (local source, repository, AUR), adds a source and starts the pass again, or
moves on; repositories may be down and the AUR's index may disagree with the tree that is
cloned. Parts: `PlanOrdered`, `PlanSettled`, `PlanNeeded`, `PlanAdvances` (the loop has no
other bound). **BuildSet** runs two builds over shared outputs and manifests: locks, builds with
the artifacts of providers installed, staging, rename, sync of the parent, manifest,
withdrawal (whose RemoveAll does not fail here; the code ignores its error), and a crash anywhere.
Parts: `ManifestTellsTruth`, `FailedRunLeavesNothing`,
`InstalledWhatItNeeds`. **CIPipeline**: upstreams move, `NvBump`, `Plan` with its cascades and
buckets, `BumpPkgrel`, `BuildAndPublish`, any of them failing. The sort's error on a cycle is left out,
the instance has none. Parts: `EmptyPlanIsFresh`,
`RebuildIsNewer`, `BucketsAreIndependent`.

**Depend** has constraints, `TopoSort` with its cycle report and `Resolve` as operators;
`DependCases` compares them with reference definitions: `SortIsLeastOrder` (the least of all
dependency-first orders, found by enumerating them), `ResolveIsBuildable`.

**BuildBackend**: calls of one backend value overlap; a container call pulls, inspects, stages
its override, creates, starts, waits, and takes its container and its temporary files away in
the order of the deferred functions; host calls (chroot, bubblewrap) take a baseline and
collect what is new. A stamp says which write made a file. Parts: `ResultIsThisBuild`,
`SignedIsThisBuild`, `FailedIsDeterministic`, `ReportedImageRan`, `NothingLeftBehind`,
`MountsOutliveContainer`. **BuildConfig** runs the resolution of host and project settings on
every small pair: `ResolvedRuns`, `HostDecides`.

**SigningKey**: commands load the key, change it and save it against the revision they read. Signing
is two steps, as in the code: `CheckSigningKey` selects a key and refuses the primary, `DetachSign`
selects again at its own time; `SubkeysSign` lets the primary sign only in the window between them.
Parts `AckedChangesStay`, `AnchorStays`, `SubkeysSign`. **WorkerKeys**: three files written under a
lock by hosts that start together and die, registration, verification; parts
`KeystoreIsCertified`, `SignedIsAccepted`. **AurDeps**: an attempt of a job resolves what its source
needs and the host of miko has not installed (`adHost`; the repository is not asked), holds the
whole order against the trust policy, builds and publishes one package after the other and then
builds the target; every error but that of a build that ran and failed is retried from the
source on (`RetryBuild`). Parts: `BuiltAgainstPublished` (in the repository or on the host),
`BlockedPublishesNothing` (of an attempt). **KVStore**: badger's transaction, the one statement of SQL and the
several requests of Workers KV, with expiry, deletion, failures and the sealing decorator. In Workers
KV a written key may still answer with earlier rows (`kvOld`) until it has propagated, and
`ListIsWhole` speaks of the keys that have. Parts `OneCreator`, `ListIsWhole`, `BatchIsStored`, `SealedAtRest`. **Migration**: expand and
contract as sets of objects still to do, markers and layout version, overlapping and
interrupted jobs, with packages uploaded and removed by the serving binary at any moment. A package
uploaded to the pool after an expand listed the pointers is in `mgLate`, and `StaysReadable` promises
it to the old binary only. Parts `StaysReadable`, `LayoutIsTrue`.

## 3. Runs

A checked property of a component is the conjunction of the parts named in section 2; TLC
names the conjunction and its trace shows the part. Where a part speaks of a step
(`NoCatalogRollback`, `NeverGone`, `TiersOnlyAdvance`, `PlanAdvances`, `RebuildIsNewer`,
`AnchorStays`, `ActiveNeverEvicted`) the conjunction is an action property, with the other parts
of the state after the step.

| run | instance | checks |
|---|---|---|
| `miko_workers` | 2 workers, 2 jobs, queue 1, store 1, job 1 client-signed and cancellable, 1 restart; 118,000 states | the seven invariants of section 4, and `RecordsHold` (`FileFollowsRecord`: the files agree with the store; `ActiveNeverEvicted`) |
| `miko_live` | 1 worker, 3 jobs, retries and rebuild chains, queue 1 | `EveryJobSettles` |
| `repodb_race` | 2 processes, 7 kinds of call, 2 failures, 2 attempts; 274,000 states | `AnswersAreTrue` (`NoLostUpdate`, `UnmarkedErrorIsClean`) and `AppearsAtomic`: `RepoDB` implements `RepoDBAbstract` |
| `repodb_server` | 1 signing process, 3 calls, 2 failures | `FilesFollowDatabase` |
| `repodb_returns` | 2 processes, 3 calls | `EveryCallReturns` |
| `pub_lease` | 2 uploads of 4 batches, 1 collection, 1 failure, 1 crash; 297,000 states | `AckedHolds` (`AckedStays`, `AnyEverywhere`), `NoDanglingEntry`, `RollbackRestores`, `EveryCallEnds` |
| `pub_s3` | no lease, 2 uploads, 2 builds, a starting server, a new architecture, 1 failure; 1.2 million states | `NoDanglingEntry`, `NoDowngrade` |
| `trust` | the modules of 2.4 but the pure ones; 2.5 million states | `SessionsHold`, `CatalogHolds`, `ApprovalsHold` |
| `services` | the modules of 2.5; 1.8 million states | `SignInHolds`, `DoorsHold`, `StagingHolds`, `TiersHold`, `LayeringHolds`, `StreamHolds`, `RemovedIsUnlisted` |
| `tools` | the modules of 2.6, `CIAccess` and `RateLimit`; 1.3 million states | `PlanHolds`, `RunsHold`, `LoopHolds`, `DecisionsHold` (`AlgorithmsHold`, `ConfigHolds`), `BackendHolds`, `KeyHolds`, `WorkerKeysHold`, `DependenciesHold`, `AccessHolds`, `SharedStoresHold`, `MigrationHolds` |
| `pub_remove_race` | expects a violation | a removal deletes the object an upload has just renewed; the upload then lists a missing file |
| `pub_seed_retry` | expects a violation | an upload that creates an architecture fails after InitArch; the retry never backfills it |

### Why the bounds are enough

* Two workers and two jobs are what ownership, hand-over and cancellation take: a
  third of either is a copy. A store of one job makes the second submission evict.
  A queue of one makes it full. `FileFollowsRecord` speaks of jobs nobody cancels,
  so only job 1 is cancellable. The theorems cover all other sizes.
* Two writers are enough for a conflict and two attempts for a retry that conflicts
  and gives up. Two failures allow a lost answer and a crash after it. Batches have
  up to two packages, so a batch can be applied partly if anything could do that.
* Two architectures are the least in which databases can disagree, and `any` differs
  from "all but one". One failure and one crash land at every step; a second failure
  inside a rollback is logged by the code and left, which `UndoFails` reaches through a
  conflict in `pub_s3`.
* Sessions: two requests at once and two users; the lifetimes 1 and 2 of tokens, sessions
  and devices and a horizon of 4 let every marker end before, with and after what it
  forbids. The scenes (`MCAuth`) put together the requests that share markers.
* Catalogs: issue times up to 3 with MaxAge 1 and Leeway 1 make a catalog fresh, stale
  and older than the watermark; two keys are a rotation; one catalog under way (`CatalogCalls`) is
  enough for a removal between reading and stamping, and two are issued (`FewCatalogs`),
  one served and one that replaces it or is replayed. Packages are registered and removed only in
  pinned mode: in the other modes the key decides, not what is listed. Approvals: two accounts and two
  commits are a takeover and an update, four events let both happen during a review.
* Clients: three pairs, so that a pair can be lost, replaced and presented again; three
  commands by two processes.
* Staged uploads: two intents, a lifetime of 1 and a cutoff of 2, so that a put can be late
  and an intent collectable; two clients with the same version make a commit a repeat. Upload routes: each limit unset, just met and just missed.
* Tiers and upstreams: two overlapping calls and one or two failures; two versions make a
  newer one overtaken. Mirrored repositories run on one server and on two, one publisher on the second
  (`MCHomes`): the least in which critical sections overlap. Logs: a cap of 3 with a marker of 1 is met, passed and filled
  exactly by writes of one and three bytes.
* Plans: the worlds of `MCPlan` have providers, versions, mirrors that are down, cycles and an
  index of the AUR that disagrees with the trees; build sets: two runs whose outputs and manifests coincide
  and cross; CI: four packages make a chain with a make dependency, a soname and a VCS
  package. Algorithms: every graph on three names with lists of up to two
  entries, self-loops and repeats among them; split packages and providers in the resolver.
* Keys: four commands by two administrators and keys that run out in one tick. Stores: three keys
  with a chunk of two, so that a batch is split and its second half may fail. Of the two callers
  one makes calls of several steps to Workers KV (`MCTools!MCOneCaller`); the other calls, writes and
  deletions by anybody, are single steps.
* AUR dependencies: two jobs, one retry and two faults let an attempt publish, fail and be blocked
  at the next, with every set of packages on the host. Migration: one upload beside the jobs lands
  before, during or after the expand.
* `CHECK_DEADLOCK FALSE`: the calls and jobs of an instance are finitely many, and a
  behaviour in which all have ended rightly stops.
* Symmetry (workers, writers in processes of their own or of one process) is used
  in runs without liveness properties only.

### Fairness

* `MikoJobs!FairSpec`: goroutines run and builds end (the container
  backend stops them after 30 minutes by default); nothing is
  assumed of clients, cancellations or restarts.
* `RepoDB!FairSpec`: weak fairness of the steps of a begun call (store calls return),
  strong fairness of the mutex, which Go hands to the longest waiter under
  starvation. Nothing makes a retry win: `EveryCallReturns` rests on the bound of the
  attempts.
* `Publication!Spec`: weak fairness of begun calls, strong fairness of the lease.
  `flock` does not queue its waiters, so strong fairness says more than the kernel
  does when there is always another caller; with finitely many calls, as here, every
  other holder ends and weak fairness would do.
* The other modules have no liveness property. Where something must come to an end the
  property is an action property that needs no fairness (`PlanAdvances`), or a bound in
  time (`RevocationReaches`).

## 4. Proofs

Eight modules hold theorems, each for every value of the constants of the module it
extends: any number of jobs, workers, writers, uploads, hosts, processes and callers,
any limits, any bound on failures and crashes. A theorem that names a property of a run
says for all instances what the run says for one. Where a theorem has a hypothesis, it is
one that the code needs, and the run that checks the property satisfies it.

| theorem | shows |
|---|---|
| **MikoJobsProofs** | |
| `TypeCorrect` | `TypeOK`; the queue stays within its capacity |
| `OneOwnerAlways` | a job is with one submission, one place of the queue, or one worker |
| `NoJobStranded` | an active job is with somebody who will finish it |
| `LogsWillClose` | an open log buffer has an owner whose `finalizeLog` is to come |
| `CancelAlwaysReaches` | a running job has its cancel function registered |
| `ArtifactsExist` | a record that offers artifacts names a directory that exists |
| `SuccessMeansPublished` | a server-signed job that says success, in memory or on disk, was uploaded |
| `RecordsCorrect` | `RecordsHold`: the file of a job nobody cancels follows its record, and eviction takes no active job |
| **RepoDBProofs** | |
| `TypeCorrect`, `AnswersTrue` | `TypeOK`; `AnswersAreTrue` |
| `Refinement` | `Spec => AppearsAtomic`: four objects and one compare-and-swap implement `RepoDBAbstract` |
| `FilesFollow` | `FilesFollowDatabase`, for one server process whose calls remove nothing (`OneServer`) |
| **PublicationProofs** | |
| `TypeCorrect` | `TypeOK` |
| `NeverDowngrades` | `NoDowngrade`, with or without the lease, if nothing is removed |
| `ListedIsStored` | `NoDanglingEntry`, if nothing is removed and no collection runs beside a starting server (`NoneUnleased`) |
| `RemovedAfterUnlisted` | `NoDanglingEntry` where packages are removed, with or without the lease, if nothing is uploaded and no server starts (`Calls = {}`) |
| `RollbackCorrect` | `RollbackRestores`, under the lease (`Exclusive`) and with at most one failing call |
| `AckedStaysCorrect` | `AckedStays`, under the lease and with settled architectures (`Settled`), whatever fails |
| `AckedCorrect` | `AckedHolds`, if moreover at most one call fails and the databases agreed at first (`Fanned`) |
| **KeysProofs** | |
| `WorkerKeysCorrect`, `SigningKeyCorrect` | `WorkerKeysHold`; `KeyHolds` |
| **StoresProofs** | |
| `MigrationCorrect`, `SharedStoresCorrect` | `MigrationHolds`, with uploads and removals meanwhile; `SharedStoresHold`, from `LimitCorrect` and `StoreCorrect` |
| **ServicesProofs** | |
| `LocalStaysServed` | `LocalStays`, `QuietIsMerged` and `OneServerIsAlone` of a mirrored repository on any number of servers |
| `OneServerLayers` | with one server (`OneServer`), `LocalStaysAnywhere`: no local package is hidden, without exception |
| `LayeringCorrect` | `LayeringHolds`, if two syncs of it do not overlap (`OneSync`) |
| `StagingCorrect`, `TiersCorrect` | `StagingHolds`; `TiersHold` |
| `SignInCorrect` | `SignInHolds`: processes that share a stored sign-in and may be killed at any write |
| `StreamCorrect` | `StreamHolds`: the log, its readers and the clients that wait for a job |
| `DoorsCorrect` | `DoorsHold`: the three upload routes agree, a batch is published whole or not at all |
| **TrustProofs** | |
| `ApprovalsCorrect`, `AccessCorrect` | `ApprovalsHold`; `AccessHolds` |
| `VouchingCorrect` | `RevocationReaches` and `VouchedIsSigned`, with any number of catalogs under way on ayato |
| `CatalogCorrect` | `CatalogHolds`, if one process owns the pin file (`OneKayo`) |
| `SessionsCorrect` | `SessionsHold`, if an administrator is configured (`Bootstrap # {}`) |
| **ToolsProofs** | |
| `DependenciesCorrect` | `DependenciesHold`: a package is built with all that it needs in the repository or on the host, over any number of retries |
| `RunsCorrect` | `RunsHold`: manifests, failed runs and what was installed in each build |
| `BackendCorrect` | `BackendHolds`: overlapping calls of one backend keep their results and files apart |

### Assumptions and hypotheses

The named ASSUMEs of the components say what their constants are, and TLC evaluates them on
every run. Those that say more than a type:

* `PublicationAssumption`: architectures are not called `any` or `none` and calls have distinct
  names; a database that exists initially lists packages of its own architecture or of any,
  and two that list one file describe the same bytes (the state every completed upload
  leaves); `Listing` has every version.
* `StagedAssumption`: the presigned lifetime is shorter than the collection's cutoff
  (`src/ayato/service/upload_staged.go` has one hour and 24); the client
  "junk" is nobody.
* `UpstreamAssumption`: the free lock is not named after a process. `MigrationAssumption`: the empty
  pointer is not a pooled object, and a package starts with one of those or without. `KayoSourceAssumption`:
  the absent key is not a key. `KVStoreAssumption`: finitely many keys, a chunk is not empty.
  `ClientAssumption`: the free lock is not named after a client.
* `JobStreamAssumption`: the truncation marker fits into the cap (`src/miko/joblog/buffer.go:43`
  cuts it to that) and readers are finitely many, so that they can be counted.
* `DoorAssumption`: sizes and limits are numbers and the overhead added to a form's limit is
  not zero. `DepAssumption`: finitely many packages, whose needs are packages of the AUR.
* `BuildAssumption`: a plan has no base twice and its dependencies are planned or come from
  elsewhere (0), which is what `PlanOrdered` and `SortIsLeastOrder` say of the planner's output.

The hypotheses are part of the theorems that have them:

* `Removals = {}`: `RemovePkg` takes no lease and deletes an object it saw unreferenced a
  moment before; the run `pub_remove_race` shows what that does to an upload.
* `Calls = {}` in `RemovedAfterUnlisted`: the other side of the same race. Nothing then puts
  an entry back, so a removal that found a file unlisted is right until it deletes it.
* `Bootstrap # {}`: without a configured administrator there is none to keep; the rule of
  the code is that the last one is not removed.
* `Starts = {}`, or no collection beside a start: `InitAll` takes no lease either, so a collection may have
  read the databases before the start listed a package in one of them.
* `Exclusive` (`Leased` and none of those two): on S3 nothing keeps another server from
  publishing between the capture and the rollback of an upload.
* `MaxFailures <= 1`: a restore that fails is logged and left, so a second failure inside a
  rollback leaves the new entry. `AckedStaysCorrect` does not need it, since what is
  left is never older than what was acknowledged.
* `Settled`: every architecture with a database is declared and uploads bring no new one;
  `pub_seed_retry` shows what a new one brings. `Fanned`: disagreement that was
  there before is not repaired by an upload of another package.
* `OneServer`: two processes may interleave the puts of derived objects, and a removal that is
  retried after an ambiguous put publishes the `.files` it fetched; both wait for `ReconcileDB`.
* `OneServer` in `OneServerLayers` (every process of a mirrored repository has the same home): the
  mutex around a merge is in the memory of one process (`src/ayato/repository/serialize.go:10`).
* `OneSync`: two overlapping syncs may store an older snapshot under newer validators.
  `OneKayo`: two processes read the same watermark and both pass (section 6 has both).

### The inductive invariants

None of the stated invariants but the types is inductive alone. What is added, and why:

* **MikoJobs** (`IndInv`): `WorkerHasJob`; `DoneIsSettled`, past its outcome a worker's job is
  terminal (without it, Release could leave an active job with nobody); `LogHasCloser`, which
  names the actor of `LogWillClose`; `RunningIsHeld`, the status running and the registered
  cancel function cover the same stretch of the same worker; `ArtifactIsKept`, only the
  sweep removes a directory and takes the record's claim first; `OkIsBuilt` and
  `SuccessEverywherePublished`, what a worker carries and what a late write will
  store agree with `published`. `RecInv`, for the files: a save is started under the lock and
  written after it, so two saves of a job could land in the wrong order. They do not, because
  only one actor may owe one at a time (`MayOwe`): the submission until the hand-over, then
  the worker that holds the job, at last whoever swept its artifacts; so every save under way
  has the record as it is now (`SavesAreCurrent`). `FreshIsClean` and `EvictedIsGone` keep a
  deletion from meeting a record, and `ReachesWorker` says why a job nobody cancels is never skipped.
* **RepoDB** (`IndInv`): per writer, where it is in the loop over the artifacts (`Placed`),
  which calls get where (`Routed`: a reconciler never publishes the canonical object),
  whether its put may have landed (`Honest`: `canonicalCommitted` is set in every later round
  of an ambiguous one, and nothing derived is written before), and that a workspace about to
  be put is the call's effect on the database its ETag names (`Prepared`); and `AppliedKept`, a landed
  add is there until a landed call touches it. From these a swap that succeeds is one
  atomic call on the current database: the refinement maps a landed put to `Apply`, a return
  to `End`, a crash to `Die` and everything else to a stutter. `FilesInv`, for one server:
  what the holder of the mutex read is what the store has (`Current`), its workspace is complete
  and what it has published comes from there (`Publishing`), and a mutation after no failure
  disturbs only what it touches (`Undisturbed`).
* **Publication**: `Shapes` (types, and what a call works through at each place: databases that
  exist, packages that belong there and have passed the gate). `Publishes` adds that what is
  listed is stored (`Served`), that a call has stored what it is about to list
  (`Backed`), who has the lease, and that a collection that may delete knows every reference
  to its directory (`Knows`). `Alone` adds what the one holder of the lease knows: up to its commit the
  databases have the entries it captured, after it the new ones, and in a rollback one or
  the other (`Progress`), and every target is dealt with (`Covers`). `AckedKept` holds
  acknowledged versions against the captured entries as well, because a rollback brings
  those back. `AgreesAtRest` speaks of the entry a database would have if the upload were
  rolled back (`Base`): the databases agree on those throughout, so they agree at rest
  whichever way the upload ends. `Removes` adds to `Publishes` what a removal knows between its
  steps (`Unlists`): which databases it has gone through, none of which lists its file again
  while nothing is uploaded. Entries may go under a collection's feet, so `Knows` says only
  that it knows no fewer references than there are.
* **WorkerKeys**: the lock is held by the one host that saves, and there is no worker key until
  it is done. **SigningKey**: fresh keys are fresh, and a command's copy extends the key it loaded
  (no subkey and no revocation forgotten), so the comparison with the revision is enough; a command
  about to sign had a usable subkey at the time of its check.
* **Migration**: what a job knows at each place, and that the expanded marker is true, of all packages
  but the late ones, before the binary that trusts it is shipped. **RateLimit**: no counter ever stored exceeds what was let through, and
  without overlap it is exact. **KVStore**: what a call saw, against the rows as they are now, for a
  version number that only grows.
* **Upstream**: who writes the merged database has the lock of its server and, if no other server was
  in its critical section meanwhile (`usAlone`), read what there is; what is served is the merge, or
  somebody is about to write it, or the last put clashed. **StagedUpload**: a handler's copies are the
  bytes it validated, whatever lands later; what was published of a version stays,
  so an acknowledged package is there, with the bytes of the client whose commit stored it. **Tiers**: what a promotion carries is no older than what its gate saw,
  and a tier is cleared only when one ahead of it lists the package.
* **ClientSession** (`CSInv`): who writes has the lock, and while a pair is half written the mode
  file is off (`Together`, `OnCourse` in `CellOK`); a spent refresh token in the keyring belongs to a process that
  is about to replace it and holds the refresh lock (`Replacing`), so a token about to be
  presented is unspent (`Presentable`); and a pair still to be stored is new to everybody
  (`NewPair`, `Unseen`, `Apart`). **JobStream** (`JSInv`): what a reader has is a prefix of the log that
  ends a line, the log only grows and its close is last, and a client that is handing on saw the
  job succeed. **UploadDoors** has no steps between states worth an invariant: the theorem
  follows from lemmas on the sums of sizes and on what each route keeps of a form.
* **KayoTrust**: what each process carries between its steps was reviewed, and an approval it
  is about to save names an account it saw. **KayoSource**: watermark, pin and served index of one process are
  ordered, and every catalog was read, no later than it was stamped, when its packages were there.
* **AuthSession** (`AuthInv`): of each one-time credential, who spends it and which marker says so
  (`AllSpentOnce`); the marker of a session outlives its tokens, and a request that began
  after the sign-out is not yet past the check that refuses it (`SignOutSound`, with what
  requests know of expiries in `Dated` and `Recent`); a device's pacing marker ends with its interval
  (`PollsPaced`); and who is about to remove an administrator has `adminMu` since it saw another one
  (`AdminKept`).
* **AurDeps** (`ADInv`): the repository and the host together are closed under needs of what is published, and in a job's order every package
  comes after what it needs or finds it in the repository. The order is a fix-point of the
  resolution; that nothing reachable is left out is shown by a least counterexample,
  which takes an induction over naturals in the form of a smallest element.
* **BuildSet** (`BSInv`): an output belongs to the run that renamed it there, and holds what that
  run built until its manifest is written (`OutputRight`, `RunRight`); a manifest is of a run that is done, and then
  lists its output, or of one that could not commit (`ManifestRight`); and what a run has built is
  a first part of its order, each base after its providers, with all it reaches along dependencies
  installed (`BuiltInOrder`). **BuildBackend** (`BKInv`): per
  call, which stamps its directory, output and signatures can have at each place, and which
  container and temporary files are still its own.

Every action preserves each part in a lemma of its own or one step of it. State that a
predicate reads is its parameter, so that a step which leaves those variables alone keeps
it by a frame lemma. The temporal theorems combine the steps with PTL. The combined
invariants of `Publication` were checked with TLC on `pub_lease`, with one and two failures,
before they were proved.

### Only model-checked

* Liveness: `EveryJobSettles`, `EveryCallReturns`, `EveryCallEnds`. Fairness and ENABLED are out of
  the prover's reach.
* `AlgorithmsHold` (in `DecisionsHold`), `LoopHolds`, `PlanHolds`: what a recursive definition
  computes for every input needs induction over data, and their modules reach the RECURSIVE
  operators of `Depend` and `CIPipeline`.
* `ConfigHolds` (in `DecisionsHold`): a pure decision over finitely many kinds of settings, which the
  run goes through; it selects from sequences with an operator as a parameter.
* The architectures an upload brings (`pub_s3`), and collections beside removals and uploads at
  once: outside the hypotheses above, since the code does not keep the properties there
  (`pub_remove_race`, `pub_seed_retry`).

## 5. Plan

The components of the plan are modelled, checked and, where the prover reaches, proved. What
would come next:

1. `Depend` without RECURSIVE operators (folds over the orders), so that `PlanHolds` and
   `LoopHolds` can be proved from what `SortIsLeastOrder` says of the sort.
2. The version watcher of miko and kayo's federation, as components of `MCTools` and `MCTrust`.

## 6. Where the code and its comments part

Two have a run (`PROJECT.json`, "findings"): `pub_remove_race`, `pub_seed_retry`. The
following also come out of the models, with the instance in brackets; where a property
is named, it is stated in the module and no run lists it, because the code does not keep
it.

miko

* `TerminalIsFinal` (`MikoJobs`): a job cancelled between the two critical sections of
  `process` is set back to running, built and published, although Cancel answered
  success (`src/miko/service/worker.go:50`; 1 job, 1 worker).
* A client-signed build that is cancelled after it succeeded leaves its output
  directory with no record that names it: `keepArtifacts` is decided before
  `isCancelled` (`src/miko/service/worker.go:59`; 1 job, 1 worker).
* The save of a job's last update may reach the disk after an eviction removed the
  file, and the job is back after a restart (`src/miko/service/jobstore.go:47`; 2 jobs).
* `FallbackIsWhole` (`JobStream`): a finished job's buffer is unregistered before its text is
  in the record; a reader in between is sent an empty log
  (`src/miko/service/service.go:206`; 1 reader).
* `BlockedJobPublishedNothing` (`AurDeps`): "a single untrusted transitive dep stops the run before
  anything is published" (`src/miko/service/aur_dependencies.go:52`) holds of one attempt; an earlier
  one that passed the gate, published and then failed on the network has published
  (`src/miko/service/worker.go:213`; 1 job, 1 retry).
* `TargetInstalls` (`AurDeps`): what the host of miko has installed is not built and not published,
  although the build environment may not have it (`src/miko/service/aur_source.go:18`; 1 job).
* A package that changes hands between the trust gate and its clone is built all the same
  (`src/miko/service/trustgate.go:27`).

ayato: databases and publication

* Two servers that add different packages, both answered nil, can leave `.files` without a
  file list: each rebuilds it from what it fetched (`src/ayato/repository/repodb_commit.go:111`;
  `FilesFollowDatabase` with 2 processes and no failure).
* A removal retried after its canonical put landed finds nothing to remove,
  publishes the fetched `.files` and signatures again and returns nil
  (`src/ayato/repository/repodb_mutation.go:109`; 1 failure). `repodb_server` has no
  removals for this reason.
* Without a lease, the rollback of one upload undoes what another one was told is
  published already (`src/ayato/service/upload_rollback.go:116`; 1 failure), and two
  builds of one version end in a conflict where the comment at
  `src/ayato/service/upload_state.go:124` promises a no-op.
* A new architecture is seeded with every archive under `any/`, superseded ones
  included, and the last file name wins (`src/ayato/service/upload_architecture.go:126`;
  versions listed as 10-1, 9-1).
* A failed listing of the stored architectures reads as none, so an `any` package is
  acknowledged and missing from an undeclared architecture
  (`src/ayato/service/upload_architecture.go:16`; 1 failure).
* A starting server seeds without the lease; a collection that runs meanwhile may
  delete what it registers (`src/ayato/service/service.go:210`).
* A promotion that moves removes whatever the source lists by then, a newer upload
  included (`src/ayato/service/tier.go:151`), and a promotion into a tier over a mirror does
  not rebuild the merged database (`src/ayato/service/tier.go:138`).
* `SyncedIsServed` (`Upstream`): when the rebuild fails after the validators were stored, the
  next syncs are told that nothing changed, report success and leave the old merged
  database (`src/ayato/repository/upstream.go:81`; 1 failure). Two overlapping syncs and a
  failed write leave an old snapshot under newer validators (`src/ayato/service/upstream.go:67`).
* `LocalStaysAnywhere` (`Upstream`): two servers on one bucket rebuild the merged database under
  mutexes of their own and put it without a compare-and-swap, so the older merge may land last and
  hide a local package that was served (`src/ayato/repository/upstream_storage.go:22`; 2 servers, no
  failure).
* A staged commit of a version that is there already succeeds and stores nothing, other bytes
  included (`src/ayato/service/upload_state.go:124`): by design, "the first stored artifact stays
  authoritative", and the reason why `AckedIsPublished` tells the two answers apart.
* Presign counts a signature as a package: `max_batch_packages = 1` refuses every signed
  staged upload that the batch route takes (`src/ayato/service/upload_staged.go:41`).

ayato: sessions and stores

* `PatientPollServed` (`AuthSession`): on a SQL store an expired pacing marker still blocks its
  own renewal, so a client that keeps the interval is told to slow down
  (`src/ayato/handler/device_token.go:28`; 1 device). In badger it does not
  (`BadgerPollServed`), but there markers end up to a second before the tokens they
  forbid, so `SingleUse` and `SignedOutIsRefused` are stated for SQL.
* `ResidualBounded` (`RateLimit`): a slow writer sets the counter back, and more than the
  requests in flight pass (`src/ayato/middleware/store_limiter.go:98`; 2 replicas).
* `LiveTrafficSafe` (`Migration`): a package that the pool binary stores after the expand listed the
  pointers is never copied, the expanded marker is set all the same, and the new binary cannot read
  it, against "safe under live traffic" (`src/ayato/migrate/m001_unpool.go:26`; 1 upload).
* Workers KV may answer with what was overwritten or deleted (`src/ayato/repository/kv/cfkv/cfkv.go:3`
  says so): a listing may miss a fresh key, and the limiter may let more pass than its limit.
* `ContractAdvances` (`Migration`): a contract stopped between its marker and the layout
  version is told at the next run that it is done, and the version stays
  (`src/ayato/migrate/migrate.go:109`; 1 interruption).

kayo and ayaka

* `RevokedWithinMaxAge` (`KayoSource`): ayato stamps a catalog after it has read it, so one that lists a
  package removed in between is issued after the removal and vouches for it longer than MaxAge
  (`src/ayato/service/aur/service.go:76`, `sign.go:62`; 1 catalog under way).
* `PrimaryNeverSigns` (`SigningKey`): the key is selected for the check and again for the signature; if
  the subkey expires in between the primary signs, which the check is there to refuse
  (`src/internal/pacman/sign/signingkey.go:343`, `detached.go:24`; 1 tick).
* `LastGoodSurvives` (`KayoSource`): a restarted kayo meets the very catalog it served, whose time equals its watermark, and
  serves nothing of it until a new one is issued (`src/kayo/ayatosrc/verify.go:72`). With
  two processes on one pin file the watermark can go back
  (`src/kayo/ayatosrc/pinstore.go:74`); `KayoSource` is checked with one.
* The account is looked up after the clone, so an adoption between the two vouches for an
  account whose commit nobody reviewed (`src/kayo/service/resolve.go:60`). Two commands
  write the whole trust file, and a review can undo a removal (`src/kayo/trust/store.go:206`).
* `EmptyPlanIsFreshVCS` (`CIPipeline`): a VCS package cascaded for a make dependency keeps its
  pkgver, so if its build fails after the dependency was published, no later plan has it
  (`src/ayaka/service/plan/plan.go:86`; 1 failure).
* `safefile.Replace` may fail after its rename: the manifest is there and the output it
  describes is withdrawn (`src/internal/filesystem/safefile/atomic.go:67`).

## 7. Not modelled

Request decoding, routing and configuration (no state of their own); what makepkg, the
container daemon, OpenPGP, git and archives do inside (external processes and formats,
present through their outcomes); static analysis of recipes in kayo (its verdict is an
input); the search of kayo's federation (read-only); thoma's choice between makepkg and a
remote build; the loopback listener of the browser sign-in; bug reports; the web interface;
deployment files; parsers of ALPM metadata. `PROJECT.json` lists every component with its
status and reason.
