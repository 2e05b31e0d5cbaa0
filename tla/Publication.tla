----------------------------- MODULE Publication -----------------------------
(***************************************************************************)
(* Publishing packages into one repository of ayato (ayato/service):       *)
(* UploadFiles with its rollback, the seeding of architectures by InitAll, *)
(* RemovePkg and ReconcileOrphans.                                         *)
(*                                                                         *)
(* Package objects lie under the architecture of the package, or once      *)
(* under "any"; a package of architecture any is registered in the         *)
(* database of every concrete architecture.  An upload touches one         *)
(* database per architecture, and nothing makes them change together: a    *)
(* failure is compensated by putting the old entries back.                 *)
(*                                                                         *)
(* A call on one database is atomic and answers as RepoDBAbstract says:    *)
(* nil, an error that changed nothing, or an error marked as possibly      *)
(* committed.  StoreFileImmutable retries a compare-and-swap, so it is     *)
(* one step.  A package object stands for itself and its signature.        *)
(* Architectures are visited in no particular order.  The name index is    *)
(* never read to serve a package; only that writing it may fail is kept.   *)
(***************************************************************************)
EXTENDS Integers, Sequences, FiniteSets

CONSTANTS
    Arches,       \* the concrete architectures
    Declared,     \* the ones the configuration declares
    NewlyDeclared, \* the ones the configuration of a starting server declares
    AllowNewArch, \* allow_new_arch
    Names, Versions,
    Listing,      \* the versions in the order of their file names
    Builds,       \* the different bytes one package version may have
    Uploads,      \* the calls of UploadFiles
    Batches,      \* what a call may upload
    Starts,       \* the calls of InitAll
    Removals,     \* the calls of RemovePkg
    Requests,     \* what they may ask for
    Collections,  \* the calls of ReconcileOrphans
    Published,    \* the databases a behaviour may start from
    Leased,       \* the store has LockPublication (localfs), or not (S3)
    MaxFailures,  \* failed calls explored (bound)
    MaxCrashes    \* crashes explored (bound)

Stores == Arches \cup {"any"}
Package == [name : Names, store : Stores, ver : Versions, build : Builds]
Entry == [store : Stores, ver : Versions, build : Builds]
NoEntry == [store |-> "none", ver |-> 0, build |-> 0]
Database == [Names -> Entry \cup {NoEntry}]
NoPackage == [n \in Names |-> NoEntry]

\* A repository that declares no architecture at all is left out.  A database lists
\* the packages of its own architecture and of any, and two databases that list one
\* file describe the same bytes.
ASSUME PublicationAssumption ==
    /\ Arches \cap {"any", "none"} = {}
    /\ Declared \subseteq Arches /\ Declared # {} /\ AllowNewArch \in BOOLEAN
    /\ NewlyDeclared \subseteq Arches
    /\ Versions \subseteq Nat \ {0} /\ Builds \subseteq Nat \ {0}
    /\ Listing \in Seq(Versions) /\ \A v \in Versions : \E k \in DOMAIN Listing : Listing[k] = v
    /\ Batches \subseteq Seq(Package)
    /\ Uploads \cap Starts = {} /\ Collections \cap (Uploads \cup Starts) = {}
    /\ "free" \notin Uploads \cup Collections
    /\ Requests \subseteq [name : Names, arch : Stores]
    /\ \A s \in Published :
          /\ s.db \in [Arches -> Database]
          /\ Declared \cup {a \in Arches : s.db[a] # NoPackage} \subseteq s.stored /\ s.stored \subseteq Arches
          /\ \A a \in Arches, n \in Names :
                /\ s.db[a][n].store \in {a, "any", "none"}
                /\ \A b \in Arches : s.db[a][n].store = s.db[b][n].store /\ s.db[a][n].ver = s.db[b][n].ver
                                    => s.db[a][n] = s.db[b][n]
    /\ Leased \in BOOLEAN
    /\ MaxFailures \in Nat /\ MaxCrashes \in Nat

VARIABLES
    db,        \* the database of each architecture
    stored,    \* the architectures that have a database
    obj,       \* the package objects
    lease,     \* who holds .publication.lock
    up, rm, gc, \* progress of the calls
    failures, crashes

vars == <<db, stored, obj, lease, up, rm, gc, failures, crashes>>

(***************************************************************************)
(* Objects.  old: it was last written before the cutoff of a collection.   *)
(***************************************************************************)
File == Names \X Stores \X Versions
Object == [build : Builds, old : BOOLEAN]
NoObject == [build |-> 0, old |-> FALSE]

FileOf(n, e) == <<n, e.store, e.ver>>
SameFile(e, f) == e.store = f.store /\ e.ver = f.ver
EntryOf(p) == [store |-> p.store, ver |-> p.ver, build |-> p.build]
Lists(a, f) == db[a][f[1]] # NoEntry /\ FileOf(f[1], db[a][f[1]]) = f

RepoArches == Declared \cup stored

\* Deviation: an object is stored whatever is there.
StorableAlways(f, build) == TRUE

\* StoreFileImmutable creates an object or renews a byte-identical one.
Storable(f, build) == obj[f].build \in {0, build}

StoreImmutable(f, build) == obj' = [obj EXCEPT ![f] = [build |-> build, old |-> FALSE]]

(***************************************************************************)
(* Calls.  todo is what the present loop has left: pairs of an item of the *)
(* batch (0 where a loop is over architectures only) and an architecture;  *)
(* at is its present element.                                              *)
(***************************************************************************)
Ended == {"ok", "failed", "conflict", "crashed"}
UploadPCs == {"idle", "accept", "seed", "init", "list", "fill", "resolve", "store", "commit",
              "names", "undo", "undoadd"} \cup Ended

Items(u) == DOMAIN up[u].batch
Pkg(u, i) == up[u].batch[i]
Current(a, p) == db[a][p.name]

Idle(b) ==
    [pc |-> "idle", batch |-> b, todo |-> {}, at |-> <<>>, existed |-> FALSE,
     fill |-> NoPackage,                                          \* what backfillAnyInto adds
     into |-> [i \in DOMAIN b |-> {}],                            \* dbArches
     old |-> [i \in DOMAIN b |-> [a \in Arches |-> NoEntry]],     \* oldByArch, oldArtifacts
     committed |-> {}, err |-> "ok"]

\* The repository is at rest: its objects are the ones its databases list.
Init ==
    /\ \E s \in Published : db = s.db /\ stored = s.stored
    /\ obj = [f \in File |-> IF \E a \in Arches : Lists(a, f)
                             THEN [build |-> db[CHOOSE a \in Arches : Lists(a, f)][f[1]].build, old |-> TRUE]
                             ELSE NoObject]
    /\ lease = "free"
    /\ \E b \in [Uploads -> Batches] :
          up = [u \in Uploads \cup Starts |-> Idle(IF u \in Uploads THEN b[u] ELSE <<>>)]
    /\ \E q \in [Removals -> Requests] :
          rm = [r \in Removals |-> [pc |-> "idle", req |-> q[r], file |-> <<>>, todo |-> {}, known |-> {}]]
    /\ gc = [g \in Collections |-> [pc |-> "idle", todo |-> {}, dir |-> "none", refs |-> {}, any |-> {}]]
    /\ failures = 0 /\ crashes = 0

Failing == failures < MaxFailures /\ failures' = failures + 1

Free == ~Leased \/ lease = "free"
Take(c) == lease' = IF Leased THEN c ELSE lease

\* Deviation: the lease is not given back.
Keep(c) == lease' = lease

Release(c) == lease' = IF lease = c THEN "free" ELSE lease

(***************************************************************************)
(* UploadFiles and InitAll.                                                *)
(***************************************************************************)
End(u, result) ==
    /\ up' = [up EXCEPT ![u] = [Idle(up[u].batch) EXCEPT !.pc = result]]
    /\ Release(u)

\* Deviation: the lease is not waited for.
AcquireNow(u) ==
    /\ u \in Uploads /\ up[u].pc = "idle"
    /\ up' = [up EXCEPT ![u].pc = "accept"]
    /\ UNCHANGED <<db, stored, obj, lease, rm, gc, failures, crashes>>

\* run: validateInputs has accepted the batch; acquirePublicationLease.
Acquire(u) ==
    /\ u \in Uploads /\ up[u].pc = "idle" /\ Free
    /\ Take(u)
    /\ up' = [up EXCEPT ![u].pc = "accept"]
    /\ UNCHANGED <<db, stored, obj, rm, gc, failures, crashes>>

\* initRepo of a starting server takes no lease.
StartServer(u) ==
    /\ u \in Starts /\ up[u].pc = "idle"
    /\ up' = [up EXCEPT ![u].pc = "seed", ![u].todo = {0} \X (NewlyDeclared \cup stored)]
    /\ UNCHANGED <<db, stored, obj, lease, rm, gc, failures, crashes>>

\* Deviation: any is not skipped.
EveryStore(u) == {Pkg(u, i).store : i \in Items(u)}

\* archAccepted for every concrete package, then the listing of seedNewArches.
\* storedArches answers nothing when the listing fails.
Concrete(u) == {Pkg(u, i).store : i \in Items(u)} \ {"any"}

AcceptFrom(u, listed) ==
    /\ up[u].pc = "accept"
    /\ IF AllowNewArch \/ Concrete(u) \subseteq Declared \cup listed
       THEN /\ up' = [up EXCEPT ![u].pc = "seed",
                        ![u].todo = IF AllowNewArch THEN {0} \X (Concrete(u) \ listed) ELSE {}]
            /\ UNCHANGED lease
       ELSE End(u, "failed")

Accept(u) ==
    /\ \/ AcceptFrom(u, stored) /\ UNCHANGED failures
       \/ AcceptFrom(u, {}) /\ Failing
    /\ UNCHANGED <<db, stored, obj, rm, gc, crashes>>

\* ensureArchSeeded: was the architecture there?
Probe(u) ==
    /\ up[u].pc = "seed"
    /\ \E t \in up[u].todo :
          \/ /\ up' = [up EXCEPT ![u].pc = "init", ![u].at = t, ![u].existed = t[2] \in stored]
             /\ UNCHANGED failures
          \/ /\ up' = [up EXCEPT ![u].pc = "init", ![u].at = t, ![u].existed = FALSE]
             /\ Failing
    /\ UNCHANGED <<db, stored, obj, lease, rm, gc, crashes>>

\* InitArch and BackfillSignatures.
InitArch(u) ==
    /\ up[u].pc = "init"
    /\ stored' = stored \cup {up[u].at[2]}
    /\ up' = [up EXCEPT ![u].pc = IF up[u].existed THEN "seed" ELSE "list",
                        ![u].todo = @ \ {up[u].at},
                        ![u].at = IF up[u].existed THEN <<>> ELSE @,
                        ![u].existed = FALSE]
    /\ UNCHANGED <<db, obj, lease, rm, gc, failures, crashes>>

\* backfillAnyInto takes every archive that lies under any/, in the order of the
\* listing; of several versions of a package the last one stays in the database.
LastListed(n) ==
    LET ks == {k \in DOMAIN Listing : obj[<<n, "any", Listing[k]>>].build # 0}
        last == CHOOSE k \in ks : \A j \in ks : j <= k
    IN IF ks = {} THEN NoEntry
       ELSE [store |-> "any", ver |-> Listing[last], build |-> obj[<<n, "any", Listing[last]>>].build]

ListAny(u) ==
    /\ up[u].pc = "list"
    /\ up' = [up EXCEPT ![u].pc = "fill", ![u].fill = [n \in Names |-> LastListed(n)]]
    /\ UNCHANGED <<db, stored, obj, lease, rm, gc, failures, crashes>>

Filled(u) == [n \in Names |-> IF up[u].fill[n] = NoEntry THEN db[up[u].at[2]][n] ELSE up[u].fill[n]]

Backfill(u) ==
    /\ up[u].pc = "fill"
    /\ db' = [db EXCEPT ![up[u].at[2]] = Filled(u)]
    /\ up' = [up EXCEPT ![u].pc = "seed", ![u].at = <<>>, ![u].fill = NoPackage]
    /\ UNCHANGED <<stored, obj, lease, rm, gc, failures, crashes>>

\* targetArches of every package, and the test for a package that comes twice.
Targets(p, arches) == IF p.store = "any" THEN arches ELSE {p.store}

SeededFrom(u, arches) ==
    LET targets == {t \in Items(u) \X Arches : t[2] \in Targets(Pkg(u, t[1]), arches)}
    IN /\ up[u].pc = "seed" /\ up[u].todo = {}
       /\ IF \E s, t \in targets : s # t /\ s[2] = t[2] /\ Pkg(u, s[1]).name = Pkg(u, t[1]).name
          THEN End(u, "failed")
          ELSE /\ up' = [up EXCEPT ![u].pc = "resolve", ![u].todo = targets]
               /\ UNCHANGED lease

Seeded(u) ==
    /\ IF u \in Starts
       THEN up[u].pc = "seed" /\ up[u].todo = {} /\ End(u, "ok") /\ UNCHANGED failures
       ELSE \/ SeededFrom(u, RepoArches) /\ UNCHANGED failures
            \/ SeededFrom(u, Declared) /\ Failing
    /\ UNCHANGED <<db, stored, obj, rm, gc, crashes>>

\* resolveUploadState: the version gate, one database after the other.
Resolve(u) ==
    /\ up[u].pc = "resolve"
    /\ \E t \in up[u].todo :
          LET p == Pkg(u, t[1])
              e == Current(t[2], p)
          IN \/ /\ e.ver > p.ver
                /\ End(u, "failed")
             \/ /\ e.ver = p.ver
                /\ up' = [up EXCEPT ![u].todo = @ \ {t}]
                /\ UNCHANGED lease
             \/ /\ e.ver < p.ver
                /\ up' = [up EXCEPT ![u].todo = @ \ {t},
                                    ![u].into[t[1]] = @ \cup {t[2]},
                                    ![u].old[t[1]][t[2]] = e]
                /\ UNCHANGED lease
    /\ UNCHANGED <<db, stored, obj, rm, gc, failures, crashes>>

\* capture: the replaced packages are copied, or the upload ends.
Replaced(u) == {t \in Items(u) \X Arches : up[u].old[t[1]][t[2]] # NoEntry}
OldFile(u, t) == FileOf(Pkg(u, t[1]).name, up[u].old[t[1]][t[2]])
Into(u) == {t \in Items(u) \X Arches : t[2] \in up[u].into[t[1]]}

Capture(u) ==
    /\ u \in Uploads /\ up[u].pc = "resolve" /\ up[u].todo = {}
    /\ IF \A t \in Replaced(u) : obj[OldFile(u, t)].build # 0
       THEN /\ up' = [up EXCEPT ![u].pc = "store", ![u].todo = Into(u),
                        ![u].old = [i \in Items(u) |-> [a \in Arches |->
                           IF <<i, a>> \in Replaced(u)
                           THEN [@[i][a] EXCEPT !.build = obj[OldFile(u, <<i, a>>)].build]
                           ELSE NoEntry]]]
            /\ UNCHANGED lease
       ELSE End(u, "failed")
    /\ UNCHANGED <<db, stored, obj, rm, gc, failures, crashes>>

\* An error after capture: rollback.run puts back the architectures it takes for
\* committed.
RollBack(u, err, arches) ==
    /\ up' = [up EXCEPT ![u].pc = "undo", ![u].err = err, ![u].committed = arches,
                        ![u].todo = {t \in Into(u) : t[2] \in arches}]
    /\ UNCHANGED lease

\* storeObjects: the objects of the packages that go into some database.
StoreObject(u) ==
    /\ up[u].pc = "store"
    /\ \E t \in up[u].todo :
          LET p == Pkg(u, t[1])
          IN IF Storable(FileOf(p.name, p), p.build)
             THEN /\ StoreImmutable(FileOf(p.name, p), p.build)
                  /\ up' = [up EXCEPT ![u].todo = {s \in @ : s[1] # t[1]}]
                  /\ UNCHANGED lease
             ELSE RollBack(u, "conflict", {}) /\ UNCHANGED obj
    /\ UNCHANGED <<db, stored, rm, gc, failures, crashes>>

Stored(u) ==
    /\ up[u].pc = "store" /\ up[u].todo = {}
    /\ up' = [up EXCEPT ![u].pc = "commit", ![u].todo = {0} \X {t[2] : t \in Into(u)}]
    /\ UNCHANGED <<db, stored, obj, lease, rm, gc, failures, crashes>>

\* commitDatabases: RepoAddBatch with the expectations of repoAddItem.
Batch(u, a) == {i \in Items(u) : a \in up[u].into[i]}

Expected(u, a) ==
    \A i \in Batch(u, a) :
        LET e == Current(a, Pkg(u, i))
        IN SameFile(e, Pkg(u, i)) \/ SameFile(e, up[u].old[i][a])

Added(u, a) ==
    [n \in Names |-> IF \E i \in Batch(u, a) : Pkg(u, i).name = n
                     THEN EntryOf(Pkg(u, CHOOSE i \in Batch(u, a) : Pkg(u, i).name = n))
                     ELSE db[a][n]]

\* Deviation: the batch is added whatever the database holds by now.
CommitBlindly(u) ==
    /\ up[u].pc = "commit"
    /\ \E t \in up[u].todo :
          /\ db' = [db EXCEPT ![t[2]] = Added(u, t[2])]
          /\ up' = [up EXCEPT ![u].todo = @ \ {t}, ![u].committed = @ \cup {t[2]}]
    /\ UNCHANGED <<stored, obj, lease, rm, gc, failures, crashes>>

Commit(u) ==
    /\ up[u].pc = "commit"
    /\ \E t \in up[u].todo :
          IF Expected(u, t[2])
          THEN /\ db' = [db EXCEPT ![t[2]] = Added(u, t[2])]
               /\ up' = [up EXCEPT ![u].todo = @ \ {t}, ![u].committed = @ \cup {t[2]}]
               /\ UNCHANGED lease
          ELSE RollBack(u, "conflict", up[u].committed) /\ UNCHANGED db
    /\ UNCHANGED <<stored, obj, rm, gc, failures, crashes>>

\* Deviation: a marked error is taken for one that changed nothing.
CommitFailsUnmarked(u) ==
    /\ up[u].pc = "commit"
    /\ Failing
    /\ \E t \in up[u].todo :
          /\ RollBack(u, "failed", up[u].committed)
          /\ \/ UNCHANGED db
             \/ Expected(u, t[2]) /\ db' = [db EXCEPT ![t[2]] = Added(u, t[2])]
    /\ UNCHANGED <<stored, obj, rm, gc, crashes>>

\* A marked error counts as committed, whether the commit happened or not.
CommitFails(u) ==
    /\ up[u].pc = "commit"
    /\ Failing
    /\ \E t \in up[u].todo :
          \/ /\ RollBack(u, "failed", up[u].committed)
             /\ UNCHANGED db
          \/ /\ RollBack(u, "failed", up[u].committed \cup {t[2]})
             /\ \/ UNCHANGED db
                \/ Expected(u, t[2]) /\ db' = [db EXCEPT ![t[2]] = Added(u, t[2])]
    /\ UNCHANGED <<stored, obj, rm, gc, crashes>>

Committed(u) ==
    /\ up[u].pc = "commit" /\ up[u].todo = {}
    /\ up' = [up EXCEPT ![u].pc = "names"]
    /\ UNCHANGED <<db, stored, obj, lease, rm, gc, failures, crashes>>

\* storePackageNames, after which the upload is acknowledged or undone.
StoreNames(u) ==
    /\ up[u].pc = "names"
    /\ \/ End(u, "ok") /\ UNCHANGED failures
       \/ Into(u) # {} /\ Failing /\ RollBack(u, "failed", up[u].committed)
    /\ UNCHANGED <<db, stored, obj, rm, gc, crashes>>

\* A read, a listing or a write fails.  Before capture has ended nothing is undone.
\* A failed InitArch or backfill may have had its effect.
UploadFails(u) ==
    /\ up[u].pc \in {"init", "list", "fill", "resolve", "store"}
    /\ Failing
    /\ IF up[u].pc = "store" THEN up[u].todo # {} /\ RollBack(u, "failed", {}) ELSE End(u, "failed")
    /\ stored' \in {stored} \cup (IF up[u].pc = "init" THEN {stored \cup {up[u].at[2]}} ELSE {})
    /\ db' \in {db} \cup (IF up[u].pc = "fill" THEN {[db EXCEPT ![up[u].at[2]] = Filled(u)]} ELSE {})
    /\ UNCHANGED <<obj, rm, gc, crashes>>

(***************************************************************************)
(* publicationRollback.run: restorePackage for every package of every      *)
(* committed architecture.  A restore that fails is logged and left.       *)
(***************************************************************************)
\* The package was not there before: RepoRemoveIfMatch.
UndoNew(u) ==
    /\ up[u].pc = "undo"
    /\ \E t \in up[u].todo :
          LET p == Pkg(u, t[1])
          IN /\ up[u].old[t[1]][t[2]] = NoEntry
             /\ db' = IF SameFile(Current(t[2], p), p)
                      THEN [db EXCEPT ![t[2]][p.name] = NoEntry] ELSE db
             /\ up' = [up EXCEPT ![u].todo = @ \ {t}]
    /\ UNCHANGED <<stored, obj, lease, rm, gc, failures, crashes>>

\* It replaced one: the old object first, ...
UndoStore(u) ==
    /\ up[u].pc = "undo"
    /\ \E t \in up[u].todo :
          LET old == up[u].old[t[1]][t[2]]
              f == OldFile(u, t)
          IN /\ old # NoEntry
             /\ IF Storable(f, old.build)
                THEN /\ StoreImmutable(f, old.build)
                     /\ up' = [up EXCEPT ![u].pc = "undoadd", ![u].at = t]
                ELSE /\ up' = [up EXCEPT ![u].todo = @ \ {t}]
                     /\ UNCHANGED obj
    /\ UNCHANGED <<db, stored, lease, rm, gc, failures, crashes>>

\* ... then RepoAddBatch, if the database still has the new one.
UndoAdd(u) ==
    LET t == up[u].at
        p == Pkg(u, t[1])
    IN /\ up[u].pc = "undoadd"
       /\ db' = IF SameFile(Current(t[2], p), p)
                THEN [db EXCEPT ![t[2]][p.name] = up[u].old[t[1]][t[2]]] ELSE db
       /\ up' = [up EXCEPT ![u].pc = "undo", ![u].todo = @ \ {t}, ![u].at = <<>>]
       /\ UNCHANGED <<stored, obj, lease, rm, gc, failures, crashes>>

UndoFails(u) ==
    /\ up[u].pc \in {"undo", "undoadd"}
    /\ Failing
    /\ \E t \in IF up[u].pc = "undo" THEN up[u].todo ELSE {up[u].at} :
          up' = [up EXCEPT ![u].pc = "undo", ![u].todo = @ \ {t}, ![u].at = <<>>]
    /\ UNCHANGED <<db, stored, obj, lease, rm, gc, crashes>>

Undone(u) ==
    /\ up[u].pc = "undo" /\ up[u].todo = {}
    /\ End(u, up[u].err)
    /\ UNCHANGED <<db, stored, obj, rm, gc, failures, crashes>>

UploadStep(u) ==
    \/ StartServer(u) \/ Accept(u) \/ Probe(u) \/ InitArch(u) \/ ListAny(u) \/ Backfill(u) \/ Seeded(u)
    \/ Resolve(u) \/ Capture(u) \/ StoreObject(u) \/ Stored(u) \/ Commit(u) \/ CommitFails(u)
    \/ Committed(u) \/ StoreNames(u) \/ UploadFails(u)
    \/ UndoNew(u) \/ UndoStore(u) \/ UndoAdd(u) \/ UndoFails(u) \/ Undone(u)

\* The process dies; the file lock goes with it.
CrashUpload(u) ==
    /\ up[u].pc \notin {"idle"} \cup Ended
    /\ crashes < MaxCrashes /\ crashes' = crashes + 1
    /\ End(u, "crashed")
    /\ UNCHANGED <<db, stored, obj, rm, gc, failures>>

(***************************************************************************)
(* RemovePkg.  It takes no lease.                                          *)
(***************************************************************************)
EndRemoval(r, result) == rm' = [rm EXCEPT ![r].pc = result, ![r].file = <<>>, ![r].todo = {}, ![r].known = {}]

\* resolvePackage among the databases it could read, the requested architecture
\* first, then which databases to change.
RmResolveAmong(r, arches) ==
    LET q == rm[r].req
        first == {q.arch} \cap arches
        listing(as) == {a \in as : db[a][q.name] # NoEntry}
        found == IF listing(first) # {} THEN first ELSE listing(RepoArches \cap arches)
    IN /\ rm[r].pc = "idle"
       /\ \/ found = {} /\ EndRemoval(r, "failed")
          \/ \E a \in found :
                LET store == db[a][q.name].store
                IN IF store \notin {"any", q.arch} /\ q.arch # "any"
                   THEN EndRemoval(r, "failed")
                   ELSE rm' = [rm EXCEPT ![r].pc = "db", ![r].file = FileOf(q.name, db[a][q.name]), ![r].known = RepoArches,
                                 ![r].todo = IF store # "any" THEN {store}
                                             ELSE IF q.arch = "any" THEN RepoArches ELSE {q.arch}]

RmResolve(r) ==
    /\ \/ RmResolveAmong(r, Arches) /\ UNCHANGED failures
       \/ Failing /\ \E a \in RepoArches : RmResolveAmong(r, Arches \ {a})
    /\ UNCHANGED <<db, stored, obj, lease, up, gc, crashes>>

OneArch(r) == rm[r].file[2] = "any" /\ rm[r].req.arch # "any"

\* RepoRemove: a package that is not there is no error, a missing database is one.
RmDB(r) ==
    /\ rm[r].pc = "db"
    /\ \E a \in rm[r].todo :
          IF a \in stored
          THEN /\ db' = [db EXCEPT ![a][rm[r].req.name] = NoEntry]
               /\ rm' = [rm EXCEPT ![r].todo = @ \ {a},
                           ![r].pc = IF rm[r].todo # {a} THEN "db"
                                     ELSE IF OneArch(r) THEN "check" ELSE "delete"]
          ELSE EndRemoval(r, "failed") /\ UNCHANGED db
    /\ UNCHANGED <<stored, obj, lease, up, gc, failures, crashes>>

\* Deviation: the shared file is not kept for the other architectures.
RmCheckNothing(r) ==
    /\ rm[r].pc = "check"
    /\ rm' = [rm EXCEPT ![r].pc = "delete"]
    /\ UNCHANGED <<db, stored, obj, lease, up, gc, failures, crashes>>

\* stillRegistered.
RmCheck(r) ==
    /\ rm[r].pc = "check"
    /\ IF \E a \in rm[r].known \ {rm[r].req.arch} : db[a][rm[r].req.name] # NoEntry
       THEN EndRemoval(r, "ok")
       ELSE rm' = [rm EXCEPT ![r].pc = "delete"]
    /\ UNCHANGED <<db, stored, obj, lease, up, gc, failures, crashes>>

\* DeleteFile: a missing file is an error of localfs, not of S3.
RmDelete(r) ==
    /\ rm[r].pc = "delete"
    /\ obj' = [obj EXCEPT ![rm[r].file] = NoObject]
    /\ EndRemoval(r, IF obj[rm[r].file] = NoObject /\ Leased THEN "failed" ELSE "ok")
    /\ UNCHANGED <<db, stored, lease, up, gc, failures, crashes>>

\* A read or a write fails, or the process dies.  The failed write may have had its
\* effect.
RmStops(r) ==
    /\ rm[r].pc \in {"db", "check", "delete"}
    /\ \/ EndRemoval(r, "failed") /\ Failing /\ UNCHANGED crashes
       \/ EndRemoval(r, "crashed") /\ crashes < MaxCrashes /\ crashes' = crashes + 1 /\ UNCHANGED failures
    /\ db' \in {db} \cup (IF rm[r].pc = "db" THEN {[db EXCEPT ![a][rm[r].req.name] = NoEntry] : a \in rm[r].todo}
                          ELSE {})
    /\ obj' \in {obj} \cup (IF rm[r].pc = "delete" THEN {[obj EXCEPT ![rm[r].file] = NoObject]} ELSE {})
    /\ UNCHANGED <<stored, lease, up, gc>>

RemovalStep(r) == RmResolve(r) \/ RmDB(r) \/ RmCheck(r) \/ RmDelete(r)

(***************************************************************************)
(* ReconcileOrphans, deleting.  S3 has no conditional delete: there it     *)
(* only reports.                                                           *)
(***************************************************************************)
Collecting == \E g \in Collections : gc[g].pc \notin {"idle"} \cup Ended

\* Time passes: what is stored now is old for the next collection.
Age ==
    /\ Collections # {} /\ ~Collecting
    /\ obj' = [f \in File |-> IF obj[f] = NoObject THEN NoObject ELSE [obj[f] EXCEPT !.old = TRUE]]
    /\ UNCHANGED <<db, stored, lease, up, rm, gc, failures, crashes>>

GCBegin(g) ==
    /\ gc[g].pc = "idle" /\ Free
    /\ Take(g)
    /\ gc' = [gc EXCEPT ![g].pc = "read", ![g].todo = stored]
    /\ UNCHANGED <<db, stored, obj, up, rm, failures, crashes>>

\* referencedObjects of one architecture.
Referenced(a) == {FileOf(n, db[a][n]) : n \in {m \in Names : db[a][m] # NoEntry}}

\* Deviation: any/ is compared with the last database only.
GCReadLast(g) ==
    /\ gc[g].pc = "read"
    /\ \/ \E a \in gc[g].todo :
             gc' = [gc EXCEPT ![g].pc = "sweep", ![g].dir = a, ![g].todo = @ \ {a}, ![g].refs = Referenced(a),
                              ![g].any = {f \in Referenced(a) : f[2] = "any"}]
       \/ /\ gc[g].todo = {}
          /\ gc' = [gc EXCEPT ![g].pc = "sweep", ![g].dir = "any", ![g].refs = gc[g].any]
    /\ UNCHANGED <<db, stored, obj, lease, up, rm, failures, crashes>>

GCRead(g) ==
    /\ gc[g].pc = "read"
    /\ \/ \E a \in gc[g].todo :
             gc' = [gc EXCEPT ![g].pc = "sweep", ![g].dir = a, ![g].todo = @ \ {a}, ![g].refs = Referenced(a),
                              ![g].any = @ \cup {f \in Referenced(a) : f[2] = "any"}]
       \/ /\ gc[g].todo = {}
          /\ gc' = [gc EXCEPT ![g].pc = "sweep", ![g].dir = "any", ![g].refs = gc[g].any]
    /\ UNCHANGED <<db, stored, obj, lease, up, rm, failures, crashes>>

EndCollection(g, result) ==
    /\ gc' = [gc EXCEPT ![g] = [pc |-> result, todo |-> {}, dir |-> "none", refs |-> {}, any |-> {}]]
    /\ Release(g)

\* reconcileDir and DeleteFileIfUnchanged; a delete that fails is passed over.
Orphans(g) == {f \in File : f[2] = gc[g].dir /\ obj[f].old /\ f \notin gc[g].refs}

GCSweep(g) ==
    /\ gc[g].pc = "sweep"
    /\ \E gone \in IF Leased THEN SUBSET Orphans(g) ELSE {{}} :
          obj' = [f \in File |-> IF f \in gone THEN NoObject ELSE obj[f]]
    /\ IF gc[g].dir = "any"
       THEN EndCollection(g, "ok")
       ELSE gc' = [gc EXCEPT ![g].pc = "read", ![g].refs = {}, ![g].dir = "none"] /\ UNCHANGED lease
    /\ UNCHANGED <<db, stored, up, rm, failures, crashes>>

GCStops(g) ==
    /\ gc[g].pc \in {"read", "sweep"}
    /\ \/ EndCollection(g, "failed") /\ Failing /\ UNCHANGED crashes
       \/ EndCollection(g, "crashed") /\ crashes < MaxCrashes /\ crashes' = crashes + 1 /\ UNCHANGED failures
    /\ UNCHANGED <<db, stored, obj, up, rm>>

CollectionStep(g) == GCRead(g) \/ GCSweep(g)

(***************************************************************************)
(* The specification.                                                      *)
(***************************************************************************)
Next ==
    \/ \E u \in Uploads \cup Starts : Acquire(u) \/ UploadStep(u) \/ CrashUpload(u)
    \/ \E r \in Removals : RemovalStep(r) \/ RmStops(r)
    \/ \E g \in Collections : GCBegin(g) \/ CollectionStep(g) \/ GCStops(g)
    \/ Age

\* A call that has begun goes on, and the lease is given to one that waits.
Fairness ==
    /\ \A u \in Uploads \cup Starts : WF_vars(UploadStep(u)) /\ SF_vars(Acquire(u))
    /\ \A r \in Removals : WF_vars(RemovalStep(r))
    /\ \A g \in Collections : WF_vars(CollectionStep(g)) /\ SF_vars(GCBegin(g))

Spec == Init /\ [][Next]_vars /\ Fairness

(***************************************************************************)
(* Properties.                                                             *)
(***************************************************************************)
TypeOK ==
    /\ db \in [Arches -> Database] /\ stored \subseteq Arches
    /\ obj \in [File -> Object \cup {NoObject}]
    /\ lease \in {"free"} \cup Uploads \cup Collections
    /\ \A u \in Uploads \cup Starts :
          /\ up[u].pc \in UploadPCs /\ up[u].err \in Ended /\ up[u].existed \in BOOLEAN
          /\ up[u].todo \subseteq (Items(u) \cup {0}) \X Arches
          /\ up[u].at \in {<<>>} \cup (Items(u) \cup {0}) \X Arches
          /\ up[u].fill \in Database
          /\ up[u].into \in [Items(u) -> SUBSET Arches]
          /\ up[u].old \in [Items(u) -> [Arches -> Entry \cup {NoEntry}]]
          /\ up[u].committed \subseteq Arches
    /\ \A r \in Removals :
          /\ rm[r].pc \in {"idle", "db", "check", "delete"} \cup Ended
          /\ rm[r].file \in File \cup {<<>>} /\ rm[r].todo \cup rm[r].known \subseteq Arches
    /\ \A g \in Collections :
          /\ gc[g].pc \in {"idle", "read", "sweep"} \cup Ended
          /\ gc[g].todo \subseteq Arches /\ gc[g].dir \in Stores \cup {"none"}
          /\ gc[g].refs \cup gc[g].any \subseteq File
    /\ failures \in 0 .. MaxFailures /\ crashes \in 0 .. MaxCrashes

\* What a database lists can be downloaded, and has the bytes the entry describes:
\* an object is deleted only after its last entry, and never overwritten.
NoDanglingEntry ==
    \A a \in Arches, n \in Names :
        db[a][n] # NoEntry => obj[FileOf(n, db[a][n])].build = db[a][n].build

\* An acknowledged upload stays published: nothing but a newer version replaces it,
\* whatever the uploads after it, their failures and their rollbacks do.
AckedStays ==
    \A u \in Uploads : up[u].pc = "ok" =>
        \A i \in Items(u) : \A a \in Targets(Pkg(u, i), RepoArches) : Current(a, Pkg(u, i)).ver >= Pkg(u, i).ver

\* No call is under way and none was cut short by a crash.
AtRest ==
    /\ \A u \in DOMAIN up : up[u].pc \in {"idle", "ok", "failed", "conflict"}
    /\ \A r \in Removals : rm[r].pc \in {"idle", "ok", "failed"}

\* The databases of the architectures change one by one, but at rest they agree on
\* the packages of architecture any: the fan-out happened everywhere or nowhere.
AnyEverywhere ==
    AtRest => \A a, b \in stored, n \in Names : db[a][n].store = "any" => db[b][n].ver >= db[a][n].ver

\* Acknowledged uploads, as a whole: they stay, on every architecture they are for.
AckedHolds == AckedStays /\ AnyEverywhere

\* The first concrete upload for a new architecture backfills the packages of
\* architecture any into it: once it is acknowledged they are all there.
NewArchHasAny ==
    AtRest => \A u \in Uploads : up[u].pc = "ok" =>
        \A a \in Concrete(u), b \in stored, n \in Names :
            db[b][n].store = "any" => db[a][n].ver >= db[b][n].ver

\* publicationRollback.run leaves every database with the entry from before the upload.
RollbackRestores ==
    [][\A u \in Uploads :
          up[u].pc = "undo" /\ up'[u].pc \in Ended \ {"crashed"} =>
              \A t \in Into(u) : db'[t[2]][Pkg(u, t[1]).name] = up[u].old[t[1]][t[2]]]_vars

\* No commit takes a database back to an older version: the version gate holds even
\* if another process publishes between the gate and the commit.  Only a rollback
\* and the seeding of an architecture may.
NoDowngrade ==
    [][\A a \in Arches, n \in Names :
          db'[a][n].ver < db[a][n].ver =>
              \E u \in DOMAIN up : up[u].pc \in {"undo", "undoadd", "fill"} /\ up'[u] # up[u]]_vars

\* No call waits for ever: the lease comes back after every outcome, a crash included.
EveryCallEnds ==
    /\ \A u \in Uploads \cup Starts : <>(up[u].pc \in Ended)
    /\ \A r \in Removals : <>(rm[r].pc \in Ended)
    /\ \A g \in Collections : <>(gc[g].pc \in Ended)
=============================================================================
