------------------------------ MODULE Upstream ------------------------------
(***************************************************************************)
(* A repository layered over an upstream mirror, one architecture of it.   *)
(* The overlay holds the local packages; a sync fetches the mirror's       *)
(* database into a snapshot with the validators of the answer; the served  *)
(* database merges the two, local packages over the mirror's, and is       *)
(* written again after each local change and each sync.                    *)
(*                                                                         *)
(* dbMu is a mutex of the server process: it keeps apart what one server   *)
(* does.  Servers that share a bucket (no store but the local one has a    *)
(* publication lease, and a sync takes none) read, merge and put the       *)
(* merged set beside each other, without a compare-and-swap.               *)
(*                                                                         *)
(* A version of the mirror stands for its database and its validators, 0   *)
(* for none.  A failed step and a killed process both leave what was       *)
(* written and give the lock back.                                         *)
(***************************************************************************)
EXTENDS Naturals

CONSTANTS LocalPkgs, Publishers, Syncers, MaxMirror, UpstreamAttempts, MaxLocalChanges,
          MaxUpstreamFaults, Servers, NoProc

UpProcs == Publishers \cup Syncers

ASSUME UpstreamAssumption == NoProc \notin UpProcs

VARIABLES usMirror, usOverlay, usSnap, usSnapFiles, usMeta,
          usMerged, usMergedFiles,   \* [up, local]
          usHome,        \* the server that runs each process
          usLock,        \* dbMu of each server: who holds it
          usAlone,       \* the last process to take a mutex, if none was held on any server
          usClash,       \* the merged set was last put by a process another server's overlapped
          usP,
          usShown,       \* local packages whose publication ended with them served
          usPromoted,    \* a promotion changed the overlay
          usChanges, usFaults

usVars == <<usMirror, usOverlay, usSnap, usSnapFiles, usMeta, usMerged, usMergedFiles,
            usHome, usLock, usAlone, usClash, usP, usShown, usPromoted, usChanges, usFaults>>
lockVars == <<usHome, usLock, usAlone, usClash>>

SyncIdle == [pc |-> "idle", etag |-> 0, body |-> 0, files |-> 0, tries |-> 0,
             merge |-> [up |-> 0, local |-> {}], upFiles |-> 0, adds |-> {}]
NothingMerged == [up |-> 0, local |-> {}]

USInit ==
  /\ usMirror = 1 /\ usOverlay = {} /\ usSnap = 0 /\ usSnapFiles = 0 /\ usMeta = 0
  /\ usMerged = NothingMerged /\ usMergedFiles = NothingMerged
  /\ usHome \in [UpProcs -> Servers] /\ usLock = [s \in Servers |-> NoProc]
  /\ usAlone = NoProc /\ usClash = FALSE
  /\ usP = [p \in UpProcs |-> SyncIdle]
  /\ usShown = {} /\ usPromoted = FALSE /\ usChanges = 0 /\ usFaults = 0

UpProc(p, r) == usP' = [usP EXCEPT ![p] = r]

\* dbMu.lock and its unlock, on the server of the process.
LockFree(p) == usLock[usHome[p]] = NoProc
Lock(p) ==
  /\ LockFree(p) /\ usLock' = [usLock EXCEPT ![usHome[p]] = p]
  /\ usAlone' = (IF \A s \in Servers : usLock[s] = NoProc THEN p ELSE NoProc)
  /\ UNCHANGED usHome
Unlock(p) ==
  /\ usLock' = [usLock EXCEPT ![usHome[p]] = IF @ = p THEN NoProc ELSE @]
  /\ usAlone' = (IF usAlone = p THEN NoProc ELSE usAlone)
  /\ UNCHANGED <<usHome, usClash>>

\* The mirror publishes a new database.
MirrorMoves ==
  /\ usMirror < MaxMirror /\ usMirror' = usMirror + 1
  /\ UNCHANGED <<usOverlay, usSnap, usSnapFiles, usMeta, usMerged, usMergedFiles, lockVars, usP,
                 usShown, usPromoted, usChanges, usFaults>>

(***************************************************************************)
(* Local changes                                                           *)
(***************************************************************************)
\* The commit to the overlay, under the lock, and the rebuild to come.  (The overlay
\* itself has its compare-and-swap: RepoDB.)
ChangeOverlay(p, overlay, adds) ==
  /\ usP[p].pc = "idle" /\ LockFree(p)
  /\ usChanges < MaxLocalChanges /\ usChanges' = usChanges + 1
  /\ usOverlay' = overlay /\ usShown' = usShown \cap overlay
  /\ UNCHANGED <<usMirror, usSnap, usSnapFiles, usMeta, usMerged, usMergedFiles, lockVars,
                 usPromoted, usFaults>>
  /\ UpProc(p, [SyncIdle EXCEPT !.pc = "rebuild", !.adds = adds])

PublishLocal(p, k) == k \notin usOverlay /\ ChangeOverlay(p, usOverlay \cup {k}, {k})

\* Deviation: a removal does not refresh what is served.
RemoveLocalOnly(p, k) ==
  /\ k \in usOverlay /\ usP[p].pc = "idle" /\ LockFree(p)
  /\ usChanges < MaxLocalChanges /\ usChanges' = usChanges + 1
  /\ usOverlay' = usOverlay \ {k} /\ usShown' = usShown \ {k}
  /\ UNCHANGED <<usMirror, usSnap, usSnapFiles, usMeta, usMerged, usMergedFiles, lockVars, usP,
                 usPromoted, usFaults>>

RemoveLocal(p, k) == k \in usOverlay /\ ChangeOverlay(p, usOverlay \ {k}, {})

\* PromotePackage into this tier registers the package and writes no merged database.
PromoteLocal(k) ==
  /\ k \notin usOverlay /\ \E s \in Servers : usLock[s] = NoProc
  /\ usChanges < MaxLocalChanges /\ usChanges' = usChanges + 1
  /\ usOverlay' = usOverlay \cup {k} /\ usPromoted' = TRUE
  /\ UNCHANGED <<usMirror, usSnap, usSnapFiles, usMeta, usMerged, usMergedFiles, lockVars, usP,
                 usShown, usFaults>>

(***************************************************************************)
(* The merged database                                                     *)
(***************************************************************************)
\* Merge: the mirror's packages except the shadowed ones, and the local ones.
Merge(up, overlay) == [up |-> up, local |-> overlay]

\* The overlay, then the snapshot, read in one step: only another server's sync can move
\* the snapshot in between, and then this process is not alone.
ReadForMerge(r) == [r EXCEPT !.pc = "storedb", !.merge = Merge(usSnap, usOverlay), !.upFiles = usSnapFiles]

\* Deviation: the databases are read before the lock is there.
RebuildUnlocked(p) ==
  /\ usP[p].pc = "rebuild"
  /\ UpProc(p, ReadForMerge(usP[p]))
  /\ UNCHANGED <<usMirror, usOverlay, usSnap, usSnapFiles, usMeta, usMerged, usMergedFiles, lockVars,
                 usShown, usPromoted, usChanges, usFaults>>

RebuildMerged(p) ==
  /\ usP[p].pc = "rebuild" /\ Lock(p)
  /\ UpProc(p, ReadForMerge(usP[p]))
  /\ UNCHANGED <<usMirror, usOverlay, usSnap, usSnapFiles, usMeta, usMerged, usMergedFiles, usClash,
                 usShown, usPromoted, usChanges, usFaults>>

\* storeArtifactSet of the merged set, database first.
StoreMergedDB(p) ==
  /\ usP[p].pc = "storedb" /\ usMerged' = usP[p].merge /\ usClash' = (usAlone # p)
  /\ UpProc(p, [usP[p] EXCEPT !.pc = "storefiles"])
  /\ UNCHANGED <<usMirror, usOverlay, usSnap, usSnapFiles, usMeta, usMergedFiles, usHome, usLock, usAlone,
                 usShown, usPromoted, usChanges, usFaults>>

StoreMergedFiles(p) ==
  /\ usP[p].pc = "storefiles"
  /\ usMergedFiles' = [up |-> usP[p].upFiles, local |-> usP[p].merge.local]
  /\ usShown' = usShown \cup (usP[p].adds \cap usMerged.local \cap usOverlay)
  /\ UpProc(p, SyncIdle) /\ Unlock(p)
  /\ UNCHANGED <<usMirror, usOverlay, usSnap, usSnapFiles, usMeta, usMerged,
                 usPromoted, usChanges, usFaults>>

(***************************************************************************)
(* A sync                                                                  *)
(***************************************************************************)
UpstreamValidators(p) ==
  /\ usP[p].pc = "idle" /\ UpProc(p, [SyncIdle EXCEPT !.pc = "get", !.etag = usMeta])
  /\ UNCHANGED <<usMirror, usOverlay, usSnap, usSnapFiles, usMeta, usMerged, usMergedFiles,
                 lockVars, usShown, usPromoted, usChanges, usFaults>>

\* conditionalGet: not modified, or the mirror's database.
ConditionalGet(p) ==
  /\ usP[p].pc = "get"
  /\ UpProc(p, IF usP[p].etag = usMirror THEN SyncIdle
               ELSE [usP[p] EXCEPT !.pc = "getfiles", !.body = usMirror])
  /\ UNCHANGED <<usMirror, usOverlay, usSnap, usSnapFiles, usMeta, usMerged, usMergedFiles,
                 lockVars, usShown, usPromoted, usChanges, usFaults>>

\* doUpstreamGET: an error or a retryable status, tried again up to the limit.
RetryGet(p) ==
  /\ usP[p].pc = "get" /\ usFaults < MaxUpstreamFaults /\ usFaults' = usFaults + 1
  /\ UpProc(p, IF usP[p].tries + 1 < UpstreamAttempts THEN [usP[p] EXCEPT !.tries = @ + 1]
               ELSE SyncIdle)
  /\ UNCHANGED <<usMirror, usOverlay, usSnap, usSnapFiles, usMeta, usMerged, usMergedFiles,
                 lockVars, usShown, usPromoted, usChanges>>

\* The files database is optional: without it the sync goes on.
GetFiles(p, ok) ==
  /\ usP[p].pc = "getfiles"
  /\ UpProc(p, [usP[p] EXCEPT !.pc = "apply", !.files = IF ok THEN usMirror ELSE 0])
  /\ UNCHANGED <<usMirror, usOverlay, usSnap, usSnapFiles, usMeta, usMerged, usMergedFiles,
                 lockVars, usShown, usPromoted, usChanges, usFaults>>

\* Deviation: the validators are stored before the snapshot.
ApplyValidatorsFirst(p) ==
  /\ usP[p].pc = "apply" /\ LockFree(p)
  /\ IF usMeta # usP[p].body THEN usMeta' = usP[p].body /\ UNCHANGED <<usSnap, usP, lockVars>>
     ELSE /\ usSnap' = usP[p].body /\ Lock(p) /\ UNCHANGED <<usMeta, usClash>>
          /\ UpProc(p, [usP[p] EXCEPT !.pc = "snapfiles"])
  /\ UNCHANGED <<usMirror, usOverlay, usSnapFiles, usMerged, usMergedFiles,
                 usShown, usPromoted, usChanges, usFaults>>

\* ApplyUpstreamSnapshot under the lock: the database, then the files if there are any.
ApplySnapshot(p) ==
  /\ usP[p].pc = "apply" /\ Lock(p)
  /\ usSnap' = usP[p].body
  /\ UpProc(p, [usP[p] EXCEPT !.pc = "snapfiles"])
  /\ UNCHANGED <<usMirror, usOverlay, usSnapFiles, usMeta, usMerged, usMergedFiles, usClash,
                 usShown, usPromoted, usChanges, usFaults>>

SnapshotFiles(p) ==
  /\ usP[p].pc = "snapfiles"
  /\ usSnapFiles' = IF usP[p].files = 0 THEN usSnapFiles ELSE usP[p].files
  /\ UpProc(p, [usP[p] EXCEPT !.pc = "meta"])
  /\ UNCHANGED <<usMirror, usOverlay, usSnap, usMeta, usMerged, usMergedFiles, lockVars,
                 usShown, usPromoted, usChanges, usFaults>>

\* The validators last; then the merged database, still under the lock.
StoreValidators(p) ==
  /\ usP[p].pc = "meta"
  /\ usMeta' = usP[p].body
  /\ UpProc(p, ReadForMerge(usP[p]))
  /\ UNCHANGED <<usMirror, usOverlay, usSnap, usSnapFiles, usMerged, usMergedFiles, lockVars,
                 usShown, usPromoted, usChanges, usFaults>>

\* A read, a write or the process fails.
UpstreamFails(p) ==
  /\ usP[p].pc # "idle" /\ usFaults < MaxUpstreamFaults /\ usFaults' = usFaults + 1
  /\ UpProc(p, SyncIdle)
  /\ Unlock(p)
  /\ UNCHANGED <<usMirror, usOverlay, usSnap, usSnapFiles, usMeta, usMerged, usMergedFiles,
                 usShown, usPromoted, usChanges>>

SyncStep(p) ==
  \/ UpstreamValidators(p) \/ ConditionalGet(p) \/ RetryGet(p)
  \/ \E ok \in BOOLEAN : GetFiles(p, ok)
  \/ ApplySnapshot(p) \/ SnapshotFiles(p) \/ StoreValidators(p)

USNext ==
  \/ MirrorMoves
  \/ \E k \in LocalPkgs : PromoteLocal(k)
  \/ \E p \in Publishers, k \in LocalPkgs : PublishLocal(p, k) \/ RemoveLocal(p, k)
  \/ \E p \in Syncers : SyncStep(p)
  \/ \E p \in UpProcs : RebuildMerged(p) \/ StoreMergedDB(p) \/ StoreMergedFiles(p) \/ UpstreamFails(p)

USSpec == USInit /\ [][USNext]_usVars

(***************************************************************************)
(* What layering must not break                                            *)
(***************************************************************************)

\* "A sync never drops a locally published package": once its publication has
\* ended with it in the served database it stays there until it is removed,
\* whatever syncs, other publications and failures follow, as long as the merged set
\* was last put by a process that no other server's overlapped.
LocalStays == ~usClash => usShown \subseteq usMerged.local

\* Validators never promise more than the snapshot holds, whatever step of a
\* sync fails: otherwise the mirror's "not modified" would keep the repository
\* on the old database for good.
ValidatorsFollowSnapshot == usMeta <= usSnap

\* When everybody is done and nothing failed, what is served is the merge of
\* the snapshot and the overlay: no interleaving of publications, removals and
\* a sync leaves an older merge behind, and what two servers that overlapped left is
\* repaired by the next process that runs alone.  A promotion does not refresh it.
QuietIsMerged ==
  (/\ \A p \in UpProcs : usP[p].pc = "idle"
   /\ usFaults = 0 /\ ~usPromoted /\ ~usClash) => usMerged = Merge(usSnap, usOverlay)

\* One server never overlaps itself: its mutex covers the reads and both puts of every
\* rebuild and the whole of a snapshot, on the paths that fail too.
OneServerIsAlone == usClash => \E p, q \in UpProcs : usHome[p] # usHome[q]

\* What comments say and the code does not keep (README, section 6), so no run has it.
\* "Local overlay entries are always re-applied, so a sync never drops a locally
\* published package", with another server on the same bucket too.
LocalStaysAnywhere == usShown \subseteq usMerged.local

\* "On a change, records the snapshot and rebuilds the merged db": a sync that
\* ends without an error leaves the stored snapshot served.
SyncedIsServed ==
  [][\A p \in Syncers :
       (usP[p].pc \in {"get", "storefiles"} /\ usP'[p].pc = "idle" /\ usFaults' = usFaults)
         => usMerged'.up = usSnap']_usVars

\* Layering, as a whole: local packages stay, the mirror is asked again when it must
\* be, and nobody's older merge is left behind.
LayeringHolds == LocalStays /\ ValidatorsFollowSnapshot /\ QuietIsMerged /\ OneServerIsAlone
=============================================================================
