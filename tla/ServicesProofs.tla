--------------------------- MODULE ServicesProofs ---------------------------
(***************************************************************************)
(* Theorems about the services around ayato's publication: mirrored        *)
(* upstreams (Upstream), staged uploads (StagedUpload) and promotion       *)
(* (Tiers), about its clients: the sign-in they store (ClientSession) and  *)
(* the job they follow (JobStream), for any number of callers, packages,   *)
(* changes and faults; and about the upload routes (UploadDoors), for any  *)
(* limits, settings and forms.                                             *)
(***************************************************************************)
EXTENDS Upstream, StagedUpload, Tiers, ClientSession, JobStream, UploadDoors,
        SequenceTheorems, FiniteSetTheorems, NaturalsInduction, WellFoundedInduction, TLAPS

(***************************************************************************)
(* Mirrored upstreams.                                                     *)
(***************************************************************************)
MergeType == [up : Nat, local : SUBSET LocalPkgs]
LockedAt == {"storedb", "storefiles", "snapfiles", "meta"}
UpType ==
  [pc : {"idle", "rebuild", "get", "getfiles", "apply"} \cup LockedAt,
   etag : Nat, body : Nat, files : Nat, tries : Nat, merge : MergeType, upFiles : Nat, adds : SUBSET LocalPkgs]

USTyped ==
  /\ usMirror \in Nat /\ usSnap \in Nat /\ usSnapFiles \in Nat /\ usMeta \in Nat /\ usFaults \in Nat
  /\ usOverlay \subseteq LocalPkgs /\ usMerged \in MergeType /\ usPromoted \in BOOLEAN /\ usClash \in BOOLEAN
  /\ usHome \in [UpProcs -> Servers] /\ usLock \in [Servers -> UpProcs \cup {NoProc}]
  /\ usP \in [UpProcs -> UpType]

\* Who reads the databases and writes the merged one holds the mutex of its server.
ServersApart == \E p, q \in UpProcs : usHome[p] # usHome[q]
LockHeld ==
  /\ \A s \in Servers : usLock[s] \in UpProcs => usHome[usLock[s]] = s
  /\ \A p \in UpProcs : usP[p].pc \in LockedAt <=> usLock[usHome[p]] = p

\* It is alone, or there are two servers.
AloneTrue ==
  \A p \in UpProcs : usP[p].pc \in LockedAt =>
    /\ usAlone = p => \A q \in UpProcs : q # p => usP[q].pc \notin LockedAt
    /\ usAlone # p => ServersApart

\* Alone, it holds the snapshot there is, every package that is shown, and the overlay
\* there is unless somebody who changed it since is still to rebuild.
Rebuilding == \E q \in UpProcs : usP[q].pc = "rebuild"
ReadsHold ==
  \A p \in UpProcs : usAlone = p =>
    /\ usP[p].pc \in {"storedb", "storefiles"} => usShown \subseteq usP[p].merge.local /\ usP[p].merge.up = usSnap
    /\ usP[p].pc = "storedb" /\ usFaults = 0 /\ ~usPromoted => usP[p].merge.local = usOverlay \/ Rebuilding

\* What is served is the merge, or somebody is about to write it.
MergePending ==
  usFaults = 0 /\ ~usPromoted /\ ~usClash =>
    \/ usMerged = Merge(usSnap, usOverlay)
    \/ \E p \in UpProcs : usP[p].pc \in {"rebuild", "storedb", "snapfiles", "meta"}

USInv ==
  /\ USTyped /\ LockHeld /\ AloneTrue /\ ReadsHold /\ MergePending
  /\ usShown \subseteq usOverlay /\ LocalStays /\ OneServerIsAlone

\* A process that is over.
LEMMA SyncIdleType == SyncIdle \in UpType /\ SyncIdle.pc = "idle"
  BY DEF SyncIdle, UpType, MergeType

\* The mutexes stay what they are while nobody takes or gives one.
LEMMA LockKept ==
  ASSUME USInv, NEW p \in UpProcs, NEW r \in UpType, usP' = [usP EXCEPT ![p] = r],
         UNCHANGED <<usHome, usLock, usAlone>>, r.pc \in LockedAt <=> usP[p].pc \in LockedAt
  PROVE  LockHeld' /\ AloneTrue'
<1>1. \A q \in UpProcs : usP'[q].pc \in LockedAt <=> usP[q].pc \in LockedAt
  BY DEF USInv, USTyped
<1>2. LockHeld'
  BY <1>1 DEF USInv, LockHeld
<1>3. AloneTrue'
  BY <1>1 DEF USInv, AloneTrue, ServersApart
<1>4. QED
  BY <1>2, <1>3

\* Who takes the mutex of its server is alone, or another server has somebody.
LEMMA LockTaken ==
  ASSUME USInv, NEW p \in UpProcs, NEW r \in UpType, usP' = [usP EXCEPT ![p] = r], Lock(p), r.pc \in LockedAt
  PROVE  /\ LockHeld' /\ AloneTrue' /\ usLock' \in [Servers -> UpProcs \cup {NoProc}] /\ usHome' = usHome
         /\ \A q \in UpProcs : usAlone' = q => q = p
<1>1. /\ usLock[usHome[p]] = NoProc /\ usLock' = [usLock EXCEPT ![usHome[p]] = p] /\ usHome' = usHome
      /\ usAlone' = (IF \A s \in Servers : usLock[s] = NoProc THEN p ELSE NoProc)
  BY DEF Lock, LockFree
<1>2. usHome[p] \in Servers /\ usHome \in [UpProcs -> Servers] /\ usLock \in [Servers -> UpProcs \cup {NoProc}] /\ usP \in [UpProcs -> UpType]
  BY DEF USInv, USTyped
<1>3. /\ usP'[p] = r /\ \A q \in UpProcs : q # p => usP'[q] = usP[q]
      /\ usLock'[usHome[p]] = p /\ \A s \in Servers : s # usHome[p] => usLock'[s] = usLock[s]
  BY <1>1, <1>2
<1>4. \A q \in UpProcs : q # p /\ usP[q].pc \in LockedAt => usHome[q] # usHome[p] /\ usLock[usHome[q]] = q
  BY <1>1, UpstreamAssumption DEF USInv, LockHeld
<1>5. LockHeld'
  <2>1. ASSUME NEW s \in Servers, usLock'[s] \in UpProcs PROVE usHome'[usLock'[s]] = s
    BY <1>1, <1>3, <2>1 DEF USInv, LockHeld
  <2>2. ASSUME NEW q \in UpProcs PROVE usP'[q].pc \in LockedAt <=> usLock'[usHome'[q]] = q
    <3>1. CASE q = p
      BY <1>1, <1>3, <3>1
    <3>2. CASE q # p
      BY <1>1, <1>2, <1>3, <1>4, <3>2, UpstreamAssumption DEF USInv, LockHeld
    <3>3. QED
      BY <3>1, <3>2
  <2>3. QED
    BY <2>1, <2>2 DEF LockHeld
<1>6. ASSUME NEW q \in UpProcs, usP'[q].pc \in LockedAt
      PROVE  /\ usAlone' = q => \A o \in UpProcs : o # q => usP'[o].pc \notin LockedAt
             /\ usAlone' # q => ServersApart'
  <2>1. ASSUME usAlone' = q, NEW o \in UpProcs, o # q PROVE usP'[o].pc \notin LockedAt
    BY <1>1, <1>2, <1>3, <1>4, <2>1, UpstreamAssumption
  <2>2. ASSUME usAlone' # q PROVE ServersApart'
    <3>1. CASE q # p
      BY <1>1, <1>3, <1>4, <1>6, <3>1 DEF ServersApart
    <3>2. CASE q = p
      <4>1. PICK s \in Servers : usLock[s] # NoProc
        BY <1>1, <2>2, <3>2
      <4>2. usLock[s] \in UpProcs /\ usHome[usLock[s]] = s /\ s # usHome[p]
        BY <1>1, <1>2, <4>1 DEF USInv, LockHeld
      <4>3. QED
        BY <1>1, <4>2 DEF ServersApart
    <3>3. QED
      BY <3>1, <3>2
  <2>3. QED
    BY <2>1, <2>2
<1>7. AloneTrue'
  BY <1>6 DEF AloneTrue
<1>8. usLock' \in [Servers -> UpProcs \cup {NoProc}]
  BY <1>1, <1>2
<1>9. QED
  BY <1>1, <1>5, <1>7, <1>8, UpstreamAssumption

\* Who gives it back is nowhere in the databases.
LEMMA LockGiven ==
  ASSUME USInv, NEW p \in UpProcs, usP' = [usP EXCEPT ![p] = SyncIdle], Unlock(p)
  PROVE  /\ LockHeld' /\ AloneTrue' /\ usLock' \in [Servers -> UpProcs \cup {NoProc}] /\ usHome' = usHome
         /\ \A q \in UpProcs : usAlone' = q => q # p /\ usAlone = q
<1>1. /\ usLock' = [usLock EXCEPT ![usHome[p]] = IF usLock[usHome[p]] = p THEN NoProc ELSE usLock[usHome[p]]]
      /\ usHome' = usHome /\ usAlone' = (IF usAlone = p THEN NoProc ELSE usAlone)
  BY DEF Unlock
<1>2. usHome[p] \in Servers /\ usHome \in [UpProcs -> Servers] /\ usLock \in [Servers -> UpProcs \cup {NoProc}] /\ usP \in [UpProcs -> UpType]
  BY DEF USInv, USTyped
<1>3. /\ usP'[p].pc = "idle" /\ \A q \in UpProcs : q # p => usP'[q] = usP[q]
      /\ \A s \in Servers : usLock'[s] = (IF usLock[s] = p /\ s = usHome[p] THEN NoProc ELSE usLock[s])
  BY <1>1, <1>2, SyncIdleType
<1>4. LockHeld'
  <2>1. ASSUME NEW s \in Servers, usLock'[s] \in UpProcs PROVE usHome'[usLock'[s]] = s
    BY <1>1, <1>3, <2>1, UpstreamAssumption DEF USInv, LockHeld
  <2>2. ASSUME NEW q \in UpProcs PROVE usP'[q].pc \in LockedAt <=> usLock'[usHome'[q]] = q
    <3>1. CASE q = p
      BY <1>1, <1>2, <1>3, <3>1, UpstreamAssumption DEF LockedAt
    <3>2. CASE q # p
      BY <1>1, <1>2, <1>3, <3>2, UpstreamAssumption DEF USInv, LockHeld
    <3>3. QED
      BY <3>1, <3>2
  <2>3. QED
    BY <2>1, <2>2 DEF LockHeld
<1>5. \A q \in UpProcs : usAlone' = q => q # p /\ usAlone = q
  BY <1>1, UpstreamAssumption
<1>6. ASSUME NEW q \in UpProcs, usP'[q].pc \in LockedAt
      PROVE  /\ usAlone' = q => \A o \in UpProcs : o # q => usP'[o].pc \notin LockedAt
             /\ usAlone' # q => ServersApart'
  <2>1. q # p /\ usP[q].pc \in LockedAt
    BY <1>3, <1>6 DEF LockedAt
  <2>2. usAlone' # q => usAlone # q
    BY <1>1, <2>1
  <2>3. QED
    BY <1>1, <1>3, <1>5, <2>1, <2>2 DEF USInv, AloneTrue, ServersApart, LockedAt
<1>7. AloneTrue'
  BY <1>6 DEF AloneTrue
<1>8. usLock' \in [Servers -> UpProcs \cup {NoProc}]
  BY <1>1, <1>2
<1>9. QED
  BY <1>1, <1>4, <1>5, <1>7, <1>8

\* A step that fails leaves what was written.
LEMMA USFail ==
  ASSUME USInv, NEW p \in UpProcs, UpstreamFails(p)
  PROVE  USInv'
<1>1. /\ usFaults' = usFaults + 1 /\ usP' = [usP EXCEPT ![p] = SyncIdle] /\ Unlock(p)
      /\ UNCHANGED <<usMirror, usOverlay, usSnap, usSnapFiles, usMeta, usMerged, usShown, usPromoted>>
  BY DEF UpstreamFails, UpProc
<1>2. usClash' = usClash /\ usFaults' # 0
  BY <1>1 DEF Unlock, USInv, USTyped
<1>3. LockHeld' /\ AloneTrue' /\ usLock' \in [Servers -> UpProcs \cup {NoProc}] /\ usHome' = usHome
  BY <1>1, LockGiven
<1>4. USTyped' /\ MergePending' /\ (usShown \subseteq usOverlay)' /\ LocalStays' /\ OneServerIsAlone'
  BY <1>1, <1>2, <1>3, SyncIdleType DEF USInv, USTyped, MergePending, LocalStays, OneServerIsAlone
<1>5. \A q \in UpProcs : usAlone' = q => usAlone = q /\ usP'[q] = usP[q]
  BY <1>1, LockGiven DEF USInv, USTyped
<1>6. ReadsHold'
  BY <1>1, <1>2, <1>5 DEF USInv, ReadsHold
<1>7. QED
  BY <1>3, <1>4, <1>6 DEF USInv

\* A step of a sync that has no lock: it only learns.
LEMMA USUnlocked ==
  ASSUME USInv, NEW p \in UpProcs, NEW r \in UpType, UpProc(p, r),
         usP[p].pc \in {"idle", "get", "getfiles"}, r.pc \in {"idle", "get", "getfiles", "apply"},
         usFaults' \in Nat, usFaults <= usFaults', UNCHANGED lockVars,
         UNCHANGED <<usMirror, usOverlay, usSnap, usSnapFiles, usMeta, usMerged, usShown, usPromoted>>
  PROVE  USInv'
<1>1. usP' = [usP EXCEPT ![p] = r] /\ UNCHANGED <<usHome, usLock, usAlone, usClash>>
  BY DEF UpProc, lockVars
<1>2. USTyped' /\ (usShown \subseteq usOverlay)' /\ LocalStays' /\ OneServerIsAlone'
  BY <1>1 DEF USInv, USTyped, LocalStays, OneServerIsAlone
<1>3. LockHeld' /\ AloneTrue'
  BY <1>1, LockKept DEF LockedAt
<1>4. \A q \in UpProcs : usP[q].pc \in {"rebuild", "storedb", "snapfiles", "meta"} => usP'[q].pc = usP[q].pc
  BY <1>1 DEF USInv, USTyped
<1>5. usFaults' = 0 => usFaults = 0
  BY DEF USInv, USTyped
<1>6. MergePending'
  BY <1>1, <1>4, <1>5 DEF USInv, MergePending
<1>7. \A q \in UpProcs : usP'[q].pc \in {"storedb", "storefiles"} => usP'[q] = usP[q]
  BY <1>1 DEF USInv, USTyped
<1>8. ReadsHold'
  BY <1>1, <1>4, <1>5, <1>7 DEF USInv, ReadsHold, Rebuilding
<1>9. QED
  BY <1>2, <1>3, <1>6, <1>8 DEF USInv

\* A local change: the overlay, and the rebuild to come.
LEMMA USChange ==
  ASSUME USInv, NEW p \in UpProcs, NEW overlay \in SUBSET LocalPkgs, NEW adds \in SUBSET LocalPkgs,
         ChangeOverlay(p, overlay, adds)
  PROVE  USInv'
<1> DEFINE r == [SyncIdle EXCEPT !.pc = "rebuild", !.adds = adds]
<1>1. /\ usP[p].pc = "idle" /\ usOverlay' = overlay /\ usShown' = usShown \cap overlay
      /\ usP' = [usP EXCEPT ![p] = r] /\ UNCHANGED <<usHome, usLock, usAlone, usClash>>
      /\ UNCHANGED <<usMirror, usSnap, usSnapFiles, usMeta, usMerged, usPromoted, usFaults>>
  BY DEF ChangeOverlay, UpProc, lockVars
<1>2. r \in UpType /\ r.pc = "rebuild"
  BY SyncIdleType DEF UpType
<1> HIDE DEF r
<1>3. USTyped' /\ (usShown \subseteq usOverlay)' /\ LocalStays' /\ OneServerIsAlone'
  BY <1>1, <1>2 DEF USInv, USTyped, LocalStays, OneServerIsAlone
<1>4. LockHeld' /\ AloneTrue'
  BY <1>1, <1>2, LockKept DEF LockedAt
<1>5. usP'[p].pc = "rebuild"
  BY <1>1, <1>2 DEF USInv, USTyped
<1>6. MergePending' /\ Rebuilding'
  BY <1>5 DEF MergePending, Rebuilding
<1>7. \A q \in UpProcs : usP'[q].pc \in {"storedb", "storefiles"} => usP'[q] = usP[q]
  BY <1>1, <1>2 DEF USInv, USTyped
<1>8. ReadsHold'
  BY <1>1, <1>6, <1>7 DEF USInv, ReadsHold
<1>9. QED
  BY <1>3, <1>4, <1>6, <1>8 DEF USInv

\* Reading for a merge.
LEMMA ReadType ==
  ASSUME USInv, NEW r \in UpType
  PROVE  /\ ReadForMerge(r) \in UpType /\ ReadForMerge(r).pc = "storedb"
         /\ ReadForMerge(r).merge = [up |-> usSnap, local |-> usOverlay] /\ ReadForMerge(r).body = r.body
<1>1. Merge(usSnap, usOverlay) \in MergeType /\ Merge(usSnap, usOverlay) = [up |-> usSnap, local |-> usOverlay]
  BY DEF USInv, USTyped, Merge, MergeType
<1>2. QED
  BY <1>1 DEF USInv, USTyped, ReadForMerge, UpType, LockedAt

\* A step of who holds a mutex, or takes it, and does not put the merged set.  Whoever
\* else is alone is not: it takes the mutex, or holds it already.
LEMMA USLocked ==
  ASSUME USInv, NEW p \in UpProcs, NEW r \in UpType, usP' = [usP EXCEPT ![p] = r], r.pc \in LockedAt \ {"storefiles"},
         USTyped', LockHeld', AloneTrue', \A q \in UpProcs : usAlone' = q => q = p,
         UNCHANGED <<usHome, usOverlay, usShown, usMerged, usClash>>,
         r.pc = "storedb" => r.merge = [up |-> usSnap', local |-> usOverlay]
  PROVE  USInv'
<1>1. usP'[p] = r
  BY DEF USInv, USTyped
<1>2. LocalStays' /\ OneServerIsAlone' /\ (usShown \subseteq usOverlay)'
  BY DEF USInv, LocalStays, OneServerIsAlone
<1>3. MergePending'
  BY <1>1 DEF MergePending, LockedAt
<1>4. ReadsHold'
  BY <1>1 DEF USInv, ReadsHold, LockedAt
<1>5. QED
  BY <1>2, <1>3, <1>4 DEF USInv

\* Who holds a mutex is the only one that may be alone.
LEMMA OnlyHolder ==
  ASSUME USInv, NEW p \in UpProcs, usP[p].pc \in LockedAt
  PROVE  \A q \in UpProcs : usAlone = q /\ usP[q].pc \in LockedAt => q = p
  BY DEF USInv, AloneTrue

\* The steps of a rebuild.
LEMMA USRebuild ==
  ASSUME USInv, NEW p \in UpProcs, RebuildMerged(p) \/ StoreMergedDB(p) \/ StoreMergedFiles(p)
  PROVE  USInv'
<1>p. usP[p] \in UpType
  BY DEF USInv, USTyped
<1>1. CASE RebuildMerged(p)
  <2> DEFINE r == ReadForMerge(usP[p])
  <2>1. /\ Lock(p) /\ usP' = [usP EXCEPT ![p] = r]
        /\ UNCHANGED <<usMirror, usOverlay, usSnap, usSnapFiles, usMeta, usMerged, usClash, usShown, usPromoted, usFaults>>
    BY <1>1 DEF RebuildMerged, UpProc
  <2>2. r \in UpType /\ r.pc = "storedb" /\ r.merge = [up |-> usSnap, local |-> usOverlay]
    BY <1>p, ReadType
  <2> HIDE DEF r
  <2>3. /\ LockHeld' /\ AloneTrue' /\ usLock' \in [Servers -> UpProcs \cup {NoProc}] /\ usHome' = usHome
        /\ \A q \in UpProcs : usAlone' = q => q = p
    BY <2>1, <2>2, LockTaken DEF LockedAt
  <2>4. USTyped'
    BY <2>1, <2>2, <2>3 DEF USInv, USTyped
  <2>5. QED
    BY <2>1, <2>2, <2>3, <2>4, USLocked DEF LockedAt
<1>2. CASE StoreMergedDB(p)
  <2> DEFINE r == [usP[p] EXCEPT !.pc = "storefiles"]
  <2>1. /\ usP[p].pc = "storedb" /\ usMerged' = usP[p].merge /\ usP' = [usP EXCEPT ![p] = r] /\ usClash' = (usAlone # p)
        /\ UNCHANGED <<usMirror, usOverlay, usSnap, usSnapFiles, usMeta, usHome, usLock, usAlone, usShown, usPromoted, usFaults>>
    BY <1>2 DEF StoreMergedDB, UpProc
  <2>2. r \in UpType /\ r.pc = "storefiles" /\ r.merge = usP[p].merge
    BY <1>p DEF UpType, LockedAt
  <2> HIDE DEF r
  <2>3. LockHeld' /\ AloneTrue'
    BY <2>1, <2>2, LockKept DEF LockedAt
  <2>4. USTyped' /\ (usShown \subseteq usOverlay)'
    BY <1>p, <2>1, <2>2 DEF USInv, USTyped, UpType
  <2>5. /\ usP'[p] = r /\ \A q \in UpProcs : q # p => usP'[q] = usP[q]
        /\ \A q \in UpProcs : usP[q].pc = "rebuild" => usP'[q].pc = "rebuild"
    BY <2>1 DEF USInv, USTyped
  <2>6. LocalStays'
    BY <2>1 DEF USInv, ReadsHold, LocalStays
  <2>7. ReadsHold'
    BY <2>1, <2>2, <2>5 DEF USInv, ReadsHold, Rebuilding
  <2>8. MergePending'
    <3>1. SUFFICES ASSUME usFaults = 0, ~usPromoted, usAlone = p
                   PROVE  usP[p].merge = Merge(usSnap, usOverlay) \/ \E q \in UpProcs : usP'[q].pc = "rebuild"
      BY <2>1, <2>5 DEF MergePending, Merge
    <3>2. usP[p].merge.up = usSnap /\ (usP[p].merge.local = usOverlay \/ Rebuilding)
      BY <2>1, <3>1 DEF USInv, ReadsHold
    <3>3. usP[p].merge = [up |-> usP[p].merge.up, local |-> usP[p].merge.local]
      BY <1>p DEF UpType, MergeType
    <3>4. QED
      BY <2>5, <3>2, <3>3 DEF Rebuilding, Merge
  <2>9. OneServerIsAlone'
    BY <2>1 DEF USInv, AloneTrue, OneServerIsAlone, ServersApart, LockedAt
  <2>10. QED
    BY <2>3, <2>4, <2>6, <2>7, <2>8, <2>9 DEF USInv
<1>3. CASE StoreMergedFiles(p)
  <2>1. /\ usP[p].pc = "storefiles" /\ usP' = [usP EXCEPT ![p] = SyncIdle] /\ Unlock(p)
        /\ usShown' = usShown \cup (usP[p].adds \cap usMerged.local \cap usOverlay)
        /\ UNCHANGED <<usMirror, usOverlay, usSnap, usSnapFiles, usMeta, usMerged, usPromoted, usFaults>>
    BY <1>3 DEF StoreMergedFiles, UpProc
  <2>2. usClash' = usClash
    BY <2>1 DEF Unlock
  <2>3. /\ LockHeld' /\ AloneTrue' /\ usLock' \in [Servers -> UpProcs \cup {NoProc}] /\ usHome' = usHome
        /\ \A q \in UpProcs : usAlone' = q => q # p /\ usAlone = q
    BY <2>1, LockGiven
  <2>4. /\ usP'[p].pc = "idle" /\ \A q \in UpProcs : q # p => usP'[q] = usP[q]
        /\ \A q \in UpProcs : usP[q].pc \in {"rebuild", "storedb", "snapfiles", "meta"} => usP'[q].pc = usP[q].pc
    BY <2>1, SyncIdleType DEF USInv, USTyped
  <2>5. USTyped' /\ (usShown \subseteq usOverlay)' /\ LocalStays' /\ OneServerIsAlone'
    BY <2>1, <2>2, <2>3, SyncIdleType DEF USInv, USTyped, LocalStays, OneServerIsAlone
  <2>6. MergePending'
    BY <2>1, <2>2, <2>4 DEF USInv, MergePending
  <2>7. \A q \in UpProcs : usAlone' = q => usP'[q].pc \notin {"storedb", "storefiles"}
    BY <2>1, <2>3, <2>4, OnlyHolder DEF LockedAt
  <2>8. ReadsHold'
    BY <2>7 DEF ReadsHold
  <2>9. QED
    BY <2>3, <2>5, <2>6, <2>8 DEF USInv
<1>4. QED
  BY <1>1, <1>2, <1>3

\* A step of a sync that holds its mutex already.
LEMMA USHeld ==
  ASSUME USInv, NEW p \in UpProcs, NEW r \in UpType, usP' = [usP EXCEPT ![p] = r],
         usP[p].pc \in LockedAt, r.pc \in LockedAt \ {"storefiles"}, USTyped', LockHeld', AloneTrue',
         UNCHANGED <<usHome, usLock, usAlone, usClash>>, UNCHANGED <<usOverlay, usSnap, usShown, usMerged>>,
         r.pc = "storedb" => r.merge = [up |-> usSnap, local |-> usOverlay]
  PROVE  USInv'
<1>1. usP'[p] = r
  BY DEF USInv, USTyped
<1>2. LocalStays' /\ OneServerIsAlone' /\ (usShown \subseteq usOverlay)'
  BY DEF USInv, LocalStays, OneServerIsAlone
<1>3. MergePending'
  BY <1>1 DEF MergePending, LockedAt
<1>4. ASSUME NEW q \in UpProcs, usAlone' = q, usP'[q].pc \in {"storedb", "storefiles"} PROVE q = p
  BY <1>4, OnlyHolder DEF USInv, USTyped, LockedAt
<1>5. ReadsHold'
  BY <1>1, <1>4 DEF USInv, ReadsHold, LockedAt
<1>6. QED
  BY <1>2, <1>3, <1>5 DEF USInv

\* The steps of a sync.
LEMMA USSync ==
  ASSUME USInv, NEW p \in UpProcs, SyncStep(p)
  PROVE  USInv'
<1>p. usP[p] \in UpType /\ usFaults \in Nat /\ usFaults <= usFaults
  BY DEF USInv, USTyped
<1>1. CASE UpstreamValidators(p)
  <2> DEFINE r == [SyncIdle EXCEPT !.pc = "get", !.etag = usMeta]
  <2>1. r \in UpType /\ r.pc = "get"
    BY SyncIdleType DEF USInv, USTyped, UpType
  <2>2. UpProc(p, r) /\ usFaults' = usFaults
    BY <1>1 DEF UpstreamValidators
  <2> HIDE DEF r
  <2>3. QED
    BY <1>1, <1>p, <2>1, <2>2, USUnlocked DEF UpstreamValidators
<1>2. CASE ConditionalGet(p)
  <2> DEFINE r == IF usP[p].etag = usMirror THEN SyncIdle
                  ELSE [usP[p] EXCEPT !.pc = "getfiles", !.body = usMirror]
  <2>1. r \in UpType /\ r.pc \in {"idle", "getfiles"}
    BY <1>p, SyncIdleType DEF USInv, USTyped, UpType
  <2>2. UpProc(p, r) /\ usFaults' = usFaults
    BY <1>2 DEF ConditionalGet
  <2> HIDE DEF r
  <2>3. QED
    BY <1>2, <1>p, <2>1, <2>2, USUnlocked DEF ConditionalGet
<1>3. CASE RetryGet(p)
  <2> DEFINE r == IF usP[p].tries + 1 < UpstreamAttempts THEN [usP[p] EXCEPT !.tries = @ + 1] ELSE SyncIdle
  <2>1. usP[p].pc = "get" /\ UpProc(p, r) /\ usFaults' = usFaults + 1
    BY <1>3 DEF RetryGet
  <2>2. r \in UpType /\ r.pc \in {"idle", "get"}
    BY <1>p, <2>1, SyncIdleType DEF UpType
  <2> HIDE DEF r
  <2>3. usFaults' \in Nat /\ usFaults <= usFaults'
    BY <2>1 DEF USInv, USTyped
  <2>4. QED
    BY <1>3, <2>1, <2>2, <2>3, USUnlocked DEF RetryGet
<1>4. ASSUME NEW ok \in BOOLEAN, GetFiles(p, ok) PROVE USInv'
  <2> DEFINE r == [usP[p] EXCEPT !.pc = "apply", !.files = IF ok THEN usMirror ELSE 0]
  <2>1. r \in UpType /\ r.pc = "apply"
    BY <1>p DEF USInv, USTyped, UpType
  <2>2. UpProc(p, r) /\ usFaults' = usFaults
    BY <1>4 DEF GetFiles
  <2> HIDE DEF r
  <2>3. QED
    BY <1>4, <1>p, <2>1, <2>2, USUnlocked DEF GetFiles
<1>5. CASE ApplySnapshot(p)
  <2> DEFINE r == [usP[p] EXCEPT !.pc = "snapfiles"]
  <2>1. /\ Lock(p) /\ usSnap' = usP[p].body /\ usP' = [usP EXCEPT ![p] = r]
        /\ UNCHANGED <<usMirror, usOverlay, usSnapFiles, usMeta, usMerged, usClash, usShown, usPromoted, usFaults>>
    BY <1>5 DEF ApplySnapshot, UpProc
  <2>2. r \in UpType /\ r.pc = "snapfiles"
    BY <1>p DEF UpType, LockedAt
  <2> HIDE DEF r
  <2>3. /\ LockHeld' /\ AloneTrue' /\ usLock' \in [Servers -> UpProcs \cup {NoProc}] /\ usHome' = usHome
        /\ \A q \in UpProcs : usAlone' = q => q = p
    BY <2>1, <2>2, LockTaken DEF LockedAt
  <2>4. USTyped'
    BY <1>p, <2>1, <2>2, <2>3 DEF USInv, USTyped, UpType
  <2>5. QED
    BY <2>1, <2>2, <2>3, <2>4, USLocked DEF LockedAt
<1>6. CASE SnapshotFiles(p)
  <2> DEFINE r == [usP[p] EXCEPT !.pc = "meta"]
  <2>1. /\ usP[p].pc = "snapfiles" /\ usP' = [usP EXCEPT ![p] = r] /\ UNCHANGED <<usHome, usLock, usAlone, usClash>>
        /\ usSnapFiles' = (IF usP[p].files = 0 THEN usSnapFiles ELSE usP[p].files)
        /\ UNCHANGED <<usMirror, usOverlay, usSnap, usMeta, usMerged, usShown, usPromoted, usFaults>>
    BY <1>6 DEF SnapshotFiles, UpProc, lockVars
  <2>2. r \in UpType /\ r.pc = "meta"
    BY <1>p DEF UpType, LockedAt
  <2> HIDE DEF r
  <2>3. LockHeld' /\ AloneTrue'
    BY <2>1, <2>2, LockKept DEF LockedAt
  <2>4. USTyped'
    BY <1>p, <2>1, <2>2 DEF USInv, USTyped, UpType
  <2>5. QED
    BY <2>1, <2>2, <2>3, <2>4, USHeld DEF LockedAt
<1>7. CASE StoreValidators(p)
  <2> DEFINE r == ReadForMerge(usP[p])
  <2>1. /\ usP[p].pc = "meta" /\ usP' = [usP EXCEPT ![p] = r] /\ usMeta' = usP[p].body
        /\ UNCHANGED <<usHome, usLock, usAlone, usClash>>
        /\ UNCHANGED <<usMirror, usOverlay, usSnap, usSnapFiles, usMerged, usShown, usPromoted, usFaults>>
    BY <1>7 DEF StoreValidators, UpProc, lockVars
  <2>2. r \in UpType /\ r.pc = "storedb" /\ r.merge = [up |-> usSnap, local |-> usOverlay]
    BY <1>p, ReadType
  <2> HIDE DEF r
  <2>3. LockHeld' /\ AloneTrue'
    BY <2>1, <2>2, LockKept DEF LockedAt
  <2>4. USTyped'
    BY <1>p, <2>1, <2>2 DEF USInv, USTyped, UpType
  <2>5. QED
    BY <2>1, <2>2, <2>3, <2>4, USHeld DEF LockedAt
<1>8. QED
  BY <1>1, <1>2, <1>3, <1>4, <1>5, <1>6, <1>7 DEF SyncStep

\* Every action keeps the invariant.
LEMMA USStep == ASSUME USInv, [USNext]_usVars PROVE USInv'
<1>1. CASE MirrorMoves
  BY <1>1 DEF MirrorMoves, lockVars, USInv, USTyped, LockHeld, AloneTrue, ServersApart, ReadsHold, Rebuilding, MergePending,
              LocalStays, OneServerIsAlone
<1>2. ASSUME NEW k \in LocalPkgs, PromoteLocal(k) PROVE USInv'
  <2>1. /\ usOverlay' = usOverlay \cup {k} /\ usPromoted' = TRUE /\ UNCHANGED <<usHome, usLock, usAlone, usClash>>
        /\ UNCHANGED <<usMirror, usSnap, usSnapFiles, usMeta, usMerged, usP, usShown, usFaults>>
    BY <1>2 DEF PromoteLocal, lockVars
  <2>2. USTyped' /\ (usShown \subseteq usOverlay)' /\ LocalStays' /\ MergePending' /\ OneServerIsAlone'
    BY <2>1 DEF USInv, USTyped, LocalStays, MergePending, OneServerIsAlone
  <2>3. LockHeld' /\ AloneTrue' /\ ReadsHold'
    BY <2>1 DEF USInv, LockHeld, AloneTrue, ServersApart, ReadsHold
  <2>4. QED
    BY <2>2, <2>3 DEF USInv
<1>3. ASSUME NEW p \in Publishers, NEW k \in LocalPkgs, PublishLocal(p, k) \/ RemoveLocal(p, k) PROVE USInv'
  <2>1. p \in UpProcs /\ usOverlay \cup {k} \in SUBSET LocalPkgs /\ usOverlay \ {k} \in SUBSET LocalPkgs
    BY DEF UpProcs, USInv, USTyped
  <2>2. QED
    BY <1>3, <2>1, USChange DEF PublishLocal, RemoveLocal
<1>4. ASSUME NEW p \in Syncers, SyncStep(p) PROVE USInv'
  BY <1>4, USSync DEF UpProcs
<1>5. CASE UNCHANGED usVars
  BY <1>5 DEF usVars, USInv, USTyped, LockHeld, AloneTrue, ServersApart, ReadsHold, Rebuilding, MergePending,
              LocalStays, OneServerIsAlone
<1>6. QED
  BY <1>1, <1>2, <1>3, <1>4, <1>5, USRebuild, USFail DEF USNext

\* Requests to sync one repository do not overlap.  Nothing in the code keeps two of
\* them apart while they fetch, and then the validators may run ahead: see the README.
OneSync == \A p, q \in Syncers : p = q

\* A sync under way has a database that is at least the snapshot.
Fetched == {"getfiles", "apply", "snapfiles", "meta"}
SnapshotInv ==
  /\ usMeta <= usSnap /\ usSnap <= usMirror
  /\ \A p \in UpProcs :
       /\ usP[p].pc \in Fetched => p \in Syncers /\ usSnap <= usP[p].body /\ usP[p].body <= usMirror
       /\ usP[p].pc \in {"snapfiles", "meta"} => usSnap = usP[p].body

\* Every action keeps the validators behind the snapshot.
LEMMA SnapshotStep ==
  ASSUME OneSync, USInv, SnapshotInv, [USNext]_usVars
  PROVE  SnapshotInv'
<1> USE DEF SnapshotInv, Fetched
<1>t. /\ usMirror \in Nat /\ usSnap \in Nat /\ usMeta \in Nat
      /\ \A p \in UpProcs : usP[p] \in UpType /\ usP[p].body \in Nat /\ SyncIdle.pc = "idle"
      /\ usP \in [UpProcs -> UpType]
  BY SyncIdleType DEF USInv, USTyped, UpType
<1>f. ASSUME NEW p \in UpProcs, NEW r, usP' = [usP EXCEPT ![p] = r], UNCHANGED <<usMirror, usSnap, usMeta>>,
             r.pc \in Fetched => p \in Syncers /\ usSnap <= r.body /\ r.body <= usMirror,
             r.pc \in {"snapfiles", "meta"} => usSnap = r.body
      PROVE  SnapshotInv'
  BY <1>f, <1>t
<1>1. CASE MirrorMoves
  BY <1>1, <1>t DEF MirrorMoves
<1>2. ASSUME NEW k \in LocalPkgs, PromoteLocal(k) PROVE SnapshotInv'
  BY <1>2, <1>t DEF PromoteLocal
<1>3. ASSUME NEW p \in Publishers, NEW k \in LocalPkgs, PublishLocal(p, k) \/ RemoveLocal(p, k) PROVE SnapshotInv'
  <2>1. PICK adds : /\ usP' = [usP EXCEPT ![p] = [SyncIdle EXCEPT !.pc = "rebuild", !.adds = adds]]
                    /\ UNCHANGED <<usMirror, usSnap, usMeta>>
    BY <1>3 DEF PublishLocal, RemoveLocal, ChangeOverlay, UpProc
  <2>2. p \in UpProcs /\ [SyncIdle EXCEPT !.pc = "rebuild", !.adds = adds].pc = "rebuild"
    BY DEF UpProcs, SyncIdle
  <2>3. QED
    BY <1>f, <2>1, <2>2
<1>4. ASSUME NEW p \in UpProcs, RebuildMerged(p) \/ StoreMergedDB(p) \/ StoreMergedFiles(p) \/ UpstreamFails(p)
      PROVE  SnapshotInv'
  <2>1. PICK r : usP' = [usP EXCEPT ![p] = r] /\ r.pc \in {"idle", "storedb", "storefiles"}
                 /\ UNCHANGED <<usMirror, usSnap, usMeta>>
    <3>1. /\ ReadForMerge(usP[p]).pc = "storedb"
          /\ [usP[p] EXCEPT !.pc = "storefiles"].pc = "storefiles"
      BY <1>t, ReadType DEF UpType
    <3>2. QED
      BY <1>4, <1>t, <3>1 DEF RebuildMerged, StoreMergedDB, StoreMergedFiles, UpstreamFails, UpProc
  <2>2. QED
    BY <1>f, <2>1
<1>5. ASSUME NEW p \in Syncers, SyncStep(p) PROVE SnapshotInv'
  <2>p. p \in UpProcs /\ usP[p] \in UpType /\ \A q \in UpProcs : q # p => usP[q].pc \notin Fetched
    BY <1>t DEF UpProcs, OneSync
  <2>1. CASE UpstreamValidators(p) \/ RetryGet(p)
    <3>1. PICK r : usP' = [usP EXCEPT ![p] = r] /\ r.pc \in {"idle", "get"} /\ UNCHANGED <<usMirror, usSnap, usMeta>>
      <4>1. [SyncIdle EXCEPT !.pc = "get", !.etag = usMeta].pc = "get"
        BY DEF SyncIdle
      <4>2. usP[p].pc = "get" => [usP[p] EXCEPT !.tries = @ + 1].pc = "get"
        BY <2>p DEF UpType
      <4>3. QED
        BY <1>t, <2>p, <2>1, <4>1, <4>2 DEF UpstreamValidators, RetryGet, UpProc
    <3>2. QED
      BY <1>f, <2>p, <3>1
  <2>2. CASE ConditionalGet(p)
    <3>1. PICK r : /\ usP' = [usP EXCEPT ![p] = r] /\ UNCHANGED <<usMirror, usSnap, usMeta>>
                   /\ r.pc = "idle" \/ (r.pc = "getfiles" /\ r.body = usMirror)
      <4>1. LET g == [usP[p] EXCEPT !.pc = "getfiles", !.body = usMirror] IN g.pc = "getfiles" /\ g.body = usMirror
        BY <2>p DEF UpType
      <4>2. QED
        BY <1>t, <2>p, <2>2, <4>1 DEF ConditionalGet, UpProc
    <3>2. QED
      BY <1>f, <1>t, <2>p, <3>1
  <2>3. CASE SnapshotFiles(p) \/ \E ok \in BOOLEAN : GetFiles(p, ok)
    <3>1. PICK r : /\ usP' = [usP EXCEPT ![p] = r] /\ UNCHANGED <<usMirror, usSnap, usMeta>>
                   /\ usP[p].pc \in Fetched /\ r.body = usP[p].body
                   /\ r.pc \in {"snapfiles", "meta"} => usP[p].pc = "snapfiles"
      <4>1. CASE SnapshotFiles(p)
        <5>1. LET r == [usP[p] EXCEPT !.pc = "meta"] IN r.body = usP[p].body
          BY <2>p DEF UpType
        <5>2. QED
          BY <4>1, <5>1 DEF SnapshotFiles, UpProc
      <4>2. ASSUME NEW ok \in BOOLEAN, GetFiles(p, ok)
            PROVE  \E r : /\ usP' = [usP EXCEPT ![p] = r] /\ UNCHANGED <<usMirror, usSnap, usMeta>>
                          /\ usP[p].pc \in Fetched /\ r.body = usP[p].body
                          /\ r.pc \in {"snapfiles", "meta"} => usP[p].pc = "snapfiles"
        <5>1. LET r == [usP[p] EXCEPT !.pc = "apply", !.files = IF ok THEN usMirror ELSE 0]
              IN  r.body = usP[p].body /\ r.pc = "apply"
          BY <2>p DEF UpType
        <5>2. QED
          BY <4>2, <5>1 DEF GetFiles, UpProc
      <4>3. QED
        BY <2>3, <4>1, <4>2
    <3>2. QED
      BY <1>f, <2>p, <3>1
  <2>4. CASE ApplySnapshot(p)
    <3>1. /\ usP[p].pc = "apply" /\ usSnap' = usP[p].body /\ UNCHANGED <<usMirror, usMeta>>
          /\ usP' = [usP EXCEPT ![p] = [usP[p] EXCEPT !.pc = "snapfiles"]]
      BY <2>4 DEF ApplySnapshot, UpProc
    <3>2. usSnap <= usP[p].body /\ usP[p].body <= usMirror
      BY <2>p, <3>1
    <3>3. \A q \in UpProcs : usP'[q].pc \in Fetched => q = p /\ usP'[q].body = usP[p].body
      BY <1>t, <2>p, <3>1 DEF UpType
    <3>4. QED
      BY <1>t, <2>p, <3>1, <3>2, <3>3
  <2>5. CASE StoreValidators(p)
    <3>1. /\ usP[p].pc = "meta" /\ usMeta' = usP[p].body /\ UNCHANGED <<usMirror, usSnap>>
          /\ usP' = [usP EXCEPT ![p] = ReadForMerge(usP[p])]
      BY <2>5 DEF StoreValidators, UpProc
    <3>2. usSnap = usP[p].body
      BY <2>p, <3>1
    <3>3. \A q \in UpProcs : usP'[q].pc \notin Fetched
      BY <1>t, <2>p, <3>1, ReadType
    <3>4. QED
      BY <1>t, <3>1, <3>2, <3>3
  <2>6. QED
    BY <1>5, <2>1, <2>2, <2>3, <2>4, <2>5 DEF SyncStep
<1>6. CASE UNCHANGED usVars
  BY <1>6 DEF usVars
<1>7. QED
  BY <1>1, <1>2, <1>3, <1>4, <1>5, <1>6 DEF USNext

\* The invariant holds at first.
LEMMA USStart == USInit => USInv
<1> SUFFICES ASSUME USInit PROVE USInv
  OBVIOUS
<1>1. USTyped /\ usShown \subseteq usOverlay /\ LocalStays /\ MergePending /\ OneServerIsAlone
  BY SyncIdleType DEF USInit, USTyped, LocalStays, MergePending, MergeType, NothingMerged, Merge, OneServerIsAlone
<1>2. LockHeld /\ AloneTrue /\ ReadsHold
  BY SyncIdleType, UpstreamAssumption DEF USInit, LockHeld, AloneTrue, ReadsHold, LockedAt
<1>3. QED
  BY <1>1, <1>2 DEF USInv

\* However publications, removals, promotions and any number of syncs interleave and
\* fail, on any number of servers: local packages stay served and no older merge is
\* left behind, unless the merged set was last put by a process that another server's
\* overlapped; a server alone never overlaps itself.
THEOREM LocalStaysServed == USSpec => [](LocalStays /\ QuietIsMerged /\ OneServerIsAlone)
<1>1. USInv /\ [USNext]_usVars => USInv'
  BY USStep
<1>2. USInv => LocalStays /\ QuietIsMerged /\ OneServerIsAlone
  BY DEF USInv, MergePending, QuietIsMerged
<1>3. QED
  BY <1>1, <1>2, USStart, PTL DEF USSpec

\* One server on its bucket: local packages stay served and no older merge is left
\* behind, whatever interleaves and fails.
OneServer == \A p, q \in UpProcs : usHome[p] = usHome[q]
THEOREM OneServerLayers ==
  USSpec /\ OneServer => [](LocalStaysAnywhere /\ ~usClash)
<1>1. USInv /\ [USNext]_usVars => USInv'
  BY USStep
<1>2. [USNext]_usVars => usHome' = usHome
  <2>1. ASSUME NEW p \in UpProcs, NEW overlay, NEW adds, ChangeOverlay(p, overlay, adds) PROVE usHome' = usHome
    BY <2>1 DEF ChangeOverlay, lockVars
  <2>2. QED
    BY <2>1 DEF USNext, SyncStep, MirrorMoves, PromoteLocal, PublishLocal, RemoveLocal, RebuildMerged, StoreMergedDB,
       StoreMergedFiles, UpstreamFails, UpstreamValidators, ConditionalGet, RetryGet, GetFiles, ApplySnapshot,
       SnapshotFiles, StoreValidators, Lock, Unlock, lockVars, usVars, UpProcs
<1>3. OneServer /\ [USNext]_usVars => OneServer'
  BY <1>2 DEF OneServer
<1>4. USInv /\ OneServer => LocalStaysAnywhere /\ ~usClash
  BY DEF USInv, OneServer, OneServerIsAlone, LocalStays, LocalStaysAnywhere
<1>5. QED
  BY <1>1, <1>3, <1>4, USStart, PTL DEF USSpec

\* When the syncs of a repository come one after the other, on whatever servers, the
\* validators also never promise more than the snapshot holds.
THEOREM LayeringCorrect == OneSync => (USSpec => []LayeringHolds)
<1> SUFFICES ASSUME OneSync PROVE USSpec => []LayeringHolds
  OBVIOUS
<1>1. USInit => SnapshotInv
  BY SyncIdleType DEF USInit, SnapshotInv, Fetched
<1>2. USInv /\ SnapshotInv /\ [USNext]_usVars => USInv' /\ SnapshotInv'
  BY USStep, SnapshotStep
<1>3. USInv /\ SnapshotInv => LayeringHolds
  BY DEF USInv, SnapshotInv, MergePending, LayeringHolds, QuietIsMerged, ValidatorsFollowSnapshot
<1>4. QED
  BY <1>1, <1>2, <1>3, USStart, PTL DEF USSpec

(***************************************************************************)
(* Staged uploads.                                                         *)
(***************************************************************************)
Senders == Uploaders \cup {Junk}
Contents == {{}} \cup {{d} : d \in Senders}
IntentType ==
  [by : Uploaders, granted : Nat, at : Nat, store : [Parts -> Contents], landed : SUBSET Parts, gone : BOOLEAN]
AckType == [pkg : StagedPkgs, how : {"stored", "there"}]
UploaderType ==
  [pc : {"idle", "next", "multipart", "presign", "put", "putsig", "commit", "sent"}, todo : Seq(StagedPkgs),
   id : Nat, signed : BOOLEAN, fallback : BOOLEAN, acked : SUBSET AckType]
HandlerType ==
  [pc : {"idle", "gc", "fetch", "publish", "delete"}, by : Senders, id : Nat, pkg : StagedPkgs \cup {0},
   expired : SUBSET Nat, copy : [Parts -> Contents], signed : BOOLEAN, how : {"stored", "there"}]

SUTyped ==
  /\ suNow \in Nat /\ suIntents \in Seq(IntentType)
  /\ suC \in [Uploaders -> UploaderType] /\ suH \in [Handlers -> HandlerType]
  /\ suPublished \in [StagedPkgs -> SUBSET [Parts -> Contents]]

\* An intent was granted, then written to; until it is committed or old, what landed is there.
IntentSound(it, now) ==
  /\ it.granted <= it.at /\ it.at <= now
  /\ ~it.gone /\ now - it.granted < GCCutoff => \A x \in it.landed : it.store[x] # {}

IntentsSound == \A i \in DOMAIN suIntents : IntentSound(suIntents[i], suNow)

\* Where a client is in its batch.
ClientSound(r, len) ==
  /\ r.id <= len
  /\ r.pc \in {"put", "putsig", "commit"} => r.id # NoIntent
  /\ r.pc \notin {"idle", "next"} => r.todo # <<>>

\* What a handler works on; a collection takes only intents that are old.
HandlerSound(me, intents, now) ==
  /\ me.id <= Len(intents)
  /\ me.pc # "idle" => me.id # NoIntent
  /\ \A i \in me.expired : i \in DOMAIN intents /\ now - intents[i].granted >= GCCutoff
  /\ me.pc \in {"fetch", "publish", "delete"} => me.pkg \in StagedPkgs
  /\ me.pc \in {"publish", "delete"} => me.copy["pkg"] # {}

\* The client of a request waits, for this request only, with the package it is about;
\* the bytes are its own or somebody's junk, and the version is published once it is done.
Waits(h) ==
  LET me == suH[h] IN
  me.by # Junk =>
    /\ me.pc # "idle" /\ suC[me.by].pc = "sent"
    /\ \A g \in Handlers : suH[g].by = me.by => g = h
    /\ me.pc # "gc" => me.pkg = Head(suC[me.by].todo) /\ me.copy["pkg"] \subseteq {me.by, Junk}
    /\ me.pc = "delete" => \E pair \in suPublished[me.pkg] : me.how = "stored" => pair["pkg"] = {me.by}

\* An intent belongs to one client, and holds its bytes or junk.
Owns(c, i) == i # NoIntent /\ (suC[c].id = i \/ \E h \in Handlers : suH[h].by = c /\ suH[h].id = i)
OneOwner ==
  \A c \in Uploaders : \A i \in DOMAIN suIntents :
    Owns(c, i) => suIntents[i].by = c /\ \A x \in Parts : suIntents[i].store[x] \subseteq {c, Junk}

SUInv ==
  /\ SUTyped /\ IntentsSound /\ OneOwner /\ PublishedWasValidated /\ AckedIsPublished
  /\ \A c \in Uploaders : ClientSound(suC[c], Len(suIntents))
  /\ \A h \in Handlers : HandlerSound(suH[h], suIntents, suNow) /\ Waits(h)

\* What is in a store.
LEMMA ContentsFacts ==
  /\ {} \in Contents /\ \A d \in Senders : {d} \in Contents
  /\ \A x \in Contents : x = {} \/ \E d \in Senders : x = {d}
  /\ Junk \in Senders /\ \A c \in Uploaders : c \in Senders /\ c # Junk
  /\ [x \in Parts |-> {}] \in [Parts -> Contents]
  BY StagedAssumption DEF Contents, Senders

\* A put changes one part of one intent.
LEMMA PutEffect ==
  ASSUME SUTyped, NEW i \in DOMAIN suIntents, NEW part \in Parts, NEW d \in Senders, Put(i, part, d)
  PROVE  \E it \in IntentType :
           /\ suIntents' = [suIntents EXCEPT ![i] = it]
           /\ it.by = suIntents[i].by /\ it.granted = suIntents[i].granted /\ it.at = suNow /\ it.gone = suIntents[i].gone
           /\ it.landed = suIntents[i].landed \cup {part}
           /\ it.store = [suIntents[i].store EXCEPT ![part] = {d}]
<1> DEFINE old == suIntents[i]
           it == [old EXCEPT !.store = [old.store EXCEPT ![part] = {d}], !.at = suNow, !.landed = old.landed \cup {part}]
<1>1. old \in IntentType
  BY DEF SUTyped
<1>2. [old.store EXCEPT ![part] = {d}] \in [Parts -> Contents]
  BY <1>1, ContentsFacts DEF IntentType
<1>3. it \in IntentType
  BY <1>1, <1>2 DEF IntentType, SUTyped
<1>4. /\ it.by = old.by /\ it.granted = old.granted /\ it.at = suNow /\ it.gone = old.gone
      /\ it.landed = old.landed \cup {part} /\ it.store = [old.store EXCEPT ![part] = {d}]
  BY <1>1 DEF IntentType
<1>5. suIntents' = [suIntents EXCEPT ![i] = it]
  BY <1>1 DEF Put, SUTyped, IntentType
<1>6. QED
  BY <1>3, <1>4, <1>5

\* A deletion empties one intent.
LEMMA ClearEffect ==
  ASSUME SUTyped, NEW i \in DOMAIN suIntents
  PROVE  \E it \in IntentType :
           /\ Cleared(i) = [suIntents EXCEPT ![i] = it]
           /\ it.by = suIntents[i].by /\ it.granted = suIntents[i].granted /\ it.at = suIntents[i].at /\ it.gone = suIntents[i].gone
           /\ it.landed = suIntents[i].landed /\ it.store = [x \in Parts |-> {}]
<1> DEFINE it == [suIntents[i] EXCEPT !.store = [x \in Parts |-> {}]]
<1>1. suIntents[i] \in IntentType
  BY DEF SUTyped
<1>2. it \in IntentType
  BY <1>1, ContentsFacts DEF IntentType
<1>3. QED
  BY <1>1, <1>2 DEF IntentType, Cleared

\* Nobody gains an intent and no foreign bytes come: the owners stay.
LEMMA OwnersStay ==
  ASSUME OneOwner, DOMAIN suIntents' = DOMAIN suIntents,
         \A i \in DOMAIN suIntents : suIntents'[i].by = suIntents[i].by,
         \A c \in Uploaders : \A i \in DOMAIN suIntents : Owns(c, i)' => Owns(c, i),
         \A c \in Uploaders : \A i \in DOMAIN suIntents :
            Owns(c, i) => \A x \in Parts : suIntents'[i].store[x] \subseteq suIntents[i].store[x] \cup {c, Junk}
  PROVE  OneOwner'
<1>1. ASSUME NEW c \in Uploaders, NEW i \in DOMAIN suIntents, Owns(c, i)'
      PROVE  suIntents'[i].by = c /\ \A x \in Parts : suIntents'[i].store[x] \subseteq {c, Junk}
  <2>1. Owns(c, i) /\ suIntents[i].by = c /\ \A x \in Parts : suIntents[i].store[x] \subseteq {c, Junk}
    BY <1>1 DEF OneOwner
  <2>2. QED
    BY <2>1
<1>2. QED
  BY <1>1 DEF OneOwner

\* What does not change hands stays sound when intents are only added or written to.
LEMMA SUFrame ==
  ASSUME SUInv, SUTyped', suNow' = suNow,
         Len(suIntents) <= Len(suIntents'),
         \A i \in DOMAIN suIntents : i \in DOMAIN suIntents' /\ suIntents'[i].granted = suIntents[i].granted,
         IntentsSound', OneOwner', PublishedWasValidated', AckedIsPublished',
         \A c \in Uploaders : suC'[c] = suC[c] \/ ClientSound(suC'[c], Len(suIntents')),
         \A h \in Handlers : suH'[h] = suH[h] \/ HandlerSound(suH'[h], suIntents', suNow),
         \A h \in Handlers : Waits(h)'
  PROVE  SUInv'
<1>1. Len(suIntents) \in Nat /\ Len(suIntents') \in Nat
  BY DEF SUInv, SUTyped
<1>2. ASSUME NEW c \in Uploaders PROVE ClientSound(suC'[c], Len(suIntents'))
  BY <1>1 DEF SUInv, SUTyped, ClientSound, UploaderType
<1>3. ASSUME NEW h \in Handlers PROVE HandlerSound(suH'[h], suIntents', suNow')
  <2>1. CASE suH'[h] = suH[h]
    <3>1. HandlerSound(suH[h], suIntents, suNow) /\ suH[h].id \in Nat
      BY DEF SUInv, SUTyped, HandlerType
    <3>2. QED
      BY <1>1, <2>1, <3>1 DEF HandlerSound
  <2>2. QED
    BY <2>1
<1>4. QED
  BY <1>2, <1>3 DEF SUInv

\* A client that stopped, or has not begun.
LEMMA StoppedClient ==
  ASSUME SUInv, NEW acked \in SUBSET AckType
  PROVE  LET r == [UploaderIdle EXCEPT !.acked = acked]
         IN /\ r \in UploaderType /\ r.pc = "idle" /\ r.id = NoIntent /\ r.acked = acked
            /\ ClientSound(r, Len(suIntents))
<1> DEFINE r == [UploaderIdle EXCEPT !.acked = acked]
<1>e. <<>> \in Seq(StagedPkgs)
  OBVIOUS
<1>1. r \in UploaderType /\ r.pc = "idle" /\ r.id = NoIntent /\ r.acked = acked
  BY <1>e DEF UploaderIdle, UploaderType, NoIntent
<1> HIDE DEF r
<1>2. ClientSound(r, Len(suIntents))
  BY <1>1 DEF ClientSound, NoIntent, SUInv, SUTyped
<1>3. QED
  BY <1>1, <1>2 DEF r

\* A client that is not waiting goes on by itself.
LEMMA SUClientStep ==
  ASSUME SUInv, NEW c \in Uploaders, NEW r \in UploaderType, Uploader(c, r), suC[c].pc # "sent",
         r.id \in {suC[c].id, NoIntent}, ClientSound(r, Len(suIntents)),
         UNCHANGED <<suNow, suIntents, suH>>, SUTyped',
         PublishedWasValidated', AckedIsPublished', \A p \in StagedPkgs : suPublished[p] \subseteq suPublished'[p]
  PROVE  SUInv'
<1>1. suC' = [suC EXCEPT ![c] = r] /\ suC \in [Uploaders -> UploaderType] /\ suH \in [Handlers -> HandlerType]
  BY DEF Uploader, SUInv, SUTyped
<1>2. \A d \in Uploaders : suC'[d] = (IF d = c THEN r ELSE suC[d]) /\ suC'[d].id \in {suC[d].id, NoIntent}
  BY <1>1
<1>3. OneOwner'
  <2>1. \A d \in Uploaders : \A i \in DOMAIN suIntents : Owns(d, i)' => Owns(d, i)
    BY <1>2 DEF Owns
  <2>2. QED
    BY <2>1, OwnersStay DEF SUInv
<1>4. ASSUME NEW h \in Handlers PROVE Waits(h)'
  <2>1. Waits(h) /\ suH[h].by \in Senders /\ HandlerSound(suH[h], suIntents, suNow)
    BY <1>1 DEF SUInv, HandlerType
  <2>2. suH[h].by # Junk => suH[h].by \in Uploaders /\ suH[h].by # c /\ suC'[suH[h].by] = suC[suH[h].by]
    BY <1>2, <2>1 DEF Waits, Senders
  <2>3. QED
    BY <2>1, <2>2 DEF Waits, HandlerSound
<1>5. IntentsSound'
  BY DEF SUInv, IntentsSound
<1>6. Len(suIntents) <= Len(suIntents')
  BY DEF SUInv, SUTyped
<1>7. QED
  BY <1>2, <1>3, <1>4, <1>5, <1>6, SUFrame

\* uploadPackageFiles without its requests, and the multipart upload.
LEMMA SUClientActions ==
  ASSUME SUInv, NEW c \in Uploaders,
         \/ \E b \in Batches : BeginUpload(c, b)
         \/ NextPackage(c) \/ FallBack(c) \/ uploadMultipart(c)
  PROVE  SUInv'
<1>t. /\ suC[c] \in UploaderType /\ ClientSound(suC[c], Len(suIntents)) /\ suC \in [Uploaders -> UploaderType]
  BY DEF SUInv, SUTyped
<1>k. ASSUME NEW r \in UploaderType, Uploader(c, r), r.acked = suC[c].acked, r.id \in {suC[c].id, NoIntent}, suC[c].pc # "sent",
             ClientSound(r, Len(suIntents)), UNCHANGED <<suNow, suIntents, suH, suPublished>>
      PROVE  SUInv'
  <2>1. suC' = [suC EXCEPT ![c] = r]
    BY <1>k DEF Uploader
  <2>2. SUTyped' /\ PublishedWasValidated'
    BY <1>k, <2>1 DEF SUInv, SUTyped, PublishedWasValidated, ValidPair
  <2>3. AckedIsPublished'
    BY <1>k, <1>t, <2>1 DEF SUInv, AckedIsPublished
  <2>4. QED
    BY <1>k, <2>2, <2>3, SUClientStep
<1>1. ASSUME NEW b \in Batches, BeginUpload(c, b) PROVE SUInv'
  <2> DEFINE r == [suC[c] EXCEPT !.pc = "next", !.todo = b]
  <2>1. suC[c].pc = "idle" /\ Uploader(c, r) /\ UNCHANGED <<suNow, suIntents, suH, suPublished>>
    BY <1>1 DEF BeginUpload
  <2>2. r \in UploaderType /\ r.pc = "next" /\ r.id = suC[c].id /\ r.acked = suC[c].acked
    BY <1>t, StagedAssumption DEF UploaderType
  <2> HIDE DEF r
  <2>3. ClientSound(r, Len(suIntents))
    BY <1>t, <2>2 DEF ClientSound
  <2>4. QED
    BY <1>k, <2>1, <2>2, <2>3
<1>2. CASE NextPackage(c)
  <2> DEFINE r == IF suC[c].todo = <<>> THEN [suC[c] EXCEPT !.pc = "idle"]
                  ELSE [suC[c] EXCEPT !.pc = IF suC[c].fallback THEN "multipart" ELSE "presign"]
  <2>1. suC[c].pc = "next" /\ Uploader(c, r) /\ UNCHANGED <<suNow, suIntents, suH, suPublished>>
    BY <1>2 DEF NextPackage
  <2>2. /\ r \in UploaderType /\ r.id = suC[c].id /\ r.acked = suC[c].acked /\ r.todo = suC[c].todo
        /\ r.pc = "idle" \/ (r.pc \in {"multipart", "presign"} /\ suC[c].todo # <<>>)
    BY <1>t DEF UploaderType
  <2> HIDE DEF r
  <2>3. ClientSound(r, Len(suIntents))
    BY <1>t, <2>2 DEF ClientSound
  <2>4. QED
    BY <1>k, <2>1, <2>2, <2>3
<1>3. CASE FallBack(c)
  <2> DEFINE r == [suC[c] EXCEPT !.pc = "multipart", !.fallback = TRUE]
  <2>1. suC[c].pc = "presign" /\ Uploader(c, r) /\ UNCHANGED <<suNow, suIntents, suH, suPublished>>
    BY <1>3 DEF FallBack
  <2>2. r \in UploaderType /\ r.pc = "multipart" /\ r.id = suC[c].id /\ r.acked = suC[c].acked /\ r.todo = suC[c].todo
    BY <1>t DEF UploaderType
  <2> HIDE DEF r
  <2>3. ClientSound(r, Len(suIntents))
    BY <1>t, <2>1, <2>2 DEF ClientSound
  <2>4. QED
    BY <1>k, <2>1, <2>2, <2>3
<1>4. CASE uploadMultipart(c)
  <2> DEFINE p == Head(suC[c].todo)
             both == [x \in Parts |-> {c}]
             a == [pkg |-> p, how |-> How(p)]
             r == Acknowledge(suC[c], How(p))
  <2>0. /\ suC[c].pc = "multipart" /\ UNCHANGED <<suNow, suIntents, suH>> /\ Uploader(c, r)
        /\ suPublished' = IF suPublished[p] = {} THEN [suPublished EXCEPT ![p] = {both}] ELSE suPublished
    BY <1>4 DEF uploadMultipart, Stored, VersionGate
  <2>p. p \in StagedPkgs /\ Tail(suC[c].todo) \in Seq(StagedPkgs)
    BY <1>t, <2>0, HeadTailProperties DEF ClientSound, UploaderType
  <2>a. a \in AckType /\ a.pkg = p /\ (a.how = "stored" => suPublished[p] = {})
    BY <2>p DEF AckType, How, VersionGate
  <2>r. r = [suC[c] EXCEPT !.pc = "next", !.todo = Tail(suC[c].todo), !.acked = suC[c].acked \cup {a}]
    BY DEF Acknowledge
  <2> HIDE DEF a, r
  <2>2. r \in UploaderType /\ r.pc = "next" /\ r.id = suC[c].id /\ r.acked = suC[c].acked \cup {a}
    BY <1>t, <2>p, <2>a, <2>r DEF UploaderType
  <2>3. both \in [Parts -> Contents] /\ both["pkg"] = {c} /\ both["sig"] = {c} /\ c # Junk
    BY ContentsFacts DEF Parts
  <2> HIDE DEF both, p
  <2>4. suC' = [suC EXCEPT ![c] = r]
    BY <2>0 DEF Uploader
  <2>5. \A q \in StagedPkgs : suPublished'[q] = IF q = p /\ suPublished[p] = {} THEN {both} ELSE suPublished[q]
    BY <2>p, <2>0 DEF SUInv, SUTyped
  <2>6. SUTyped'
    BY <2>0, <2>p, <2>2, <2>3, <2>4 DEF SUInv, SUTyped
  <2>7. PublishedWasValidated'
    BY <2>3, <2>5 DEF SUInv, PublishedWasValidated, ValidPair
  <2>8. \A q \in StagedPkgs : suPublished[q] \subseteq suPublished'[q]
    BY <2>5
  <2>9. AckedIsPublished'
    <3>1. ASSUME NEW d \in Uploaders, NEW b \in suC'[d].acked
          PROVE  \E pair \in suPublished'[b.pkg] : b.how = "stored" => pair["pkg"] = {d}
      <4>1. CASE d = c /\ b = a
        <5>1. CASE suPublished[p] = {}
          BY <2>p, <2>a, <2>3, <2>5, <4>1, <5>1
        <5>2. CASE suPublished[p] # {}
          BY <2>p, <2>a, <2>5, <4>1, <5>2
        <5>3. QED
          BY <5>1, <5>2
      <4>2. CASE ~(d = c /\ b = a)
        <5>1. b \in suC[d].acked /\ b.pkg \in StagedPkgs
          BY <1>t, <2>2, <2>4, <4>2 DEF SUInv, SUTyped, UploaderType, AckType
        <5>2. QED
          BY <2>8, <5>1 DEF SUInv, AckedIsPublished
      <4>3. QED
        BY <4>1, <4>2
    <3>2. QED
      BY <3>1 DEF AckedIsPublished
  <2>10. ClientSound(r, Len(suIntents))
    BY <1>t, <2>2 DEF ClientSound
  <2>11. QED
    BY <2>0, <2>2, <2>6, <2>7, <2>8, <2>9, <2>10, SUClientStep
<1>5. QED
  BY <1>1, <1>2, <1>3, <1>4

\* One intent is written to: the sequence keeps its length and its grants.
LEMMA IntentWritten ==
  ASSUME SUInv, NEW i \in DOMAIN suIntents, NEW it \in IntentType, suIntents' = [suIntents EXCEPT ![i] = it],
         it.granted = suIntents[i].granted, it.by = suIntents[i].by, IntentSound(it, suNow), suNow' = suNow
  PROVE  /\ suIntents' \in Seq(IntentType) /\ Len(suIntents') = Len(suIntents)
         /\ Len(suIntents) <= Len(suIntents') /\ DOMAIN suIntents' = DOMAIN suIntents
         /\ \A j \in DOMAIN suIntents : /\ suIntents'[j] = (IF j = i THEN it ELSE suIntents[j])
                                        /\ suIntents'[j].granted = suIntents[j].granted /\ suIntents'[j].by = suIntents[j].by
         /\ IntentsSound'
<1>1. suIntents \in Seq(IntentType) /\ DOMAIN suIntents = 1..Len(suIntents) /\ Len(suIntents) \in Nat
  BY DEF SUInv, SUTyped
<1>2. /\ suIntents' \in Seq(IntentType) /\ Len(suIntents') = Len(suIntents)
      /\ \A j \in 1..Len(suIntents) : suIntents'[j] = IF j = i THEN it ELSE suIntents[j]
  BY <1>1, ExceptSeq
<1>3. DOMAIN suIntents' = DOMAIN suIntents /\ Len(suIntents) <= Len(suIntents')
  BY <1>1, <1>2
<1>4. IntentsSound'
  BY <1>1, <1>2, <1>3 DEF SUInv, IntentsSound
<1>5. QED
  BY <1>1, <1>2, <1>3, <1>4

\* Clients, handlers and what is published stay as they are for whoever waits.
LEMMA WaitsStay ==
  ASSUME SUInv, NEW h \in Handlers, suH'[h] = suH[h],
         \A g \in Handlers : suH'[g].by \in {suH[g].by, Junk} \/ suC[suH'[g].by].pc # "sent",
         suH[h].by # Junk => suC'[suH[h].by] = suC[suH[h].by],
         \A p \in StagedPkgs : suPublished[p] \subseteq suPublished'[p]
  PROVE  Waits(h)'
<1>1. Waits(h) /\ HandlerSound(suH[h], suIntents, suNow)
  BY DEF SUInv
<1>2. CASE suH[h].by = Junk
  BY <1>2 DEF Waits
<1>3. CASE suH[h].by # Junk
  <2>1. \A g \in Handlers : suH'[g].by = suH[h].by => g = h
    BY <1>1, <1>3 DEF Waits
  <2>2. QED
    BY <1>1, <1>3, <2>1 DEF Waits, HandlerSound
<1>4. QED
  BY <1>2, <1>3

\* The client's put and a late one.
LEMMA SUPutStep ==
  ASSUME SUInv,
         \/ \E c \in Uploaders, part \in Parts : putStagedFile(c, part)
         \/ \E i \in DOMAIN suIntents, part \in Parts, d \in Uploaders \cup {Junk} : LatePut(i, part, d)
  PROVE  SUInv'
<1>k. ASSUME NEW i \in DOMAIN suIntents, NEW part \in Parts, NEW d \in Senders, Put(i, part, d),
             UNCHANGED <<suNow, suH, suPublished>>, suC' \in [Uploaders -> UploaderType],
             d \in {suIntents[i].by, Junk},
             \A c \in Uploaders : /\ suC'[c] = suC[c] \/ ClientSound(suC'[c], Len(suIntents))
                                  /\ suC[c].pc = "sent" => suC'[c] = suC[c]
                                  /\ suC'[c].id = suC[c].id /\ suC'[c].acked = suC[c].acked
      PROVE  SUInv'
  <2>t. SUTyped /\ OneOwner /\ suIntents[i] \in IntentType /\ IntentSound(suIntents[i], suNow) /\ suNow \in Nat
        /\ \A j \in DOMAIN suIntents : suIntents[j] \in IntentType /\ j # NoIntent
    BY DEF SUInv, SUTyped, IntentsSound, NoIntent
  <2>1. PICK it \in IntentType :
           /\ suIntents' = [suIntents EXCEPT ![i] = it]
           /\ it.by = suIntents[i].by /\ it.granted = suIntents[i].granted /\ it.at = suNow /\ it.gone = suIntents[i].gone
           /\ it.landed = suIntents[i].landed \cup {part}
           /\ it.store = [suIntents[i].store EXCEPT ![part] = {d}]
    BY <1>k, <2>t, PutEffect
  <2>2. \A x \in Parts : it.store[x] = IF x = part THEN {d} ELSE suIntents[i].store[x]
    BY <2>t, <2>1 DEF IntentType
  <2>3. IntentSound(it, suNow)
    <3>1. suIntents[i].granted \in Nat /\ suIntents[i].at \in Nat /\ suIntents[i].landed \subseteq Parts
      BY <2>t DEF IntentType
    <3>2. it.granted <= it.at /\ it.at <= suNow
      BY <2>t, <2>1, <3>1 DEF IntentSound
    <3>3. ~it.gone => ~suIntents[i].gone
      BY <2>1, Zenon
    <3>4. ASSUME ~it.gone, suNow - it.granted < GCCutoff, NEW x \in it.landed PROVE it.store[x] # {}
      <4>1. x \in suIntents[i].landed => suIntents[i].store[x] # {}
        BY <2>t, <2>1, <3>3, <3>4 DEF IntentSound
      <4>2. QED
        BY <2>1, <2>2, <3>1, <3>4, <4>1
    <3>5. QED
      BY <3>2, <3>4 DEF IntentSound
  <2>4. /\ suIntents' \in Seq(IntentType) /\ Len(suIntents') = Len(suIntents)
        /\ Len(suIntents) <= Len(suIntents') /\ DOMAIN suIntents' = DOMAIN suIntents
        /\ \A j \in DOMAIN suIntents : /\ suIntents'[j] = (IF j = i THEN it ELSE suIntents[j])
                                       /\ suIntents'[j].granted = suIntents[j].granted /\ suIntents'[j].by = suIntents[j].by
        /\ IntentsSound'
    BY <1>k, <2>1, <2>3, IntentWritten
  <2>5. SUTyped'
    BY <1>k, <2>4 DEF SUInv, SUTyped
  <2>6. \A c \in Uploaders : \A j \in DOMAIN suIntents : Owns(c, j)' => Owns(c, j)
    BY <1>k DEF Owns
  <2>7. ASSUME NEW c \in Uploaders, NEW j \in DOMAIN suIntents, Owns(c, j), NEW x \in Parts
        PROVE  suIntents'[j].store[x] \subseteq suIntents[j].store[x] \cup {c, Junk}
    <3>1. CASE j = i /\ x = part
      <4>2. d \in {c, Junk}
        BY <1>k, <2>t, <2>7, <3>1 DEF OneOwner
      <4>3. QED
        BY <2>2, <2>4, <3>1, <4>2
    <3>2. CASE ~(j = i /\ x = part)
      BY <2>2, <2>4, <3>2
    <3>3. QED
      BY <3>1, <3>2
  <2>8. OneOwner'
    BY <2>t, <2>4, <2>6, <2>7, OwnersStay
  <2>9. PublishedWasValidated' /\ AckedIsPublished'
    BY <1>k DEF SUInv, PublishedWasValidated, AckedIsPublished, ValidPair
  <2>10. ASSUME NEW h \in Handlers PROVE Waits(h)'
    <3>1. suH[h].by # Junk => suH[h].by \in Uploaders /\ suC[suH[h].by].pc = "sent"
      BY DEF SUInv, SUTyped, HandlerType, Waits, Senders
    <3>2. QED
      BY <1>k, <3>1, WaitsStay
  <2>11. QED
    BY <1>k, <2>4, <2>5, <2>8, <2>9, <2>10, SUFrame
<1>1. ASSUME NEW c \in Uploaders, NEW part \in Parts, putStagedFile(c, part) PROVE SUInv'
  <2> DEFINE last == part = "sig" \/ ~suC[c].signed
             r == [suC[c] EXCEPT !.pc = IF last THEN "commit" ELSE "putsig"]
  <2>1. /\ suC[c].pc \in {"put", "putsig"} /\ Put(suC[c].id, part, c) /\ suC' = [suC EXCEPT ![c] = r]
        /\ UNCHANGED <<suNow, suH, suPublished>>
    BY <1>1 DEF putStagedFile, Uploader
  <2>2. suC[c] \in UploaderType /\ ClientSound(suC[c], Len(suIntents)) /\ suC \in [Uploaders -> UploaderType]
    BY DEF SUInv, SUTyped
  <2>3. suC[c].id \in DOMAIN suIntents /\ suC[c].todo # <<>>
    BY <2>1, <2>2 DEF ClientSound, UploaderType, NoIntent, SUInv, SUTyped
  <2>4. /\ r \in UploaderType /\ r.pc \in {"commit", "putsig"} /\ r.id = suC[c].id /\ r.todo = suC[c].todo
        /\ r.acked = suC[c].acked
    BY <2>2 DEF UploaderType
  <2> HIDE DEF r
  <2>5. ClientSound(r, Len(suIntents))
    BY <2>1, <2>2, <2>3, <2>4 DEF ClientSound
  <2>6. c \in Senders /\ c # Junk
    BY ContentsFacts
  <2>7. suC' \in [Uploaders -> UploaderType]
    BY <2>1, <2>2, <2>4
  <2>8. \A b \in Uploaders : /\ suC'[b] = suC[b] \/ ClientSound(suC'[b], Len(suIntents))
                             /\ suC[b].pc = "sent" => suC'[b] = suC[b]
                             /\ suC'[b].id = suC[b].id /\ suC'[b].acked = suC[b].acked
    BY <2>1, <2>2, <2>4, <2>5
  <2>9. suIntents[suC[c].id].by = c
    BY <2>3 DEF SUInv, OneOwner, Owns, NoIntent, SUTyped
  <2>10. QED
    BY <1>k, <2>1, <2>3, <2>6, <2>7, <2>8, <2>9
<1>2. ASSUME NEW i \in DOMAIN suIntents, NEW part \in Parts, NEW d \in Uploaders \cup {Junk}, LatePut(i, part, d) PROVE SUInv'
  <2>1. Put(i, part, d) /\ UNCHANGED <<suNow, suC, suH, suPublished>> /\ d \in Senders /\ d \in {suIntents[i].by, Junk}
    BY <1>2 DEF LatePut, Senders
  <2>2. suC' \in [Uploaders -> UploaderType]
    BY <2>1 DEF SUInv, SUTyped
  <2>3. QED
    BY <1>k, <2>1, <2>2
<1>3. QED
  BY <1>1, <1>2

\* A handler without work.
LEMMA HandlerIdleSound ==
  ASSUME SUInv
  PROVE  /\ HandlerIdle \in HandlerType /\ HandlerIdle.by = Junk /\ HandlerIdle.id = NoIntent
         /\ HandlerIdle.pc = "idle" /\ HandlerIdle.expired = {}
         /\ HandlerIdle.copy = [x \in Parts |-> {}]
         /\ Len(suIntents') \in Nat => HandlerSound(HandlerIdle, suIntents', suNow)
<1>1. /\ HandlerIdle \in HandlerType /\ HandlerIdle.by = Junk /\ HandlerIdle.id = NoIntent
      /\ HandlerIdle.pc = "idle" /\ HandlerIdle.expired = {} /\ HandlerIdle.copy = [x \in Parts |-> {}]
  BY ContentsFacts DEF HandlerIdle, HandlerType, NoIntent
<1>2. Len(suIntents') \in Nat => HandlerSound(HandlerIdle, suIntents', suNow)
  BY <1>1 DEF HandlerSound, NoIntent
<1>3. QED
  BY <1>1, <1>2

\* A request ends, and whoever waits for it goes on.
LEMMA SUAnswer ==
  ASSUME SUInv, NEW h \in Handlers, NEW r \in UploaderType, Handler(h, HandlerIdle),
         IF Answered(h) THEN Uploader(suH[h].by, r) ELSE UNCHANGED suC,
         r.id \in {suC[suH[h].by].id, suH[h].id, NoIntent}, ClientSound(r, Len(suIntents)),
         UNCHANGED <<suNow, suPublished>>, AckedIsPublished',
         suIntents' \in Seq(IntentType), Len(suIntents') = Len(suIntents), DOMAIN suIntents' = DOMAIN suIntents,
         \A i \in DOMAIN suIntents : /\ suIntents'[i].granted = suIntents[i].granted /\ suIntents'[i].by = suIntents[i].by
                                     /\ \A x \in Parts : suIntents'[i].store[x] \subseteq suIntents[i].store[x],
         IntentsSound'
  PROVE  SUInv'
<1> DEFINE c == suH[h].by
<1>t. /\ suC \in [Uploaders -> UploaderType] /\ suH \in [Handlers -> HandlerType] /\ Len(suIntents) \in Nat
      /\ \A g \in Handlers : suH[g].by \in Senders /\ Waits(g)
  BY DEF SUInv, SUTyped, HandlerType
<1>i. /\ HandlerIdle \in HandlerType /\ HandlerIdle.by = Junk /\ HandlerIdle.id = NoIntent
      /\ HandlerSound(HandlerIdle, suIntents', suNow)
  BY <1>t, HandlerIdleSound
<1>1. suH' = [suH EXCEPT ![h] = HandlerIdle]
      /\ \A g \in Handlers : suH'[g] = IF g = h THEN HandlerIdle ELSE suH[g]
  BY <1>t DEF Handler
<1>2. c # Junk => c \in Uploaders
  BY <1>t DEF Senders
<1>3. /\ suC' \in [Uploaders -> UploaderType]
      /\ \A d \in Uploaders : suC'[d] = IF d = c THEN r ELSE suC[d]
  BY <1>t, <1>2, StagedAssumption DEF Answered, Uploader
<1>4. SUTyped'
  BY <1>i, <1>1, <1>3 DEF SUInv, SUTyped
<1>5. ASSUME NEW d \in Uploaders, NEW i \in DOMAIN suIntents, Owns(d, i)' PROVE Owns(d, i)
  <2>1. i # NoIntent
    BY <1>5 DEF Owns
  <2>2. CASE suC'[d].id = i
    BY <1>3, <2>1, <2>2 DEF Owns
  <2>3. CASE \E g \in Handlers : suH'[g].by = d /\ suH'[g].id = i
    BY <1>i, <1>1, <2>1, <2>3 DEF Owns
  <2>4. QED
    BY <1>5, <2>2, <2>3 DEF Owns
<1>6. OneOwner'
  <2>1. \A d \in Uploaders : \A i \in DOMAIN suIntents :
            Owns(d, i) => \A x \in Parts : suIntents'[i].store[x] \subseteq suIntents[i].store[x] \cup {d, Junk}
    OBVIOUS
  <2>2. QED
    BY <1>5, <2>1, OwnersStay DEF SUInv
<1>7. PublishedWasValidated'
  BY DEF SUInv, PublishedWasValidated, ValidPair
<1>8. ASSUME NEW g \in Handlers PROVE Waits(g)'
  <2>1. CASE g = h
    BY <1>i, <1>1, <2>1 DEF Waits
  <2>2. CASE g # h
    <3>1. suH'[g] = suH[g]
      BY <1>1, <2>2
    <3>2. suH[g].by # Junk => suH[g].by \in Uploaders /\ suH[g].by # c /\ suC'[suH[g].by] = suC[suH[g].by]
      BY <1>t, <1>3, <2>2 DEF Waits, Senders
    <3>3. \A f \in Handlers : suH'[f].by \in {suH[f].by, Junk}
      BY <1>i, <1>1
    <3>4. QED
      BY <3>1, <3>2, <3>3, WaitsStay
  <2>3. QED
    BY <2>1, <2>2
<1>9. Len(suIntents) <= Len(suIntents')
  BY <1>t
<1>10. QED
  BY <1>i, <1>1, <1>3, <1>4, <1>6, <1>7, <1>8, <1>9, SUFrame

\* The clock and a client that gives up.
LEMMA SUTickOrStop ==
  ASSUME SUInv, StagedTick \/ \E c \in Uploaders : UploadStops(c)
  PROVE  SUInv'
<1>1. CASE StagedTick
  <2>1. suNow' = suNow + 1 /\ UNCHANGED <<suIntents, suC, suH, suPublished>>
    BY <1>1 DEF StagedTick
  <2>n. suNow \in Nat /\ suNow' \in Nat /\ GCCutoff \in Nat
    BY <2>1, StagedAssumption DEF SUInv, SUTyped
  <2>2. SUTyped'
    BY <2>1, <2>n DEF SUInv, SUTyped
  <2>a. PublishedWasValidated'
    BY <2>1 DEF SUInv, PublishedWasValidated, ValidPair
  <2>b. AckedIsPublished'
    BY <2>1 DEF SUInv, AckedIsPublished
  <2>3. OneOwner'
    BY <2>1 DEF SUInv, OneOwner, Owns
  <2>c. ASSUME NEW h \in Handlers PROVE Waits(h)'
    <3>1. suH[h].by # Junk => suC'[suH[h].by] = suC[suH[h].by]
      BY <2>1
    <3>2. QED
      BY <2>1, <3>1, WaitsStay
  <2>4. \A i \in DOMAIN suIntents : suIntents[i] \in IntentType
    BY DEF SUInv, SUTyped
  <2>5. IntentsSound'
    <3>1. ASSUME NEW i \in DOMAIN suIntents PROVE IntentSound(suIntents[i], suNow')
      <4>1. IntentSound(suIntents[i], suNow) /\ suIntents[i].granted \in Nat /\ suIntents[i].at \in Nat
        BY <2>4 DEF SUInv, IntentsSound, IntentType
      <4>2. suIntents[i].at <= suNow'
        BY <2>1, <2>n, <4>1 DEF IntentSound
      <4>3. suNow' - suIntents[i].granted < GCCutoff => suNow - suIntents[i].granted < GCCutoff
        BY <2>1, <2>n, <4>1
      <4>4. QED
        BY <4>1, <4>2, <4>3 DEF IntentSound
    <3>2. QED
      BY <2>1, <3>1 DEF IntentsSound
  <2>6. \A h \in Handlers : HandlerSound(suH[h], suIntents, suNow')
    BY <2>1, <2>4, StagedAssumption DEF SUInv, SUTyped, HandlerSound, IntentType
  <2>7. QED
    BY <2>1, <2>2, <2>a, <2>b, <2>3, <2>c, <2>5, <2>6 DEF SUInv
<1>2. ASSUME NEW c \in Uploaders, UploadStops(c) PROVE SUInv'
  <2> DEFINE r == [UploaderIdle EXCEPT !.acked = suC[c].acked]
             f(h) == IF suH[h].by = c THEN [suH[h] EXCEPT !.by = Junk] ELSE suH[h]
  <2>1. /\ suC' = [suC EXCEPT ![c] = r] /\ suH' = [h \in Handlers |-> f(h)]
        /\ UNCHANGED <<suNow, suIntents, suPublished>>
    BY <1>2 DEF UploadStops, Uploader
  <2>2. suC \in [Uploaders -> UploaderType] /\ suH \in [Handlers -> HandlerType]
    BY DEF SUInv, SUTyped
  <2>3. /\ r \in UploaderType /\ r.id = NoIntent /\ r.acked = suC[c].acked
        /\ ClientSound(r, Len(suIntents))
    BY <2>2, StoppedClient DEF UploaderType
  <2>4. \A h \in Handlers : /\ f(h) \in HandlerType /\ f(h).by = (IF suH[h].by = c THEN Junk ELSE suH[h].by)
                            /\ f(h).pc = suH[h].pc /\ f(h).id = suH[h].id /\ f(h).pkg = suH[h].pkg
                            /\ f(h).expired = suH[h].expired /\ f(h).copy = suH[h].copy /\ f(h).how = suH[h].how
    BY <2>2, ContentsFacts DEF HandlerType
  <2> HIDE DEF r, f
  <2>5. \A d \in Uploaders : suC'[d] = IF d = c THEN r ELSE suC[d]
    BY <2>1, <2>2
  <2>6. SUTyped' /\ PublishedWasValidated' /\ IntentsSound'
    BY <2>1, <2>2, <2>3, <2>4 DEF SUInv, SUTyped, PublishedWasValidated, ValidPair, IntentsSound
  <2>7. AckedIsPublished'
    BY <2>1, <2>3, <2>5 DEF SUInv, AckedIsPublished
  <2>8. \A d \in Uploaders : \A i \in DOMAIN suIntents : Owns(d, i)' => Owns(d, i)
    BY <2>1, <2>3, <2>4, <2>5, ContentsFacts DEF Owns
  <2>9. OneOwner'
    BY <2>1, <2>8, OwnersStay DEF SUInv
  <2>10. ASSUME NEW h \in Handlers PROVE HandlerSound(suH'[h], suIntents', suNow)
    <3>1. HandlerSound(suH[h], suIntents, suNow)
      BY DEF SUInv
    <3>2. QED
      BY <2>1, <2>4, <3>1 DEF HandlerSound
  <2>11. ASSUME NEW h \in Handlers PROVE Waits(h)'
    <3>1. Waits(h) /\ suH[h].by \in Senders
      BY <2>2 DEF SUInv, HandlerType
    <3>2. suH'[h].by # Junk => /\ suH[h].by # c /\ suH'[h].by = suH[h].by /\ suC'[suH[h].by] = suC[suH[h].by]
                               /\ \A g \in Handlers : suH'[g].by = suH[h].by => suH[g].by = suH[h].by
      BY <2>1, <2>4, <2>5, <3>1 DEF Senders
    <3>3. /\ suH'[h].pc = suH[h].pc /\ suH'[h].pkg = suH[h].pkg /\ suH'[h].copy = suH[h].copy /\ suH'[h].how = suH[h].how
      BY <2>1, <2>4
    <3>4. QED
      BY <2>1, <3>1, <3>2, <3>3 DEF Waits
  <2>12. Len(suIntents) <= Len(suIntents')
    BY <2>1 DEF SUInv, SUTyped
  <2>13. QED
    BY <2>1, <2>3, <2>5, <2>6, <2>7, <2>9, <2>10, <2>11, <2>12, SUFrame
<1>3. QED
  BY <1>1, <1>2

\* A client sends a request and waits.
LEMMA SURequest ==
  ASSUME SUInv, NEW c \in Uploaders, NEW h \in Handlers, NEW r \in UploaderType, NEW m \in HandlerType,
         Handler(h, m), Uploader(c, r), suC[c].pc # "sent",
         r.pc = "sent", r.todo = suC[c].todo, r.acked = suC[c].acked, ClientSound(r, Len(suIntents')),
         m.by = c, m.pc \in {"gc", "fetch"}, m.pc = "fetch" => m.pkg = Head(r.todo), m.copy["pkg"] = {},
         HandlerSound(m, suIntents', suNow), UNCHANGED <<suNow, suPublished>>,
         suIntents' \in Seq(IntentType), Len(suIntents) <= Len(suIntents'),
         \A i \in DOMAIN suIntents : i \in DOMAIN suIntents' /\ suIntents'[i].granted = suIntents[i].granted,
         IntentsSound', OneOwner'
  PROVE  SUInv'
<1>t. suC \in [Uploaders -> UploaderType] /\ suH \in [Handlers -> HandlerType]
  BY DEF SUInv, SUTyped
<1>1. /\ suC' = [suC EXCEPT ![c] = r] /\ suH' = [suH EXCEPT ![h] = m]
      /\ \A d \in Uploaders : suC'[d] = IF d = c THEN r ELSE suC[d]
      /\ \A g \in Handlers : suH'[g] = IF g = h THEN m ELSE suH[g]
  BY <1>t DEF Uploader, Handler
<1>2. SUTyped'
  BY <1>t, <1>1 DEF SUInv, SUTyped
<1>3. PublishedWasValidated'
  BY DEF SUInv, PublishedWasValidated, ValidPair
<1>4. AckedIsPublished'
  <2>1. \A d \in Uploaders : suC'[d].acked = suC[d].acked
    BY <1>1
  <2>2. AckedIsPublished /\ suPublished' = suPublished
    BY DEF SUInv
  <2>3. QED
    BY ZenonT(60), <2>1, <2>2 DEF AckedIsPublished
<1>5. \A g \in Handlers : suH[g].by # Junk => suH[g].by \in Uploaders /\ suH[g].by # c
  BY <1>t DEF SUInv, Waits, HandlerType, Senders
<1>6. ASSUME NEW g \in Handlers PROVE Waits(g)'
  <2>1. CASE g = h
    <3>1. \A f \in Handlers : suH'[f].by = c => f = h
      BY <1>1, <1>5, ContentsFacts
    <3>2. m.copy["pkg"] \subseteq {c, Junk}
      OBVIOUS
    <3>3. suH'[h] = m /\ suC'[c] = r
      BY <1>1
    <3>4. QED
      BY <2>1, <3>1, <3>2, <3>3 DEF Waits
  <2>2. CASE g # h
    BY <1>1, <1>5, <2>2, WaitsStay
  <2>3. QED
    BY <2>1, <2>2
<1>7. \A d \in Uploaders : suC'[d] = suC[d] \/ ClientSound(suC'[d], Len(suIntents'))
  BY <1>1
<1>8. \A g \in Handlers : suH'[g] = suH[g] \/ HandlerSound(suH'[g], suIntents', suNow)
  BY <1>1
<1>9. QED
  BY <1>2, <1>3, <1>4, <1>6, <1>7, <1>8, SUFrame

\* A handler goes on with its request.
LEMMA SUServe ==
  ASSUME SUInv, NEW h \in Handlers, NEW m \in HandlerType, Handler(h, m),
         m.by = suH[h].by, m.id = suH[h].id, UNCHANGED <<suNow, suC>>,
         HandlerSound(m, suIntents', suNow), Waits(h)', PublishedWasValidated',
         suPublished' \in [StagedPkgs -> SUBSET [Parts -> Contents]],
         \A p \in StagedPkgs : suPublished[p] \subseteq suPublished'[p],
         suIntents' \in Seq(IntentType), Len(suIntents') = Len(suIntents), DOMAIN suIntents' = DOMAIN suIntents,
         \A i \in DOMAIN suIntents : /\ suIntents'[i].granted = suIntents[i].granted /\ suIntents'[i].by = suIntents[i].by
                                     /\ \A x \in Parts : suIntents'[i].store[x] \subseteq suIntents[i].store[x],
         IntentsSound'
  PROVE  SUInv'
<1>t. suC \in [Uploaders -> UploaderType] /\ suH \in [Handlers -> HandlerType] /\ Len(suIntents) \in Nat
  BY DEF SUInv, SUTyped
<1>1. /\ suH' = [suH EXCEPT ![h] = m]
      /\ \A g \in Handlers : suH'[g] = (IF g = h THEN m ELSE suH[g]) /\ suH'[g].by = suH[g].by /\ suH'[g].id = suH[g].id
  BY <1>t DEF Handler
<1>2. SUTyped'
  BY <1>t, <1>1 DEF SUInv, SUTyped
<1>3. \A c \in Uploaders : \A a \in suC[c].acked : a.pkg \in StagedPkgs
  BY <1>t DEF UploaderType, AckType
<1>4. AckedIsPublished'
  BY <1>3 DEF SUInv, AckedIsPublished
<1>5. OneOwner'
  <2>1. \A d \in Uploaders : \A i \in DOMAIN suIntents : Owns(d, i)' => Owns(d, i)
    BY <1>1 DEF Owns
  <2>2. \A d \in Uploaders : \A i \in DOMAIN suIntents :
            Owns(d, i) => \A x \in Parts : suIntents'[i].store[x] \subseteq suIntents[i].store[x] \cup {d, Junk}
    OBVIOUS
  <2>3. QED
    BY <2>1, <2>2, OwnersStay DEF SUInv
<1>6. ASSUME NEW g \in Handlers, g # h PROVE Waits(g)'
  BY <1>1, <1>6, WaitsStay
<1>7. Len(suIntents) <= Len(suIntents')
  BY <1>t
<1>8. QED
  BY <1>1, <1>2, <1>4, <1>5, <1>6, <1>7, SUFrame

\* PresignUpload: a new intent, which nobody else owns.
LEMMA SUPresign ==
  ASSUME SUInv, NEW c \in Uploaders, NEW h \in Handlers, NEW signed \in BOOLEAN, PresignUpload(c, h, signed)
  PROVE  SUInv'
<1> DEFINE n == [by |-> c, granted |-> suNow, at |-> suNow, store |-> [x \in Parts |-> {}], landed |-> {}, gone |-> FALSE]
           m == [HandlerIdle EXCEPT !.pc = "gc", !.by = c, !.id = Len(suIntents) + 1, !.expired = Expired]
           r == [suC[c] EXCEPT !.pc = "sent", !.id = NoIntent, !.signed = signed]
           len == Len(suIntents)
<1>t. /\ suIntents \in Seq(IntentType) /\ len \in Nat /\ DOMAIN suIntents = 1..len /\ suNow \in Nat
      /\ suC \in [Uploaders -> UploaderType] /\ suH \in [Handlers -> HandlerType]
      /\ ClientSound(suC[c], len)
  BY DEF SUInv, SUTyped
<1>1. /\ suC[c].pc = "presign" /\ suIntents' = Append(suIntents, n) /\ Handler(h, m) /\ Uploader(c, r)
      /\ UNCHANGED <<suNow, suPublished>>
  BY DEF PresignUpload
<1>2. n \in IntentType /\ n.by = c /\ n.granted = suNow /\ n.at = suNow /\ n.store = [x \in Parts |-> {}] /\ n.landed = {}
  BY <1>t, ContentsFacts DEF IntentType
<1>3. Expired \subseteq DOMAIN suIntents
  BY DEF Expired, ExpiredSince
<1>4. /\ m \in HandlerType /\ m.pc = "gc" /\ m.by = c /\ m.id = len + 1 /\ m.expired = Expired
      /\ m.copy = [x \in Parts |-> {}]
  <2>1. Expired \in SUBSET Nat /\ len + 1 \in Nat /\ c \in Senders
    BY <1>t, <1>3, ContentsFacts
  <2>2. HandlerIdle \in HandlerType /\ HandlerIdle.copy = [x \in Parts |-> {}]
    BY HandlerIdleSound
  <2>3. QED
    BY <2>1, <2>2 DEF HandlerType
<1>5. /\ r \in UploaderType /\ r.pc = "sent" /\ r.id = NoIntent /\ r.todo = suC[c].todo /\ r.acked = suC[c].acked
  BY <1>t DEF UploaderType, NoIntent
<1> HIDE DEF n, m, r
<1>6. /\ suIntents' \in Seq(IntentType) /\ Len(suIntents') = len + 1 /\ suIntents'[len + 1] = n
      /\ DOMAIN suIntents' = 1..(len + 1) /\ \A i \in DOMAIN suIntents : suIntents'[i] = suIntents[i]
  BY <1>t, <1>1, <1>2, AppendProperties
<1>7. IntentsSound'
  <2>1. IntentSound(n, suNow)
    BY <1>t, <1>2 DEF IntentSound
  <2>2. ASSUME NEW i \in DOMAIN suIntents' PROVE IntentSound(suIntents'[i], suNow)
    <3>1. CASE i = len + 1
      BY <1>6, <2>1, <3>1
    <3>2. CASE i # len + 1
      BY <1>t, <1>6, <3>2 DEF SUInv, IntentsSound
    <3>3. QED
      BY <3>1, <3>2
  <2>3. QED
    BY <1>1, <2>2 DEF IntentsSound
<1>8. \A d \in Uploaders : \A i \in DOMAIN suIntents' : Owns(d, i)' => (i = len + 1 /\ d = c) \/ (i \in DOMAIN suIntents /\ Owns(d, i))
  <2>1. /\ \A d \in Uploaders : suC'[d].id \in {suC[d].id, NoIntent} /\ suC[d].id \in Nat /\ suC[d].id <= len
        /\ \A g \in Handlers : suH'[g] = (IF g = h THEN m ELSE suH[g]) /\ suH[g].id \in Nat /\ suH[g].id <= len
    BY <1>t, <1>1, <1>5 DEF Uploader, Handler, SUInv, ClientSound, HandlerSound, UploaderType, HandlerType
  <2>2. ASSUME NEW d \in Uploaders, NEW i \in DOMAIN suIntents', Owns(d, i)'
        PROVE  (i = len + 1 /\ d = c) \/ (i \in DOMAIN suIntents /\ Owns(d, i))
    <3>1. i # NoIntent /\ i \in 1..(len + 1)
      BY <1>6, <2>2 DEF Owns
    <3>2. CASE suC'[d].id = i
      BY <1>t, <2>1, <3>1, <3>2 DEF Owns
    <3>3. ASSUME NEW g \in Handlers, suH'[g].by = d, suH'[g].id = i
          PROVE  (i = len + 1 /\ d = c) \/ (i \in DOMAIN suIntents /\ Owns(d, i))
      BY <1>t, <1>4, <2>1, <3>1, <3>3 DEF Owns
    <3>4. QED
      BY <2>2, <3>2, <3>3 DEF Owns
  <2>3. QED
    BY <2>2
<1>9. OneOwner'
  <2>2. ASSUME NEW d \in Uploaders, NEW i \in DOMAIN suIntents', Owns(d, i)'
        PROVE  suIntents'[i].by = d /\ \A x \in Parts : suIntents'[i].store[x] \subseteq {d, Junk}
    <3>1. CASE i = len + 1
      BY <1>t, <1>2, <1>6, <1>8, <2>2, <3>1
    <3>2. CASE i # len + 1
      <4>1. i \in DOMAIN suIntents /\ Owns(d, i)
        BY <1>8, <2>2, <3>2
      <4>2. QED
        BY <1>6, <4>1 DEF SUInv, OneOwner
    <3>3. QED
      BY <3>1, <3>2
  <2>3. QED
    BY <2>2 DEF OneOwner
<1>10. HandlerSound(m, suIntents', suNow)
  <2>1. ASSUME NEW i \in Expired PROVE i \in DOMAIN suIntents' /\ suNow - suIntents'[i].granted >= GCCutoff
    <3>1. i \in DOMAIN suIntents /\ suNow - suIntents[i].at >= GCCutoff
      BY DEF Expired, ExpiredSince
    <3>2. suIntents[i].granted <= suIntents[i].at /\ suIntents[i].granted \in Nat /\ suIntents[i].at \in Nat
      <4>1. IntentSound(suIntents[i], suNow) /\ suIntents[i] \in IntentType
        BY <1>t, <3>1 DEF SUInv, IntentsSound
      <4>2. QED
        BY <4>1 DEF IntentSound, IntentType
    <3>3. suNow - suIntents[i].granted >= GCCutoff
      BY <1>t, <3>1, <3>2, StagedAssumption
    <3>4. QED
      BY <1>t, <1>6, <3>1, <3>3
  <2>2. QED
    BY <1>t, <1>4, <1>6, <2>1 DEF HandlerSound, NoIntent
<1>11. ClientSound(r, Len(suIntents'))
  BY <1>t, <1>1, <1>5, <1>6 DEF ClientSound, NoIntent
<1>12. m.copy["pkg"] = {}
  BY <1>4 DEF Parts
<1>13. Len(suIntents) <= Len(suIntents') /\ \A i \in DOMAIN suIntents : i \in DOMAIN suIntents' /\ suIntents'[i].granted = suIntents[i].granted /\ suIntents'[i].by = suIntents[i].by
  BY <1>t, <1>6
<1>14. QED
  BY <1>1, <1>4, <1>5, <1>6, <1>7, <1>9, <1>10, <1>11, <1>12, <1>13, SURequest

\* CommitUpload: the handler takes over the client's intent.
LEMMA SUCommit ==
  ASSUME SUInv, NEW c \in Uploaders, NEW h \in Handlers, CommitUpload(c, h)
  PROVE  SUInv'
<1> DEFINE m == [HandlerIdle EXCEPT !.pc = "fetch", !.by = c, !.id = suC[c].id,
                                    !.pkg = Head(suC[c].todo), !.signed = suC[c].signed]
           r == [suC[c] EXCEPT !.pc = "sent"]
<1>t. /\ suIntents \in Seq(IntentType) /\ Len(suIntents) \in Nat /\ suC[c] \in UploaderType
      /\ suC \in [Uploaders -> UploaderType] /\ suH \in [Handlers -> HandlerType]
      /\ ClientSound(suC[c], Len(suIntents))
  BY DEF SUInv, SUTyped
<1>1. suC[c].pc = "commit" /\ Handler(h, m) /\ Uploader(c, r) /\ UNCHANGED <<suNow, suIntents, suPublished>>
  BY DEF CommitUpload
<1>2. suC[c].id # NoIntent /\ suC[c].todo # <<>> /\ suC[c].id \in Nat /\ suC[c].id <= Len(suIntents)
  BY <1>t, <1>1 DEF ClientSound, UploaderType
<1>3. Head(suC[c].todo) \in StagedPkgs
  BY <1>t, <1>2, HeadTailProperties DEF UploaderType
<1>4. /\ m \in HandlerType /\ m.pc = "fetch" /\ m.by = c /\ m.id = suC[c].id /\ m.expired = {}
      /\ m.copy = [x \in Parts |-> {}] /\ m.pkg = Head(suC[c].todo)
  BY <1>t, <1>2, <1>3, ContentsFacts, HandlerIdleSound DEF HandlerType, UploaderType
<1>5. /\ r \in UploaderType /\ r.pc = "sent" /\ r.id = suC[c].id /\ r.todo = suC[c].todo /\ r.acked = suC[c].acked
  BY <1>t DEF UploaderType
<1> HIDE DEF m, r
<1>6. OneOwner'
  <2>1. /\ \A d \in Uploaders : suC'[d].id = suC[d].id
        /\ \A g \in Handlers : suH'[g] = IF g = h THEN m ELSE suH[g]
    BY <1>t, <1>1, <1>5 DEF Uploader, Handler
  <2>2. \A d \in Uploaders : \A i \in DOMAIN suIntents : Owns(d, i)' => Owns(d, i)
    BY <1>4, <2>1 DEF Owns
  <2>3. QED
    BY <1>1, <2>2, OwnersStay DEF SUInv
<1>7. HandlerSound(m, suIntents', suNow) /\ ClientSound(r, Len(suIntents')) /\ m.copy["pkg"] = {}
  BY <1>t, <1>1, <1>2, <1>3, <1>4, <1>5 DEF HandlerSound, ClientSound, Parts
<1>8. IntentsSound' /\ suIntents' \in Seq(IntentType) /\ Len(suIntents) <= Len(suIntents')
  BY <1>t, <1>1 DEF SUInv, IntentsSound
<1>9. QED
  BY <1>1, <1>2, <1>4, <1>5, <1>6, <1>7, <1>8, SURequest

\* gcStagedUploads: what it empties is old.
LEMMA SUCollect ==
  ASSUME SUInv, NEW h \in Handlers, NEW i \in DOMAIN suIntents, NEW fails \in BOOLEAN, gcStagedUploads(h, i, fails)
  PROVE  SUInv'
<1> DEFINE m == [suH[h] EXCEPT !.expired = suH[h].expired \ {i}]
<1>t. /\ SUTyped /\ suIntents \in Seq(IntentType) /\ Len(suIntents) \in Nat /\ suNow \in Nat
      /\ suH[h] \in HandlerType /\ suH \in [Handlers -> HandlerType]
      /\ HandlerSound(suH[h], suIntents, suNow) /\ Waits(h) /\ IntentSound(suIntents[i], suNow)
      /\ suIntents[i] \in IntentType
  BY DEF SUInv, SUTyped, IntentsSound
<1>1. /\ suH[h].pc = "gc" /\ i \in suH[h].expired /\ Handler(h, m) /\ UNCHANGED <<suNow, suC, suPublished>>
      /\ suIntents' = IF fails THEN suIntents ELSE Cleared(i)
  BY DEF gcStagedUploads
<1>2. /\ m \in HandlerType /\ m.pc = "gc" /\ m.by = suH[h].by /\ m.id = suH[h].id /\ m.expired \subseteq suH[h].expired
  BY <1>t, <1>1 DEF HandlerType
<1> HIDE DEF m
<1>3. /\ suIntents' \in Seq(IntentType) /\ Len(suIntents') = Len(suIntents) /\ DOMAIN suIntents' = DOMAIN suIntents
      /\ \A j \in DOMAIN suIntents : /\ suIntents'[j].granted = suIntents[j].granted /\ suIntents'[j].by = suIntents[j].by
                                     /\ \A x \in Parts : suIntents'[j].store[x] \subseteq suIntents[j].store[x]
      /\ IntentsSound'
  <2>1. CASE fails
    BY <1>t, <1>1, <2>1 DEF SUInv, IntentsSound
  <2>2. CASE ~fails
    <3>1. PICK it \in IntentType :
           /\ Cleared(i) = [suIntents EXCEPT ![i] = it]
           /\ it.by = suIntents[i].by /\ it.granted = suIntents[i].granted /\ it.at = suIntents[i].at /\ it.gone = suIntents[i].gone
           /\ it.landed = suIntents[i].landed /\ it.store = [x \in Parts |-> {}]
      BY <1>t, ClearEffect
    <3>2. IntentSound(it, suNow)
      <4>1. suNow - it.granted >= GCCutoff /\ it.granted \in Nat
        BY <1>t, <1>1, <3>1 DEF HandlerSound, IntentType
      <4>2. ~(suNow - it.granted < GCCutoff)
        BY <1>t, <4>1, StagedAssumption
      <4>3. QED
        BY <1>t, <3>1, <4>2 DEF IntentSound
    <3>3. suIntents' = [suIntents EXCEPT ![i] = it]
      BY <1>1, <2>2, <3>1
    <3>4. /\ suIntents' \in Seq(IntentType) /\ Len(suIntents') = Len(suIntents) /\ DOMAIN suIntents' = DOMAIN suIntents
          /\ \A j \in DOMAIN suIntents : /\ suIntents'[j] = (IF j = i THEN it ELSE suIntents[j])
                                         /\ suIntents'[j].granted = suIntents[j].granted /\ suIntents'[j].by = suIntents[j].by
          /\ IntentsSound'
      BY <1>1, <3>1, <3>2, <3>3, IntentWritten
    <3>5. \A j \in DOMAIN suIntents : \A x \in Parts : suIntents'[j].store[x] \subseteq suIntents[j].store[x]
      BY <3>1, <3>4
    <3>6. QED
      BY <3>4, <3>5
  <2>3. QED
    BY <2>1, <2>2
<1>4. HandlerSound(m, suIntents', suNow)
  <2>1. \A j \in m.expired : j \in DOMAIN suIntents' /\ suNow - suIntents'[j].granted >= GCCutoff
    BY <1>t, <1>2, <1>3 DEF HandlerSound
  <2>2. QED
    BY <1>t, <1>1, <1>2, <1>3, <2>1 DEF HandlerSound
<1>5. Waits(h)'
  <2>1. \A g \in Handlers : suH'[g].by = suH[g].by
    BY <1>t, <1>1, <1>2 DEF Handler
  <2>2. suH'[h] = m
    BY <1>t, <1>1 DEF Handler
  <2>3. QED
    BY <1>t, <1>1, <1>2, <2>1, <2>2 DEF Waits
<1>6. /\ PublishedWasValidated' /\ suPublished' \in [StagedPkgs -> SUBSET [Parts -> Contents]]
      /\ \A p \in StagedPkgs : suPublished[p] \subseteq suPublished'[p]
  BY <1>1 DEF SUInv, SUTyped, PublishedWasValidated, ValidPair
<1>7. QED
  BY <1>1, <1>2, <1>3, <1>4, <1>5, <1>6, SUServe

\* A refusal: the request ends and its client stops.
LEMMA SURefuse ==
  ASSUME SUInv, NEW h \in Handlers, Refuse(h), UNCHANGED <<suNow, suIntents, suPublished>>
  PROVE  SUInv'
<1> DEFINE c == suH[h].by
           a == IF c # Junk THEN suC[c].acked ELSE {}
           r == [UploaderIdle EXCEPT !.acked = a]
<1>t. /\ suC \in [Uploaders -> UploaderType] /\ suH \in [Handlers -> HandlerType] /\ suIntents \in Seq(IntentType)
      /\ c # Junk => c \in Uploaders
  BY DEF SUInv, SUTyped, HandlerType, Senders
<1>1. /\ r \in UploaderType /\ r.id = NoIntent /\ ClientSound(r, Len(suIntents)) /\ r.acked = a
  <2>1. a \in SUBSET AckType
    BY <1>t DEF UploaderType
  <2> HIDE DEF a
  <2>2. QED
    BY <2>1, StoppedClient
<1>2. Handler(h, HandlerIdle) /\ IF Answered(h) THEN Uploader(c, r) ELSE UNCHANGED suC
  BY DEF Refuse, Answered
<1> HIDE DEF r
<1>3. \A d \in Uploaders : suC'[d].acked = suC[d].acked
  BY <1>t, <1>1, <1>2 DEF Answered, Uploader
<1>4. AckedIsPublished'
  <2>1. AckedIsPublished
    BY DEF SUInv
  <2>2. QED
    BY <1>3, <2>1 DEF AckedIsPublished
<1>5. IntentsSound' /\ suIntents' \in Seq(IntentType)
  BY <1>t DEF SUInv, IntentsSound
<1>6. QED
  BY <1>1, <1>2, <1>4, <1>5, SUAnswer

\* The answer to a presign hands the new intent to its client.
LEMMA SUGranted ==
  ASSUME SUInv, NEW h \in Handlers, Granted(h)
  PROVE  SUInv'
<1> DEFINE c == suH[h].by
           r == IF c # Junk THEN [suC[c] EXCEPT !.pc = "put", !.id = suH[h].id] ELSE [UploaderIdle EXCEPT !.acked = {}]
<1>t. /\ suC \in [Uploaders -> UploaderType] /\ suH \in [Handlers -> HandlerType] /\ suIntents \in Seq(IntentType)
      /\ c # Junk => c \in Uploaders /\ suC[c] \in UploaderType /\ suC[c].pc = "sent" /\ ClientSound(suC[c], Len(suIntents))
      /\ suH[h].id \in Nat /\ HandlerSound(suH[h], suIntents, suNow)
  BY DEF SUInv, SUTyped, HandlerType, Senders, Waits
<1>0. /\ suH[h].pc = "gc" /\ UNCHANGED <<suNow, suIntents, suPublished>>
      /\ Handler(h, HandlerIdle) /\ IF Answered(h) THEN Uploader(c, r) ELSE UNCHANGED suC
  BY DEF Granted, Answered
<1>1. /\ r \in UploaderType /\ r.id \in {suH[h].id, NoIntent} /\ ClientSound(r, Len(suIntents))
      /\ c # Junk => r.acked = suC[c].acked
  <2>1. CASE c # Junk
    <3>1. r = [suC[c] EXCEPT !.pc = "put", !.id = suH[h].id]
      BY <2>1
    <3>2. r \in UploaderType /\ r.pc = "put" /\ r.id = suH[h].id /\ r.todo = suC[c].todo /\ r.acked = suC[c].acked
      BY <1>t, <2>1, <3>1 DEF UploaderType
    <3> HIDE DEF r
    <3>3. QED
      BY <1>t, <1>0, <2>1, <3>2 DEF ClientSound, HandlerSound
  <2>2. CASE c = Junk
    BY <2>2, StoppedClient
  <2>3. QED
    BY <2>1, <2>2
<1> HIDE DEF r
<1>3. \A d \in Uploaders : suC'[d].acked = suC[d].acked
  BY <1>t, <1>0, <1>1 DEF Answered, Uploader
<1>4. AckedIsPublished'
  <2>1. AckedIsPublished
    BY DEF SUInv
  <2>2. QED
    BY <1>0, <1>3, <2>1 DEF AckedIsPublished
<1>5. IntentsSound' /\ suIntents' \in Seq(IntentType)
  BY <1>t, <1>0 DEF SUInv, IntentsSound
<1>6. QED
  BY <1>0, <1>1, <1>4, <1>5, SUAnswer

\* spoolStagedFile: what is copied is the client's or junk, and the package comes first.
LEMMA SUSpool ==
  ASSUME SUInv, NEW h \in Handlers, spoolStagedFile(h)
  PROVE  SUInv'
<1> DEFINE me == suH[h]
           part == IF me.copy["pkg"] = {} THEN "pkg" ELSE "sig"
           staged == suIntents[me.id].store[part]
           done == part = "sig" \/ ~me.signed
           m == [me EXCEPT !.copy = [me.copy EXCEPT ![part] = staged], !.pc = IF done THEN "publish" ELSE "fetch"]
<1>t. /\ suIntents \in Seq(IntentType) /\ Len(suIntents) \in Nat /\ DOMAIN suIntents = 1..Len(suIntents)
      /\ me \in HandlerType /\ suH \in [Handlers -> HandlerType]
      /\ HandlerSound(me, suIntents, suNow) /\ Waits(h)
  BY DEF SUInv, SUTyped
<1>0. me.pc = "fetch" /\ UNCHANGED <<suNow, suIntents, suPublished>>
  BY DEF spoolStagedFile
<1>1. CASE staged = {}
  <2>1. Refuse(h)
    BY <1>1 DEF spoolStagedFile
  <2>2. QED
    BY <1>0, <2>1, SURefuse
<1>2. CASE staged # {}
  <2>0. Handler(h, m) /\ UNCHANGED suC
    <3>1. Handler(h, [suH[h] EXCEPT !.copy[part] = staged, !.pc = IF done THEN "publish" ELSE "fetch"]) /\ UNCHANGED suC
      BY <1>2 DEF spoolStagedFile
    <3>2. QED
      BY <1>t, <3>1 DEF HandlerType, Handler
  <2>1. me.id \in DOMAIN suIntents /\ part \in Parts /\ me.id # NoIntent
    BY <1>t, <1>0 DEF HandlerSound, HandlerType, NoIntent, Parts
  <2>2. staged \in Contents
    <3>1. suIntents[me.id] \in IntentType
      BY <1>t, <2>1
    <3>2. suIntents[me.id].store \in [Parts -> Contents]
      BY <3>1 DEF IntentType
    <3>3. QED
      BY <2>1, <3>2
  <2>3. [me.copy EXCEPT ![part] = staged] \in [Parts -> Contents]
    BY <1>t, <2>1, <2>2 DEF HandlerType
  <2>4. /\ m \in HandlerType /\ m.pc \in {"publish", "fetch"} /\ m.by = me.by /\ m.id = me.id /\ m.pkg = me.pkg
        /\ m.expired = me.expired /\ m.copy = [me.copy EXCEPT ![part] = staged]
    BY <1>t, <2>3 DEF HandlerType
  <2>5. m.copy["pkg"] = (IF part = "pkg" THEN staged ELSE me.copy["pkg"]) /\ m.copy["pkg"] # {}
    BY <1>t, <1>2, <2>4 DEF HandlerType, Parts
  <2>6. me.by # Junk => staged \subseteq {me.by, Junk}
    <3>1. me.by # Junk => me.by \in Uploaders /\ Owns(me.by, me.id)
      BY <1>t, <2>1 DEF Owns, HandlerType, Senders
    <3>2. QED
      BY <2>1, <3>1 DEF SUInv, OneOwner
  <2> HIDE DEF m, staged, part
  <2>7. HandlerSound(m, suIntents', suNow)
    BY <1>t, <1>0, <2>1, <2>4, <2>5 DEF HandlerSound
  <2>8. Waits(h)'
    <3>1. \A g \in Handlers : suH'[g].by = suH[g].by
      BY <1>t, <2>0, <2>4 DEF Handler
    <3>2. suH'[h] = m
      BY <1>t, <2>0 DEF Handler
    <3>3. me.by # Junk => m.copy["pkg"] \subseteq {me.by, Junk} /\ m.pkg = Head(suC[me.by].todo) /\ suC[me.by].pc = "sent"
      BY <1>t, <1>0, <2>4, <2>5, <2>6 DEF Waits
    <3>4. me.by # Junk => \A g \in Handlers : suH'[g].by = me.by => g = h
      BY <1>t, <3>1 DEF Waits
    <3>5. QED
      BY <2>0, <2>4, <3>2, <3>3, <3>4 DEF Waits
  <2>9. /\ PublishedWasValidated' /\ suPublished' \in [StagedPkgs -> SUBSET [Parts -> Contents]]
        /\ \A p \in StagedPkgs : suPublished[p] \subseteq suPublished'[p]
    BY <1>0 DEF SUInv, SUTyped, PublishedWasValidated, ValidPair
  <2>10. IntentsSound' /\ suIntents' \in Seq(IntentType)
    BY <1>t, <1>0 DEF SUInv, IntentsSound
  <2>11. QED
    BY <1>0, <2>0, <2>4, <2>7, <2>8, <2>9, <2>10, SUServe
<1>3. QED
  BY <1>1, <1>2

\* PublishStaged: what it publishes is the validated copy, of the client that waits.
LEMMA SUPublish ==
  ASSUME SUInv, NEW h \in Handlers, PublishStaged(h)
  PROVE  SUInv'
<1> DEFINE me == suH[h]
           how == How(suH[h].pkg)
           m == [me EXCEPT !.pc = "delete", !.how = how]
<1>t. /\ suIntents \in Seq(IntentType) /\ Len(suIntents) \in Nat
      /\ me \in HandlerType /\ suH \in [Handlers -> HandlerType] /\ suPublished \in [StagedPkgs -> SUBSET [Parts -> Contents]]
      /\ HandlerSound(me, suIntents, suNow) /\ Waits(h)
  BY DEF SUInv, SUTyped
<1>0. me.pc = "publish" /\ UNCHANGED <<suNow, suIntents>> /\ me.pkg \in StagedPkgs /\ me.copy["pkg"] # {}
  BY <1>t DEF PublishStaged, HandlerSound
<1>1. CASE ~ValidPair(me.copy)
  <2>1. Refuse(h) /\ UNCHANGED suPublished
    BY <1>1 DEF PublishStaged
  <2>2. QED
    BY <1>0, <2>1, SURefuse
<1>2. CASE ValidPair(me.copy)
  <2>0. /\ suPublished' = IF suPublished[me.pkg] = {} THEN [suPublished EXCEPT ![me.pkg] = {me.copy}] ELSE suPublished
        /\ Handler(h, m) /\ UNCHANGED suC
    BY <1>2 DEF PublishStaged, PublishedBytes, SpooledCopy, Stored, VersionGate
  <2>h. how \in {"stored", "there"} /\ (how = "stored" => suPublished[me.pkg] = {})
    BY DEF How, VersionGate
  <2> HIDE DEF how
  <2>1. /\ m \in HandlerType /\ m.pc = "delete" /\ m.by = me.by /\ m.id = me.id /\ m.pkg = me.pkg
        /\ m.expired = me.expired /\ m.copy = me.copy /\ me.copy \in [Parts -> Contents] /\ m.how = how
    BY <1>t, <2>h DEF HandlerType
  <2> HIDE DEF m
  <2>2. \A p \in StagedPkgs : suPublished'[p] = IF p = me.pkg /\ suPublished[p] = {} THEN {me.copy} ELSE suPublished[p]
    BY <1>t, <2>0
  <2>3. /\ suPublished' \in [StagedPkgs -> SUBSET [Parts -> Contents]]
        /\ \A p \in StagedPkgs : suPublished[p] \subseteq suPublished'[p]
    BY <1>t, <1>0, <2>0, <2>1, <2>2
  <2>4. PublishedWasValidated'
    BY <1>0, <1>2, <2>2 DEF SUInv, PublishedWasValidated, ValidPair
  <2>5. HandlerSound(m, suIntents', suNow)
    BY <1>t, <1>0, <2>1 DEF HandlerSound
  <2>6. Waits(h)'
    <3>1. \A g \in Handlers : suH'[g].by = suH[g].by
      BY <1>t, <2>0, <2>1 DEF Handler
    <3>2. suH'[h] = m
      BY <1>t, <2>0 DEF Handler
    <3>3. me.by # Junk => /\ m.copy["pkg"] \subseteq {me.by, Junk} /\ m.pkg = Head(suC[me.by].todo) /\ suC[me.by].pc = "sent"
                          /\ \A g \in Handlers : suH'[g].by = me.by => g = h
      BY <1>t, <1>0, <2>1, <3>1 DEF Waits
    <3>4. me.by # Junk => me.copy["pkg"] = {me.by}
      BY <1>0, <1>2, <2>1, <3>3 DEF ValidPair
    <3>5. me.by # Junk => \E pair \in suPublished'[m.pkg] : m.how = "stored" => pair["pkg"] = {me.by}
      <4>1. CASE suPublished[me.pkg] = {}
        BY <1>0, <2>1, <2>2, <3>4, <4>1
      <4>2. CASE suPublished[me.pkg] # {}
        BY <1>0, <2>h, <2>1, <2>2, <4>2
      <4>3. QED
        BY <4>1, <4>2
    <3>6. QED
      BY <2>0, <2>1, <3>2, <3>3, <3>5 DEF Waits
  <2>7. IntentsSound' /\ suIntents' \in Seq(IntentType)
    BY <1>t, <1>0 DEF SUInv, IntentsSound
  <2>8. QED
    BY <1>0, <2>0, <2>1, <2>3, <2>4, <2>5, <2>6, <2>7, SUServe
<1>3. QED
  BY <1>1, <1>2

\* Committed: the intent is gone, and the client is told what is published.
LEMMA SUCommitted ==
  ASSUME SUInv, NEW h \in Handlers, NEW fails \in BOOLEAN, Committed(h, fails)
  PROVE  SUInv'
<1> DEFINE me == suH[h]
           c == suH[h].by
           i == suH[h].id
           r == IF c # Junk THEN Acknowledge(suC[c], me.how) ELSE [UploaderIdle EXCEPT !.acked = {}]
<1>t. /\ SUTyped /\ suIntents \in Seq(IntentType) /\ Len(suIntents) \in Nat /\ DOMAIN suIntents = 1..Len(suIntents)
      /\ me \in HandlerType /\ suH \in [Handlers -> HandlerType] /\ suC \in [Uploaders -> UploaderType]
      /\ HandlerSound(me, suIntents, suNow) /\ Waits(h)
      /\ c # Junk => c \in Uploaders /\ suC[c] \in UploaderType /\ ClientSound(suC[c], Len(suIntents))
  BY DEF SUInv, SUTyped, HandlerType, Senders
<1>0. /\ me.pc = "delete" /\ UNCHANGED <<suNow, suPublished>> /\ Handler(h, HandlerIdle)
      /\ IF Answered(h) THEN Uploader(c, r) ELSE UNCHANGED suC
      /\ suIntents' = [(IF fails THEN suIntents ELSE Cleared(i)) EXCEPT ![i].gone = TRUE]
  BY DEF Committed, Answered
<1>1. i \in DOMAIN suIntents
  BY <1>t, <1>0 DEF HandlerSound, HandlerType, NoIntent
<1>2. PICK cl \in IntentType :
         /\ (IF fails THEN suIntents ELSE Cleared(i)) = [suIntents EXCEPT ![i] = cl]
         /\ cl.by = suIntents[i].by /\ cl.granted = suIntents[i].granted /\ cl.at = suIntents[i].at
         /\ \A x \in Parts : cl.store[x] \subseteq suIntents[i].store[x]
  <2>1. CASE fails
    <3>1. suIntents = [suIntents EXCEPT ![i] = suIntents[i]] /\ suIntents[i] \in IntentType
      BY <1>t, <1>1
    <3>2. QED
      BY <2>1, <3>1
  <2>2. CASE ~fails
    BY ZenonT(60), <1>t, <1>1, <2>2, ClearEffect
  <2>3. QED
    BY <2>1, <2>2
<1> DEFINE it == [cl EXCEPT !.gone = TRUE]
<1>3. suIntents' = [suIntents EXCEPT ![i] = it]
  <2>1. suIntents' = [[suIntents EXCEPT ![i] = cl] EXCEPT ![i].gone = TRUE]
    BY <1>0, <1>2
  <2>2. QED
    BY <1>t, <1>1, <2>1
<1>4. it \in IntentType /\ it.by = cl.by /\ it.granted = cl.granted /\ it.at = cl.at /\ it.store = cl.store /\ it.gone
  BY <1>2 DEF IntentType
<1> HIDE DEF it
<1>5. IntentSound(it, suNow)
  <2>1. IntentSound(suIntents[i], suNow)
    BY <1>1 DEF SUInv, IntentsSound
  <2>2. QED
    BY <1>2, <1>4, <2>1 DEF IntentSound
<1>6. /\ suIntents' \in Seq(IntentType) /\ Len(suIntents') = Len(suIntents) /\ DOMAIN suIntents' = DOMAIN suIntents
      /\ \A j \in DOMAIN suIntents : /\ suIntents'[j] = (IF j = i THEN it ELSE suIntents[j])
                                     /\ suIntents'[j].granted = suIntents[j].granted /\ suIntents'[j].by = suIntents[j].by
      /\ IntentsSound'
  BY <1>0, <1>1, <1>2, <1>3, <1>4, <1>5, IntentWritten
<1>7. \A j \in DOMAIN suIntents : \A x \in Parts : suIntents'[j].store[x] \subseteq suIntents[j].store[x]
  BY <1>2, <1>4, <1>6
<1>8. c # Junk => /\ suC[c].pc = "sent" /\ me.pkg = Head(suC[c].todo) /\ suC[c].todo # <<>> /\ me.pkg \in StagedPkgs
                  /\ Tail(suC[c].todo) \in Seq(StagedPkgs)
                  /\ \E pair \in suPublished[me.pkg] : me.how = "stored" => pair["pkg"] = {c}
  <2>1. c # Junk => /\ suC[c].pc = "sent" /\ me.pkg = Head(suC[c].todo) /\ suC[c].todo # <<>> /\ me.pkg \in StagedPkgs
                    /\ \E pair \in suPublished[me.pkg] : me.how = "stored" => pair["pkg"] = {c}
    BY <1>t, <1>0 DEF Waits, ClientSound, HandlerSound
  <2>2. c # Junk => suC[c].todo \in Seq(StagedPkgs)
    BY <1>t DEF UploaderType
  <2>3. QED
    BY <2>1, <2>2, HeadTailProperties
<1> DEFINE a == [pkg |-> me.pkg, how |-> me.how]
<1>a. c # Junk => a \in AckType /\ a.pkg = me.pkg /\ a.how = me.how
  BY <1>t, <1>8 DEF AckType, HandlerType
<1> HIDE DEF a
<1>9. /\ r \in UploaderType /\ r.id \in {suC[c].id, NoIntent} /\ ClientSound(r, Len(suIntents))
      /\ c # Junk => r.acked = suC[c].acked \cup {a}
  <2>1. CASE c # Junk
    <3>1. r = [suC[c] EXCEPT !.pc = "next", !.todo = Tail(suC[c].todo), !.acked = suC[c].acked \cup {a}]
      BY <1>8, <2>1 DEF Acknowledge, a
    <3> HIDE DEF r
    <3>a. suC[c].acked \cup {a} \in SUBSET AckType /\ suC[c] \in UploaderType
      BY <1>t, <1>a, <2>1 DEF UploaderType
    <3>2. r \in UploaderType /\ r.pc = "next" /\ r.id = suC[c].id /\ r.acked = suC[c].acked \cup {a}
      BY <1>8, <2>1, <3>1, <3>a DEF UploaderType
    <3>3. QED
      BY <1>t, <2>1, <3>2 DEF ClientSound
  <2>2. CASE c = Junk
    BY <2>2, StoppedClient
  <2>3. QED
    BY <2>1, <2>2
<1> HIDE DEF r
<1>10. AckedIsPublished'
  <2>1. ASSUME NEW d \in Uploaders, NEW b \in suC'[d].acked
        PROVE  \E pair \in suPublished[b.pkg] : b.how = "stored" => pair["pkg"] = {d}
    <3>1. CASE b \in suC[d].acked
      BY <3>1 DEF SUInv, AckedIsPublished
    <3>2. CASE b \notin suC[d].acked
      <4>1. d = c /\ c # Junk /\ b = a
        BY <1>t, <1>0, <1>9, <3>2, <2>1, ContentsFacts DEF Answered, Uploader
      <4>2. QED
        BY <1>8, <1>a, <4>1
    <3>3. QED
      BY <3>1, <3>2
  <2>2. QED
    BY <1>0, <2>1 DEF AckedIsPublished
<1>11. QED
  BY <1>0, <1>6, <1>7, <1>9, <1>10, SUAnswer

\* Every step of staging keeps the invariant.
LEMMA SUStep ==
  ASSUME SUInv, [SUNext]_suVars
  PROVE  SUInv'
<1>1. CASE UNCHANGED suVars
  <2>1. UNCHANGED <<suNow, suIntents, suC, suH, suPublished>>
    BY <1>1 DEF suVars
  <2>2. SUTyped'
    BY <2>1 DEF SUInv, SUTyped
  <2>3. PublishedWasValidated' /\ AckedIsPublished' /\ IntentsSound'
    BY <2>1 DEF SUInv, PublishedWasValidated, ValidPair, AckedIsPublished, IntentsSound
  <2>4. OneOwner'
    BY <2>1 DEF SUInv, OneOwner, Owns
  <2>5. \A h \in Handlers : Waits(h)'
    BY <2>1, WaitsStay
  <2>6. QED
    BY <2>1, <2>2, <2>3, <2>4, <2>5 DEF SUInv
<1>2. ASSUME NEW h \in Handlers, HandlerDies(h) PROVE SUInv'
  BY <1>2, SURefuse DEF HandlerDies
<1>3. QED
  BY <1>1, <1>2, SUTickOrStop, SUClientActions, SUPutStep, SUCommit, SUPresign, SUCollect, SUGranted, SUSpool,
     SUPublish, SUCommitted DEF SUNext

\* A server that has just started, without intents.
LEMMA SUStart ==
  ASSUME SUInit
  PROVE  SUInv
<1>1. /\ \A c \in Uploaders : suC[c] = UploaderIdle
      /\ \A h \in Handlers : suH[h] = HandlerIdle
      /\ suIntents = <<>> /\ suNow = 0
  BY DEF SUInit
<1>2. UploaderIdle \in UploaderType /\ UploaderIdle.acked = {} /\ UploaderIdle.id = 0 /\ UploaderIdle.pc = "idle"
  <2>1. <<>> \in Seq(StagedPkgs)
    OBVIOUS
  <2>2. QED
    BY <2>1 DEF UploaderIdle, UploaderType, NoIntent
<1>3. /\ HandlerIdle \in HandlerType /\ HandlerIdle.by = Junk /\ HandlerIdle.id = 0
      /\ HandlerIdle.pc = "idle" /\ HandlerIdle.expired = {}
  BY ContentsFacts DEF HandlerIdle, HandlerType, NoIntent
<1>4. SUTyped
  BY <1>1, <1>2, <1>3 DEF SUInit, SUTyped
<1>5. IntentsSound /\ OneOwner
  BY <1>1 DEF IntentsSound, OneOwner
<1>6. PublishedWasValidated /\ AckedIsPublished
  BY <1>1, <1>2 DEF SUInit, PublishedWasValidated, AckedIsPublished
<1>7. \A c \in Uploaders : ClientSound(suC[c], Len(suIntents))
  BY <1>1, <1>2 DEF ClientSound, NoIntent
<1>8. \A h \in Handlers : HandlerSound(suH[h], suIntents, suNow) /\ Waits(h)
  BY <1>1, <1>3 DEF HandlerSound, Waits, NoIntent
<1>9. QED
  BY <1>4, <1>5, <1>6, <1>7, <1>8 DEF SUInv

\* Staged uploads are correct for any number of clients, handlers, intents and losses, whatever
\* puts arrive late: what CommitUpload publishes is the copy it validated; what a client was told
\* is published is there, with that client's bytes if they were stored and else with those of the
\* first upload of that version; and a collection by another presign never takes an intent younger
\* than its cutoff.
THEOREM StagingCorrect == SUSpec => []StagingHolds
<1>1. SUInv => StagingHolds
  <2>1. SUInv => PublishedWasValidated /\ AckedIsPublished /\ IntentsSound
    BY DEF SUInv
  <2>2. IntentsSound => InFlightIsKept
    BY DEF IntentsSound, IntentSound, InFlightIsKept
  <2>3. QED
    BY <2>1, <2>2 DEF StagingHolds
<1>2. QED
  BY <1>1, SUStart, SUStep, PTL DEF SUSpec

(***************************************************************************)
(* Tiers.                                                                  *)
(***************************************************************************)
Copying == {"gate", "spool", "spoolsig", "store", "commit"}
PromoterType ==
  [pc : {"idle", "read", "drop", "dropfile"} \cup Copying, from : Tier, to : Tier, pin : {0, 1},
   todo : SUBSET TierArches, arch : TierArches \cup {0}, version : 0..MaxVersion, current : 0..MaxVersion,
   signed : BOOLEAN, done : SUBSET TierArches]

TRTyped ==
  /\ trListed \in [Tier -> [TierArches -> 0..MaxVersion]]
  /\ trStored \in [Tier -> SUBSET Nat] /\ trSigs \in [Tier -> SUBSET Nat]
  /\ trP \in [Promoters -> PromoterType]

\* A tier past this one lists the package.
Ahead(from, listed) ==
  \/ from = "staging" /\ \E a \in TierArches : listed["testing"][a] # 0
  \/ \E a \in TierArches : listed["stable"][a] # 0

\* What a promotion carries is newer than what the gate saw, is stored where it was read and then
\* where it goes, unless something was removed; and a tier is left only for a tier ahead of it.
PromoterSound(r, listed, stored, sigs, removed) ==
  /\ r.pc # "idle" => CanPromote(r.from, r.to)
  /\ r.pc \in Copying => r.arch \in TierArches /\ r.version # 0
  /\ r.pc \in Copying \ {"gate"} => r.current <= r.version
  /\ r.pc # "idle" /\ r.done # {} => Ahead(r.from, listed)
  /\ r.pc = "drop" => r.done # {}
  /\ r.pc = "dropfile" => removed # {}
  /\ removed = {} =>
       /\ r.pc \in Copying => r.version \in stored[r.from] /\ r.version \in sigs[r.from]
       /\ r.pc = "store" => r.signed
       /\ r.pc = "commit" => r.version \in stored[r.to] /\ r.version \in sigs[r.to]

\* Uploads and removals are the only changes of staging, and both are of every architecture.
StagingEven == \A a, b \in TierArches : trListed["staging"][a] = trListed["staging"][b]

TRInv ==
  /\ TRTyped /\ StagingEven /\ PromotedIsServed
  /\ \A p \in Promoters : PromoterSound(trP[p], trListed, trStored, trSigs, trRemoved)

\* A promotion that is over.
LEMMA PromoterIdleSound ==
  /\ PromoterIdle \in PromoterType /\ PromoterIdle.pc = "idle"
  /\ \A l, st, sg, rm : PromoterSound(PromoterIdle, l, st, sg, rm)
<1>1. PromoterIdle \in PromoterType
  BY TierAssumption DEF PromoterIdle, PromoterType, Tier
<1>2. QED
  BY <1>1 DEF PromoterIdle, PromoterSound, Copying

\* A promotion is not disturbed by what only adds, or removes behind it.
LEMMA PromoterFrame ==
  ASSUME NEW r \in PromoterType, NEW l, NEW st, NEW sg, NEW rm, NEW l2, NEW st2, NEW sg2, NEW rm2,
         PromoterSound(r, l, st, sg, rm),
         rm2 = {} => /\ rm = {}
                     /\ \A t \in Tier : st[t] \subseteq st2[t] /\ sg[t] \subseteq sg2[t],
         \A f \in Tier : Ahead(f, l) => Ahead(f, l2)
  PROVE  PromoterSound(r, l2, st2, sg2, rm2)
<1>1. r.from \in Tier /\ r.to \in Tier
  BY DEF PromoterType
<1>2. QED
  BY <1>1 DEF PromoterSound

\* One promotion steps: what the others know stays true.
LEMMA TRMove ==
  ASSUME TRInv, NEW p \in Promoters, NEW r \in PromoterType, Promoter(p, r),
         trListed' \in [Tier -> [TierArches -> 0..MaxVersion]],
         trStored' \in [Tier -> SUBSET Nat], trSigs' \in [Tier -> SUBSET Nat],
         trRemoved' = {} => /\ trRemoved = {}
                            /\ \A t \in Tier : trStored[t] \subseteq trStored'[t] /\ trSigs[t] \subseteq trSigs'[t],
         \A f \in Tier : Ahead(f, trListed) => Ahead(f, trListed'),
         PromoterSound(r, trListed', trStored', trSigs', trRemoved'),
         StagingEven', PromotedIsServed'
  PROVE  TRInv'
<1>1. trP' = [trP EXCEPT ![p] = r] /\ trP \in [Promoters -> PromoterType]
  BY DEF Promoter, TRInv, TRTyped
<1>2. TRTyped'
  BY <1>1 DEF TRTyped
<1>3. ASSUME NEW q \in Promoters PROVE PromoterSound(trP'[q], trListed', trStored', trSigs', trRemoved')
  <2>1. CASE q = p
    BY <2>1, <1>1
  <2>2. CASE q # p
    <3>1. trP'[q] = trP[q] /\ trP[q] \in PromoterType
      BY <2>2, <1>1
    <3>2. PromoterSound(trP[q], trListed, trStored, trSigs, trRemoved)
      BY DEF TRInv
    <3>3. QED
      BY <3>1, <3>2, PromoterFrame
  <2>3. QED
    BY <2>1, <2>2
<1>4. QED
  BY <1>2, <1>3 DEF TRInv

\* One promotion steps and changes no tier.
LEMMA TRLooks ==
  ASSUME TRInv, NEW p \in Promoters, NEW r \in PromoterType, Promoter(p, r), UNCHANGED trData,
         PromoterSound(r, trListed, trStored, trSigs, trRemoved)
  PROVE  TRInv' /\ PromotedIsServed' /\ NeverGone /\ TiersOnlyAdvance
<1>1. UNCHANGED <<trListed, trStored, trSigs, trRemoved>>
  BY DEF trData
<1>2. TRTyped /\ StagingEven /\ PromotedIsServed
  BY DEF TRInv
<1>3. StagingEven' /\ PromotedIsServed'
  BY <1>1, <1>2 DEF StagingEven, PromotedIsServed
<1>4. TRInv'
  BY <1>1, <1>2, <1>3, TRMove DEF TRTyped
<1>5. \A t \in Tier, a \in TierArches : trListed[t][a] \in Nat
  BY <1>2, TierAssumption DEF TRTyped
<1>6. NeverGone /\ TiersOnlyAdvance
  BY <1>1, <1>5 DEF NeverGone, TiersOnlyAdvance
<1>7. QED
  BY <1>3, <1>4, <1>6

\* What an action must show.
TRKept == TRInv' /\ PromotedIsServed' /\ NeverGone /\ TiersOnlyAdvance

\* A promotion that ends, in order or not.
LEMMA TREnds ==
  ASSUME TRInv, NEW p \in Promoters, Promoter(p, PromoterIdle), UNCHANGED trData
  PROVE  TRKept
  BY PromoterIdleSound, TRLooks DEF TRKept

\* What the promotion that steps knows.
LEMMA TRKnows ==
  ASSUME TRInv, NEW p \in Promoters
  PROVE  /\ trP[p] \in PromoterType /\ PromoterSound(trP[p], trListed, trStored, trSigs, trRemoved)
         /\ TRTyped /\ StagingEven /\ PromotedIsServed
  BY DEF TRInv, TRTyped

\* A nonempty set of numbers up to a bound has a greatest one.
LEMMA GreatestOf ==
  ASSUME NEW k \in Nat, NEW S \in SUBSET (0..k), S # {}
  PROVE  \E i \in S : \A j \in S : j <= i
<1> DEFINE T == {k - i : i \in S}
<1>1. T \subseteq Nat /\ T # {}
  <2>1. \A i \in S : k - i \in Nat
    OBVIOUS
  <2>2. QED
    BY <2>1
<1>2. IsWellFoundedOn(OpToRel(<, Nat), Nat)
  BY NatLessThanWellFounded
<1>3. PICK x \in T : \A y \in T : ~ (<<y, x>> \in OpToRel(<, Nat))
  BY <1>1, <1>2, WFMin
<1>4. \A y \in T : ~ (y < x)
  BY <1>1, <1>3 DEF OpToRel
<1>5. PICK i \in S : x = k - i
  BY <1>3
<1>6. ASSUME NEW j \in S PROVE j <= i
  <2>1. k - j \in T
    OBVIOUS
  <2>2. ~ (k - j < k - i)
    BY <1>4, <1>5, <2>1
  <2>3. QED
    BY <2>2
<1>7. QED
  BY <1>6

\* What a tier lists has a newest version.
LEMMA TierNewest ==
  ASSUME TRTyped, NEW t \in Tier, TierArches # {}
  PROVE  Newest(t) \in 0..MaxVersion
<1> DEFINE S == {trListed[t][a] : a \in TierArches}
<1>1. S \subseteq 0..MaxVersion /\ S # {}
  BY DEF TRTyped
<1>2. PICK v \in S : \A w \in S : w <= v
  BY <1>1, GreatestOf, TierAssumption
<1>3. v \in 0..MaxVersion /\ (\E a \in TierArches : trListed[t][a] = v) /\ \A a \in TierArches : trListed[t][a] <= v
  BY <1>1, <1>2
<1>4. QED
  BY <1>3 DEF Newest

\* An upload replaces all of staging by something newer.
LEMMA TRUpload ==
  ASSUME TRInv, NEW v \in 1..MaxVersion, UploadToStaging(v)
  PROVE  TRKept
<1>1. /\ v > Newest("staging")
      /\ trListed' = [trListed EXCEPT !["staging"] = [a \in TierArches |-> v]]
      /\ trStored' = [trStored EXCEPT !["staging"] = @ \cup {v}]
      /\ trSigs' = [trSigs EXCEPT !["staging"] = @ \cup {v}]
      /\ UNCHANGED <<trP, trRemoved>>
  BY DEF UploadToStaging
<1>2. TRTyped /\ StagingEven /\ PromotedIsServed
  BY DEF TRInv
<1>3. v \in Nat \ {0} /\ v \in 0..MaxVersion /\ "staging" \in Tier
  BY TierAssumption DEF Tier
<1>4. ASSUME NEW a \in TierArches PROVE Newest("staging") = trListed["staging"][a]
  <2>1. trListed["staging"][a] \in 0..MaxVersion
    BY <1>2, <1>3 DEF TRTyped
  <2>2. \A b \in TierArches : trListed["staging"][b] = trListed["staging"][a]
    BY <1>2 DEF StagingEven
  <2>3. \A w \in 0..MaxVersion :
           ((\E b \in TierArches : trListed["staging"][b] = w) /\ \A b \in TierArches : trListed["staging"][b] <= w)
             <=> w = trListed["staging"][a]
    BY <2>1, <2>2, TierAssumption
  <2>4. QED
    BY <2>1, <2>3 DEF Newest
<1>5. \A a \in TierArches : trListed["staging"][a] < v
  BY <1>1, <1>4
<1>6. \A t \in Tier, a \in TierArches : trListed'[t][a] = IF t = "staging" THEN v ELSE trListed[t][a]
  BY <1>1, <1>2, <1>3 DEF TRTyped
<1>7. \A t \in Tier : /\ trStored'[t] = trStored[t] \cup (IF t = "staging" THEN {v} ELSE {})
                      /\ trSigs'[t] = trSigs[t] \cup (IF t = "staging" THEN {v} ELSE {})
  BY <1>1, <1>2, <1>3 DEF TRTyped
<1>8. TRTyped'
  BY <1>1, <1>2, <1>3 DEF TRTyped
<1>9. StagingEven'
  BY <1>3, <1>6 DEF StagingEven
<1>10. PromotedIsServed'
  BY <1>1, <1>2, <1>6, <1>7 DEF PromotedIsServed
<1>11. \A f \in Tier : Ahead(f, trListed) => Ahead(f, trListed')
  BY <1>6 DEF Ahead, Tier
<1>12. ASSUME NEW p \in Promoters PROVE PromoterSound(trP'[p], trListed', trStored', trSigs', trRemoved')
  <2>1. trP'[p] = trP[p] /\ trP[p] \in PromoterType
    BY <1>1, TRKnows
  <2>2. PromoterSound(trP[p], trListed, trStored, trSigs, trRemoved)
    BY TRKnows
  <2>3. trRemoved' = trRemoved /\ \A t \in Tier : trStored[t] \subseteq trStored'[t] /\ trSigs[t] \subseteq trSigs'[t]
    BY <1>1, <1>7
  <2>4. QED
    BY <2>1, <2>2, <2>3, <1>11, PromoterFrame
<1>13. NeverGone /\ TiersOnlyAdvance
  <2>1. \A t \in Tier, a \in TierArches : trListed[t][a] \in Nat
    BY <1>2, TierAssumption DEF TRTyped
  <2>2. QED
    BY <2>1, <1>3, <1>5, <1>6 DEF NeverGone, TiersOnlyAdvance
<1>14. QED
  BY <1>8, <1>9, <1>10, <1>12, <1>13 DEF TRInv, TRKept

\* A new promotion knows nothing yet.
LEMMA TRBegin ==
  ASSUME TRInv, NEW p \in Promoters, NEW from \in Tier, NEW to \in Tier, NEW pin \in {0, 1},
         BeginPromotion(p, from, to, pin)
  PROVE  TRKept
<1> DEFINE r == [PromoterIdle EXCEPT !.pc = "read", !.from = from, !.to = to, !.pin = pin, !.todo = TierArches]
<1>1. Promoter(p, r) /\ UNCHANGED trData /\ CanPromote(from, to)
  BY DEF BeginPromotion
<1>2. r \in PromoterType /\ r.pc = "read" /\ r.from = from /\ r.to = to /\ r.done = {}
  <2>1. PromoterIdle \in PromoterType
    BY PromoterIdleSound
  <2>2. PromoterIdle.done = {}
    BY DEF PromoterIdle
  <2>3. QED
    BY <2>1, <2>2 DEF PromoterType
<1>3. PromoterSound(r, trListed, trStored, trSigs, trRemoved)
  BY <1>1, <1>2 DEF PromoterSound, Copying
<1>4. QED
  BY <1>1, <1>2, <1>3, TRLooks DEF TRKept

\* What the source lists is stored there.
LEMMA TRRead ==
  ASSUME TRInv, NEW p \in Promoters, NEW a \in TierArches, ReadSource(p, a)
  PROVE  TRKept
<1> DEFINE me == trP[p]
           v == trListed[me.from][a]
<1>1. me \in PromoterType /\ PromoterSound(me, trListed, trStored, trSigs, trRemoved) /\ TRTyped /\ PromotedIsServed
  BY TRKnows
<1>2. me.pc = "read" /\ UNCHANGED trData
  BY DEF ReadSource
<1>3. me.from \in Tier /\ v \in 0..MaxVersion
  BY <1>1 DEF PromoterType, TRTyped
<1>4. CASE Promoter(p, [me EXCEPT !.todo = @ \ {a}])
  <2> DEFINE r == [me EXCEPT !.todo = @ \ {a}]
  <2>1. r \in PromoterType /\ r.pc = me.pc /\ r.from = me.from /\ r.to = me.to /\ r.done = me.done
    BY <1>1 DEF PromoterType
  <2>2. PromoterSound(r, trListed, trStored, trSigs, trRemoved)
    BY <1>1, <1>2, <2>1 DEF PromoterSound, Copying
  <2>3. QED
    BY <1>2, <1>4, <2>1, <2>2, TRLooks DEF TRKept
<1>5. CASE EndPromotion(p)
  BY <1>2, <1>5, TREnds DEF EndPromotion
<1>6. CASE v # 0 /\ Promoter(p, [me EXCEPT !.pc = "gate", !.todo = @ \ {a}, !.arch = a, !.version = v])
  <2> DEFINE r == [me EXCEPT !.pc = "gate", !.todo = @ \ {a}, !.arch = a, !.version = v]
  <2>1. r \in PromoterType /\ r.pc = "gate" /\ r.from = me.from /\ r.to = me.to /\ r.done = me.done
        /\ r.arch = a /\ r.version = v
    BY <1>1, <1>3 DEF PromoterType, Copying
  <2>2. trRemoved = {} => v \in trStored[me.from] /\ v \in trSigs[me.from]
    BY <1>1, <1>3, <1>6 DEF PromotedIsServed
  <2>3. PromoterSound(r, trListed, trStored, trSigs, trRemoved)
    BY <1>1, <1>2, <1>6, <2>1, <2>2 DEF PromoterSound, Copying
  <2>4. QED
    BY <1>2, <1>6, <2>1, <2>3, TRLooks DEF TRKept
<1>7. QED
  BY <1>4, <1>5, <1>6 DEF ReadSource

\* The gate, the copies and the end of the list.
LEMMA TRCarry ==
  ASSUME TRInv, NEW p \in Promoters, Gate(p) \/ Spool(p) \/ SpoolSignature(p) \/ PromotionDone(p)
  PROVE  TRKept
<1> DEFINE me == trP[p]
           cur == trListed[me.to][me.arch]
<1>1. me \in PromoterType /\ PromoterSound(me, trListed, trStored, trSigs, trRemoved) /\ TRTyped
  BY TRKnows
<1>2. UNCHANGED trData
  BY DEF Gate, Spool, SpoolSignature, PromotionDone
<1>3. CASE EndPromotion(p)
  BY <1>2, <1>3, TREnds DEF EndPromotion
<1>4. CASE Gate(p) /\ ~EndPromotion(p)
  <2> DEFINE r == [me EXCEPT !.pc = "spool", !.current = cur]
  <2>1. Promoter(p, r) /\ me.pc = "gate" /\ ~(me.version < cur)
    BY <1>4 DEF Gate
  <2>2. me.arch \in TierArches /\ me.to \in Tier /\ me.version \in 0..MaxVersion
    BY <1>1, <2>1 DEF PromoterSound, Copying, PromoterType
  <2>3. cur \in 0..MaxVersion
    BY <1>1, <2>2 DEF TRTyped
  <2>4. r \in PromoterType /\ r.pc = "spool" /\ r.from = me.from /\ r.to = me.to /\ r.done = me.done
        /\ r.arch = me.arch /\ r.version = me.version /\ r.current = cur
    BY <1>1, <2>3 DEF PromoterType, Copying
  <2>5. cur <= me.version
    BY <2>1, <2>2, <2>3, TierAssumption
  <2>6. PromoterSound(r, trListed, trStored, trSigs, trRemoved)
    BY <1>1, <2>1, <2>4, <2>5 DEF PromoterSound, Copying
  <2>7. QED
    BY <1>2, <2>1, <2>4, <2>6, TRLooks DEF TRKept
<1>5. CASE Spool(p) /\ ~EndPromotion(p)
  <2> DEFINE r == [me EXCEPT !.pc = "spoolsig"]
  <2>1. Promoter(p, r) /\ me.pc = "spool"
    BY <1>5 DEF Spool
  <2>2. r \in PromoterType /\ r.pc = "spoolsig" /\ r.from = me.from /\ r.to = me.to /\ r.done = me.done
        /\ r.arch = me.arch /\ r.version = me.version /\ r.current = me.current
    BY <1>1 DEF PromoterType, Copying
  <2>3. PromoterSound(r, trListed, trStored, trSigs, trRemoved)
    BY <1>1, <2>1, <2>2 DEF PromoterSound, Copying
  <2>4. QED
    BY <1>2, <2>1, <2>2, <2>3, TRLooks DEF TRKept
<1>6. CASE SpoolSignature(p)
  <2> DEFINE r == [me EXCEPT !.pc = "store", !.signed = me.version \in trSigs[me.from]]
  <2>1. Promoter(p, r) /\ me.pc = "spoolsig"
    BY <1>6 DEF SpoolSignature
  <2>s. (me.version \in trSigs[me.from]) \in BOOLEAN
    OBVIOUS
  <2>t. r \in PromoterType
    BY <1>1, <2>s, Zenon DEF PromoterType, Copying
  <2>2. r \in PromoterType /\ r.pc = "store" /\ r.from = me.from /\ r.to = me.to /\ r.done = me.done
        /\ r.arch = me.arch /\ r.version = me.version /\ r.current = me.current
    BY <1>1, <2>t DEF PromoterType, Copying
  <2>3. r.signed = (me.version \in trSigs[me.from])
    BY <1>1 DEF PromoterType
  <2>4. PromoterSound(r, trListed, trStored, trSigs, trRemoved)
    BY <1>1, <2>1, <2>2, <2>3 DEF PromoterSound, Copying
  <2>5. QED
    BY <1>2, <2>1, <2>2, <2>4, TRLooks DEF TRKept
<1>7. CASE PromotionDone(p) /\ ~EndPromotion(p)
  <2> DEFINE r == [me EXCEPT !.pc = "drop"]
  <2>1. Promoter(p, r) /\ me.pc = "read" /\ me.done # {}
    BY <1>7 DEF PromotionDone
  <2>2. r \in PromoterType /\ r.pc = "drop" /\ r.from = me.from /\ r.to = me.to /\ r.done = me.done
    BY <1>1 DEF PromoterType
  <2>3. PromoterSound(r, trListed, trStored, trSigs, trRemoved)
    BY <1>1, <2>1, <2>2 DEF PromoterSound, Copying
  <2>4. QED
    BY <1>2, <2>1, <2>2, <2>3, TRLooks DEF TRKept
<1>8. QED
  BY <1>3, <1>4, <1>5, <1>6, <1>7

\* The file is stored in the target before it is listed there.
LEMMA TRStore ==
  ASSUME TRInv, NEW p \in Promoters, StoreInTarget(p)
  PROVE  TRKept
<1> DEFINE me == trP[p]
           r == [me EXCEPT !.pc = "commit"]
<1>1. me \in PromoterType /\ PromoterSound(me, trListed, trStored, trSigs, trRemoved)
      /\ TRTyped /\ StagingEven /\ PromotedIsServed
  BY TRKnows
<1>2. /\ me.pc = "store" /\ Promoter(p, r) /\ UNCHANGED <<trListed, trRemoved>>
      /\ trStored' = [trStored EXCEPT ![me.to] = @ \cup {me.version}]
      /\ trSigs' = IF me.signed THEN [trSigs EXCEPT ![me.to] = @ \cup {me.version}] ELSE trSigs
  BY DEF StoreInTarget
<1>3. me.from \in Tier /\ me.to \in Tier /\ me.version \in Nat
  BY <1>1, TierAssumption DEF PromoterType
<1>4. r \in PromoterType /\ r.pc = "commit" /\ r.from = me.from /\ r.to = me.to /\ r.done = me.done
      /\ r.arch = me.arch /\ r.version = me.version /\ r.current = me.current
  BY <1>1 DEF PromoterType, Copying
<1>5. trStored' \in [Tier -> SUBSET Nat] /\ \A t \in Tier : trStored[t] \subseteq trStored'[t]
  BY <1>1, <1>2, <1>3 DEF TRTyped
<1>6. trSigs' \in [Tier -> SUBSET Nat] /\ \A t \in Tier : trSigs[t] \subseteq trSigs'[t]
  <2>1. CASE me.signed
    BY <2>1, <1>1, <1>2, <1>3 DEF TRTyped
  <2>2. CASE ~me.signed
    BY <2>2, <1>1, <1>2 DEF TRTyped
  <2>3. QED
    BY <2>1, <2>2
<1>7. me.version \in trStored'[me.to] /\ (me.signed => me.version \in trSigs'[me.to])
  BY <1>1, <1>2, <1>3 DEF TRTyped
<1>8. PromoterSound(r, trListed', trStored', trSigs', trRemoved')
  BY <1>1, <1>2, <1>3, <1>4, <1>5, <1>6, <1>7 DEF PromoterSound, Copying
<1>9. StagingEven' /\ PromotedIsServed'
  <2>1. StagingEven'
    BY <1>1, <1>2 DEF StagingEven
  <2>2. PromotedIsServed'
    BY <1>1, <1>2, <1>5, <1>6 DEF PromotedIsServed
  <2>3. QED
    BY <2>1, <2>2
<1>10. TRInv'
  BY <1>1, <1>2, <1>4, <1>5, <1>6, <1>8, <1>9, TRMove DEF TRTyped
<1>11. \A t \in Tier, a \in TierArches : trListed[t][a] \in Nat
  BY <1>1, TierAssumption DEF TRTyped
<1>12. NeverGone /\ TiersOnlyAdvance
  BY <1>2, <1>11 DEF NeverGone, TiersOnlyAdvance
<1>13. QED
  BY <1>9, <1>10, <1>12 DEF TRKept

\* The target still lists what the gate saw, or what is promoted: the commit is no step back.
LEMMA TRCommit ==
  ASSUME TRInv, NEW p \in Promoters, CommitTarget(p)
  PROVE  TRKept
<1> DEFINE me == trP[p]
           r == [me EXCEPT !.pc = "read", !.done = @ \cup {me.arch}]
<1>1. me \in PromoterType /\ PromoterSound(me, trListed, trStored, trSigs, trRemoved)
      /\ TRTyped /\ StagingEven /\ PromotedIsServed
  BY TRKnows
<1>2. me.pc = "commit" /\ UNCHANGED <<trStored, trSigs, trRemoved>>
  BY DEF CommitTarget
<1>3. CASE EndPromotion(p) /\ UNCHANGED trListed
  BY <1>2, <1>3, TREnds DEF EndPromotion, trData
<1>4. CASE /\ StillCurrent(me) /\ Promoter(p, r)
           /\ trListed' = [trListed EXCEPT ![me.to][me.arch] = me.version]
  <2>1. me.from \in Tier /\ me.to \in Tier /\ me.version \in 0..MaxVersion /\ me.current \in 0..MaxVersion
    BY <1>1 DEF PromoterType
  <2>2. /\ me.arch \in TierArches /\ me.version # 0 /\ me.current <= me.version /\ CanPromote(me.from, me.to)
        /\ trListed[me.to][me.arch] \in {me.current, me.version}
    BY <1>1, <1>2, <1>4 DEF PromoterSound, Copying, StillCurrent
  <2>3. (me.from = "staging" /\ me.to = "testing") \/ (me.from = "testing" /\ me.to = "stable")
    BY <2>2 DEF CanPromote
  <2>4. r \in PromoterType /\ r.pc = "read" /\ r.from = me.from /\ r.to = me.to
    BY <1>1, <2>2 DEF PromoterType
  <2>5. \A t \in Tier, a \in TierArches :
           trListed'[t][a] = IF t = me.to /\ a = me.arch THEN me.version ELSE trListed[t][a]
    BY <1>1, <1>4, <2>1, <2>2 DEF TRTyped
  <2>6. trListed' \in [Tier -> [TierArches -> 0..MaxVersion]]
    BY <1>1, <1>4, <2>1, <2>2 DEF TRTyped
  <2>7. \A f \in Tier : Ahead(f, trListed) => Ahead(f, trListed')
    BY <2>2, <2>5 DEF Ahead, Tier
  <2>8. Ahead(me.from, trListed')
    BY <2>1, <2>2, <2>3, <2>5 DEF Ahead, Tier
  <2>9. PromoterSound(r, trListed', trStored', trSigs', trRemoved')
    BY <2>2, <2>4, <2>8 DEF PromoterSound, Copying
  <2>10. StagingEven'
    BY <1>1, <2>3, <2>5 DEF StagingEven, Tier
  <2>11. trRemoved = {} => me.version \in trStored[me.to] /\ me.version \in trSigs[me.to]
    BY <1>1, <1>2 DEF PromoterSound
  <2>12. PromotedIsServed'
    BY <1>1, <1>2, <2>5, <2>11 DEF PromotedIsServed
  <2>13. TRInv'
    BY <1>1, <1>2, <1>4, <2>4, <2>6, <2>7, <2>9, <2>10, <2>12, TRMove DEF TRTyped
  <2>14. \A t \in Tier, a \in TierArches : trListed[t][a] \in Nat
    BY <1>1, TierAssumption DEF TRTyped
  <2>15. NeverGone
    BY <2>2, <2>5 DEF NeverGone
  <2>16. TiersOnlyAdvance
    BY <2>1, <2>2, <2>5, <2>14, TierAssumption DEF TiersOnlyAdvance
  <2>17. QED
    BY <2>12, <2>13, <2>15, <2>16 DEF TRKept
<1>5. QED
  BY <1>3, <1>4 DEF CommitTarget

\* A move clears the source, which is behind a tier that lists the package.
LEMMA TRDrop ==
  ASSUME TRInv, NEW p \in Promoters, Drop(p)
  PROVE  TRKept
<1> DEFINE me == trP[p]
           v == Newest(me.from)
           r == [me EXCEPT !.pc = "dropfile", !.version = v]
<1>1. me \in PromoterType /\ PromoterSound(me, trListed, trStored, trSigs, trRemoved)
      /\ TRTyped /\ StagingEven /\ PromotedIsServed
  BY TRKnows
<1>2. me.pc = "drop" /\ UNCHANGED <<trStored, trSigs>>
  BY DEF Drop
<1>3. CASE EndPromotion(p) /\ UNCHANGED <<trListed, trRemoved>>
  BY <1>2, <1>3, TREnds DEF EndPromotion, trData
<1>4. CASE /\ trListed' = [trListed EXCEPT ![me.from] = [a \in TierArches |-> 0]]
           /\ trRemoved' = trRemoved \cup {me.from} /\ Promoter(p, r)
  <2>1. me.from \in Tier /\ CanPromote(me.from, me.to) /\ me.done # {} /\ Ahead(me.from, trListed)
    BY <1>1, <1>2 DEF PromoterType, PromoterSound
  <2>2. me.from \in {"staging", "testing"}
    BY <2>1 DEF CanPromote
  <2>3. TierArches # {}
    BY <2>1 DEF Ahead
  <2>4. v \in 0..MaxVersion
    BY <1>1, <2>1, <2>3, TierNewest
  <2>5. r \in PromoterType /\ r.pc = "dropfile" /\ r.from = me.from /\ r.to = me.to /\ r.done = me.done
    BY <1>1, <2>4 DEF PromoterType
  <2>6. \A t \in Tier, a \in TierArches : trListed'[t][a] = IF t = me.from THEN 0 ELSE trListed[t][a]
    BY <1>1, <1>4, <2>1 DEF TRTyped
  <2>7. trListed' \in [Tier -> [TierArches -> 0..MaxVersion]]
    BY <1>1, <1>4, <2>1, TierAssumption DEF TRTyped
  <2>8. \A f \in Tier : Ahead(f, trListed) => Ahead(f, trListed')
    BY <2>1, <2>2, <2>6 DEF Ahead, Tier
  <2>9. trRemoved' # {}
    BY <1>4
  <2>10. PromoterSound(r, trListed', trStored', trSigs', trRemoved')
    BY <2>1, <2>5, <2>8, <2>9 DEF PromoterSound, Copying
  <2>11. StagingEven'
    BY <1>1, <2>6 DEF StagingEven, Tier
  <2>12. PromotedIsServed'
    BY <2>9 DEF PromotedIsServed
  <2>13. TRInv'
    BY <1>1, <1>2, <1>4, <2>5, <2>7, <2>8, <2>9, <2>10, <2>11, <2>12, TRMove DEF TRTyped
  <2>14. NeverGone
    <3>1. Ahead(me.from, trListed')
      BY <2>1, <2>8
    <3>2. QED
      BY <3>1 DEF NeverGone, Ahead, Tier
  <2>15. TiersOnlyAdvance
    <3>1. \A t \in Tier, a \in TierArches : trListed[t][a] \in Nat
      BY <1>1, TierAssumption DEF TRTyped
    <3>2. QED
      BY <2>6, <3>1 DEF TiersOnlyAdvance
  <2>16. QED
    BY <2>12, <2>13, <2>14, <2>15 DEF TRKept
<1>5. QED
  BY <1>3, <1>4 DEF Drop

\* The file goes after its entry.
LEMMA TRDropFile ==
  ASSUME TRInv, NEW p \in Promoters, DropFile(p)
  PROVE  TRKept
<1> DEFINE me == trP[p]
<1>1. me \in PromoterType /\ PromoterSound(me, trListed, trStored, trSigs, trRemoved)
      /\ TRTyped /\ StagingEven /\ PromotedIsServed
  BY TRKnows
<1>2. /\ me.pc = "dropfile" /\ Promoter(p, PromoterIdle) /\ UNCHANGED <<trListed, trRemoved>>
      /\ trStored' = [trStored EXCEPT ![me.from] = @ \ {me.version}]
      /\ trSigs' = [trSigs EXCEPT ![me.from] = @ \ {me.version}]
  BY DEF DropFile, EndPromotion
<1>3. trRemoved # {}
  BY <1>1, <1>2 DEF PromoterSound
<1>4. trStored' \in [Tier -> SUBSET Nat] /\ trSigs' \in [Tier -> SUBSET Nat]
  BY <1>1, <1>2 DEF TRTyped, PromoterType
<1>5. StagingEven' /\ PromotedIsServed'
  BY <1>1, <1>2, <1>3 DEF StagingEven, PromotedIsServed
<1>6. TRInv'
  BY <1>1, <1>2, <1>3, <1>4, <1>5, PromoterIdleSound, TRMove DEF TRTyped
<1>7. \A t \in Tier, a \in TierArches : trListed[t][a] \in Nat
  BY <1>1, TierAssumption DEF TRTyped
<1>8. NeverGone /\ TiersOnlyAdvance
  BY <1>2, <1>7 DEF NeverGone, TiersOnlyAdvance
<1>9. QED
  BY <1>5, <1>6, <1>8 DEF TRKept

\* Every step.
LEMMA TRStep ==
  ASSUME TRInv, [TRNext]_trVars
  PROVE  TRInv' /\ (TRNext => TRKept)
<1>1. CASE TRNext
  <2>1. ASSUME NEW p \in Promoters, PromotionFails(p) PROVE TRKept
    BY <2>1, TREnds DEF PromotionFails, EndPromotion
  <2>2. TRKept
    BY <1>1, <2>1, TRUpload, TRBegin, TRRead, TRCarry, TRStore, TRCommit, TRDrop, TRDropFile DEF TRNext
  <2>3. QED
    BY <2>2 DEF TRKept
<1>2. CASE UNCHANGED trVars
  <2>1. TRInv'
    BY <1>2 DEF trVars, TRInv, TRTyped, StagingEven, PromotedIsServed
  <2>2. TRNext => TRKept
    BY <1>1 , <2>1
  <2>3. QED
    BY <2>1, <2>2
<1>3. QED
  BY <1>1, <1>2

\* Promotions, uploads and failures that overlap in any number never make a package disappear
\* or go back, and what a tier lists is stored there with its signature, as long as nothing
\* was removed: PromotePackage of tier.go, with and without leases, copying or moving.
THEOREM TiersCorrect == TRSpec => TiersHold
<1>1. TRInit => TRInv
  <2> SUFFICES ASSUME TRInit PROVE TRInv
    OBVIOUS
  <2>1. /\ trListed = [t \in Tier |-> [a \in TierArches |-> 0]] /\ trStored = [t \in Tier |-> {}]
        /\ trSigs = [t \in Tier |-> {}] /\ trP = [p \in Promoters |-> PromoterIdle]
    BY DEF TRInit
  <2>2. 0 \in 0..MaxVersion
    BY TierAssumption
  <2>3. trListed \in [Tier -> [TierArches -> 0..MaxVersion]]
    BY <2>1, <2>2
  <2>4. trP \in [Promoters -> PromoterType]
    BY <2>1, PromoterIdleSound
  <2>5. TRTyped
    BY <2>1, <2>3, <2>4 DEF TRTyped
  <2>6. \A t \in Tier, a \in TierArches : trListed[t][a] = 0
    BY <2>1
  <2>7. StagingEven /\ PromotedIsServed
    BY <2>6 DEF StagingEven, PromotedIsServed, Tier
  <2>8. \A p \in Promoters : PromoterSound(trP[p], trListed, trStored, trSigs, trRemoved)
    BY <2>1, PromoterIdleSound
  <2>9. QED
    BY <2>5, <2>7, <2>8 DEF TRInv
<1>2. TRInv /\ [TRNext]_trVars => TRInv'
  BY TRStep
<1>3. TRInv /\ [TRNext]_trVars => [PromotedIsServed' /\ NeverGone /\ TiersOnlyAdvance]_trVars
  BY TRStep DEF TRKept
<1>4. QED
  BY <1>1, <1>2, <1>3, PTL DEF TRSpec, TiersHold

(***************************************************************************)
(* The stored sign-in.                                                     *)
(***************************************************************************)
ModeType == [access : {"none", "file", "keyring"}, refresh : {"none", "keyring"}]
RingType == [up : BOOLEAN, access : Nat, refresh : Nat]
TokensLeft == {<<"refresh", "access", "db", "mode">>, <<"access", "db", "mode">>, <<"db", "mode">>, <<"mode">>}
StaticLeft ==
  {<<"access", "db", "mode", "forgetrefresh", "forgetinactive">>, <<"db", "mode", "forgetrefresh", "forgetinactive">>,
   <<"mode", "forgetrefresh", "forgetinactive">>, <<"forgetrefresh", "forgetinactive">>, <<"forgetinactive">>}
ClearLeft == {<<"dbclear", "forgetaccess", "forgetrefresh">>, <<"dbdelete", "forgetaccess", "forgetrefresh">>,
              <<"forgetaccess", "forgetrefresh">>, <<"forgetrefresh">>}
TodoType == {<<>>, SaveTokensWrites, SaveStaticWrites, ClearWrites, RemoveWrites, EndpointWrites}
            \cup TokensLeft \cup StaticLeft \cup ClearLeft
ClientType ==
  [pc : {"idle", "lock", "write", "send", "end", "refreshlock", "snapshot", "present"},
   op : {"none", "login", "static", "refresh", "logout", "revoke", "clear", "remove", "add", "request"},
   todo : TodoType, pair : Nat, ringed : BOOLEAN, access : Nat, seen : [access : Nat, refresh : Nat],
   safe : BOOLEAN, tries : Nat, again : BOOLEAN, done : Nat]

CSTyped ==
  /\ csDB = {} \/ \E a \in Nat : csDB = {a}
  /\ csMode = {} \/ \E m \in ModeType : csMode = {m}
  /\ csRing \in RingType /\ csC \in [Clients -> ClientType]
  /\ csIssued \in Nat /\ csRing.refresh <= csIssued
  /\ csOut \in BOOLEAN

\* A mode that uses the refresh token of the keyring names the place of the access token of the
\* same pair: every list of writes but that of the bare endpoint first turns the mode off.
Together(db, mode, ring) ==
  /\ mode = {} => ring.refresh = None
  /\ \A m \in mode : m.refresh = "keyring" =>
       \/ m.access = "keyring" /\ ring.access = ring.refresh
       \/ m.access = "file" /\ db = {ring.refresh}

\* How far a process is with its writes, and what is stored by then.
OnCourse(x, db, mode, ring) ==
  \/ x.op \in {"login", "refresh"} /\ x.todo = SaveTokensWrites
  \/ /\ x.op \in {"login", "refresh"} /\ x.todo \in TokensLeft /\ mode = {ModeNone}
     /\ x.todo # <<"refresh", "access", "db", "mode">> => ring.refresh = x.pair
     /\ x.todo \in {<<"db", "mode">>, <<"mode">>} /\ x.ringed => ring.access = x.pair
     /\ x.todo = <<"mode">> /\ ~x.ringed => db = {x.pair}
  \/ x.op = "static" /\ x.todo = SaveStaticWrites
  \/ x.op = "static" /\ x.todo \in StaticLeft /\ mode # {} /\ \A m \in mode : m.refresh = "none"
  \/ EndsSession(x.op) /\ x.todo \in {ClearWrites, RemoveWrites}
  \/ EndsSession(x.op) /\ x.todo \in ClearLeft /\ mode = {ModeNone}
  \/ x.op = "add" /\ x.todo = EndpointWrites

\* The process has a pair of its own to store; it refreshes; its refresh is with the server or later.
Storing(x) == x.pc \in {"lock", "write"} /\ x.op \in {"login", "static", "refresh"}
InFlight(x) == x.pc \in {"lock", "write"} /\ x.op = "refresh"
Refreshing(x) == x.pc \in {"snapshot", "present"} \/ InFlight(x)

Commands == {"login", "static", "refresh", "logout", "revoke", "clear", "remove", "add"}

\* What one process is entitled to, by where it is.
CellOK(c, x, lock, refreshLock, db, mode, ring) ==
  /\ x.pc = "lock" => x.op \in Commands
  /\ x.pc = "write" => lock = c /\ OnCourse(x, db, mode, ring)
  /\ Refreshing(x) => refreshLock = c
  /\ x.pc = "present" \/ InFlight(x) => x.seen.refresh # None
  /\ ~x.safe => x.done <= 1 /\ (x.pc # "end" => x.done = 0)

\* A pair that is still to be stored is new: issued, not presented, not seen by anyone who is about
\* to present one, and, until its writes begin, not in the keyring.
NewPair(x, issued, sent, ring) ==
  Storing(x) => x.pair # None /\ x.pair <= issued /\ x.pair \notin sent /\ (x.pc = "lock" => ring.refresh # x.pair)
Unseen(x, y) == Storing(x) /\ y.pc = "present" => y.seen.refresh # x.pair
Apart(x, y) == Storing(x) /\ Storing(y) => x.pair # y.pair

\* A token about to be presented was not presented before, unless its answer was lost.
Presentable(x, issued, sent, lost) ==
  x.pc = "present" => x.seen.refresh <= issued /\ x.seen.refresh \notin sent \ lost

\* If the refresh token in the keyring was spent, the process that spent it is about to replace it.
Replacing(C, ring, sent, lost) ==
  ring.refresh \in sent \ lost => \E c \in Clients : InFlight(C[c]) /\ C[c].seen.refresh = ring.refresh

\* Signed out: the mode is off, and nobody writes a pair.
OutOff(out, mode, C) ==
  out => mode = {ModeNone} /\ \A c \in Clients : ~(C[c].pc = "write" /\ Storing(C[c]))

CSInv ==
  /\ CSTyped /\ Together(csDB, csMode, csRing) /\ OutOff(csOut, csMode, csC)
  /\ csSent \subseteq 1 .. csIssued /\ csTwice = {}
  /\ Replacing(csC, csRing, csSent, csLost)
  /\ \A c \in Clients :
       /\ CellOK(c, csC[c], csLock, csRefreshLock, csDB, csMode, csRing)
       /\ NewPair(csC[c], csIssued, csSent, csRing)
       /\ Presentable(csC[c], csIssued, csSent, csLost)
       /\ \A e \in Clients : Unseen(csC[c], csC[e]) /\ (e # c => Apart(csC[c], csC[e]))


\* What one write of the process x does to the store, r being the process after it.
Wrote(x, r, db, mode, ring) ==
  /\ db = {} \/ \E a \in Nat : db = {a}
  /\ mode = {} \/ \E m \in ModeType : mode = {m}
  /\ ring \in RingType /\ Together(db, mode, ring)
  /\ ring.refresh \in {csRing.refresh, None} \/ (Storing(x) /\ ring.refresh = x.pair)
  /\ ~Storing(x) => mode \in {csMode, {ModeNone}}
  /\ Tail(x.todo) # <<>> => OnCourse(r, db, mode, ring) /\ Tail(x.todo) \in TodoType
  /\ Tail(x.todo) = <<>> => (x.op = "refresh" => ring.refresh = x.pair) /\ (EndsSession(x.op) => mode = {ModeNone})

LEMMA ClientFacts ==
  ASSUME CSInv
  PROVE  /\ CSTyped /\ Together(csDB, csMode, csRing) /\ OutOff(csOut, csMode, csC)
         /\ csSent \subseteq 1 .. csIssued /\ csTwice = {} /\ Replacing(csC, csRing, csSent, csLost)
         /\ \A c \in Clients :
              /\ csC[c] \in ClientType
              /\ CellOK(c, csC[c], csLock, csRefreshLock, csDB, csMode, csRing)
              /\ NewPair(csC[c], csIssued, csSent, csRing)
              /\ Presentable(csC[c], csIssued, csSent, csLost)
              /\ \A e \in Clients : Unseen(csC[c], csC[e]) /\ (e # c => Apart(csC[c], csC[e]))
BY DEF CSInv, CSTyped

LEMMA IdleCell ==
  /\ ClientIdle \in ClientType /\ ClientIdle.pc = "idle" /\ ~ClientIdle.safe /\ ClientIdle.done = 0
  /\ ~Storing(ClientIdle) /\ ~InFlight(ClientIdle) /\ ~Refreshing(ClientIdle)
  /\ \A c, lock, refreshLock, db, mode, ring : CellOK(c, ClientIdle, lock, refreshLock, db, mode, ring)
<1>1. ClientIdle \in ClientType
  BY DEF ClientIdle, ClientType, None, TodoType
<1>2. ClientIdle.pc = "idle" /\ ClientIdle.safe = FALSE /\ ClientIdle.done = 0
  BY DEF ClientIdle
<1>3. ~Storing(ClientIdle) /\ ~InFlight(ClientIdle) /\ ~Refreshing(ClientIdle)
  BY <1>2 DEF Storing, InFlight, Refreshing
<1>4. \A c, lock, refreshLock, db, mode, ring : CellOK(c, ClientIdle, lock, refreshLock, db, mode, ring)
  BY <1>2, <1>3 DEF CellOK
<1>5. QED
  BY <1>1, <1>2, <1>3, <1>4

LEMMA ReadFile ==
  ASSUME NEW a, csDB = {a}
  PROVE  FileAccess = a
<1>1. \E x \in csDB : TRUE
  OBVIOUS
<1>2. (CHOOSE x \in csDB : TRUE) \in csDB
  BY <1>1
<1>3. QED
  BY <1>2 DEF FileAccess

LEMMA ReadNumbers ==
  ASSUME CSTyped
  PROVE  /\ FileAccess \in Nat /\ LoadAccess \in Nat /\ LoadRefresh \in Nat
         /\ Pair \in [access : Nat, refresh : Nat] /\ Pair.access = LoadAccess /\ Pair.refresh = LoadRefresh
         /\ LoadRefresh # None => LoadRefresh = csRing.refresh
<1>1. FileAccess \in Nat
  BY ReadFile DEF CSTyped, FileAccess, None
<1>2. csRing.access \in Nat /\ csRing.refresh \in Nat /\ None \in Nat
  BY DEF CSTyped, RingType, None
<1>3. LoadAccess \in Nat
  BY <1>1, <1>2 DEF LoadAccess
<1>4. LoadRefresh \in Nat /\ (LoadRefresh # None => LoadRefresh = csRing.refresh)
  BY <1>2 DEF LoadRefresh
<1>5. QED
  BY <1>1, <1>3, <1>4 DEF Pair

LEMMA ReadNothing ==
  ASSUME csMode = {ModeNone}
  PROVE  LoadAccess = None /\ LoadRefresh = None
<1>1. {m.access : m \in csMode} = {"none"} /\ {m.refresh : m \in csMode} = {"none"}
  BY DEF ModeNone
<1>2. QED
  BY <1>1 DEF LoadAccess, LoadRefresh

\* Together is what the pair a reader finds needs.
LEMMA ReadTogether ==
  ASSUME CSTyped, Together(csDB, csMode, csRing)
  PROVE  LoadAccess # None /\ LoadRefresh # None => LoadAccess = LoadRefresh
<1>1. CASE csMode = {}
  BY <1>1 DEF LoadRefresh, Together
<1>2. ASSUME NEW m \in ModeType, csMode = {m} PROVE LoadAccess # None /\ LoadRefresh # None => LoadAccess = LoadRefresh
  <2>1. {x.access : x \in csMode} = {m.access} /\ {x.refresh : x \in csMode} = {m.refresh}
    BY <1>2
  <2>2. CASE m.refresh = "none"
    BY <2>1, <2>2 DEF LoadRefresh
  <2>3. CASE m.refresh = "keyring"
    <3>1. LoadRefresh = csRing.refresh
      BY <2>1, <2>3 DEF LoadRefresh
    <3>2. m.access \in {"keyring", "file"} /\ (m.access = "keyring" => csRing.access = csRing.refresh)
          /\ (m.access = "file" => csDB = {csRing.refresh})
      BY <1>2, <2>3 DEF Together
    <3>3. m.access = "file" => LoadAccess = csRing.refresh
      BY <2>1, <3>2, ReadFile DEF LoadAccess
    <3>4. m.access = "keyring" => LoadAccess = csRing.access
      BY <2>1 DEF LoadAccess
    <3>5. QED
      BY <3>1, <3>2, <3>3, <3>4
  <2>4. QED
    BY <2>2, <2>3 DEF ModeType
<1>3. QED
  BY <1>1, <1>2 DEF CSTyped

LEMMA ClientInvHolds ==
  ASSUME CSInv
  PROVE  SignInHolds
<1>1. PairsStayTogether
  BY ClientFacts, ReadTogether, ReadNumbers DEF PairsStayTogether
<1>2. SignOutHolds
  BY ClientFacts, ReadNothing DEF SignOutHolds, OutOff, Pair
<1>3. RefreshedOnce
  BY ClientFacts DEF RefreshedOnce
<1>4. DoneOnce
  BY ClientFacts DEF DoneOnce, CellOK
<1>5. QED
  BY <1>1, <1>2, <1>3, <1>4 DEF SignInHolds

LEMMA ClientInit == CSInit => CSInv
<1> SUFFICES ASSUME CSInit PROVE CSInv
  OBVIOUS
<1>1. csC \in [Clients -> ClientType] /\ \A c \in Clients : csC[c] = ClientIdle
  BY IdleCell DEF CSInit
<1>2. csRing \in RingType /\ csRing.refresh = None /\ csIssued = 0
  BY DEF CSInit, RingType, None
<1>3. CSTyped
  <2>1. csDB = {} /\ csMode = {} /\ csOut = FALSE
    BY DEF CSInit
  <2>2. csRing.refresh <= csIssued /\ csIssued \in Nat
    BY <1>2 DEF None
  <2>3. csOut \in BOOLEAN
    BY <2>1, Zenon
  <2>4. QED
    BY <1>1, <1>2, <2>1, <2>2, <2>3, Zenon DEF CSTyped
<1>4. Together(csDB, csMode, csRing) /\ OutOff(csOut, csMode, csC) /\ csTwice = {} /\ csSent = {}
  BY <1>2 DEF Together, OutOff, CSInit
<1>5. \A c \in Clients : /\ CellOK(c, csC[c], csLock, csRefreshLock, csDB, csMode, csRing)
                         /\ ~Storing(csC[c]) /\ csC[c].pc = "idle"
  BY <1>1, IdleCell, Zenon
<1>6. QED
  BY <1>3, <1>4, <1>5 DEF CSInv, NewPair, Presentable, Unseen, Apart, Replacing

\* A step of one process that stores nothing, issues nothing and presents nothing.
LEMMA ClientSteps ==
  ASSUME CSInv, NEW c \in Clients, NEW r \in ClientType, csC' = [csC EXCEPT ![c] = r],
         csDB' = csDB, csMode' = csMode, csRing' = csRing, csIssued' = csIssued, csSent' = csSent, csTwice' = csTwice,
         csLost \subseteq csLost', csOut' \in BOOLEAN, csOut' => csOut,
         csLock' = csLock \/ csLock \in {c, NoClient},
         csRefreshLock' = csRefreshLock \/ csRefreshLock \in {c, NoClient},
         CellOK(c, r, csLock', csRefreshLock', csDB, csMode, csRing),
         Storing(r) => Storing(csC[c]) /\ r.pair = csC[c].pair /\ (r.pc = "lock" => csC[c].pc = "lock"),
         csOut' => ~(r.pc = "write" /\ Storing(r)),
         Presentable(r, csIssued, csSent, csLost), \A e \in Clients : Unseen(csC[e], r),
         InFlight(csC[c]) => csC[c].seen.refresh \in csLost' \/ (InFlight(r) /\ r.seen = csC[c].seen)
  PROVE  CSInv'
<1>1. csC'[c] = r /\ csC' \in [Clients -> ClientType] /\ \A e \in Clients : e # c => csC'[e] = csC[e]
  BY ClientFacts DEF CSTyped
<1>2. CSTyped' /\ Together(csDB', csMode', csRing') /\ csSent' \subseteq 1 .. csIssued' /\ csTwice' = {}
  BY <1>1, ClientFacts DEF CSTyped
<1>3. OutOff(csOut', csMode', csC')
  BY <1>1, ClientFacts DEF OutOff
<1>4. \A e \in Clients : CellOK(e, csC'[e], csLock', csRefreshLock', csDB', csMode', csRing')
  <2> SUFFICES ASSUME NEW e \in Clients, e # c PROVE CellOK(e, csC'[e], csLock', csRefreshLock', csDB', csMode', csRing')
    BY <1>1
  <2>1. CellOK(e, csC[e], csLock, csRefreshLock, csDB, csMode, csRing) /\ e # NoClient /\ csC'[e] = csC[e]
    BY <1>1, ClientFacts, ClientAssumption
  <2>2. csC[e].pc = "write" => csLock' = e
    BY <2>1 DEF CellOK
  <2>3. Refreshing(csC[e]) => csRefreshLock' = e
    BY <2>1 DEF CellOK
  <2>4. QED
    BY <2>1, <2>2, <2>3 DEF CellOK
<1>5. \A e \in Clients : NewPair(csC'[e], csIssued', csSent', csRing')
  <2>1. NewPair(r, csIssued, csSent, csRing)
    BY ClientFacts DEF NewPair
  <2>2. QED
    BY <1>1, <2>1, ClientFacts
<1>6. \A e \in Clients : Presentable(csC'[e], csIssued', csSent', csLost')
  BY <1>1, ClientFacts DEF Presentable
<1>7. \A e, f \in Clients : Unseen(csC'[e], csC'[f])
  <2>1. \A f \in Clients : Unseen(r, csC[f])
    BY ClientFacts DEF Unseen
  <2>2. Unseen(r, r)
    BY DEF Unseen, Storing
  <2>3. QED
    BY <1>1, <2>1, <2>2, ClientFacts
<1>8. \A e, f \in Clients : f # e => Apart(csC'[e], csC'[f])
  <2>1. \A f \in Clients : f # c => Apart(r, csC[f]) /\ Apart(csC[f], r)
    BY ClientFacts DEF Apart
  <2>2. QED
    BY <1>1, <2>1, ClientFacts
<1>9. Replacing(csC', csRing', csSent', csLost')
  <2> SUFFICES ASSUME csRing.refresh \in csSent \ csLost' PROVE \E e \in Clients : InFlight(csC'[e]) /\ csC'[e].seen.refresh = csRing.refresh
    BY DEF Replacing
  <2>1. PICK e \in Clients : InFlight(csC[e]) /\ csC[e].seen.refresh = csRing.refresh
    BY ClientFacts DEF Replacing
  <2>2. QED
    BY <1>1, <2>1
<1>10. QED
  BY <1>2, <1>3, <1>4, <1>5, <1>6, <1>7, <1>8, <1>9 DEF CSInv

\* Back to rest, with whatever locks the process had.
LEMMA ClientRests ==
  ASSUME CSInv, NEW c \in Clients, Client(c, ClientIdle),
         csDB' = csDB, csMode' = csMode, csRing' = csRing, csIssued' = csIssued, csSent' = csSent, csTwice' = csTwice,
         csLost \subseteq csLost', csOut' \in BOOLEAN, csOut' => csOut,
         csLock' = csLock \/ csLock \in {c, NoClient},
         csRefreshLock' = csRefreshLock \/ csRefreshLock \in {c, NoClient},
         InFlight(csC[c]) => csC[c].seen.refresh \in csLost'
  PROVE  CSInv'
<1>1. Presentable(ClientIdle, csIssued, csSent, csLost) /\ \A e \in Clients : Unseen(csC[e], ClientIdle)
  BY IdleCell DEF Presentable, Unseen
<1>2. csC' = [csC EXCEPT ![c] = ClientIdle]
  BY DEF Client
<1>3. QED
  BY <1>1, <1>2, IdleCell, ClientSteps, Zenon

\* A process that is neither storing nor refreshing goes on without taking that up.
LEMMA ClientGoesOn ==
  ASSUME CSInv, NEW c \in Clients, NEW r \in ClientType, Client(c, r),
         csDB' = csDB, csMode' = csMode, csRing' = csRing, csIssued' = csIssued, csSent' = csSent, csTwice' = csTwice,
         csLost' = csLost, csOut' = csOut, csLock' = csLock,
         csRefreshLock' = csRefreshLock \/ csRefreshLock \in {c, NoClient},
         ~InFlight(csC[c]), ~Storing(r), r.pc \notin {"write", "present"},
         r.pc = "lock" => r.op \in Commands, Refreshing(r) => csRefreshLock' = c,
         ~r.safe => r.done <= 1 /\ (r.pc # "end" => r.done = 0)
  PROVE  CSInv'
<1>1. Presentable(r, csIssued, csSent, csLost) /\ \A e \in Clients : Unseen(csC[e], r)
  BY DEF Presentable, Unseen
<1>2. csC' = [csC EXCEPT ![c] = r] /\ csOut' \in BOOLEAN /\ csLost \subseteq csLost'
  BY ClientFacts DEF Client, CSTyped
<1>3. ~InFlight(r)
  BY DEF InFlight, Storing
<1>4. CellOK(c, r, csLock', csRefreshLock', csDB, csMode, csRing)
  BY <1>3 DEF CellOK
<1>5. QED
  BY <1>1, <1>2, <1>3, <1>4, ClientSteps

LEMMA KeyringMovesKeeps ==
  ASSUME CSInv, KeyringMoves
  PROVE  CSInv'
<1>1. /\ csRing' \in RingType /\ csRing'.refresh = csRing.refresh /\ csRing'.access = csRing.access
  <2>1. csRing \in RingType /\ csRing' = [csRing EXCEPT !.up = ~@]
    BY ClientFacts DEF KeyringMoves, CSTyped
  <2>2. QED
    BY <2>1, Zenon DEF RingType
<1>2. UNCHANGED <<csDB, csMode, csLock, csRefreshLock, csC, csIssued, csStatic, csSent, csLost, csTwice, csOut>>
  BY DEF KeyringMoves, csServer
<1>3. CSTyped'
  BY <1>1, <1>2, ClientFacts DEF CSTyped
<1>4. Together(csDB', csMode', csRing') /\ Replacing(csC', csRing', csSent', csLost')
  BY <1>1, <1>2, ClientFacts DEF Together, Replacing
<1>5. \A c \in Clients : CellOK(c, csC[c], csLock, csRefreshLock, csDB, csMode, csRing')
  <2> SUFFICES ASSUME NEW c \in Clients, csC[c].pc = "write" PROVE OnCourse(csC[c], csDB, csMode, csRing')
    BY ClientFacts DEF CellOK
  <2>1. OnCourse(csC[c], csDB, csMode, csRing)
    BY ClientFacts DEF CellOK
  <2>2. QED
    BY <1>1, <2>1 DEF OnCourse
<1>6. \A c \in Clients : NewPair(csC[c], csIssued, csSent, csRing')
  BY <1>1, ClientFacts DEF NewPair
<1>7. QED
  BY <1>2, <1>3, <1>4, <1>5, <1>6, ClientFacts DEF CSInv

LEMMA EditKeeps ==
  ASSUME CSInv, NEW c \in Clients, Edit(c)
  PROVE  CSInv'
<1>1. PICK op \in {"logout", "remove", "add", "clear"} : Client(c, [ClientIdle EXCEPT !.op = op, !.pc = "lock"])
  BY DEF Edit
<1> DEFINE r == [ClientIdle EXCEPT !.op = op, !.pc = "lock"]
<1>2. r \in ClientType /\ r.pc = "lock" /\ r.op = op /\ r.safe = ClientIdle.safe /\ r.done = ClientIdle.done
  BY IdleCell DEF ClientType, ClientIdle
<1>3. Client(c, r)
  BY <1>1
<1> HIDE DEF r
<1>4. ~Storing(r) /\ ~Refreshing(r) /\ r.done = 0
  BY <1>2, IdleCell DEF Storing, Refreshing, InFlight
<1>5. UNCHANGED <<csDB, csMode, csRing, csLock, csRefreshLock, csIssued, csSent, csLost, csTwice, csOut>> /\ csC[c].pc = "idle"
  BY DEF Edit, csStore, csServer
<1>6. ~InFlight(csC[c])
  BY <1>5 DEF InFlight
<1>7. QED
  BY <1>2, <1>3, <1>4, <1>5, <1>6, ClientGoesOn DEF Commands

LEMMA RevokeKeeps ==
  ASSUME CSInv, NEW c \in Clients, Revoke(c)
  PROVE  CSInv'
<1> DEFINE r == [ClientIdle EXCEPT !.op = "revoke", !.pc = "lock", !.seen = Pair]
<1>1. UNCHANGED <<csDB, csMode, csRing, csLock, csRefreshLock, csIssued, csSent, csLost, csTwice, csOut>> /\ csC[c].pc = "idle"
  BY DEF Revoke, csStore, csServer
<1>2. ~InFlight(csC[c]) /\ csOut' \in BOOLEAN
  BY <1>1, ClientFacts DEF InFlight, CSTyped
<1>3. CASE Client(c, ClientIdle)
  BY <1>1, <1>2, <1>3, ClientRests
<1>4. CASE Client(c, r)
  <2>1. Pair \in [access : Nat, refresh : Nat]
    BY ClientFacts, ReadNumbers
  <2> HIDE DEF Pair
  <2>2. r \in ClientType /\ r.pc = "lock" /\ r.op = "revoke" /\ r.safe = ClientIdle.safe /\ r.done = ClientIdle.done
    BY <2>1, IdleCell DEF ClientType, ClientIdle
  <2> HIDE DEF r
  <2>3. ~Storing(r) /\ ~Refreshing(r) /\ r.done = 0
    BY <2>2, IdleCell DEF Storing, Refreshing, InFlight
  <2>4. QED
    BY <1>1, <1>2, <1>4, <2>2, <2>3, ClientGoesOn DEF Commands
<1>5. QED
  BY <1>3, <1>4 DEF Revoke

LEMMA RequestKeeps ==
  ASSUME CSInv, NEW c \in Clients, Request(c)
  PROVE  CSInv'
<1>1. PICK safe \in BOOLEAN : Client(c, [ClientIdle EXCEPT !.op = "request", !.pc = "send", !.access = LoadAccess, !.safe = safe])
  BY DEF Request
<1> DEFINE r == [ClientIdle EXCEPT !.op = "request", !.pc = "send", !.access = LoadAccess, !.safe = safe]
<1>2. LoadAccess \in Nat
  BY ClientFacts, ReadNumbers
<1>3. r \in ClientType
  BY <1>2, IdleCell, Zenon DEF ClientType
<1>4. r.pc = "send" /\ r.op = "request" /\ r.done = 0
  BY DEF ClientIdle
<1>5. Client(c, r)
  BY <1>1
<1> HIDE DEF r
<1>6. ~Storing(r) /\ ~Refreshing(r)
  BY <1>4 DEF Storing, Refreshing, InFlight
<1>7. UNCHANGED <<csDB, csMode, csRing, csLock, csRefreshLock, csIssued, csSent, csLost, csTwice, csOut>> /\ csC[c].pc = "idle"
  BY DEF Request, csStore, csServer
<1>8. ~InFlight(csC[c])
  BY <1>7 DEF InFlight
<1>9. QED
  BY <1>3, <1>4, <1>5, <1>6, <1>7, <1>8, ClientGoesOn

LEMMA SendKeeps ==
  ASSUME CSInv, NEW c \in Clients, Send(c)
  PROVE  CSInv'
<1> DEFINE x == csC[c]
<1>1. UNCHANGED <<csDB, csMode, csRing, csLock, csRefreshLock, csIssued, csSent, csLost, csTwice, csOut>> /\ x.pc = "send"
  BY DEF Send, csStore, csServer
<1>2. x \in ClientType /\ (~x.safe => x.done = 0) /\ ~InFlight(x)
  BY <1>1, ClientFacts DEF CellOK, InFlight
<1>3. ASSUME NEW r \in ClientType, Client(c, r), r.pc \in {"send", "end", "refreshlock"}, r.safe = x.safe,
             ~r.safe => r.done <= 1 /\ (r.pc # "end" => r.done = 0)
      PROVE  CSInv'
  <2>1. ~Storing(r) /\ ~Refreshing(r)
    BY <1>3 DEF Storing, Refreshing, InFlight
  <2>2. QED
    BY <1>1, <1>2, <1>3, <2>1, ClientGoesOn
<1>4. ASSUME NEW worked \in BOOLEAN, Client(c, [x EXCEPT !.pc = "end", !.done = IF worked THEN @ + 1 ELSE @])
      PROVE  CSInv'
  <2> DEFINE r == [x EXCEPT !.pc = "end", !.done = IF worked THEN @ + 1 ELSE @]
  <2>1. r \in ClientType
    <3> DEFINE d == IF worked THEN x.done + 1 ELSE x.done
    <3>1. d \in Nat
      BY <1>2 DEF ClientType
    <3>2. r = [x EXCEPT !.pc = "end", !.done = d]
      BY DEF d
    <3> HIDE DEF d, r
    <3>3. QED
      BY <1>2, <3>1, <3>2, Zenon DEF ClientType
  <2>2. r.pc = "end" /\ r.safe = x.safe /\ (x.done = 0 => r.done <= 1)
    BY <1>2 DEF ClientType
  <2>3. Client(c, r)
    BY <1>4
  <2> HIDE DEF r
  <2>4. QED
    BY <1>2, <1>3, <2>1, <2>2, <2>3
<1>5. ASSUME NEW worked \in BOOLEAN,
             Client(c, [x EXCEPT !.tries = @ + 1, !.done = IF worked THEN @ + 1 ELSE @,
                                 !.pc = IF x.tries + 1 < Attempts(x.safe) THEN "send" ELSE "end"])
      PROVE  CSInv'
  <2> DEFINE r == [x EXCEPT !.tries = @ + 1, !.done = IF worked THEN @ + 1 ELSE @,
                            !.pc = IF x.tries + 1 < Attempts(x.safe) THEN "send" ELSE "end"]
  <2>1. r \in ClientType
    <3> DEFINE d == IF worked THEN x.done + 1 ELSE x.done  t == x.tries + 1
               p == IF x.tries + 1 < Attempts(x.safe) THEN "send" ELSE "end"
    <3>1. d \in Nat /\ t \in Nat /\ p \in {"send", "end"}
      BY <1>2 DEF ClientType
    <3>2. r = [x EXCEPT !.tries = t, !.done = d, !.pc = p]
      BY DEF d, t, p
    <3> HIDE DEF d, t, p, r
    <3>3. QED
      BY <1>2, <3>1, <3>2, Zenon DEF ClientType
  <2>2. r.pc \in {"send", "end"} /\ r.safe = x.safe /\ (x.done = 0 => r.done <= 1)
    BY <1>2 DEF ClientType
  <2>3. ~x.safe => r.pc = "end"
    <3>1. x.tries \in Nat /\ r.pc = IF x.tries + 1 < Attempts(x.safe) THEN "send" ELSE "end"
      BY <1>2 DEF ClientType
    <3>2. ~x.safe => Attempts(x.safe) = 1
      BY DEF Attempts
    <3>3. ~x.safe => ~(x.tries + 1 < Attempts(x.safe))
      BY <3>1, <3>2
    <3>4. QED
      BY <3>1, <3>3
  <2>4. Client(c, r)
    BY <1>5
  <2> HIDE DEF r
  <2>5. QED
    BY <1>2, <1>3, <2>1, <2>2, <2>3, <2>4
<1>6. ASSUME Client(c, [x EXCEPT !.pc = IF x.again THEN "end" ELSE "refreshlock"])
      PROVE  CSInv'
  <2> DEFINE r == [x EXCEPT !.pc = IF x.again THEN "end" ELSE "refreshlock"]
  <2>1. r \in ClientType
    BY <1>2 DEF ClientType
  <2>2. r.pc \in {"end", "refreshlock"} /\ r.safe = x.safe /\ r.done = x.done
    BY <1>2 DEF ClientType
  <2>3. Client(c, r)
    BY <1>6
  <2> HIDE DEF r
  <2>4. QED
    BY <1>2, <1>3, <2>1, <2>2, <2>3
<1>7. QED
  BY <1>4, <1>5, <1>6 DEF Send

LEMMA EndRequestKeeps ==
  ASSUME CSInv, NEW c \in Clients, EndRequest(c)
  PROVE  CSInv'
<1>1. UNCHANGED <<csDB, csMode, csRing, csLock, csRefreshLock, csIssued, csSent, csLost, csTwice, csOut>>
      /\ csC[c].pc = "end" /\ Client(c, ClientIdle)
  BY DEF EndRequest, csStore, csServer
<1>2. ~InFlight(csC[c]) /\ csOut' \in BOOLEAN
  BY <1>1, ClientFacts DEF InFlight, CSTyped
<1>3. QED
  BY <1>1, <1>2, ClientRests

LEMMA RefreshEnterKeeps ==
  ASSUME CSInv, NEW c \in Clients, RefreshEnter(c)
  PROVE  CSInv'
<1> DEFINE x == csC[c]  r == [csC[c] EXCEPT !.pc = "snapshot"]
<1>1. UNCHANGED <<csDB, csMode, csRing, csLock, csIssued, csSent, csLost, csTwice, csOut>> /\ x.pc = "refreshlock"
  BY DEF RefreshEnter, csStore, csServer
<1>2. ~InFlight(x) /\ csOut' \in BOOLEAN /\ x \in ClientType /\ (~x.safe => x.done = 0)
  BY <1>1, ClientFacts DEF InFlight, CSTyped, CellOK
<1>3. CASE Client(c, ClientIdle) /\ csRefreshLock' = csRefreshLock
  BY <1>1, <1>2, <1>3, ClientRests
<1>4. CASE WithRefreshLock(c) /\ Client(c, r)
  <2>1. r \in ClientType /\ r.pc = "snapshot" /\ r.safe = x.safe /\ r.done = x.done
    BY <1>2 DEF ClientType
  <2> HIDE DEF r
  <2>2. ~Storing(r) /\ csRefreshLock = NoClient /\ csRefreshLock' = c
    BY <1>4, <2>1 DEF Storing, WithRefreshLock
  <2>3. QED
    BY <1>1, <1>2, <1>4, <2>1, <2>2, ClientGoesOn
<1>5. QED
  BY <1>3, <1>4 DEF RefreshEnter

LEMMA RefreshSnapshotKeeps ==
  ASSUME CSInv, NEW c \in Clients, RefreshSnapshot(c)
  PROVE  CSInv'
<1> DEFINE x == csC[c]
           r == [x EXCEPT !.pc = "send", !.access = Pair.access, !.tries = 0, !.again = TRUE]
           p == [x EXCEPT !.pc = "present", !.seen = Pair]
<1>1. UNCHANGED <<csDB, csMode, csRing, csLock, csIssued, csSent, csLost, csTwice, csOut>>
      /\ x.pc = "snapshot" /\ csLock = NoClient
  BY DEF RefreshSnapshot, csStore, csServer
<1>2. ~InFlight(x) /\ csOut' \in BOOLEAN /\ x \in ClientType /\ (~x.safe => x.done = 0) /\ csRefreshLock = c
  BY <1>1, ClientFacts DEF InFlight, CSTyped, CellOK, Refreshing
<1>3. Pair \in [access : Nat, refresh : Nat] /\ Pair.access \in Nat /\ (Pair.refresh # None => Pair.refresh = csRing.refresh)
  BY ClientFacts, ReadNumbers
<1> HIDE DEF Pair
<1>4. CASE Client(c, ClientIdle) /\ csRefreshLock' = NoClient
  BY <1>1, <1>2, <1>4, ClientRests
<1>5. CASE Client(c, r) /\ csRefreshLock' = NoClient
  <2>1. r \in ClientType
    BY <1>2, <1>3, Zenon DEF ClientType
  <2>2. r.pc = "send" /\ r.safe = x.safe /\ r.done = x.done
    BY <1>2 DEF ClientType
  <2> HIDE DEF r
  <2>3. ~Storing(r) /\ ~Refreshing(r)
    BY <2>2 DEF Storing, Refreshing, InFlight
  <2>4. QED
    BY <1>1, <1>2, <1>5, <2>1, <2>2, <2>3, ClientGoesOn
<1>6. CASE Pair.refresh # None /\ Client(c, p) /\ csRefreshLock' = csRefreshLock
  <2>1. p \in ClientType /\ p.pc = "present" /\ p.safe = x.safe /\ p.done = x.done /\ p.seen = Pair
    BY <1>2, <1>3 DEF ClientType
  <2> HIDE DEF p
  <2>2. ~Storing(p) /\ ~InFlight(p)
    BY <2>1 DEF Storing, InFlight
  <2>3. \A e \in Clients : ~InFlight(csC[e])
    <3> SUFFICES ASSUME NEW e \in Clients, InFlight(csC[e]) PROVE FALSE
      OBVIOUS
    <3>1. e = c
      BY <1>2, ClientFacts DEF CellOK, Refreshing
    <3>2. QED
      BY <1>2, <3>1
  <2>4. p.seen.refresh = csRing.refresh /\ csRing.refresh \notin csSent \ csLost /\ csRing.refresh <= csIssued
    BY <1>3, <1>6, <2>1, <2>3, ClientFacts DEF Replacing, CSTyped
  <2>5. Presentable(p, csIssued, csSent, csLost)
    BY <2>4 DEF Presentable
  <2>6. \A e \in Clients : Unseen(csC[e], p)
    <3> SUFFICES ASSUME NEW e \in Clients, Storing(csC[e]) PROVE csRing.refresh # csC[e].pair
      BY <2>4 DEF Unseen
    <3>1. csC[e].pc # "write" /\ NewPair(csC[e], csIssued, csSent, csRing)
      BY <1>1, ClientFacts, ClientAssumption DEF CellOK
    <3>2. QED
      BY <3>1 DEF NewPair, Storing
  <2>7. CellOK(c, p, csLock', csRefreshLock', csDB, csMode, csRing)
    BY <1>2, <1>6, <2>1, <2>2 DEF CellOK
  <2>8. csC' = [csC EXCEPT ![c] = p] /\ csLost \subseteq csLost'
    BY <1>1, <1>6 DEF Client
  <2>9. QED
    BY <1>1, <1>2, <1>6, <2>1, <2>2, <2>5, <2>6, <2>7, <2>8, ClientSteps
<1>7. QED
  BY <1>4, <1>5, <1>6 DEF RefreshSnapshot

LEMMA KillClientKeeps ==
  ASSUME CSInv, NEW c \in Clients, KillClient(c)
  PROVE  CSInv'
<1>1. UNCHANGED <<csDB, csMode, csRing, csIssued, csSent, csTwice, csOut>> /\ Client(c, ClientIdle)
  BY DEF KillClient, csStore
<1>2. (csLock' = csLock \/ csLock \in {c, NoClient}) /\ (csRefreshLock' = csRefreshLock \/ csRefreshLock \in {c, NoClient})
  BY DEF KillClient
<1>3. csLost \subseteq csLost' /\ (InFlight(csC[c]) => csC[c].seen.refresh \in csLost')
  BY DEF KillClient, InFlight
<1>4. csOut' \in BOOLEAN
  BY <1>1, ClientFacts DEF CSTyped
<1>5. QED
  BY <1>1, <1>2, <1>3, <1>4, ClientRests

LEMMA MutateFailsKeeps ==
  ASSUME CSInv, NEW c \in Clients, MutateFails(c)
  PROVE  CSInv'
<1>1. UNCHANGED <<csDB, csMode, csRing, csIssued, csSent, csTwice, csOut>> /\ Client(c, ClientIdle)
  BY DEF MutateFails, csStore
<1>2. (csLock' = csLock \/ csLock \in {c, NoClient}) /\ (csRefreshLock' = csRefreshLock \/ csRefreshLock \in {c, NoClient})
  BY DEF MutateFails
<1>3. csLost \subseteq csLost' /\ (InFlight(csC[c]) => csC[c].seen.refresh \in csLost')
  BY DEF MutateFails, InFlight
<1>4. csOut' \in BOOLEAN
  BY <1>1, ClientFacts DEF CSTyped
<1>5. QED
  BY <1>1, <1>2, <1>3, <1>4, ClientRests

LEMMA EnterLockKeeps ==
  ASSUME CSInv, NEW c \in Clients, EnterLock(c)
  PROVE  CSInv'
<1> DEFINE x == csC[c]
           w == [x EXCEPT !.pc = "write", !.todo = WritesOf(x.op)]
           r == [x EXCEPT !.pc = "send", !.op = "request", !.access = LoadAccess, !.tries = 0, !.again = TRUE]
<1>1. UNCHANGED <<csDB, csMode, csRing, csIssued, csSent, csTwice>> /\ x.pc = "lock"
      /\ csOut' = (csOut /\ x.op \notin {"login", "static"})
  BY DEF EnterLock, csStore
<1>2. csOut' \in BOOLEAN /\ (csOut' => csOut /\ x.op \notin {"login", "static"})
  BY <1>1, ClientFacts, Zenon DEF CSTyped
<1>3. x \in ClientType /\ (~x.safe => x.done = 0) /\ (x.op = "refresh" => csRefreshLock = c /\ x.seen.refresh # None)
  BY <1>1, ClientFacts DEF CSTyped, CellOK, InFlight, Refreshing
<1>4. ASSUME Current(c), TakeLock(c), Client(c, w), csLost' = csLost, csRefreshLock' = csRefreshLock PROVE CSInv'
  <2>1. x.op \in {"login", "static", "refresh", "logout", "revoke", "clear", "remove", "add"}
    BY <1>1, ClientFacts DEF CellOK, Commands
  <2>2. WritesOf(x.op) \in TodoType
    BY <2>1 DEF WritesOf, TodoType, ClearStaticWrites, ClearWrites
  <2>3. w \in ClientType /\ w.pc = "write" /\ w.op = x.op /\ w.pair = x.pair /\ w.seen = x.seen /\ w.safe = x.safe
        /\ w.done = x.done /\ w.todo = WritesOf(x.op)
    BY <1>3, <2>2 DEF ClientType
  <2> HIDE DEF w
  <2>4. OnCourse(w, csDB, csMode, csRing)
    BY <2>1, <2>3 DEF OnCourse, WritesOf, EndsSession, ClearStaticWrites, ClearWrites
  <2>5. CellOK(c, w, csLock', csRefreshLock', csDB, csMode, csRing)
    BY <1>3, <1>4, <2>3, <2>4 DEF CellOK, Refreshing, InFlight, TakeLock
  <2>6. (Storing(w) => Storing(x)) /\ (InFlight(x) => InFlight(w))
    BY <1>1, <2>3 DEF Storing, InFlight
  <2>7. csOut' => ~Storing(w)
    <3> SUFFICES ASSUME csOut', x.op = "refresh" PROVE FALSE
      BY <1>2, <2>3 DEF Storing
    <3>1. Pair.refresh = None
      BY <1>2, ClientFacts, ReadNothing, ReadNumbers DEF OutOff
    <3>2. QED
      BY <1>3, <1>4, <3>1 DEF Current
  <2>8. Presentable(w, csIssued, csSent, csLost) /\ \A e \in Clients : Unseen(csC[e], w)
    BY <2>3 DEF Presentable, Unseen
  <2>9. csC' = [csC EXCEPT ![c] = w] /\ csLock = NoClient /\ csLost \subseteq csLost'
    BY <1>4 DEF Client, TakeLock
  <2>10. QED
    BY <1>1, <1>2, <1>4, <2>3, <2>5, <2>6, <2>7, <2>8, <2>9, ClientSteps
<1>5. ASSUME csLock' = csLock, csLost \subseteq csLost', x.op = "refresh" => x.seen.refresh \in csLost',
             csRefreshLock' = csRefreshLock \/ csRefreshLock \in {c, NoClient}, Client(c, ClientIdle)
      PROVE  CSInv'
  BY <1>1, <1>2, <1>5, ClientRests DEF InFlight
<1>6. ASSUME csLock' = csLock, csLost \subseteq csLost', x.op = "refresh", x.seen.refresh \in csLost',
             csRefreshLock' = NoClient, Client(c, r)
      PROVE  CSInv'
  <2>1. r \in ClientType
    BY <1>3, ClientFacts, ReadNumbers, Zenon DEF ClientType
  <2>2. r.pc = "send" /\ r.safe = x.safe /\ r.done = x.done
    BY <1>3 DEF ClientType
  <2> HIDE DEF r
  <2>3. ~Storing(r) /\ ~Refreshing(r) /\ ~InFlight(r) /\ csC' = [csC EXCEPT ![c] = r]
    BY <1>6, <2>2 DEF Storing, Refreshing, InFlight, Client
  <2>4. CellOK(c, r, csLock', csRefreshLock', csDB, csMode, csRing)
    BY <1>3, <2>2, <2>3 DEF CellOK
  <2>5. Presentable(r, csIssued, csSent, csLost) /\ \A e \in Clients : Unseen(csC[e], r)
    BY <2>2 DEF Presentable, Unseen
  <2>6. QED
    BY <1>1, <1>2, <1>3, <1>6, <2>1, <2>2, <2>3, <2>4, <2>5, ClientSteps
<1>7. QED
  BY <1>3, <1>4, <1>5, <1>6 DEF EnterLock

\* A step of one process with which the server issues a new pair to it.
LEMMA ClientIssued ==
  ASSUME CSInv, NEW c \in Clients, NEW r \in ClientType, Client(c, r),
         csDB' = csDB, csMode' = csMode, csRing' = csRing, csIssued' = csIssued + 1, csTwice' = csTwice,
         csLost' = csLost, csOut' = csOut, csLock' = csLock, csRefreshLock' = csRefreshLock,
         Storing(r), r.pc = "lock", r.pair = csIssued + 1,
         CellOK(c, r, csLock, csRefreshLock, csDB, csMode, csRing), csSent' \subseteq 1 .. csIssued,
         \A e \in Clients : e # c => /\ NewPair(csC[e], csIssued, csSent', csRing)
                                     /\ Presentable(csC[e], csIssued, csSent', csLost),
         Replacing(csC', csRing, csSent', csLost)
  PROVE  CSInv'
<1>1. csC'[c] = r /\ csC' \in [Clients -> ClientType] /\ \A e \in Clients : e # c => csC'[e] = csC[e]
  BY ClientFacts DEF CSTyped, Client
<1>2. csIssued \in Nat /\ csRing.refresh \in Nat /\ csRing.refresh <= csIssued
  BY ClientFacts DEF CSTyped, RingType
<1>3. CSTyped' /\ Together(csDB', csMode', csRing') /\ csSent' \subseteq 1 .. csIssued' /\ csTwice' = {}
  BY <1>1, <1>2, ClientFacts DEF CSTyped
<1>4. OutOff(csOut', csMode', csC')
  BY <1>1, ClientFacts DEF OutOff
<1>5. \A e \in Clients : CellOK(e, csC'[e], csLock', csRefreshLock', csDB', csMode', csRing')
  BY <1>1, ClientFacts
<1>6. \A e \in Clients : e # c => csC[e].pair \in Nat /\ csC[e].seen.refresh \in Nat
  BY ClientFacts DEF ClientType
<1>7. \A e \in Clients : NewPair(csC'[e], csIssued', csSent', csRing')
  <2>1. NewPair(r, csIssued', csSent', csRing')
    BY <1>2 DEF NewPair, None
  <2>2. \A e \in Clients : e # c => NewPair(csC[e], csIssued', csSent', csRing')
    BY <1>2, <1>6 DEF NewPair
  <2>3. QED
    BY <1>1, <2>1, <2>2
<1>8. \A e \in Clients : Presentable(csC'[e], csIssued', csSent', csLost')
  <2>1. \A e \in Clients : e # c => Presentable(csC[e], csIssued', csSent', csLost')
    BY <1>2, <1>6 DEF Presentable
  <2>2. QED
    BY <1>1, <2>1 DEF Presentable
<1>9. \A e, f \in Clients : Unseen(csC'[e], csC'[f])
  <2>1. \A f \in Clients : f # c => Unseen(r, csC[f])
    BY <1>2, <1>6, ClientFacts DEF Unseen, Presentable
  <2>2. \A e : Unseen(e, r)
    BY DEF Unseen
  <2>3. QED
    BY <1>1, <2>1, <2>2, ClientFacts
<1>10. \A e, f \in Clients : f # e => Apart(csC'[e], csC'[f])
  <2>1. \A f \in Clients : f # c => Apart(r, csC[f]) /\ Apart(csC[f], r)
    BY <1>2, <1>6, ClientFacts DEF Apart, NewPair
  <2>2. QED
    BY <1>1, <2>1, ClientFacts
<1>11. Replacing(csC', csRing', csSent', csLost')
  OBVIOUS
<1>12. QED
  BY <1>3, <1>4, <1>5, <1>7, <1>8, <1>9, <1>10, <1>11 DEF CSInv

LEMMA LoginKeeps ==
  ASSUME CSInv, NEW c \in Clients, Login(c)
  PROVE  CSInv'
<1>1. PICK op \in {"login", "static"} : Client(c, [ClientIdle EXCEPT !.op = op, !.pc = "lock", !.pair = csIssued + 1])
  BY DEF Login
<1> DEFINE r == [ClientIdle EXCEPT !.op = op, !.pc = "lock", !.pair = csIssued + 1]
<1>2. csIssued + 1 \in Nat
  BY ClientFacts DEF CSTyped
<1>3. r \in ClientType /\ r.pc = "lock" /\ r.op = op /\ r.safe = ClientIdle.safe /\ r.done = ClientIdle.done /\ r.pair = csIssued + 1
  BY <1>2, IdleCell DEF ClientType, ClientIdle
<1>4. Client(c, r)
  BY <1>1
<1> HIDE DEF r
<1>5. Storing(r) /\ ~InFlight(r) /\ ~Refreshing(r) /\ r.done = 0
  BY <1>3, IdleCell DEF Storing, Refreshing, InFlight
<1>6. /\ UNCHANGED <<csDB, csMode, csRing, csLock, csRefreshLock, csSent, csLost, csTwice, csOut>>
      /\ csIssued' = csIssued + 1 /\ csC[c].pc = "idle"
  BY DEF Login, csStore
<1>7. CellOK(c, r, csLock, csRefreshLock, csDB, csMode, csRing)
  BY <1>3, <1>5 DEF CellOK, Commands
<1>8. Replacing(csC', csRing, csSent', csLost)
  <2> SUFFICES ASSUME csRing.refresh \in csSent \ csLost PROVE \E e \in Clients : InFlight(csC'[e]) /\ csC'[e].seen.refresh = csRing.refresh
    BY <1>6 DEF Replacing
  <2>1. PICK e \in Clients : InFlight(csC[e]) /\ csC[e].seen.refresh = csRing.refresh
    BY ClientFacts DEF Replacing
  <2>2. e # c /\ csC'[e] = csC[e]
    BY <1>4, <1>6, <2>1, ClientFacts DEF InFlight, Client, CSTyped
  <2>3. QED
    BY <2>1, <2>2
<1>9. QED
  BY <1>3, <1>4, <1>5, <1>6, <1>7, <1>8, ClientFacts, ClientIssued

LEMMA RefreshPresentKeeps ==
  ASSUME CSInv, NEW c \in Clients, RefreshPresent(c)
  PROVE  CSInv'
<1> DEFINE x == csC[c]  s == x.seen.refresh
           r == [csC[c] EXCEPT !.pc = "lock", !.op = "refresh", !.pair = csIssued + 1]
<1>1. UNCHANGED <<csDB, csMode, csRing, csLock, csOut>> /\ x.pc = "present" /\ csSent' = csSent \cup {s}
  BY DEF RefreshPresent, csStore
<1>2. csOut' \in BOOLEAN /\ x \in ClientType /\ (~x.safe => x.done = 0) /\ csRefreshLock = c /\ s # None /\ s \in Nat
  BY <1>1, ClientFacts DEF CSTyped, CellOK, Refreshing, ClientType
<1>3. s <= csIssued /\ s \notin csSent \ csLost /\ csTwice' = csTwice /\ csIssued \in Nat
  BY <1>1, ClientFacts DEF Presentable, RefreshPresent, CSTyped
<1>4. csSent' \subseteq 1 .. csIssued
  BY <1>1, <1>2, <1>3, ClientFacts DEF None
<1>5. \A e \in Clients : ~InFlight(csC[e]) /\ (e # c => csC[e].pc # "present")
  <2> SUFFICES ASSUME NEW e \in Clients PROVE ~InFlight(csC[e]) /\ (e # c => csC[e].pc # "present")
    OBVIOUS
  <2>1. Refreshing(csC[e]) => e = c
    BY <1>2, ClientFacts DEF CellOK
  <2>2. QED
    BY <1>1, <2>1 DEF Refreshing, InFlight
<1>6. csRing.refresh \notin csSent \ csLost
  BY <1>5, ClientFacts DEF Replacing
<1>7. \A e \in Clients : NewPair(csC[e], csIssued, csSent', csRing)
  BY <1>1, ClientFacts DEF NewPair, Unseen
<1>8. ASSUME csIssued' = csIssued + 1, Client(c, r), csLost' = csLost, csRefreshLock' = csRefreshLock PROVE CSInv'
  <2>0. r \in ClientType
    <3>1. csIssued + 1 \in Nat
      BY <1>3
    <3>2. QED
      BY <1>2, <3>1, Zenon DEF ClientType
  <2>1. r \in ClientType /\ r.pc = "lock" /\ r.op = "refresh" /\ r.pair = csIssued + 1 /\ r.safe = x.safe /\ r.done = x.done /\ r.seen = x.seen
    BY <1>2, <2>0 DEF ClientType
  <2> HIDE DEF r
  <2>2. Storing(r) /\ InFlight(r)
    BY <2>1 DEF Storing, InFlight
  <2>3. CellOK(c, r, csLock, csRefreshLock, csDB, csMode, csRing)
    BY <1>2, <2>1, <2>2 DEF CellOK, Commands
  <2>4. \A e \in Clients : e # c => Presentable(csC[e], csIssued, csSent', csLost)
    BY <1>5 DEF Presentable
  <2>5. csC'[c] = r
    BY <1>8, ClientFacts DEF Client, CSTyped
  <2>6. Replacing(csC', csRing, csSent', csLost)
    BY <1>1, <1>6, <2>1, <2>2, <2>5 DEF Replacing
  <2>7. QED
    BY <1>1, <1>3, <1>4, <1>7, <1>8, <2>1, <2>2, <2>3, <2>4, <2>6, ClientIssued
<1>9. ASSUME csLost' = csLost \cup {s}, Client(c, ClientIdle), csRefreshLock' = NoClient, csIssued' = csIssued PROVE CSInv'
  <2>1. csC'[c] = ClientIdle /\ csC' \in [Clients -> ClientType] /\ \A e \in Clients : e # c => csC'[e] = csC[e]
    BY <1>9, IdleCell, ClientFacts DEF CSTyped, Client
  <2>2. CSTyped' /\ Together(csDB', csMode', csRing') /\ csSent' \subseteq 1 .. csIssued' /\ csTwice' = {}
    BY <1>1, <1>3, <1>4, <1>9, <2>1, ClientFacts DEF CSTyped
  <2>3. OutOff(csOut', csMode', csC') /\ Replacing(csC', csRing', csSent', csLost')
    BY <1>1, <1>6, <1>9, <2>1, IdleCell, ClientFacts DEF OutOff, Replacing
  <2>4. \A e \in Clients : e # c => CellOK(e, csC[e], csLock', csRefreshLock', csDB', csMode', csRing')
    <3> SUFFICES ASSUME NEW e \in Clients, e # c PROVE CellOK(e, csC[e], csLock', csRefreshLock', csDB', csMode', csRing')
      OBVIOUS
    <3>1. CellOK(e, csC[e], csLock, csRefreshLock, csDB, csMode, csRing)
      BY ClientFacts
    <3>2. ~Refreshing(csC[e])
      BY <1>2, <3>1 DEF CellOK
    <3>3. QED
      BY <1>1, <3>1, <3>2 DEF CellOK
  <2>5. \A e \in Clients : e # c => /\ NewPair(csC[e], csIssued', csSent', csRing')
                                    /\ Presentable(csC[e], csIssued', csSent', csLost')
    BY <1>1, <1>5, <1>7, <1>9 DEF Presentable
  <2>6. /\ NewPair(ClientIdle, csIssued', csSent', csRing') /\ Presentable(ClientIdle, csIssued', csSent', csLost')
        /\ \A y : Unseen(ClientIdle, y) /\ Unseen(y, ClientIdle) /\ Apart(ClientIdle, y) /\ Apart(y, ClientIdle)
    BY IdleCell DEF NewPair, Presentable, Unseen, Apart
  <2>7. \A e \in Clients : CellOK(e, csC'[e], csLock', csRefreshLock', csDB', csMode', csRing')
    BY <2>1, <2>4, IdleCell
  <2>8. \A e \in Clients : NewPair(csC'[e], csIssued', csSent', csRing') /\ Presentable(csC'[e], csIssued', csSent', csLost')
    BY <2>1, <2>5, <2>6
  <2>9. \A e, f \in Clients : Unseen(csC'[e], csC'[f]) /\ (f # e => Apart(csC'[e], csC'[f]))
    BY <2>1, <2>6, ClientFacts
  <2>10. QED
    BY <2>2, <2>3, <2>7, <2>8, <2>9 DEF CSInv
<1>10. QED
  BY <1>8, <1>9 DEF RefreshPresent

\* One write less: the lists stay among those a process can be at.
LEMMA StaticTails ==
  ASSUME NEW t \in StaticLeft
  PROVE  /\ Tail(t) = <<>> \/ Tail(t) \in StaticLeft
         /\ Head(t) \in {"access", "db", "mode", "forgetrefresh", "forgetinactive"}
<1>1. CASE t = <<"access", "db", "mode", "forgetrefresh", "forgetinactive">>
  <2>1. Head(t) = "access" /\ Tail(t) = <<"db", "mode", "forgetrefresh", "forgetinactive">>
    BY <1>1
  <2>2. QED
    BY <2>1 DEF StaticLeft
<1>2. CASE t = <<"db", "mode", "forgetrefresh", "forgetinactive">>
  <2>1. Head(t) = "db" /\ Tail(t) = <<"mode", "forgetrefresh", "forgetinactive">>
    BY <1>2
  <2>2. QED
    BY <2>1 DEF StaticLeft
<1>3. CASE t = <<"mode", "forgetrefresh", "forgetinactive">>
  <2>1. Head(t) = "mode" /\ Tail(t) = <<"forgetrefresh", "forgetinactive">>
    BY <1>3
  <2>2. QED
    BY <2>1 DEF StaticLeft
<1>4. CASE t = <<"forgetrefresh", "forgetinactive">>
  <2>1. Head(t) = "forgetrefresh" /\ Tail(t) = <<"forgetinactive">>
    BY <1>4
  <2>2. QED
    BY <2>1 DEF StaticLeft
<1>5. CASE t = <<"forgetinactive">>
  <2>1. Head(t) = "forgetinactive" /\ Tail(t) = <<>>
    BY <1>5
  <2>2. QED
    BY <2>1
<1>6. QED
  BY <1>1, <1>2, <1>3, <1>4, <1>5 DEF StaticLeft

LEMMA ClearTails ==
  /\ \A t \in {ClearWrites, RemoveWrites} : Head(t) = "nomode" /\ Tail(t) \in ClearLeft /\ Tail(t) # <<>>
  /\ \A t \in ClearLeft : /\ Tail(t) = <<>> \/ Tail(t) \in ClearLeft
                          /\ Head(t) \in {"dbclear", "dbdelete", "forgetaccess", "forgetrefresh"}
<1>1. /\ Head(ClearWrites) = "nomode" /\ Tail(ClearWrites) = <<"dbclear", "forgetaccess", "forgetrefresh">>
      /\ Head(RemoveWrites) = "nomode" /\ Tail(RemoveWrites) = <<"dbdelete", "forgetaccess", "forgetrefresh">>
  BY DEF ClearWrites, RemoveWrites
<1>2. Tail(ClearWrites) # <<>> /\ Tail(RemoveWrites) # <<>>
  BY <1>1
<1>3. \A t \in {ClearWrites, RemoveWrites} : Head(t) = "nomode" /\ Tail(t) \in ClearLeft /\ Tail(t) # <<>>
  BY <1>1, <1>2 DEF ClearLeft
<1>4. ASSUME NEW t \in ClearLeft
      PROVE  /\ Tail(t) = <<>> \/ Tail(t) \in ClearLeft
             /\ Head(t) \in {"dbclear", "dbdelete", "forgetaccess", "forgetrefresh"}
  <2>1. CASE t = <<"dbclear", "forgetaccess", "forgetrefresh">>
    <3>1. Head(t) = "dbclear" /\ Tail(t) = <<"forgetaccess", "forgetrefresh">>
      BY <2>1
    <3>2. QED
      BY <3>1 DEF ClearLeft
  <2>2. CASE t = <<"dbdelete", "forgetaccess", "forgetrefresh">>
    <3>1. Head(t) = "dbdelete" /\ Tail(t) = <<"forgetaccess", "forgetrefresh">>
      BY <2>2
    <3>2. QED
      BY <3>1 DEF ClearLeft
  <2>3. CASE t = <<"forgetaccess", "forgetrefresh">>
    <3>1. Head(t) = "forgetaccess" /\ Tail(t) = <<"forgetrefresh">>
      BY <2>3
    <3>2. QED
      BY <3>1 DEF ClearLeft
  <2>4. CASE t = <<"forgetrefresh">>
    <3>1. Head(t) = "forgetrefresh" /\ Tail(t) = <<>>
      BY <2>4
    <3>2. QED
      BY <3>1
  <2>5. QED
    BY <1>4, <2>1, <2>2, <2>3, <2>4 DEF ClearLeft
<1>5. QED
  BY <1>3, <1>4

LEMMA RingWrites ==
  ASSUME csRing \in RingType, NEW n \in Nat
  PROVE  /\ [csRing EXCEPT !.access = n] \in RingType /\ [csRing EXCEPT !.access = n].access = n
         /\ [csRing EXCEPT !.access = n].refresh = csRing.refresh
         /\ [csRing EXCEPT !.refresh = n] \in RingType /\ [csRing EXCEPT !.refresh = n].refresh = n
         /\ [csRing EXCEPT !.refresh = n].access = csRing.access
BY DEF RingType

LEMMA WriteTokens ==
  ASSUME CSInv, NEW c \in Clients, csC[c].pc = "write", csC[c].op \in {"login", "refresh"}, Write(c, Head(csC[c].todo)),
         NEW r, r.op = csC[c].op, r.pair = csC[c].pair, r.todo = Tail(csC[c].todo),
         r.ringed = IF Head(csC[c].todo) = "access" THEN csRing.up ELSE csC[c].ringed
  PROVE  Wrote(csC[c], r, csDB', csMode', csRing')
<1> DEFINE x == csC[c]
<1>1. CSTyped /\ Together(csDB, csMode, csRing) /\ csRing \in RingType /\ x.pair \in Nat /\ Storing(x) /\ ~EndsSession(x.op)
      /\ OnCourse(x, csDB, csMode, csRing) /\ x \in ClientType /\ x.ringed \in BOOLEAN /\ csRing.up \in BOOLEAN
  BY ClientFacts DEF CSTyped, ClientType, Storing, EndsSession, CellOK, RingType
<1>2. \/ x.todo = SaveTokensWrites
      \/ /\ x.todo \in TokensLeft /\ csMode = {ModeNone}
         /\ x.todo # <<"refresh", "access", "db", "mode">> => csRing.refresh = x.pair
         /\ x.todo \in {<<"db", "mode">>, <<"mode">>} /\ x.ringed => csRing.access = x.pair
         /\ x.todo = <<"mode">> /\ ~x.ringed => csDB = {x.pair}
  BY <1>1 DEF OnCourse, EndsSession
<1>3. ModeNone \in ModeType /\ ModeNone.refresh = "none"
  BY DEF ModeNone, ModeType
<1>4. CASE x.todo = SaveTokensWrites
  <2>1. Head(x.todo) = "nomode" /\ Tail(x.todo) = <<"refresh", "access", "db", "mode">>
    BY <1>4 DEF SaveTokensWrites
  <2>2. csMode' = {ModeNone} /\ csDB' = csDB /\ csRing' = csRing
    BY <2>1 DEF Write
  <2>3. Together(csDB', csMode', csRing')
    BY <1>3, <2>2 DEF Together
  <2>4. OnCourse(r, csDB', csMode', csRing')
    <3>1. r.todo = <<"refresh", "access", "db", "mode">> /\ r.todo # <<"db", "mode">> /\ r.todo # <<"mode">> /\ r.todo \in TokensLeft
      BY <2>1 DEF TokensLeft
    <3>2. QED
      BY <2>2, <3>1 DEF OnCourse
  <2>5. Tail(x.todo) # <<>> /\ Tail(x.todo) \in TodoType
    <3>1. <<"refresh", "access", "db", "mode">> \in TokensLeft
      BY DEF TokensLeft
    <3>2. Tail(x.todo) \in TodoType
      BY <2>1, <3>1, Zenon DEF TodoType
    <3>3. <<"refresh", "access", "db", "mode">> # <<>>
      OBVIOUS
    <3>4. QED
      BY <2>1, <3>2, <3>3, Zenon
  <2>6. QED
    BY <1>1, <1>3, <2>2, <2>3, <2>4, <2>5 DEF Wrote, CSTyped
<1>5. CASE x.todo = <<"refresh", "access", "db", "mode">> /\ csMode = {ModeNone}
  <2>1. Head(x.todo) = "refresh" /\ Tail(x.todo) = <<"access", "db", "mode">>
    BY <1>5
  <2>2. csRing' = [csRing EXCEPT !.refresh = x.pair] /\ csDB' = csDB /\ csMode' = csMode
    BY <2>1 DEF Write
  <2>3. csRing' \in RingType /\ csRing'.refresh = x.pair
    BY <1>1, <2>2, RingWrites
  <2>4. Together(csDB', csMode', csRing')
    BY <1>3, <1>5, <2>2 DEF Together
  <2>5. OnCourse(r, csDB', csMode', csRing') /\ Tail(x.todo) \in TodoType
    BY <1>5, <2>1, <2>2, <2>3 DEF OnCourse, TokensLeft, TodoType
  <2>6. QED
    BY <1>1, <1>3, <1>5, <2>1, <2>2, <2>3, <2>4, <2>5 DEF Wrote, CSTyped
<1>6. CASE x.todo = <<"access", "db", "mode">> /\ csMode = {ModeNone} /\ csRing.refresh = x.pair
  <2>1. Head(x.todo) = "access" /\ Tail(x.todo) = <<"db", "mode">>
    BY <1>6
  <2>2. csRing' = (IF csRing.up THEN [csRing EXCEPT !.access = x.pair] ELSE csRing) /\ csDB' = csDB /\ csMode' = csMode
    BY <2>1 DEF Write
  <2>3. csRing' \in RingType /\ csRing'.refresh = x.pair /\ (csRing.up => csRing'.access = x.pair)
    BY <1>1, <1>6, <2>2, RingWrites
  <2>4. Together(csDB', csMode', csRing')
    BY <1>3, <1>6, <2>2 DEF Together
  <2>5. r.ringed => csRing.up
    BY <2>1
  <2>6. OnCourse(r, csDB', csMode', csRing') /\ Tail(x.todo) \in TodoType
    BY <1>6, <2>1, <2>2, <2>3, <2>5 DEF OnCourse, TokensLeft, TodoType
  <2>7. QED
    BY <1>1, <1>3, <1>6, <2>1, <2>2, <2>3, <2>4, <2>6 DEF Wrote, CSTyped
<1>7. CASE x.todo = <<"db", "mode">> /\ csMode = {ModeNone} /\ csRing.refresh = x.pair /\ (x.ringed => csRing.access = x.pair)
  <2>1. Head(x.todo) = "db" /\ Tail(x.todo) = <<"mode">>
    BY <1>7
  <2>2. csDB' = {IF x.ringed THEN None ELSE x.pair} /\ csRing' = csRing /\ csMode' = csMode
    BY <2>1 DEF Write
  <2>3. (\E a \in Nat : csDB' = {a}) /\ (~x.ringed => csDB' = {x.pair})
    BY <1>1, <2>2 DEF None
  <2>4. Together(csDB', csMode', csRing')
    BY <1>3, <1>7, <2>2 DEF Together
  <2>5. r.ringed = x.ringed
    BY <2>1
  <2>6. OnCourse(r, csDB', csMode', csRing') /\ Tail(x.todo) \in TodoType
    BY <1>7, <2>1, <2>2, <2>3, <2>5 DEF OnCourse, TokensLeft, TodoType
  <2>7. QED
    BY <1>1, <1>3, <1>7, <2>1, <2>2, <2>3, <2>4, <2>6 DEF Wrote, CSTyped
<1>8. CASE /\ x.todo = <<"mode">> /\ csMode = {ModeNone} /\ csRing.refresh = x.pair /\ (x.ringed => csRing.access = x.pair)
           /\ (~x.ringed => csDB = {x.pair})
  <2>1. Head(x.todo) = "mode" /\ Tail(x.todo) = <<>>
    BY <1>8
  <2> DEFINE m == [access |-> IF x.ringed THEN "keyring" ELSE "file", refresh |-> IF x.op = "static" THEN "none" ELSE "keyring"]
  <2>2. csMode' = {m} /\ csRing' = csRing /\ csDB' = csDB
    BY <2>1 DEF Write
  <2>3. m \in ModeType /\ m.refresh = "keyring" /\ (x.ringed => m.access = "keyring") /\ (~x.ringed => m.access = "file")
    BY DEF ModeType
  <2> HIDE DEF m
  <2>4. Together(csDB', csMode', csRing')
    BY <1>8, <2>2, <2>3 DEF Together
  <2>5. QED
    BY <1>1, <1>8, <2>1, <2>2, <2>3, <2>4 DEF Wrote, CSTyped
<1>9. QED
  BY <1>2, <1>4, <1>5, <1>6, <1>7, <1>8 DEF TokensLeft

LEMMA WriteStatic ==
  ASSUME CSInv, NEW c \in Clients, csC[c].pc = "write", csC[c].op = "static", Write(c, Head(csC[c].todo)),
         NEW r, r.op = csC[c].op, r.pair = csC[c].pair, r.todo = Tail(csC[c].todo)
  PROVE  Wrote(csC[c], r, csDB', csMode', csRing')
<1> DEFINE x == csC[c]
<1>1. CSTyped /\ Together(csDB, csMode, csRing) /\ csRing \in RingType /\ x.pair \in Nat /\ Storing(x) /\ ~EndsSession(x.op)
      /\ OnCourse(x, csDB, csMode, csRing) /\ None \in Nat /\ x.ringed \in BOOLEAN /\ csRing.up \in BOOLEAN
  BY ClientFacts DEF CSTyped, ClientType, Storing, EndsSession, CellOK, RingType, None
<1>2. \/ x.todo = SaveStaticWrites
      \/ x.todo \in StaticLeft /\ csMode # {} /\ \A m \in csMode : m.refresh = "none"
  BY <1>1 DEF OnCourse, EndsSession
<1>3. CASE x.todo = SaveStaticWrites
  <2>1. Head(x.todo) = "nomode" /\ Tail(x.todo) = <<"access", "db", "mode", "forgetrefresh", "forgetinactive">>
    BY <1>3 DEF SaveStaticWrites
  <2>2. csMode' = {ModeNone} /\ csDB' = csDB /\ csRing' = csRing
    BY <2>1 DEF Write
  <2>3. ModeNone \in ModeType /\ ModeNone.refresh = "none"
    BY DEF ModeNone, ModeType
  <2>4. Together(csDB', csMode', csRing')
    BY <2>2, <2>3 DEF Together
  <2>5. OnCourse(r, csDB', csMode', csRing') /\ Tail(x.todo) \in TodoType
    BY <2>1, <2>2, <2>3 DEF OnCourse, StaticLeft, TodoType
  <2>6. QED
    BY <1>1, <2>1, <2>2, <2>3, <2>4, <2>5 DEF Wrote, CSTyped
<1>4. ASSUME x.todo \in StaticLeft, csMode # {}, \A m \in csMode : m.refresh = "none" PROVE Wrote(x, r, csDB', csMode', csRing')
  <2>1. /\ Tail(x.todo) = <<>> \/ Tail(x.todo) \in StaticLeft
        /\ Head(x.todo) \in {"access", "db", "mode", "forgetrefresh", "forgetinactive"}
    BY <1>4, StaticTails
  <2>2. csDB' = csDB \/ \E a \in Nat : csDB' = {a}
    <3>1. csDB' = csDB \/ csDB' = {IF x.ringed THEN None ELSE x.pair}
      BY <2>1 DEF Write
    <3>2. QED
      BY <1>1, <3>1
  <2>3. csMode' = csMode \/ \E m \in ModeType : csMode' = {m} /\ m.refresh = "none"
    <3> DEFINE m == [access |-> IF x.ringed THEN "keyring" ELSE "file", refresh |-> IF x.op = "static" THEN "none" ELSE "keyring"]
    <3>1. csMode' = csMode \/ csMode' = {m}
      BY <2>1 DEF Write
    <3>2. m \in ModeType /\ m.refresh = "none"
      BY DEF ModeType
    <3> HIDE DEF m
    <3>3. QED
      BY <3>1, <3>2
  <2>4. csRing' \in {csRing, [csRing EXCEPT !.access = x.pair], [csRing EXCEPT !.access = None], [csRing EXCEPT !.refresh = None]}
    BY <2>1 DEF Write
  <2>5. csRing' \in RingType /\ csRing'.refresh \in {csRing.refresh, None}
    BY <1>1, <2>4, RingWrites
  <2>6. csMode' # {} /\ (\A m \in csMode' : m.refresh = "none") /\ (csMode' = {} \/ \E m \in ModeType : csMode' = {m})
    BY <1>1, <1>4, <2>3 DEF CSTyped
  <2>7. Together(csDB', csMode', csRing') /\ (csDB' = {} \/ \E a \in Nat : csDB' = {a})
    BY <1>1, <2>2, <2>6 DEF Together, CSTyped
  <2>8. Tail(x.todo) # <<>> => OnCourse(r, csDB', csMode', csRing') /\ Tail(x.todo) \in TodoType
    BY <2>1, <2>6 DEF OnCourse, TodoType
  <2>9. QED
    BY <1>1, <2>5, <2>6, <2>7, <2>8 DEF Wrote
<1>5. QED
  BY <1>2, <1>3, <1>4

LEMMA WriteClear ==
  ASSUME CSInv, NEW c \in Clients, csC[c].pc = "write", EndsSession(csC[c].op), Write(c, Head(csC[c].todo)),
         NEW r, r.op = csC[c].op, r.todo = Tail(csC[c].todo)
  PROVE  Wrote(csC[c], r, csDB', csMode', csRing')
<1> DEFINE x == csC[c]
<1>1. CSTyped /\ Together(csDB, csMode, csRing) /\ csRing \in RingType /\ ~Storing(x) /\ x.op # "refresh"
      /\ OnCourse(x, csDB, csMode, csRing) /\ None \in Nat
  BY ClientFacts DEF CSTyped, Storing, EndsSession, CellOK, None
<1>2. x.todo \in {ClearWrites, RemoveWrites} \/ (x.todo \in ClearLeft /\ csMode = {ModeNone})
  BY <1>1 DEF OnCourse, EndsSession
<1>3. ModeNone \in ModeType /\ ModeNone.refresh = "none"
  BY DEF ModeNone, ModeType
<1>4. CASE x.todo \in {ClearWrites, RemoveWrites}
  <2>1. Head(x.todo) = "nomode" /\ Tail(x.todo) \in ClearLeft /\ Tail(x.todo) # <<>>
    BY <1>4, ClearTails
  <2>2. csMode' = {ModeNone} /\ csDB' = csDB /\ csRing' = csRing
    BY <2>1 DEF Write
  <2>3. Together(csDB', csMode', csRing')
    BY <1>3, <2>2 DEF Together
  <2>4. OnCourse(r, csDB', csMode', csRing') /\ Tail(x.todo) \in TodoType
    BY <2>1, <2>2 DEF OnCourse, TodoType
  <2>5. QED
    BY <1>1, <1>3, <2>1, <2>2, <2>3, <2>4 DEF Wrote, CSTyped
<1>5. ASSUME x.todo \in ClearLeft, csMode = {ModeNone} PROVE Wrote(x, r, csDB', csMode', csRing')
  <2>1. /\ Tail(x.todo) = <<>> \/ Tail(x.todo) \in ClearLeft
        /\ Head(x.todo) \in {"dbclear", "dbdelete", "forgetaccess", "forgetrefresh"}
    BY <1>5, ClearTails
  <2>2. csDB' \in {csDB, {None}, {}} /\ csMode' = csMode
        /\ csRing' \in {csRing, [csRing EXCEPT !.access = None], [csRing EXCEPT !.refresh = None]}
    BY <2>1 DEF Write
  <2>3. csRing' \in RingType /\ csRing'.refresh \in {csRing.refresh, None}
    BY <1>1, <2>2, RingWrites
  <2>4. Together(csDB', csMode', csRing')
    BY <1>3, <1>5, <2>2 DEF Together
  <2>5. Tail(x.todo) # <<>> => OnCourse(r, csDB', csMode', csRing') /\ Tail(x.todo) \in TodoType
    BY <1>5, <2>1, <2>2 DEF OnCourse, TodoType
  <2>6. csDB' = {} \/ \E a \in Nat : csDB' = {a}
    BY <1>1, <2>2 DEF CSTyped
  <2>7. QED
    BY <1>1, <1>3, <1>5, <2>2, <2>3, <2>4, <2>5, <2>6 DEF Wrote
<1>6. QED
  BY <1>2, <1>4, <1>5

LEMMA WriteEndpoint ==
  ASSUME CSInv, NEW c \in Clients, csC[c].pc = "write", csC[c].op = "add", Write(c, Head(csC[c].todo)), NEW r
  PROVE  Wrote(csC[c], r, csDB', csMode', csRing')
<1> DEFINE x == csC[c]
<1>1. CSTyped /\ Together(csDB, csMode, csRing) /\ csRing \in RingType /\ ~Storing(x) /\ ~EndsSession(x.op)
      /\ OnCourse(x, csDB, csMode, csRing)
  BY ClientFacts DEF CSTyped, Storing, EndsSession, CellOK
<1>2. x.todo = EndpointWrites
  BY <1>1 DEF OnCourse, EndsSession
<1>3. Head(x.todo) = "endpoint" /\ Tail(x.todo) = <<>>
  BY <1>2 DEF EndpointWrites
<1>4. csDB' = {FileAccess} /\ csMode' = csMode /\ csRing' = csRing
  BY <1>3 DEF Write
<1>5. \A a : csDB = {a} => csDB' = csDB
  BY <1>4, ReadFile
<1>6. Together(csDB', csMode', csRing')
  BY <1>1, <1>4, <1>5 DEF Together
<1>7. QED
  BY <1>1, <1>3, <1>4, <1>6, ReadNumbers DEF Wrote, CSTyped

\* A step of the process that holds the mutation lock.
LEMMA ClientWrites ==
  ASSUME CSInv, NEW c \in Clients, NEW r \in ClientType, csC[c].pc = "write", Client(c, r),
         Wrote(csC[c], r, csDB', csMode', csRing'),
         csIssued' = csIssued, csSent' = csSent, csTwice' = csTwice, csLost' = csLost,
         csRefreshLock' = csRefreshLock \/ csRefreshLock = c, csOut' \in BOOLEAN, OutOff(csOut', csMode', csC'),
         CellOK(c, r, csLock', csRefreshLock', csDB', csMode', csRing'), r.pc \notin {"lock", "present"},
         Storing(r) => Storing(csC[c]) /\ r.pair = csC[c].pair,
         InFlight(csC[c]) => (InFlight(r) /\ r.seen = csC[c].seen) \/ csRing'.refresh = csC[c].pair
  PROVE  CSInv'
<1> DEFINE x == csC[c]
<1>1. csC'[c] = r /\ csC' \in [Clients -> ClientType] /\ \A e \in Clients : e # c => csC'[e] = csC[e]
  BY ClientFacts DEF CSTyped, Client
<1>2. /\ csLock = c /\ csIssued \in Nat /\ csRing.refresh \in Nat /\ csRing.refresh <= csIssued
      /\ NewPair(x, csIssued, csSent, csRing) /\ csSent \subseteq 1 .. csIssued
  BY ClientFacts DEF CellOK, CSTyped, RingType
<1>3. csRing'.refresh \in {csRing.refresh, None} \/ (Storing(x) /\ csRing'.refresh = x.pair)
  BY DEF Wrote
<1>4. csRing'.refresh <= csIssued
  BY <1>2, <1>3 DEF NewPair, None
<1>5. CSTyped' /\ Together(csDB', csMode', csRing')
  BY <1>1, <1>2, <1>4 DEF CSTyped, Wrote
<1>6. \A e \in Clients : CellOK(e, csC'[e], csLock', csRefreshLock', csDB', csMode', csRing')
  <2> SUFFICES ASSUME NEW e \in Clients, e # c PROVE CellOK(e, csC[e], csLock', csRefreshLock', csDB', csMode', csRing')
    BY <1>1
  <2>1. CellOK(e, csC[e], csLock, csRefreshLock, csDB, csMode, csRing)
    BY ClientFacts
  <2>2. csC[e].pc # "write" /\ (Refreshing(csC[e]) => csRefreshLock' = e)
    BY <1>2, <2>1 DEF CellOK
  <2>3. QED
    BY <2>1, <2>2 DEF CellOK
<1>7. \A e \in Clients : NewPair(csC'[e], csIssued', csSent', csRing')
  <2>1. NewPair(r, csIssued, csSent, csRing')
    BY <1>2 DEF NewPair
  <2>2. \A e \in Clients : e # c => NewPair(csC[e], csIssued, csSent, csRing')
    BY <1>3, ClientFacts DEF NewPair, Apart
  <2>3. QED
    BY <1>1, <2>1, <2>2
<1>8. \A e \in Clients : Presentable(csC'[e], csIssued', csSent', csLost')
  BY <1>1, ClientFacts DEF Presentable
<1>9. \A e, f \in Clients : Unseen(csC'[e], csC'[f]) /\ (f # e => Apart(csC'[e], csC'[f]))
  <2>1. \A f \in Clients : f # c => Unseen(r, csC[f]) /\ Unseen(csC[f], r) /\ Apart(r, csC[f]) /\ Apart(csC[f], r)
    BY ClientFacts DEF Unseen, Apart
  <2>2. Unseen(r, r)
    BY DEF Unseen
  <2>3. QED
    BY <1>1, <2>1, <2>2, ClientFacts
<1>10. Replacing(csC', csRing', csSent', csLost')
  <2> SUFFICES ASSUME csRing'.refresh \in csSent \ csLost PROVE \E e \in Clients : InFlight(csC'[e]) /\ csC'[e].seen.refresh = csRing'.refresh
    BY DEF Replacing
  <2>1. csRing'.refresh = csRing.refresh /\ (Storing(x) => csRing'.refresh # x.pair)
    BY <1>2, <1>3 DEF NewPair, None
  <2>2. PICK e \in Clients : InFlight(csC[e]) /\ csC[e].seen.refresh = csRing.refresh
    BY <2>1, ClientFacts DEF Replacing
  <2>3. CASE e # c
    BY <1>1, <2>1, <2>2, <2>3
  <2>4. CASE e = c
    <3>1. Storing(x)
      BY <2>2, <2>4 DEF Storing, InFlight
    <3>2. QED
      BY <1>1, <2>1, <2>2, <2>4, <3>1
  <2>5. QED
    BY <2>3, <2>4
<1>11. QED
  BY <1>2, <1>5, <1>6, <1>7, <1>8, <1>9, <1>10, ClientFacts DEF CSInv

LEMMA MutateKeeps ==
  ASSUME CSInv, NEW c \in Clients, Mutate(c)
  PROVE  CSInv'
<1> DEFINE x == csC[c]  w == Head(x.todo)  rest == Tail(x.todo)
           rung == IF w = "access" THEN csRing.up ELSE x.ringed
           r == [x EXCEPT !.todo = rest, !.ringed = rung]
<1>1. /\ x.pc = "write" /\ csLock = c /\ Write(c, w) /\ csOut' = (csOut \/ (rest = <<>> /\ EndsSession(x.op)))
      /\ csIssued' = csIssued /\ csSent' = csSent /\ csTwice' = csTwice /\ csLost' = csLost
  BY DEF Mutate, csServer
<1>2. \/ rest # <<>> /\ Client(c, r) /\ csLock' = csLock /\ csRefreshLock' = csRefreshLock
      \/ /\ rest = <<>> /\ Client(c, AfterWrites(c)) /\ csLock' = NoClient
         /\ csRefreshLock' = IF csRefreshLock = c THEN NoClient ELSE csRefreshLock
  BY DEF Mutate
<1>3. x \in ClientType /\ OnCourse(x, csDB, csMode, csRing) /\ csRing.up \in BOOLEAN /\ csOut \in BOOLEAN /\ (~x.safe => x.done = 0)
      /\ (Refreshing(x) => csRefreshLock = c) /\ (InFlight(x) => x.seen.refresh # None) /\ x.ringed \in BOOLEAN
  BY <1>1, ClientFacts DEF CellOK, CSTyped, RingType, ClientType
<1>4. csOut' \in BOOLEAN /\ (csOut' => csOut \/ (rest = <<>> /\ EndsSession(x.op)))
  BY <1>1, <1>3, Zenon
<1>5. rung \in BOOLEAN
  BY <1>3
<1>6. r.todo = rest /\ r.ringed = rung /\ r.pc = x.pc /\ r.op = x.op /\ r.pair = x.pair /\ r.seen = x.seen /\ r.safe = x.safe /\ r.done = x.done
  BY <1>3 DEF ClientType
<1>7. Wrote(x, r, csDB', csMode', csRing')
  <2> HIDE DEF r
  <2>1. CASE x.op \in {"login", "refresh"}
    BY <1>1, <1>6, <2>1, WriteTokens
  <2>2. CASE x.op = "static"
    BY <1>1, <1>6, <2>2, WriteStatic
  <2>3. CASE EndsSession(x.op)
    BY <1>1, <1>6, <2>3, WriteClear
  <2>4. CASE x.op = "add"
    BY <1>1, <2>4, WriteEndpoint
  <2>5. QED
    BY <1>3, <2>1, <2>2, <2>3, <2>4 DEF OnCourse
<1>8. CASE rest # <<>>
  <2>1. rest \in TodoType /\ OnCourse(r, csDB', csMode', csRing')
    BY <1>7, <1>8 DEF Wrote
  <2>2. r \in ClientType
    <3> HIDE DEF rest, rung
    <3>1. QED
      BY <1>3, <1>5, <2>1, Zenon DEF ClientType
  <2> HIDE DEF r, rung
  <2>3. Client(c, r) /\ csLock' = csLock /\ csRefreshLock' = csRefreshLock
    BY <1>2, <1>8
  <2>4. (Storing(r) <=> Storing(x)) /\ (InFlight(r) <=> InFlight(x)) /\ ~(r.pc = "present")
    BY <1>1, <1>6 DEF Storing, InFlight
  <2>5. CellOK(c, r, csLock', csRefreshLock', csDB', csMode', csRing')
    BY <1>1, <1>3, <1>6, <2>1, <2>3, <2>4 DEF CellOK, Refreshing
  <2>6. OutOff(csOut', csMode', csC')
    <3> SUFFICES ASSUME csOut PROVE csMode' = {ModeNone} /\ \A e \in Clients : ~(csC'[e].pc = "write" /\ Storing(csC'[e]))
      BY <1>4, <1>8 DEF OutOff
    <3>1. csMode = {ModeNone} /\ ~Storing(x) /\ \A e \in Clients : ~(csC[e].pc = "write" /\ Storing(csC[e]))
      BY <1>1, ClientFacts DEF OutOff
    <3>2. csMode' = {ModeNone}
      BY <1>7, <3>1 DEF Wrote
    <3>3. csC' = [csC EXCEPT ![c] = r] /\ csC \in [Clients -> ClientType]
      BY <2>3, ClientFacts DEF Client, CSTyped
    <3>4. QED
      BY <2>4, <3>1, <3>2, <3>3
  <2>7. QED
    BY <1>1, <1>4, <1>6, <1>7, <2>2, <2>3, <2>4, <2>5, <2>6, ClientWrites
<1>9. CASE rest = <<>>
  <2> DEFINE a == AfterWrites(c)
  <2>1. csRefreshLock' = csRefreshLock \/ csRefreshLock = c
    BY <1>2, <1>9
  <2>2. a \in ClientType /\ a.pc \in {"send", "idle"} /\ (~a.safe => a.done = 0)
    <3>1. CASE x.op = "refresh"
      <4> DEFINE s == [x EXCEPT !.pc = "send", !.op = "request", !.access = x.pair, !.tries = 0, !.again = TRUE]
      <4>1. a = s /\ x.pair \in Nat
        BY <1>3, <3>1 DEF AfterWrites, ClientType
      <4>2. s \in ClientType
        BY <1>3, <4>1, Zenon DEF ClientType
      <4>3. s.pc = "send" /\ s.safe = x.safe /\ s.done = x.done
        BY <1>3 DEF ClientType
      <4> HIDE DEF s, a
      <4>4. QED
        BY <1>3, <4>1, <4>2, <4>3
    <3>2. CASE x.op # "refresh"
      BY <3>2, IdleCell DEF AfterWrites
    <3>3. QED
      BY <3>1, <3>2
  <2>3. Client(c, a) /\ csLock' = NoClient
    BY <1>2, <1>9
  <2> HIDE DEF a
  <2>4. ~Storing(a) /\ ~InFlight(a) /\ ~Refreshing(a) /\ a.pc \notin {"lock", "write", "present", "snapshot"}
    BY <2>2 DEF Storing, InFlight, Refreshing
  <2>5. Wrote(x, a, csDB', csMode', csRing')
    BY <1>7, <1>9 DEF Wrote
  <2>6. CellOK(c, a, csLock', csRefreshLock', csDB', csMode', csRing')
    BY <2>2, <2>4 DEF CellOK
  <2>7. InFlight(x) => csRing'.refresh = x.pair
    BY <1>7, <1>9 DEF Wrote, InFlight
  <2>8. OutOff(csOut', csMode', csC')
    <3> SUFFICES ASSUME csOut \/ EndsSession(x.op) PROVE csMode' = {ModeNone} /\ \A e \in Clients : ~(csC'[e].pc = "write" /\ Storing(csC'[e]))
      BY <1>4, <1>9 DEF OutOff
    <3>1. csC' = [csC EXCEPT ![c] = a] /\ csC \in [Clients -> ClientType]
      BY <2>3, ClientFacts DEF Client, CSTyped
    <3>2. \A e \in Clients : e # c => csC[e].pc # "write"
      BY <1>1, ClientFacts DEF CellOK
    <3>3. csMode' = {ModeNone}
      BY <1>1, <1>7, <1>9, ClientFacts DEF Wrote, OutOff
    <3>4. QED
      BY <2>4, <3>1, <3>2, <3>3
  <2>9. QED
    BY <1>1, <1>4, <2>1, <2>2, <2>3, <2>4, <2>5, <2>6, <2>7, <2>8, ClientWrites
<1>10. QED
  BY <1>8, <1>9

\* The stored sign-in stays as it should be through any number of client processes, commands, lost
\* answers, kills and keyring outages: the two tokens a reader finds are one pair, nothing brings a
\* signed out session back but a sign-in, a refresh token is presented once unless its answer was
\* lost, and the work of an unsafe request is done at most once.
THEOREM SignInCorrect == CSSpec => []SignInHolds
<1>1. CSInit => CSInv
  BY ClientInit
<1>2. CSInv /\ [CSNext]_csVars => CSInv'
  <2> SUFFICES ASSUME CSInv, [CSNext]_csVars PROVE CSInv'
    OBVIOUS
  <2>1. CASE KeyringMoves
    BY <2>1, KeyringMovesKeeps
  <2>2. ASSUME NEW c \in Clients, Login(c) PROVE CSInv'
    BY <2>2, LoginKeeps
  <2>3. ASSUME NEW c \in Clients, Edit(c) PROVE CSInv'
    BY <2>3, EditKeeps
  <2>4. ASSUME NEW c \in Clients, Revoke(c) PROVE CSInv'
    BY <2>4, RevokeKeeps
  <2>5. ASSUME NEW c \in Clients, EnterLock(c) PROVE CSInv'
    BY <2>5, EnterLockKeeps
  <2>6. ASSUME NEW c \in Clients, Mutate(c) PROVE CSInv'
    BY <2>6, MutateKeeps
  <2>7. ASSUME NEW c \in Clients, MutateFails(c) PROVE CSInv'
    BY <2>7, MutateFailsKeeps
  <2>8. ASSUME NEW c \in Clients, Request(c) PROVE CSInv'
    BY <2>8, RequestKeeps
  <2>9. ASSUME NEW c \in Clients, Send(c) PROVE CSInv'
    BY <2>9, SendKeeps
  <2>10. ASSUME NEW c \in Clients, EndRequest(c) PROVE CSInv'
    BY <2>10, EndRequestKeeps
  <2>11. ASSUME NEW c \in Clients, RefreshEnter(c) PROVE CSInv'
    BY <2>11, RefreshEnterKeeps
  <2>12. ASSUME NEW c \in Clients, RefreshSnapshot(c) PROVE CSInv'
    BY <2>12, RefreshSnapshotKeeps
  <2>13. ASSUME NEW c \in Clients, RefreshPresent(c) PROVE CSInv'
    BY <2>13, RefreshPresentKeeps
  <2>14. ASSUME NEW c \in Clients, KillClient(c) PROVE CSInv'
    BY <2>14, KillClientKeeps
  <2>15. CASE UNCHANGED csVars
    BY <2>15 DEF csVars, CSInv, CSTyped
  <2>16. QED
    BY <2>1, <2>2, <2>3, <2>4, <2>5, <2>6, <2>7, <2>8, <2>9, <2>10, <2>11, <2>12, <2>13, <2>14, <2>15 DEF CSNext
<1>3. CSInv => SignInHolds
  BY ClientInvHolds
<1>4. QED
  BY <1>1, <1>2, <1>3, PTL DEF CSSpec

(***************************************************************************)
(* A job as its clients see it.                                            *)
(***************************************************************************)
Byte == {"c", "n", "m"}
BufferType == [bytes : Seq(Byte), closed : BOOLEAN, truncated : BOOLEAN]
ReaderType ==
  [pc : {"idle", "count", "refused", "open", "tail", "replayed", "ended", "cut"},
   snap : Seq(Byte), offset : Nat, seen : Nat, got : Seq(Byte)]
JobType == [status : Terminal \cup {"queued", "running", "gone"}, logs : Seq(Byte)]
Artifacts == BuiltNames \cup WantedNames
BuildClientType ==
  [pc : {"idle", "wait", "fetch", "hand", "done", "failed"}, mode : ClientModes \cup {"sign"}, streamed : BOOLEAN,
   todo : SUBSET Artifacts, at : Artifacts \cup {""}]

JSTyped ==
  /\ jsBuf \in BufferType /\ jsJob \in JobType
  /\ jsR \in [LogReaders -> ReaderType]
  /\ jsC \in [BuildClients -> BuildClientType] /\ jsHanded \in [BuildClients -> SUBSET Artifacts]

\* The log s begins the log t.
Begins(s, t) == Len(s) <= Len(t) /\ \A i \in 1..Len(s) : s[i] = t[i]

\* A reader has the log up to its offset, which is after a line's end until the log is closed.
ReaderSound(r, b) ==
  /\ r.pc \in {"idle", "count", "open"} => r.got = <<>> /\ r.offset = 0
  /\ r.pc \in {"tail", "cut"} =>
       /\ r.offset = Len(r.got) /\ Begins(r.got, b.bytes)
       /\ r.offset # 0 => r.got[r.offset] = "n"
  /\ r.pc = "ended" => b.closed /\ r.got = b.bytes

\* The room for the marker is kept until the marker is written.
BufferSound(b) ==
  /\ ~b.truncated => Len(b.bytes) + MarkerLen <= LogCap /\ \A i \in 1..Len(b.bytes) : b.bytes[i] # "m"
  /\ b.truncated => /\ Len(b.bytes) <= LogCap
                    /\ SubSeq(b.bytes, Len(b.bytes) - MarkerLen + 1, Len(b.bytes)) = Marker

\* A client works through what a successful job built.
BuildClientSound(r, handed, status) ==
  /\ r.pc \in {"idle", "wait"} => handed = {}
  /\ r.pc \in {"fetch", "hand", "done"} \/ handed # {} => status \in {"success", "gone"}
  /\ r.pc \in {"fetch", "hand"} => handed \cup r.todo = Fetches(r.mode)
  /\ r.pc = "hand" => r.at \in r.todo /\ r.at \in BuiltNames
  /\ r.pc = "done" => handed = Fetches(r.mode)
  /\ handed \subseteq BuiltNames

JSInv ==
  /\ JSTyped /\ BufferSound(jsBuf) /\ ReadersAreCounted
  /\ \A r \in LogReaders : ReaderSound(jsR[r], jsBuf)
  /\ \A c \in BuildClients : BuildClientSound(jsC[c], jsHanded[c], jsJob.status)

\* What a read on from got hands out: n bytes, all that there is if the log is closed, else whole lines.
ReadOut(got, bytes, closed, out, n) ==
  /\ Len(got) + n <= Len(bytes) /\ out = SubSeq(SubSeq(bytes, Len(got) + 1, Len(bytes)), 1, n)
  /\ closed => Len(got) + n = Len(bytes)
  /\ ~closed /\ n # 0 => bytes[Len(got) + n] = "n"

\* What is written extends the log, and nothing is written past the cap or after the close.
LEMMA AppendedExtends ==
  ASSUME NEW b \in BufferType, BufferSound(b), NEW p \in Seq({"c", "n"})
  PROVE  /\ Appended(b, p) \in BufferType /\ BufferSound(Appended(b, p)) /\ Begins(b.bytes, Appended(b, p).bytes)
         /\ b.closed => Appended(b, p) = b
<1> DEFINE room == LogCap - MarkerLen - Len(b.bytes)
<1>1. b.bytes \in Seq(Byte) /\ b.closed \in BOOLEAN /\ b.truncated \in BOOLEAN /\ p \in Seq(Byte)
  BY SeqMonotonic DEF BufferType, Byte
<1>2. Len(b.bytes) \in Nat /\ Len(p) \in Nat /\ \A i \in 1..Len(p) : p[i] # "m" /\ p[i] \in Byte
  BY <1>1, LenProperties, ElementOfSeq DEF Byte
<1>3. CASE b.closed \/ b.truncated
  <2>1. Appended(b, p) = b
    BY <1>3 DEF Appended
  <2>2. QED
    BY <1>2, <2>1 DEF Begins
<1>4. CASE ~(b.closed \/ b.truncated) /\ Len(p) <= room
  <2> DEFINE new == [b EXCEPT !.bytes = @ \o p]
  <2>1. Appended(b, p) = new
    BY <1>4 DEF Appended
  <2>2. /\ b.bytes \o p \in Seq(Byte) /\ Len(b.bytes \o p) = Len(b.bytes) + Len(p)
        /\ \A i \in 1 .. Len(b.bytes) + Len(p) : (b.bytes \o p)[i] = IF i <= Len(b.bytes) THEN b.bytes[i] ELSE p[i - Len(b.bytes)]
    BY <1>1, ConcatProperties
  <2>3. /\ new \in BufferType /\ new.bytes = b.bytes \o p /\ new.closed = b.closed /\ new.truncated = b.truncated
    BY <2>2 DEF BufferType
  <2> HIDE DEF new
  <2>4. Len(new.bytes) + MarkerLen <= LogCap
    BY <1>2, <1>4, <2>2, <2>3, JobStreamAssumption
  <2>5. \A i \in 1..Len(new.bytes) : new.bytes[i] # "m"
    <3> SUFFICES ASSUME NEW i \in 1..Len(b.bytes) + Len(p) PROVE new.bytes[i] # "m"
      BY <2>2, <2>3
    <3>1. CASE i <= Len(b.bytes)
      BY <1>2, <1>4, <2>2, <2>3, <3>1 DEF BufferSound
    <3>2. CASE ~(i <= Len(b.bytes))
      <4>1. i - Len(b.bytes) \in 1..Len(p)
        BY <1>2, <3>2
      <4>2. QED
        BY <1>2, <2>2, <2>3, <3>2, <4>1
    <3>3. QED
      BY <3>1, <3>2
  <2>6. Begins(b.bytes, new.bytes)
    BY <1>2, <2>2, <2>3 DEF Begins
  <2>7. QED
    BY <1>4, <2>1, <2>3, <2>4, <2>5, <2>6 DEF BufferSound
<1>5. CASE ~(b.closed \/ b.truncated) /\ ~(Len(p) <= room)
  <2> DEFINE cut == SubSeq(p, 1, room)
             all == (b.bytes \o cut) \o Marker
             new == [b EXCEPT !.bytes = @ \o cut \o Marker, !.truncated = TRUE]
  <2>1. Appended(b, p) = new
    BY <1>5 DEF Appended
  <2>2. room \in Nat /\ room < Len(p) /\ Len(b.bytes) + room + MarkerLen = LogCap
    <3>1. Len(b.bytes) + MarkerLen <= LogCap
      BY <1>5 DEF BufferSound
    <3>2. ~(Len(p) <= room) /\ LogCap \in Nat /\ MarkerLen \in Nat
      BY <1>5, JobStreamAssumption
    <3> DEFINE n == Len(b.bytes)  l == Len(p)
    <3>3. n \in Nat /\ l \in Nat /\ n + MarkerLen <= LogCap /\ ~(l <= LogCap - MarkerLen - n)
      BY <1>2, <3>1, <3>2
    <3> HIDE DEF n, l
    <3>4. LogCap - MarkerLen - n \in Nat /\ LogCap - MarkerLen - n < l /\ n + (LogCap - MarkerLen - n) + MarkerLen = LogCap
      BY <3>2, <3>3
    <3>5. QED
      BY <3>4 DEF n, l
  <2> HIDE DEF room
  <2>3. cut \in Seq(Byte) /\ Len(cut) = room
    <3>1. \A i \in 1..room : p[i] \in Byte
      BY <1>2, <2>2
    <3>2. SubSeq(p, 1, room) \in Seq(Byte) /\ Len(SubSeq(p, 1, room)) = IF 1 <= room THEN room - 1 + 1 ELSE 0
      BY <2>2, <3>1, SubSeqProperties
    <3>3. QED
      BY <2>2, <3>2
  <2> HIDE DEF cut
  <2>4. Marker \in Seq(Byte) /\ Len(Marker) = MarkerLen
    BY JobStreamAssumption, IsASeq DEF Marker, Byte
  <2>5. /\ b.bytes \o cut \in Seq(Byte) /\ Len(b.bytes \o cut) = Len(b.bytes) + room
        /\ \A i \in 1 .. Len(b.bytes) + room : (b.bytes \o cut)[i] = IF i <= Len(b.bytes) THEN b.bytes[i] ELSE cut[i - Len(b.bytes)]
    BY <1>1, <2>3, ConcatProperties
  <2>6. /\ all \in Seq(Byte) /\ Len(all) = LogCap
        /\ \A i \in 1 .. LogCap : all[i] = IF i <= Len(b.bytes) + room THEN (b.bytes \o cut)[i] ELSE Marker[i - (Len(b.bytes) + room)]
    <3> DEFINE s == b.bytes \o cut
    <3>1. s \in Seq(Byte) /\ Len(s) = Len(b.bytes) + room
      BY <2>5
    <3> HIDE DEF s
    <3>2. /\ s \o Marker \in Seq(Byte) /\ Len(s \o Marker) = Len(s) + Len(Marker)
          /\ \A i \in 1 .. Len(s) + Len(Marker) : (s \o Marker)[i] = IF i <= Len(s) THEN s[i] ELSE Marker[i - Len(s)]
      BY <2>4, <3>1, ConcatProperties
    <3>3. QED
      BY <2>2, <2>4, <3>1, <3>2 DEF s
  <2>7. new \in BufferType /\ new.bytes = all /\ new.closed = b.closed /\ new.truncated
    <3>1. new = [b EXCEPT !.bytes = all, !.truncated = TRUE]
      BY <1>1 DEF BufferType
    <3> HIDE DEF all
    <3>2. QED
      BY <1>1, <2>6, <3>1 DEF BufferType
  <2> HIDE DEF new, all
  <2>8. SubSeq(all, LogCap - MarkerLen + 1, LogCap) = Marker
    <3> DEFINE first == LogCap - MarkerLen + 1  s == SubSeq(all, first, LogCap)
    <3>1. first \in Int /\ LogCap \in Int /\ first >= 1 /\ LogCap - first + 1 = MarkerLen
      BY JobStreamAssumption
    <3>2. \A i \in first .. LogCap : all[i] \in Byte
      BY <2>6, <3>1, ElementOfSeq
    <3> HIDE DEF first
    <3>3. s \in Seq(Byte) /\ Len(s) = (IF first <= LogCap THEN LogCap - first + 1 ELSE 0)
          /\ \A i \in 1 .. LogCap - first + 1 : s[i] = all[first + i - 1]
      BY <3>1, <3>2, SubSeqProperties
    <3>4. Len(s) = MarkerLen /\ \A i \in 1 .. MarkerLen : s[i] = all[first + i - 1]
      BY <3>1, <3>3, JobStreamAssumption
    <3>5. \A i \in 1 .. MarkerLen : all[first + i - 1] = Marker[i]
      <4> SUFFICES ASSUME NEW i \in 1 .. MarkerLen PROVE all[first + i - 1] = Marker[i]
        OBVIOUS
      <4>1. first = Len(b.bytes) + room + 1
        <5> DEFINE n == Len(b.bytes)
        <5>1. n \in Nat /\ room \in Nat /\ MarkerLen \in Nat /\ n + room + MarkerLen = LogCap
          BY <1>2, <2>2, JobStreamAssumption
        <5> HIDE DEF n
        <5>2. LogCap - MarkerLen + 1 = n + room + 1
          BY <5>1
        <5>3. QED
          BY <5>2 DEF first, n
      <4>2. first + i - 1 \in 1 .. LogCap /\ ~(first + i - 1 <= Len(b.bytes) + room)
            /\ (first + i - 1) - (Len(b.bytes) + room) = i
        <5> DEFINE n == Len(b.bytes)
        <5>1. n \in Nat /\ room \in Nat /\ MarkerLen \in Nat /\ n + room + MarkerLen = LogCap /\ first = n + room + 1
          BY <1>2, <2>2, <4>1, JobStreamAssumption
        <5> HIDE DEF n
        <5>2. first + i - 1 = n + room + i
          BY <5>1
        <5>3. n + room + i \in 1 .. LogCap /\ ~(n + room + i <= n + room) /\ (n + room + i) - (n + room) = i
          BY <5>1
        <5>4. QED
          BY <5>2, <5>3 DEF n
      <4>3. QED
        BY <2>6, <4>2
    <3> HIDE DEF s
    <3>6. s = Marker
      BY <2>4, <3>3, <3>4, <3>5, SeqEqual
    <3>7. QED
      BY <3>6 DEF s, first
  <2>9. BufferSound(new)
    BY <2>6, <2>7, <2>8, JobStreamAssumption DEF BufferSound
  <2>10. Begins(b.bytes, new.bytes)
    <3>1. \A i \in 1..Len(b.bytes) : i \in 1..LogCap /\ i <= Len(b.bytes) + room /\ i \in 1..Len(b.bytes) + room
      BY <1>2, <2>2, JobStreamAssumption
    <3>2. \A i \in 1..Len(b.bytes) : all[i] = b.bytes[i]
      BY <2>5, <2>6, <3>1
    <3>3. Len(b.bytes) <= LogCap
      BY <1>2, <2>2, JobStreamAssumption
    <3>4. QED
      BY <2>6, <2>7, <3>2, <3>3 DEF Begins
  <2>11. QED
    BY <1>5, <2>1, <2>7, <2>9, <2>10
<1>6. QED
  BY <1>3, <1>4, <1>5

LEMMA BeginsOn ==
  ASSUME NEW s \in Seq(Byte), NEW t \in Seq(Byte), NEW u \in Seq(Byte), Begins(s, t), Begins(t, u)
  PROVE  Begins(s, u)
<1>1. Len(s) \in Nat /\ Len(t) \in Nat /\ Len(u) \in Nat
  BY LenProperties
<1>2. QED
  BY <1>1 DEF Begins

\* Reading on from an offset gives the log up to the new one.
LEMMA EmitExtends ==
  ASSUME NEW got \in Seq(Byte), NEW bytes \in Seq(Byte), Begins(got, bytes), NEW n \in Nat,
         NEW closed, NEW out, ReadOut(got, bytes, closed, out, n)
  PROVE  /\ got \o out \in Seq(Byte) /\ Len(out) = n /\ Len(got \o out) = Len(got) + n /\ Begins(got \o out, bytes)
         /\ n = 0 => got \o out = got
<1> DEFINE data == SubSeq(bytes, Len(got) + 1, Len(bytes))
<1>0. Len(got) + n <= Len(bytes) /\ out = SubSeq(data, 1, n)
  BY DEF ReadOut
<1>1. Len(got) \in Nat /\ Len(bytes) \in Nat /\ \A i \in 1..Len(bytes) : bytes[i] \in Byte
  BY LenProperties, ElementOfSeq
<1>2. /\ data \in Seq(Byte) /\ Len(data) = (IF Len(got) + 1 <= Len(bytes) THEN Len(bytes) - (Len(got) + 1) + 1 ELSE 0)
      /\ \A i \in 1 .. Len(bytes) - (Len(got) + 1) + 1 : data[i] = bytes[Len(got) + 1 + i - 1]
  <2>1. Len(got) + 1 \in Int /\ Len(bytes) \in Int /\ \A i \in Len(got) + 1 .. Len(bytes) : bytes[i] \in Byte
    BY <1>1
  <2>2. QED
    BY <2>1, SubSeqProperties
<1>3. Len(data) = Len(bytes) - Len(got) /\ n <= Len(data) /\ \A i \in 1 .. n : data[i] = bytes[Len(got) + i] /\ data[i] \in Byte
  <2>1. Len(data) = Len(bytes) - Len(got) /\ n <= Len(data)
    BY <1>0, <1>1, <1>2
  <2>2. \A i \in 1 .. n : i \in 1 .. Len(bytes) - (Len(got) + 1) + 1 /\ Len(got) + 1 + i - 1 = Len(got) + i /\ Len(got) + i \in 1..Len(bytes)
    BY <1>0, <1>1
  <2>3. QED
    BY <1>1, <1>2, <2>1, <2>2
<1> HIDE DEF data
<1>4. /\ out \in Seq(Byte) /\ Len(out) = (IF 1 <= n THEN n - 1 + 1 ELSE 0) /\ \A i \in 1 .. n - 1 + 1 : out[i] = data[1 + i - 1]
  <2>1. out = SubSeq(data, 1, n) /\ \A i \in 1 .. n : data[i] \in Byte
    BY <1>0, <1>3
  <2>2. QED
    BY <2>1, SubSeqProperties
<1>5. Len(out) = n /\ \A i \in 1 .. n : out[i] = bytes[Len(got) + i]
  <2>1. \A i \in 1 .. n : i \in 1 .. n - 1 + 1 /\ 1 + i - 1 = i
    OBVIOUS
  <2>2. QED
    BY <1>3, <1>4, <2>1
<1>6. /\ got \o out \in Seq(Byte) /\ Len(got \o out) = Len(got) + n
      /\ \A i \in 1 .. Len(got) + n : (got \o out)[i] = IF i <= Len(got) THEN got[i] ELSE out[i - Len(got)]
  BY <1>4, <1>5, ConcatProperties
<1>7. \A i \in 1 .. Len(got) + n : (got \o out)[i] = bytes[i]
  <2> SUFFICES ASSUME NEW i \in 1 .. Len(got) + n PROVE (got \o out)[i] = bytes[i]
    OBVIOUS
  <2>1. CASE i <= Len(got)
    BY <1>1, <1>6, <2>1 DEF Begins
  <2>2. CASE ~(i <= Len(got))
    <3>1. i - Len(got) \in 1 .. n /\ Len(got) + (i - Len(got)) = i
      BY <1>1, <2>2
    <3>2. QED
      BY <1>5, <1>6, <2>2, <3>1
  <2>3. QED
    BY <2>1, <2>2
<1>8. Begins(got \o out, bytes)
  BY <1>0, <1>6, <1>7 DEF Begins
<1>9. n = 0 => got \o out = got
  <2>1. n = 0 => Len(out) = 0 /\ out = <<>>
    BY <1>4, <1>5, EmptySeq
  <2>2. QED
    BY <2>1, ConcatEmptySeq
<1>10. QED
  BY <1>5, <1>6, <1>8, <1>9

LEMMA StreamFacts ==
  ASSUME JSInv
  PROVE  /\ JSTyped /\ BufferSound(jsBuf) /\ ReadersAreCounted
         /\ jsBuf \in BufferType /\ jsJob \in JobType /\ jsR \in [LogReaders -> ReaderType]
         /\ jsC \in [BuildClients -> BuildClientType] /\ jsHanded \in [BuildClients -> SUBSET Artifacts]
         /\ \A r \in LogReaders : jsR[r] \in ReaderType /\ ReaderSound(jsR[r], jsBuf)
         /\ \A c \in BuildClients : /\ jsC[c] \in BuildClientType /\ jsHanded[c] \in SUBSET Artifacts
                                    /\ BuildClientSound(jsC[c], jsHanded[c], jsJob.status)
BY DEF JSInv, JSTyped

\* The readers' side of the invariant, and what keeps the rest of it.
LEMMA ReadersMove ==
  ASSUME JSInv, UNCHANGED <<jsBuf, jsJob, jsC, jsHanded>>, jsR' \in [LogReaders -> ReaderType], ReadersAreCounted',
         \A r \in LogReaders : ReaderSound(jsR'[r], jsBuf)
  PROVE  JSInv'
BY StreamFacts DEF JSInv, JSTyped

\* A reader neither opens a stream nor leaves one.
LEMMA CountStays ==
  ASSUME JSInv, NEW r \in LogReaders, NEW s \in ReaderType, Reader(r, s), jsCount' = jsCount,
         s.pc \in {"open", "tail"} <=> jsR[r].pc \in {"open", "tail"}
  PROVE  ReadersAreCounted'
<1>1. jsR \in [LogReaders -> ReaderType] /\ ReadersAreCounted
  BY StreamFacts
<1>2. {q \in LogReaders : jsR'[q].pc \in {"open", "tail"}} = {q \in LogReaders : jsR[q].pc \in {"open", "tail"}}
  BY <1>1 DEF Reader
<1>3. QED
  BY <1>1, <1>2 DEF ReadersAreCounted

LEMMA CountLeaves ==
  ASSUME JSInv, NEW r \in LogReaders, NEW s \in ReaderType, Reader(r, s), jsCount' = jsCount - 1,
         s.pc \notin {"open", "tail"}, jsR[r].pc \in {"open", "tail"}
  PROVE  ReadersAreCounted'
<1> DEFINE on == {q \in LogReaders : jsR[q].pc \in {"open", "tail"}}
<1>1. jsR \in [LogReaders -> ReaderType] /\ jsCount = Cardinality(on) /\ jsCount <= MaxLogReaders
  BY StreamFacts DEF ReadersAreCounted
<1>2. {q \in LogReaders : jsR'[q].pc \in {"open", "tail"}} = on \ {r} /\ r \in on
  BY <1>1 DEF Reader
<1>3. IsFiniteSet(on)
  <2>1. on \in SUBSET LogReaders
    OBVIOUS
  <2>2. QED
    BY <2>1, FS_Subset, JobStreamAssumption
<1> HIDE DEF on
<1>4. Cardinality(on) \in Nat /\ Cardinality(on \ {r}) = Cardinality(on) - 1
  BY <1>2, <1>3, FS_RemoveElement, FS_CardinalityType
<1>5. jsCount' = Cardinality({q \in LogReaders : jsR'[q].pc \in {"open", "tail"}})
  BY <1>1, <1>2, <1>4
<1>6. jsCount' <= MaxLogReaders
  BY <1>1, <1>4, JobStreamAssumption
<1>7. QED
  BY <1>5, <1>6, Zenon DEF ReadersAreCounted

LEMMA CountEnters ==
  ASSUME JSInv, NEW r \in LogReaders, NEW s \in ReaderType, Reader(r, s), jsCount' = jsCount + 1, ~(jsCount >= MaxLogReaders),
         s.pc \in {"open", "tail"}, jsR[r].pc \notin {"open", "tail"}
  PROVE  ReadersAreCounted'
<1> DEFINE on == {q \in LogReaders : jsR[q].pc \in {"open", "tail"}}
<1>1. jsR \in [LogReaders -> ReaderType] /\ jsCount = Cardinality(on) /\ jsCount <= MaxLogReaders
  BY StreamFacts DEF ReadersAreCounted
<1>2. {q \in LogReaders : jsR'[q].pc \in {"open", "tail"}} = on \cup {r} /\ r \notin on
  BY <1>1 DEF Reader
<1>3. IsFiniteSet(on)
  <2>1. on \in SUBSET LogReaders
    OBVIOUS
  <2>2. QED
    BY <2>1, FS_Subset, JobStreamAssumption
<1> HIDE DEF on
<1>4. Cardinality(on) \in Nat /\ Cardinality(on \cup {r}) = Cardinality(on) + 1
  BY <1>2, <1>3, FS_AddElement, FS_CardinalityType
<1>5. jsCount' = Cardinality({q \in LogReaders : jsR'[q].pc \in {"open", "tail"}})
  BY <1>1, <1>2, <1>4
<1>6. jsCount' <= MaxLogReaders
  BY <1>1, <1>4, JobStreamAssumption
<1>7. QED
  BY <1>5, <1>6, Zenon DEF ReadersAreCounted

LEMMA OneReader ==
  ASSUME JSInv, UNCHANGED <<jsBuf, jsJob, jsC, jsHanded>>, NEW r \in LogReaders, NEW s \in ReaderType, Reader(r, s),
         ReaderSound(s, jsBuf), ReadersAreCounted'
  PROVE  JSInv'
<1>1. jsR' \in [LogReaders -> ReaderType] /\ jsR'[r] = s /\ \A q \in LogReaders : q # r => jsR'[q] = jsR[q]
  BY StreamFacts DEF Reader
<1>2. \A q \in LogReaders : ReaderSound(jsR'[q], jsBuf)
  BY <1>1, StreamFacts
<1>3. QED
  BY <1>1, <1>2, ReadersMove

LEMMA ReadStatusKeeps ==
  ASSUME JSInv, NEW r \in LogReaders, ReadStatus(r)
  PROVE  JSInv'
<1> DEFINE s == [ReaderIdle EXCEPT !.pc = IF jsJob.status = "gone" THEN "refused" ELSE "count", !.snap = jsJob.logs]
<1>1. UNCHANGED <<jsBuf, jsJob, jsC, jsHanded, jsCount>> /\ Reader(r, s) /\ jsR[r].pc = "idle"
  BY DEF ReadStatus, jsServer, jsClients
<1>2. jsJob.logs \in Seq(Byte) /\ <<>> \in Seq(Byte)
  BY StreamFacts, EmptySeq DEF JobType
<1>3. s \in ReaderType /\ s.pc \in {"refused", "count"} /\ s.got = <<>> /\ s.offset = 0
  BY <1>2 DEF ReaderIdle, ReaderType
<1> HIDE DEF s
<1>4. ReaderSound(s, jsBuf)
  BY <1>3 DEF ReaderSound
<1>5. ReadersAreCounted'
  BY <1>1, <1>3, CountStays
<1>6. QED
  BY <1>1, <1>3, <1>4, <1>5, OneReader

LEMMA CountReaderKeeps ==
  ASSUME JSInv, NEW r \in LogReaders, CountReader(r)
  PROVE  JSInv'
<1> DEFINE x == jsR[r]
<1>1. UNCHANGED <<jsBuf, jsJob, jsC, jsHanded>> /\ x.pc = "count" /\ x \in ReaderType /\ x.got = <<>> /\ x.offset = 0
  BY StreamFacts DEF CountReader, jsServer, jsClients, ReaderSound
<1>2. ASSUME NEW p \in {"refused", "open"}, NEW s, s = [x EXCEPT !.pc = p]
      PROVE  s \in ReaderType /\ s.pc = p /\ ReaderSound(s, jsBuf)
  <2>1. s \in ReaderType /\ s.pc = p /\ s.got = x.got /\ s.offset = x.offset
    BY <1>1, <1>2 DEF ReaderType
  <2>2. QED
    BY <1>1, <2>1 DEF ReaderSound
<1>3. CASE jsCount >= MaxLogReaders
  <2> DEFINE s == [x EXCEPT !.pc = "refused"]
  <2>1. s \in ReaderType /\ s.pc = "refused" /\ ReaderSound(s, jsBuf)
    BY <1>2
  <2>2. Reader(r, s) /\ jsCount' = jsCount
    BY <1>3 DEF CountReader
  <2> HIDE DEF s
  <2>3. ReadersAreCounted'
    BY <1>1, <2>1, <2>2, CountStays
  <2>4. QED
    BY <1>1, <2>1, <2>2, <2>3, OneReader
<1>4. CASE ~(jsCount >= MaxLogReaders)
  <2> DEFINE s == [x EXCEPT !.pc = "open"]
  <2>1. s \in ReaderType /\ s.pc = "open" /\ ReaderSound(s, jsBuf)
    BY <1>2
  <2>2. Reader(r, s) /\ jsCount' = jsCount + 1
    BY <1>4 DEF CountReader
  <2> HIDE DEF s
  <2>3. ReadersAreCounted'
    BY <1>1, <1>4, <2>1, <2>2, CountEnters
  <2>4. QED
    BY <1>1, <2>1, <2>2, <2>3, OneReader
<1>5. QED
  BY <1>3, <1>4

LEMMA OpenLogKeeps ==
  ASSUME JSInv, NEW r \in LogReaders, OpenLog(r)
  PROVE  JSInv'
<1> DEFINE x == jsR[r]
<1>1. UNCHANGED <<jsBuf, jsJob, jsC, jsHanded>> /\ x.pc = "open" /\ x \in ReaderType /\ x.got = <<>> /\ x.offset = 0
  BY StreamFacts DEF OpenLog, jsServer, jsClients, ReaderSound
<1>2. x.snap \in Seq(Byte) /\ Len(<<>>) = 0 /\ jsBuf.bytes \in Seq(Byte) /\ Len(jsBuf.bytes) \in Nat
  BY <1>1, StreamFacts, EmptySeq, LenProperties DEF ReaderType, BufferType
<1>3. CASE jsLive
  <2> DEFINE s == [x EXCEPT !.pc = "tail"]
  <2>1. s \in ReaderType /\ s.pc = "tail" /\ s.got = <<>> /\ s.offset = 0
    BY <1>1 DEF ReaderType
  <2>2. Reader(r, s) /\ jsCount' = jsCount
    BY <1>3 DEF OpenLog
  <2> HIDE DEF s
  <2>3. ReaderSound(s, jsBuf)
    BY <1>2, <2>1 DEF ReaderSound, Begins
  <2>4. ReadersAreCounted'
    BY <1>1, <2>1, <2>2, CountStays
  <2>5. QED
    BY <1>1, <2>1, <2>2, <2>3, <2>4, OneReader
<1>4. CASE ~jsLive
  <2> DEFINE s == [x EXCEPT !.pc = "replayed", !.got = x.snap]
  <2>1. s \in ReaderType /\ s.pc = "replayed"
    BY <1>1, <1>2 DEF ReaderType
  <2>2. Reader(r, s) /\ jsCount' = jsCount - 1
    BY <1>4 DEF OpenLog
  <2> HIDE DEF s
  <2>3. ReaderSound(s, jsBuf)
    BY <2>1 DEF ReaderSound
  <2>4. ReadersAreCounted'
    BY <1>1, <2>1, <2>2, CountLeaves
  <2>5. QED
    BY <1>1, <2>1, <2>2, <2>3, <2>4, OneReader
<1>5. QED
  BY <1>3, <1>4

LEMMA DisconnectKeeps ==
  ASSUME JSInv, NEW r \in LogReaders, Disconnect(r)
  PROVE  JSInv'
<1> DEFINE x == jsR[r]  s == [x EXCEPT !.pc = "cut"]
<1>1. UNCHANGED <<jsBuf, jsJob, jsC, jsHanded>> /\ x.pc = "tail" /\ x \in ReaderType /\ ReaderSound(x, jsBuf)
      /\ Reader(r, s) /\ jsCount' = jsCount - 1
  BY StreamFacts DEF Disconnect, jsServer, jsClients
<1>2. s \in ReaderType /\ s.pc = "cut" /\ s.got = x.got /\ s.offset = x.offset
  BY <1>1 DEF ReaderType
<1> HIDE DEF s
<1>3. ReaderSound(s, jsBuf)
  BY <1>1, <1>2 DEF ReaderSound
<1>4. ReadersAreCounted'
  BY <1>1, <1>2, CountLeaves
<1>5. QED
  BY <1>1, <1>2, <1>3, <1>4, OneReader

\* What one read of the live buffer hands out.
LEMMA LinesOut ==
  ASSUME NEW got \in Seq(Byte), NEW bytes \in Seq(Byte), Begins(got, bytes), NEW closed \in BOOLEAN,
         NEW d, d = [data |-> SubSeq(bytes, Len(got) + 1, Len(bytes)), closed |-> closed]
  PROVE  \E n \in Nat : ReadOut(got, bytes, closed, WholeLines(d), n)
<1> DEFINE data == SubSeq(bytes, Len(got) + 1, Len(bytes))
<1>1. Len(got) \in Nat /\ Len(bytes) \in Nat /\ \A i \in 1..Len(bytes) : bytes[i] \in Byte
  BY LenProperties, ElementOfSeq
<1>2. /\ data \in Seq(Byte) /\ Len(data) = (IF Len(got) + 1 <= Len(bytes) THEN Len(bytes) - (Len(got) + 1) + 1 ELSE 0)
      /\ \A i \in 1 .. Len(bytes) - (Len(got) + 1) + 1 : data[i] = bytes[Len(got) + 1 + i - 1]
  <2>1. Len(got) + 1 \in Int /\ Len(bytes) \in Int /\ \A i \in Len(got) + 1 .. Len(bytes) : bytes[i] \in Byte
    BY <1>1
  <2>2. QED
    BY <2>1, SubSeqProperties
<1>3. Len(data) = Len(bytes) - Len(got) /\ Len(data) \in Nat
  BY <1>1, <1>2 DEF Begins
<1>4. \A i \in 1 .. Len(data) : data[i] = bytes[Len(got) + i]
  <2>1. \A i \in 1 .. Len(data) : i \in 1 .. Len(bytes) - (Len(got) + 1) + 1 /\ Len(got) + 1 + i - 1 = Len(got) + i
    BY <1>1, <1>3
  <2>2. QED
    BY <1>2, <2>1
<1>5. DOMAIN data = 1 .. Len(data) /\ d.data = data /\ d.closed = closed
  BY <1>2, LenProperties
<1> HIDE DEF data
<1>6. CASE closed
  <2>1. WholeLines(d) = data /\ data = SubSeq(data, 1, Len(data))
    BY <1>2, <1>5, <1>6, SubSeqFull DEF WholeLines
  <2>2. Len(got) + Len(data) = Len(bytes) /\ Len(got) + Len(data) <= Len(bytes)
    BY <1>1, <1>3
  <2>3. ReadOut(got, bytes, closed, WholeLines(d), Len(data))
    BY <1>6, <2>1, <2>2 DEF ReadOut, data
  <2>4. QED
    BY <1>3, <2>3
<1>7. CASE ~closed
  <2> DEFINE ends == {i \in DOMAIN d.data : d.data[i] = "n"}
             last == IF ends = {} THEN 0 ELSE CHOOSE i \in ends : \A j \in ends : j <= i
  <2>1. WholeLines(d) = SubSeq(data, 1, last)
    <3>1. WholeLines(d) = SubSeq(d.data, 1, last)
      BY <1>5, <1>7, Zenon DEF WholeLines
    <3> HIDE DEF last
    <3>2. QED
      BY <1>5, <3>1
  <2>2. last \in 0 .. Len(data) /\ (last # 0 => data[last] = "n")
    <3>1. CASE ends = {}
      BY <1>3, <3>1
    <3>2. CASE ends # {}
      <4>1. ends \in SUBSET (0 .. Len(data))
        BY <1>3, <1>5
      <4>2. \E i \in ends : \A j \in ends : j <= i
        <5> HIDE DEF ends
        <5>1. QED
          BY <1>3, <3>2, <4>1, GreatestOf
      <4>3. last \in ends
        BY <3>2, <4>2
      <4>4. last \in DOMAIN d.data /\ d.data[last] = "n"
        BY <4>3
      <4> HIDE DEF last
      <4>5. QED
        BY <1>3, <1>5, <4>4
    <3>3. QED
      BY <3>1, <3>2
  <2> HIDE DEF last
  <2>3. last \in Nat /\ Len(got) + last <= Len(bytes) /\ (last # 0 => last \in 1 .. Len(data))
    BY <1>1, <1>3, <2>2
  <2>4. last # 0 => bytes[Len(got) + last] = "n"
    BY <1>4, <2>2, <2>3
  <2>5. ReadOut(got, bytes, closed, WholeLines(d), last)
    BY <1>7, <2>1, <2>3, <2>4 DEF ReadOut, data
  <2>6. QED
    BY <2>3, <2>5
<1>8. QED
  BY <1>6, <1>7

LEMMA EmitKeeps ==
  ASSUME JSInv, NEW r \in LogReaders, Emit(r)
  PROVE  JSInv'
<1> DEFINE x == jsR[r]  d == BytesFrom(r)  out == WholeLines(d)  bytes == jsBuf.bytes  closed == jsBuf.closed  got == x.got
           p == IF closed THEN "ended" ELSE "tail"
           s == [x EXCEPT !.got = @ \o out, !.offset = @ + Len(out), !.seen = Len(jsBuf.bytes), !.pc = p]
<1>1. /\ UNCHANGED <<jsBuf, jsJob, jsC, jsHanded>> /\ x.pc = "tail" /\ x \in ReaderType
      /\ x.offset = Len(got) /\ Begins(got, bytes) /\ (x.offset # 0 => got[x.offset] = "n")
  BY StreamFacts DEF Emit, jsServer, jsClients, ReaderSound
<1>2. got \in Seq(Byte) /\ bytes \in Seq(Byte) /\ closed \in BOOLEAN /\ Len(got) \in Nat /\ Len(bytes) \in Nat
  BY <1>1, StreamFacts, LenProperties DEF ReaderType, BufferType
<1>3. d = [data |-> SubSeq(bytes, Len(got) + 1, Len(bytes)), closed |-> closed]
  BY <1>1 DEF BytesFrom
<1>4. Reader(r, s) /\ jsCount' = IF closed THEN jsCount - 1 ELSE jsCount
  BY <1>3 DEF Emit
<1> HIDE DEF d, got, bytes, closed
<1>5. PICK n \in Nat : ReadOut(got, bytes, closed, out, n)
  BY <1>1, <1>2, <1>3, LinesOut, Zenon
<1> HIDE DEF out
<1>6. /\ got \o out \in Seq(Byte) /\ Len(out) = n /\ Len(got \o out) = Len(got) + n /\ Begins(got \o out, bytes)
      /\ n = 0 => got \o out = got
  BY <1>1, <1>2, <1>5, EmitExtends
<1>7. s \in ReaderType /\ s.pc = p /\ s.got = got \o out /\ s.offset = Len(got) + n
  <2> DEFINE o == x.offset + Len(out)  all == got \o out  b == Len(bytes)
  <2>1. s = [x EXCEPT !.got = all, !.offset = o, !.seen = b, !.pc = p]
    BY DEF got, bytes
  <2>2. o = Len(got) + n /\ o \in Nat /\ all \in Seq(Byte) /\ b \in Nat /\ p \in {"ended", "tail"}
    BY <1>1, <1>2, <1>6
  <2> HIDE DEF o, all, b, p, s
  <2>3. QED
    BY <1>1, <2>1, <2>2 DEF ReaderType, all
<1> HIDE DEF s
<1>8. CASE closed
  <2>1. s.pc = "ended" /\ jsCount' = jsCount - 1
    BY <1>4, <1>7, <1>8
  <2>2. got \o out = bytes
    BY <1>2, <1>5, <1>6, <1>8, SeqEqual DEF Begins, ReadOut
  <2>3. ReaderSound(s, jsBuf)
    BY <1>7, <1>8, <2>1, <2>2 DEF ReaderSound, closed, bytes
  <2>4. ReadersAreCounted'
    BY <1>1, <1>4, <1>7, <2>1, CountLeaves
  <2>5. QED
    BY <1>1, <1>4, <1>7, <2>3, <2>4, OneReader
<1>9. CASE ~closed
  <2>1. s.pc = "tail" /\ jsCount' = jsCount
    BY <1>4, <1>7, <1>9
  <2>2. s.offset # 0 => s.got[s.offset] = "n"
    <3>1. CASE n = 0
      BY <1>1, <1>2, <1>6, <1>7, <3>1
    <3>2. CASE n # 0
      <4>1. Len(got) + n \in 1 .. Len(got \o out)
        BY <1>2, <1>6, <3>2
      <4>2. (got \o out)[Len(got) + n] = bytes[Len(got) + n]
        BY <1>6, <4>1 DEF Begins
      <4>3. QED
        BY <1>5, <1>7, <1>9, <3>2, <4>2 DEF ReadOut
    <3>3. QED
      BY <3>1, <3>2
  <2>3. ReaderSound(s, jsBuf)
    BY <1>6, <1>7, <2>1, <2>2 DEF ReaderSound, bytes
  <2>4. ReadersAreCounted'
    BY <1>1, <1>4, <1>7, <2>1, CountStays
  <2>5. QED
    BY <1>1, <1>4, <1>7, <2>3, <2>4, OneReader
<1>10. QED
  BY <1>8, <1>9

LEMMA WriteLogKeeps ==
  ASSUME JSInv, NEW p \in {<<"c">>, <<"n">>, <<"c", "n", "c">>}, WriteLog(p)
  PROVE  JSInv'
<1> DEFINE b == jsBuf  new == Appended(jsBuf, p)
<1>1. UNCHANGED <<jsJob, jsR, jsCount, jsC, jsHanded>> /\ jsBuf' = new
  BY DEF WriteLog, jsClients
<1>2. p \in Seq({"c", "n"})
  <2>1. <<"c">> \in Seq({"c", "n"}) /\ <<"n">> \in Seq({"c", "n"}) /\ <<"c", "n", "c">> \in Seq({"c", "n"})
    OBVIOUS
  <2>2. QED
    BY <2>1, Zenon
<1>3. new \in BufferType /\ BufferSound(new) /\ Begins(b.bytes, new.bytes) /\ (b.closed => new = b)
  BY <1>2, StreamFacts, AppendedExtends
<1> HIDE DEF new
<1>4. ASSUME NEW r \in LogReaders PROVE ReaderSound(jsR[r], new)
  <2>1. ReaderSound(jsR[r], b) /\ jsR[r].got \in Seq(Byte) /\ b.bytes \in Seq(Byte) /\ new.bytes \in Seq(Byte)
    BY <1>3, StreamFacts DEF ReaderType, BufferType
  <2>2. Begins(jsR[r].got, b.bytes) => Begins(jsR[r].got, new.bytes)
    BY <1>3, <2>1, BeginsOn
  <2>3. QED
    BY <1>3, <2>1, <2>2 DEF ReaderSound
<1>5. ReadersAreCounted'
  BY <1>1, StreamFacts DEF ReadersAreCounted
<1>6. QED
  BY <1>1, <1>3, <1>4, <1>5, StreamFacts DEF JSInv, JSTyped

\* The worker's other steps: the buffer keeps its bytes, the job its readers and clients.
LEMMA JobMoves ==
  ASSUME JSInv, UNCHANGED <<jsR, jsCount, jsC, jsHanded>>, jsBuf' \in BufferType, jsJob' \in JobType,
         jsBuf'.bytes = jsBuf.bytes, jsBuf'.truncated = jsBuf.truncated, jsBuf.closed => jsBuf'.closed,
         jsJob.status \in {"success", "gone"} => jsJob'.status \in {"success", "gone"}
  PROVE  JSInv'
<1>1. BufferSound(jsBuf')
  BY StreamFacts DEF BufferSound
<1>2. \A r \in LogReaders : ReaderSound(jsR[r], jsBuf')
  BY StreamFacts DEF ReaderSound
<1>3. \A c \in BuildClients : BuildClientSound(jsC[c], jsHanded[c], jsJob'.status)
  BY StreamFacts DEF BuildClientSound
<1>4. ReadersAreCounted'
  BY StreamFacts DEF ReadersAreCounted
<1>5. QED
  BY <1>1, <1>2, <1>3, <1>4, StreamFacts DEF JSInv, JSTyped

LEMMA JobStepsKeep ==
  ASSUME JSInv, StartJob \/ FinalizeLog \/ EvictJob \/ \E s \in Terminal : EndJob(s)
  PROVE  JSInv'
<1>1. UNCHANGED <<jsR, jsCount, jsC, jsHanded>> /\ jsBuf \in BufferType /\ jsJob \in JobType
  BY StreamFacts DEF StartJob, FinalizeLog, EvictJob, EndJob, jsClients
<1>2. \A s \in Terminal \cup {"queued", "running", "gone"} :
        [jsJob EXCEPT !.status = s] \in JobType /\ [jsJob EXCEPT !.status = s].status = s
  BY <1>1 DEF JobType
<1>3. CASE StartJob
  <2>1. jsBuf' = jsBuf /\ jsJob.status = "queued" /\ jsJob' = [jsJob EXCEPT !.status = "running"]
    BY <1>3 DEF StartJob
  <2>2. QED
    BY <1>1, <1>2, <2>1, JobMoves
<1>4. CASE EvictJob
  <2>1. jsBuf' = jsBuf /\ jsJob' = [jsJob EXCEPT !.status = "gone"]
    BY <1>4 DEF EvictJob
  <2>2. QED
    BY <1>1, <1>2, <2>1, JobMoves
<1>5. ASSUME NEW s \in Terminal, EndJob(s) PROVE JSInv'
  <2>1. jsBuf' = jsBuf /\ jsJob.status \in {"queued", "running"} /\ jsJob' = [jsJob EXCEPT !.status = s]
    BY <1>5 DEF EndJob
  <2>2. QED
    BY <1>1, <1>2, <2>1, JobMoves
<1>6. CASE FinalizeLog
  <2>1. CASE jsBuf' = jsBuf /\ jsJob' = jsJob
    BY <1>1, <2>1, JobMoves
  <2>2. CASE jsBuf' = [jsBuf EXCEPT !.closed = TRUE] /\ jsJob' = jsJob
    <3>1. jsBuf' \in BufferType
      BY <1>1, <2>2, Zenon DEF BufferType
    <3>2. jsBuf'.bytes = jsBuf.bytes /\ jsBuf'.truncated = jsBuf.truncated /\ jsBuf'.closed
      BY <1>1, <2>2 DEF BufferType
    <3>3. QED
      BY <1>1, <2>2, <3>1, <3>2, JobMoves
  <2>3. CASE jsBuf' = jsBuf /\ jsJob' = IF jsJob.status = "gone" THEN jsJob ELSE [jsJob EXCEPT !.logs = jsBuf.bytes]
    <3>1. jsJob' \in JobType /\ jsJob'.status = jsJob.status
      BY <1>1, <2>3 DEF JobType, BufferType
    <3>2. QED
      BY <1>1, <2>3, <3>1, JobMoves
  <2>4. QED
    BY <1>6, <2>1, <2>2, <2>3 DEF FinalizeLog
<1>7. QED
  BY <1>3, <1>4, <1>5, <1>6

LEMMA OneBuildClient ==
  ASSUME JSInv, UNCHANGED <<jsServer, jsR, jsCount>>, NEW c \in BuildClients, NEW s \in BuildClientType, BuildClient(c, s),
         NEW h \in SUBSET Artifacts, jsHanded' = [jsHanded EXCEPT ![c] = h], BuildClientSound(s, h, jsJob.status)
  PROVE  JSInv'
<1>1. jsC' \in [BuildClients -> BuildClientType] /\ jsC'[c] = s /\ \A e \in BuildClients : e # c => jsC'[e] = jsC[e]
  BY StreamFacts DEF BuildClient
<1>2. jsHanded' \in [BuildClients -> SUBSET Artifacts] /\ jsHanded'[c] = h /\ \A e \in BuildClients : e # c => jsHanded'[e] = jsHanded[e]
  BY StreamFacts
<1>3. \A e \in BuildClients : BuildClientSound(jsC'[e], jsHanded'[e], jsJob.status)
  BY <1>1, <1>2, StreamFacts
<1>4. jsBuf' = jsBuf /\ jsJob' = jsJob /\ ReadersAreCounted'
  BY StreamFacts DEF jsServer, ReadersAreCounted
<1>5. QED
  BY <1>1, <1>2, <1>3, <1>4, StreamFacts DEF JSInv, JSTyped

\* A client moves, nothing is handed on.
LEMMA OnlyMoves ==
  ASSUME JSInv, UNCHANGED <<jsServer, jsR, jsCount, jsHanded>>, NEW c \in BuildClients, NEW s \in BuildClientType, BuildClient(c, s),
         BuildClientSound(s, jsHanded[c], jsJob.status)
  PROVE  JSInv'
<1>1. jsHanded[c] \in SUBSET Artifacts /\ jsHanded' = [jsHanded EXCEPT ![c] = jsHanded[c]]
  BY StreamFacts
<1>2. QED
  BY <1>1, OneBuildClient

\* Giving up is always allowed.
LEMMA GivesUp ==
  ASSUME JSInv, UNCHANGED <<jsServer, jsR, jsCount, jsHanded>>, NEW c \in BuildClients, BuildClient(c, [jsC[c] EXCEPT !.pc = "failed"])
  PROVE  JSInv'
<1> DEFINE s == [jsC[c] EXCEPT !.pc = "failed"]
<1>1. jsC[c] \in BuildClientType /\ BuildClientSound(jsC[c], jsHanded[c], jsJob.status)
  BY StreamFacts
<1>2. s \in BuildClientType /\ s.pc = "failed"
  BY <1>1 DEF BuildClientType
<1> HIDE DEF s
<1>3. BuildClientSound(s, jsHanded[c], jsJob.status)
  BY <1>1, <1>2 DEF BuildClientSound
<1>4. QED
  BY <1>2, <1>3, OnlyMoves DEF s

LEMMA SubmitBuildKeeps ==
  ASSUME JSInv, NEW c \in BuildClients, NEW m \in ClientModes, SubmitBuild(c, m)
  PROVE  JSInv'
<1> DEFINE s == [ClientStart EXCEPT !.pc = "wait", !.mode = m]
<1>1. UNCHANGED <<jsServer, jsR, jsCount, jsHanded>> /\ BuildClient(c, s) /\ jsC[c].pc = "idle"
  BY DEF SubmitBuild
<1>2. s \in BuildClientType
  <2>1. ClientStart \in BuildClientType
    BY DEF ClientStart, BuildClientType
  <2>2. QED
    BY <2>1, Zenon DEF BuildClientType
<1>3. s.pc = "wait"
  BY DEF ClientStart
<1> HIDE DEF s
<1>4. BuildClientSound(s, jsHanded[c], jsJob.status)
  BY <1>1, <1>3, StreamFacts DEF BuildClientSound
<1>5. QED
  BY <1>1, <1>2, <1>4, OnlyMoves

LEMMA PollJobKeeps ==
  ASSUME JSInv, NEW c \in BuildClients, PollJob(c)
  PROVE  JSInv'
<1> DEFINE x == jsC[c]  f == [x EXCEPT !.pc = "fetch", !.todo = Fetches(x.mode)]  t == [x EXCEPT !.streamed = TRUE]
<1>1. UNCHANGED <<jsServer, jsR, jsCount, jsHanded>> /\ x.pc = "wait" /\ x \in BuildClientType /\ jsHanded[c] = {}
  BY StreamFacts DEF PollJob, BuildClientSound
<1>2. \/ BuildClient(c, [x EXCEPT !.pc = "failed"])
      \/ jsJob.status = "success" /\ BuildClient(c, f)
      \/ BuildClient(c, t)
      \/ jsC' = jsC
  <2>1. CASE jsJob.status = "gone"
    BY <2>1 DEF PollJob, Terminal
  <2>2. CASE jsJob.status \in Terminal
    <3>1. BuildClient(c, IF GoodFor(jsJob.status) /\ Fetches(x.mode) # {} THEN f ELSE [x EXCEPT !.pc = "failed"])
      BY <2>2 DEF PollJob, Terminal
    <3>2. CASE GoodFor(jsJob.status) /\ Fetches(x.mode) # {}
      BY <3>1, <3>2 DEF GoodFor
    <3>3. CASE ~(GoodFor(jsJob.status) /\ Fetches(x.mode) # {})
      BY <3>1, <3>3
    <3>4. QED
      BY <3>2, <3>3
  <2>3. CASE jsJob.status = "running"
    BY <2>3 DEF PollJob, Terminal
  <2>4. CASE jsJob.status = "queued"
    BY <2>4 DEF PollJob, Terminal
  <2>5. QED
    BY <2>1, <2>2, <2>3, <2>4, StreamFacts DEF JobType
<1>3. CASE BuildClient(c, [x EXCEPT !.pc = "failed"])
  BY <1>1, <1>3, GivesUp
<1>4. CASE jsJob.status = "success" /\ BuildClient(c, f)
  <2>1. Fetches(x.mode) \in SUBSET Artifacts
    BY DEF Fetches, Artifacts
  <2>2. f \in BuildClientType /\ f.pc = "fetch" /\ f.mode = x.mode /\ f.todo = Fetches(x.mode)
    <3> DEFINE w == Fetches(x.mode)
    <3> HIDE DEF w
    <3>1. f = [x EXCEPT !.pc = "fetch", !.todo = w] /\ w \in SUBSET Artifacts
      BY <2>1 DEF w
    <3>2. f \in BuildClientType
      BY <1>1, <3>1, Zenon DEF BuildClientType
    <3>3. f.pc = "fetch" /\ f.mode = x.mode /\ f.todo = w
      BY <1>1, <3>1 DEF BuildClientType
    <3>4. QED
      BY <3>2, <3>3 DEF w
  <2> HIDE DEF f
  <2>3. BuildClientSound(f, jsHanded[c], jsJob.status)
    BY <1>1, <1>4, <2>2 DEF BuildClientSound
  <2>4. QED
    BY <1>1, <1>4, <2>2, <2>3, OnlyMoves
<1>5. CASE BuildClient(c, t)
  <2>1. t \in BuildClientType
    BY <1>1, Zenon DEF BuildClientType
  <2>2. t.pc = "wait"
    BY <1>1 DEF BuildClientType
  <2> HIDE DEF t
  <2>3. BuildClientSound(t, jsHanded[c], jsJob.status)
    BY <1>1, <2>2 DEF BuildClientSound
  <2>4. QED
    BY <1>1, <1>5, <2>1, <2>3, OnlyMoves
<1>6. CASE jsC' = jsC
  <2>1. BuildClient(c, x) /\ BuildClientSound(x, jsHanded[c], jsJob.status)
    BY <1>6, StreamFacts DEF BuildClient
  <2>2. QED
    BY <1>1, <2>1, OnlyMoves
<1>7. QED
  BY <1>2, <1>3, <1>4, <1>5, <1>6

LEMMA DownloadKeeps ==
  ASSUME JSInv, NEW c \in BuildClients, NEW n \in Artifacts, Download(c, n)
  PROVE  JSInv'
<1> DEFINE x == jsC[c]  s == [x EXCEPT !.pc = "hand", !.at = n]
<1>1. UNCHANGED <<jsServer, jsR, jsCount, jsHanded>> /\ x.pc = "fetch" /\ x \in BuildClientType /\ n \in x.todo
      /\ BuildClientSound(x, jsHanded[c], jsJob.status)
  BY StreamFacts DEF Download
<1>2. CASE ArtifactThere(x.mode, n)
  <2>1. BuildClient(c, s) /\ n \in BuiltNames
    BY <1>2 DEF Download, ArtifactThere
  <2>2. s \in BuildClientType /\ s.pc = "hand" /\ s.at = n /\ s.mode = x.mode /\ s.todo = x.todo
    BY <1>1 DEF BuildClientType
  <2> HIDE DEF s
  <2>3. BuildClientSound(s, jsHanded[c], jsJob.status)
    BY <1>1, <2>1, <2>2 DEF BuildClientSound
  <2>4. QED
    BY <1>1, <2>1, <2>2, <2>3, OnlyMoves
<1>3. CASE ~ArtifactThere(x.mode, n)
  <2>1. BuildClient(c, [x EXCEPT !.pc = "failed"])
    BY <1>3 DEF Download
  <2>2. QED
    BY <1>1, <2>1, GivesUp
<1>4. QED
  BY <1>2, <1>3

LEMMA HandOnKeeps ==
  ASSUME JSInv, NEW c \in BuildClients, HandOn(c)
  PROVE  JSInv'
<1> DEFINE x == jsC[c]  rest == x.todo \ {x.at}  p == IF rest = {} THEN "done" ELSE "fetch"
           s == [x EXCEPT !.todo = rest, !.pc = p]  h == jsHanded[c] \cup {x.at}
<1>1. /\ UNCHANGED <<jsServer, jsR, jsCount>> /\ x.pc = "hand" /\ x \in BuildClientType /\ BuildClient(c, s)
      /\ jsHanded' = [jsHanded EXCEPT ![c] = h] /\ jsHanded[c] \in SUBSET Artifacts
  BY StreamFacts DEF HandOn
<1>2. /\ jsJob.status \in {"success", "gone"} /\ jsHanded[c] \cup x.todo = Fetches(x.mode)
      /\ x.at \in x.todo /\ x.at \in BuiltNames /\ jsHanded[c] \subseteq BuiltNames
  BY <1>1, StreamFacts DEF BuildClientSound
<1>3. h \in SUBSET Artifacts /\ h \subseteq BuiltNames /\ h \cup rest = Fetches(x.mode)
  BY <1>1, <1>2 DEF Artifacts
<1>4. s \in BuildClientType /\ s.pc = p /\ s.mode = x.mode /\ s.todo = rest
  <2>1. rest \in SUBSET Artifacts /\ p \in {"done", "fetch"}
    BY <1>1 DEF BuildClientType
  <2> HIDE DEF rest, p
  <2>2. QED
    BY <1>1, <2>1 DEF BuildClientType
<1> HIDE DEF s, h
<1>5. BuildClientSound(s, h, jsJob.status)
  <2>1. CASE rest = {}
    BY <1>2, <1>3, <1>4, <2>1 DEF BuildClientSound
  <2>2. CASE rest # {}
    BY <1>2, <1>3, <1>4, <2>2 DEF BuildClientSound
  <2>3. QED
    BY <2>1, <2>2
<1>6. QED
  BY <1>1, <1>3, <1>4, <1>5, OneBuildClient

LEMMA StreamInvHolds ==
  ASSUME JSInv
  PROVE  StreamHolds
<1>1. StreamIsWhole
  <2> SUFFICES ASSUME NEW r \in LogReaders
               PROVE  /\ jsR[r].pc \in {"tail", "cut"} =>
                           IsPrefix(jsR[r].got, jsBuf.bytes) /\ (jsR[r].got # <<>> => Last(jsR[r].got) = "n")
                      /\ jsR[r].pc = "ended" => jsR[r].got = jsBuf.bytes
    BY DEF StreamIsWhole
  <2> DEFINE got == jsR[r].got  bytes == jsBuf.bytes
  <2>1. ReaderSound(jsR[r], jsBuf) /\ got \in Seq(Byte) /\ bytes \in Seq(Byte)
    BY StreamFacts DEF ReaderType, BufferType
  <2>2. ASSUME jsR[r].pc \in {"tail", "cut"} PROVE IsPrefix(got, bytes) /\ (got # <<>> => Last(got) = "n")
    <3>1. jsR[r].offset = Len(got) /\ Begins(got, bytes) /\ (Len(got) # 0 => got[Len(got)] = "n")
      BY <2>1, <2>2 DEF ReaderSound
    <3> HIDE DEF got, bytes
    <3>2. Len(got) \in Nat /\ Len(bytes) \in Nat /\ SubSeq(got, 1, Len(got)) = got /\ (got # <<>> => Len(got) # 0)
      BY <2>1, LenProperties, SubSeqFull, EmptySeq
    <3>3. SubSeq(bytes, 1, Len(got)) = got
      <4> DEFINE n == Len(got)  b == SubSeq(bytes, 1, n)
      <4>1. n \in Nat /\ n <= Len(bytes) /\ \A i \in 1 .. n : bytes[i] \in Byte
        BY <2>1, <3>1, <3>2, ElementOfSeq DEF Begins
      <4> HIDE DEF n
      <4>2. b \in Seq(Byte) /\ Len(b) = (IF 1 <= n THEN n - 1 + 1 ELSE 0) /\ \A i \in 1 .. n - 1 + 1 : b[i] = bytes[1 + i - 1]
        BY <4>1, SubSeqProperties
      <4>3. Len(b) = n /\ \A i \in 1 .. n : b[i] = bytes[i]
        <5>1. \A i \in 1 .. n : i \in 1 .. n - 1 + 1 /\ 1 + i - 1 = i
          BY <4>1
        <5>2. QED
          BY <4>1, <4>2, <5>1
      <4>4. \A i \in 1 .. n : b[i] = got[i]
        BY <3>1, <4>3 DEF Begins, n
      <4> HIDE DEF b
      <4>5. b = got
        BY <2>1, <4>2, <4>3, <4>4, SeqEqual DEF n
      <4>6. QED
        BY <4>5 DEF b, n
    <3>4. QED
      BY <3>1, <3>2, <3>3 DEF IsPrefix, Last, Begins
  <2>3. jsR[r].pc = "ended" => got = bytes
    BY <2>1 DEF ReaderSound
  <2>4. QED
    BY <2>2, <2>3
<1>2. LogWithinCap
  <2>1. jsBuf \in BufferType /\ BufferSound(jsBuf)
    BY StreamFacts
  <2>2. Len(jsBuf.bytes) \in Nat /\ DOMAIN jsBuf.bytes = 1..Len(jsBuf.bytes)
    BY <2>1, LenProperties DEF BufferType
  <2>3. CASE jsBuf.truncated
    <3>1. /\ Len(jsBuf.bytes) <= LogCap
          /\ SubSeq(jsBuf.bytes, Len(jsBuf.bytes) - MarkerLen + 1, Len(jsBuf.bytes)) = Marker
      BY <2>1, <2>3 DEF BufferSound
    <3>2. QED
      BY <2>3, <3>1, Zenon DEF LogWithinCap
  <2>4. CASE ~jsBuf.truncated
    <3>1. Len(jsBuf.bytes) + MarkerLen <= LogCap /\ \A i \in DOMAIN jsBuf.bytes : jsBuf.bytes[i] # "m"
      BY <2>1, <2>2, <2>4 DEF BufferSound
    <3>2. Len(jsBuf.bytes) <= LogCap
      BY <2>2, <3>1, JobStreamAssumption
    <3>3. QED
      BY <2>4, <3>1, <3>2, Zenon DEF LogWithinCap
  <2>5. QED
    BY <2>3, <2>4
<1>3. ReadersAreCounted
  BY StreamFacts
<1>4. HandedWasBuilt
  BY StreamFacts DEF HandedWasBuilt, BuildClientSound
<1>5. QED
  BY <1>1, <1>2, <1>3, <1>4 DEF StreamHolds

LEMMA StreamInit == JSInit => JSInv
<1> SUFFICES ASSUME JSInit PROVE JSInv
  OBVIOUS
<1>1. <<>> \in Seq(Byte) /\ Len(<<>>) = 0
  BY EmptySeq
<1>2. ReaderIdle \in ReaderType /\ ReaderIdle.pc = "idle" /\ ReaderIdle.got = <<>> /\ ReaderIdle.offset = 0
  BY <1>1 DEF ReaderIdle, ReaderType
<1>3. ClientStart \in BuildClientType /\ ClientStart.pc = "idle"
  BY DEF ClientStart, BuildClientType
<1>4. jsBuf \in BufferType /\ jsBuf.bytes = <<>> /\ jsBuf.truncated = FALSE
  BY <1>1 DEF JSInit, BufferType
<1>5. JSTyped
  BY <1>1, <1>2, <1>3, <1>4 DEF JSInit, JSTyped, JobType
<1>6. BufferSound(jsBuf)
  BY <1>1, <1>4, JobStreamAssumption DEF BufferSound
<1>7. ReadersAreCounted
  <2>1. {r \in LogReaders : jsR[r].pc \in {"open", "tail"}} = {}
    BY <1>2 DEF JSInit
  <2>2. jsCount = 0 /\ Cardinality({}) = 0
    BY FS_EmptySet DEF JSInit
  <2>3. QED
    BY <2>1, <2>2, JobStreamAssumption DEF ReadersAreCounted
<1>8. \A r \in LogReaders : ReaderSound(jsR[r], jsBuf)
  BY <1>2 DEF JSInit, ReaderSound
<1>9. \A c \in BuildClients : BuildClientSound(jsC[c], jsHanded[c], jsJob.status)
  BY <1>3 DEF JSInit, BuildClientSound
<1>10. QED
  BY <1>5, <1>6, <1>7, <1>8, <1>9 DEF JSInv

\* A job's clients, for any number of readers and clients, any cap of the log with room for its
\* marker and any limit of readers: a live stream has every byte once and in order, cut at line
\* ends until it ends with the whole log; the log stays within its cap with the marker last; the
\* readers are counted exactly; and only what a successful job built is handed on, all of it
\* where a client reports success.
THEOREM StreamCorrect == JSSpec => []StreamHolds
<1>1. JSInit => JSInv
  BY StreamInit
<1>2. JSInv /\ [JSNext]_jsVars => JSInv'
  <2> SUFFICES ASSUME JSInv, [JSNext]_jsVars PROVE JSInv'
    OBVIOUS
  <2>1. CASE StartJob \/ FinalizeLog \/ EvictJob \/ \E s \in Terminal : EndJob(s)
    BY <2>1, JobStepsKeep
  <2>2. ASSUME NEW p \in {<<"c">>, <<"n">>, <<"c", "n", "c">>}, WriteLog(p) PROVE JSInv'
    BY <2>2, WriteLogKeeps, Zenon
  <2>3. ASSUME NEW r \in LogReaders, ReadStatus(r) \/ CountReader(r) \/ OpenLog(r) \/ Emit(r) \/ Disconnect(r) PROVE JSInv'
    BY <2>3, ReadStatusKeeps, CountReaderKeeps, OpenLogKeeps, EmitKeeps, DisconnectKeeps
  <2>4. ASSUME NEW c \in BuildClients, NEW m \in ClientModes, SubmitBuild(c, m) PROVE JSInv'
    BY <2>4, SubmitBuildKeeps
  <2>5. ASSUME NEW c \in BuildClients, NEW n \in WantedNames \cup BuiltNames, Download(c, n) PROVE JSInv'
    BY <2>5, DownloadKeeps DEF Artifacts
  <2>6. ASSUME NEW c \in BuildClients, PollJob(c) PROVE JSInv'
    BY <2>6, PollJobKeeps
  <2>7. ASSUME NEW c \in BuildClients, WaitEnds(c) \/ TransferFails(c) PROVE JSInv'
    BY <2>7, GivesUp DEF WaitEnds, TransferFails
  <2>8. ASSUME NEW c \in BuildClients, SignAndUpload(c) \/ PlacePackage(c) PROVE JSInv'
    BY <2>8, HandOnKeeps DEF SignAndUpload, PlacePackage
  <2>9. CASE UNCHANGED jsVars
    BY <2>9 DEF jsVars, JSInv, JSTyped, ReadersAreCounted
  <2>10. QED
    BY <2>1, <2>2, <2>3, <2>4, <2>5, <2>6, <2>7, <2>8, <2>9, Zenon DEF JSNext
<1>3. JSInv => StreamHolds
  BY StreamInvHolds
<1>4. QED
  BY <1>1, <1>2, <1>3, PTL DEF JSSpec

(***************************************************************************)
(* The upload routes                                                       *)
(***************************************************************************)
SentPackage == [file : Nat, size : Nat, trait : STRING]
SentSignature == [of : Nat, size : Nat, good : BOOLEAN]

\* No file has no size.
LEMMA SizesOfNone == SizesOf(<<>>) = 0
PROOF
<1> DEFINE Body(g) == [s \in SUBSET {} |-> IF s = {} THEN 0
                                           ELSE LET x == CHOOSE y \in s : TRUE IN g[s \ {x}] + << >>[x].size]
           iter == CHOOSE g : g = Body(g)
           w == [s \in SUBSET {} |-> 0]
<1>1. DOMAIN << >> = {}
  OBVIOUS
<1>2. SizesOf(<<>>) = iter[{}]
  BY <1>1 DEF SizesOf, FoldSeq, FoldFunction, FoldFunctionOnSet, MapThenFoldSet
<1>3. w = Body(w)
  OBVIOUS
<1>4. iter = Body(iter)
  BY <1>3
<1> HIDE DEF iter
<1>5. iter[{}] = 0
  BY <1>4
<1> QED BY <1>2, <1>5

\* The same of one file.
LEMMA SizesOfOne ==
  ASSUME NEW f, f.size \in Nat
  PROVE  SizesOf(<<f>>) = f.size
PROOF
<1> DEFINE Body(g) == [s \in SUBSET {1} |-> IF s = {} THEN 0
                                            ELSE LET x == CHOOSE y \in s : TRUE IN g[s \ {x}] + <<f>>[x].size]
           iter == CHOOSE g : g = Body(g)
           w == [s \in SUBSET {1} |-> IF s = {} THEN 0 ELSE f.size]
<1>1. DOMAIN <<f>> = {1} /\ <<f>>[1] = f
  OBVIOUS
<1>2. SizesOf(<<f>>) = iter[{1}]
  BY <1>1 DEF SizesOf, FoldSeq, FoldFunction, FoldFunctionOnSet, MapThenFoldSet
<1>3. w = Body(w)
  <2>1. ASSUME NEW s \in SUBSET {1} PROVE w[s] = Body(w)[s]
    <3>1. CASE s = {}
      BY <3>1
    <3>2. CASE s # {}
      <4>1. s = {1}
        BY <3>2
      <4>2. (CHOOSE y \in s : TRUE) = 1 /\ s \ {1} = {}
        BY <4>1
      <4> QED BY <1>1, <4>1, <4>2
    <3> QED BY <3>1, <3>2
  <2> QED BY <2>1
<1>4. iter = Body(iter)
  BY <1>3
<1> HIDE DEF iter
<1>5. (CHOOSE y \in {1} : TRUE) = 1 /\ {1} \ {1} = {} /\ {1} # {} /\ {} \in SUBSET {1} /\ {1} \in SUBSET {1}
  OBVIOUS
<1>6. iter[{}] = 0
  BY <1>4
<1>7. iter[{1}] = iter[{1} \ {1}] + <<f>>[1].size
  BY <1>4, <1>5
<1> QED BY <1>1, <1>2, <1>5, <1>6, <1>7

\* One package, with its signature or without: what all three routes hand to UploadFiles.
OnePackage(s, form, p, sig) ==
  /\ s \in UploadSettings /\ form \in UploadForms /\ Roomy(s)
  /\ p \in SentPackage /\ form.pkgs = <<p>>
  /\ \/ form.sigs = <<>> /\ sig = {}
     \/ \E g \in SentSignature : form.sigs = <<g>> /\ sig = {g} /\ g.of = p.file /\ g.of # 0

OnePair(p, sig) == <<[p |-> p, sig |-> sig]>>

\* The signature of the package is the one sent.
LEMMA OneSignature ==
  ASSUME NEW s, NEW form, NEW p, NEW sig, OnePackage(s, form, p, sig)
  PROVE  /\ SignatureOf(form, p) = sig /\ FormFile(form.sigs) = sig /\ ToSet(form.sigs) = sig
         /\ ToSet(form.pkgs) = {p} /\ BatchPairs(form) = OnePair(p, sig)
         /\ \A g \in sig : g \in SentSignature /\ g.of = p.file /\ g.of # 0
         /\ Len(form.sigs) <= 1 /\ (form.sigs = <<>> <=> sig = {})
PROOF
<1>1. ToSet(form.pkgs) = {p} /\ DOMAIN form.pkgs = {1} /\ form.pkgs[1] = p
  BY DEF OnePackage, ToSet
<1>2. /\ SignatureOf(form, p) = sig /\ FormFile(form.sigs) = sig /\ ToSet(form.sigs) = sig
      /\ \A g \in sig : g \in SentSignature /\ g.of = p.file /\ g.of # 0
      /\ Len(form.sigs) <= 1 /\ (form.sigs = <<>> <=> sig = {})
  <2>1. CASE form.sigs = <<>> /\ sig = {}
    BY <2>1 DEF ToSet, SignatureOf, FormFile
  <2>2. CASE \E g \in SentSignature : form.sigs = <<g>> /\ sig = {g} /\ g.of = p.file /\ g.of # 0
    <3>1. PICK g \in SentSignature : form.sigs = <<g>> /\ sig = {g} /\ g.of = p.file /\ g.of # 0
      BY <2>2
    <3>2. ToSet(form.sigs) = {g} /\ Head(form.sigs) = g /\ form.sigs # <<>> /\ Len(form.sigs) = 1
      BY <3>1 DEF ToSet
    <3> QED BY <3>1, <3>2 DEF SignatureOf, FormFile
  <2> QED BY <2>1, <2>2 DEF OnePackage
<1>3. BatchPairs(form) = OnePair(p, sig)
  <2>1. BatchPairs(form) = [i \in {1} |-> [p |-> p, sig |-> sig]]
    BY <1>1, <1>2 DEF BatchPairs
  <2> QED BY <2>1 DEF OnePair
<1> QED BY <1>1, <1>2, <1>3

\* What is sent with one package, all together.
LEMMA OneSize ==
  ASSUME NEW s, NEW form, NEW p, NEW sig, OnePackage(s, form, p, sig),
         p.size <= PackageBytes(s.maxSize), \A g \in sig : g.size <= MaxSignatureBytes
  PROVE  /\ FormFits(form, MultipartBytes(s.maxSize))
         /\ SizesOf(form.pkgs) + SizesOf(form.sigs) <= BatchBytes(s.maxBatch, s.maxSize)
         /\ FormFits(form, BatchBytes(s.maxBatch, s.maxSize) + OverheadBytes)
PROOF
<1> DEFINE P == PackageBytes(s.maxSize)
           B == BatchBytes(s.maxBatch, s.maxSize)
<1>1. /\ s.maxSize \in Nat /\ s.maxBatch \in Nat /\ P \in Nat /\ p.size \in Nat /\ MaxSignatureBytes \in Nat
      /\ OverheadBytes \in Nat /\ OverheadBytes > 0 /\ DefaultBatchBytes \in Nat
  BY DoorAssumption DEF OnePackage, PackageBytes, SentPackage
<1>2. SizesOf(form.pkgs) = p.size
  BY <1>1, SizesOfOne DEF OnePackage
<1>3. SizesOf(form.sigs) \in Nat /\ SizesOf(form.sigs) <= MaxSignatureBytes
  <2>1. CASE form.sigs = <<>>
    BY <1>1, <2>1, SizesOfNone
  <2>2. CASE \E g \in SentSignature : form.sigs = <<g>> /\ sig = {g}
    <3>1. PICK g \in SentSignature : form.sigs = <<g>> /\ sig = {g}
      BY <2>2
    <3>2. g.size \in Nat /\ g.size <= MaxSignatureBytes
      BY <3>1 DEF SentSignature
    <3> QED BY <3>1, <3>2, SizesOfOne
  <2> QED BY <2>1, <2>2 DEF OnePackage
<1>4. B \in Nat /\ B >= P + MaxSignatureBytes
  <2>1. CASE s.maxBatch > 0
    <3>1. s.maxBatch >= P + MaxSignatureBytes
      BY <1>1, <2>1 DEF OnePackage, Roomy
    <3> QED BY <1>1, <2>1, <3>1 DEF BatchBytes
  <2>2. CASE ~(s.maxBatch > 0)
    <3> DEFINE two == {P + MaxSignatureBytes, DefaultBatchBytes}
    <3>1. \E x \in two : \A y \in two : x >= y
      BY <1>1
    <3>2. Max(two) \in two /\ \A y \in two : Max(two) >= y
      BY <3>1 DEF Max
    <3>3. B = Max(two)
      BY <2>2 DEF BatchBytes
    <3>4. B \in Nat
      BY <1>1, <3>2, <3>3
    <3> QED BY <1>1, <3>2, <3>3, <3>4
  <2> QED BY <2>1, <2>2
<1> HIDE DEF P, B
<1>5. p.size <= P
  BY DEF P
<1>6. /\ p.size + SizesOf(form.sigs) <= B
      /\ p.size + SizesOf(form.sigs) + 1 <= B + OverheadBytes
      /\ p.size + SizesOf(form.sigs) + 1 <= P + MaxSignatureBytes + OverheadBytes
  BY <1>1, <1>3, <1>4, <1>5
<1> QED BY <1>2, <1>6 DEF FormFits, MultipartBytes, P, B

\* The batch route, for one package: its limits do not bind.
LEMMA BatchOfOne ==
  ASSUME NEW s, NEW form, NEW p, NEW sig, OnePackage(s, form, p, sig)
  PROVE  BatchUpload(s, form) =
           IF p.file # 0 /\ validateUploadFile(p, s.maxSize) /\ \A g \in sig : validSignatureSize(g)
           THEN UploadFiles(s, OnePair(p, sig)) ELSE {}
PROOF
<1>1. /\ ToSet(form.sigs) = sig /\ ToSet(form.pkgs) = {p} /\ BatchPairs(form) = OnePair(p, sig)
      /\ \A g \in sig : g \in SentSignature /\ g.of = p.file /\ g.of # 0
  BY OneSignature
<1>2. /\ form.pkgs = <<p>> /\ form.pkgs # <<>> /\ Len(form.pkgs) = 1 /\ DOMAIN form.pkgs = {1} /\ form.pkgs[1] = p
      /\ BatchPackages(s.maxPackages) > 1 /\ s.maxPackages \in Nat
  BY DoorAssumption DEF OnePackage, Roomy
<1>3. BatchPackages(s.maxPackages) \in Nat
  BY <1>2, DoorAssumption DEF BatchPackages
<1>4. Len(form.pkgs) <= BatchPackages(s.maxPackages) /\ Len(form.sigs) <= Len(form.pkgs)
  <2>1. Len(form.sigs) <= 1
    BY OneSignature
  <2>2. 1 <= BatchPackages(s.maxPackages)
    BY <1>2, <1>3
  <2> QED BY <1>2, <2>1, <2>2
<1>5. DOMAIN form.sigs \subseteq {1} /\ \A i \in DOMAIN form.sigs : form.sigs[i] \in sig
  BY DEF OnePackage
<1>6. \A g \in sig : \E i \in DOMAIN form.sigs : form.sigs[i] = g
  BY DEF OnePackage
<1>7. BatchSignatures(form) <=> \A g \in sig : validSignatureSize(g)
  <2>1. IsInjective([i \in DOMAIN form.sigs |-> form.sigs[i].of])
    BY <1>5 DEF IsInjective
  <2> QED BY <1>1, <1>5, <1>6, <2>1 DEF BatchSignatures
<1>8. BatchPackageNames(form) <=> p.file # 0
  <2>1. IsInjective([i \in DOMAIN form.pkgs |-> form.pkgs[i].file])
    BY <1>2 DEF IsInjective
  <2>2. \A g \in ToSet(form.sigs) : \E q \in ToSet(form.pkgs) : q.file = g.of
    BY <1>1
  <2> QED BY <1>2, <2>1, <2>2 DEF BatchPackageNames
<1>9. (\A q \in ToSet(form.pkgs) : validateUploadFile(q, s.maxSize)) <=> validateUploadFile(p, s.maxSize)
  BY <1>1
<1>10. CASE validateUploadFile(p, s.maxSize) /\ \A g \in sig : validSignatureSize(g)
  <2>1. p.size <= PackageBytes(s.maxSize) /\ \A g \in sig : g.size <= MaxSignatureBytes
    <3>1. p.size \in Nat /\ PackageBytes(s.maxSize) \in Nat
      BY DoorAssumption DEF OnePackage, SentPackage, PackageBytes
    <3> QED BY <1>10, <3>1 DEF validateUploadFile, Exceeds, validSignatureSize
  <2>2. /\ FormFits(form, BatchBytes(s.maxBatch, s.maxSize) + OverheadBytes)
        /\ SizesOf(form.pkgs) + SizesOf(form.sigs) <= BatchBytes(s.maxBatch, s.maxSize)
    BY <2>1, OneSize
  <2> QED BY <1>1, <1>2, <1>4, <1>7, <1>8, <1>9, <1>10, <2>2 DEF BatchUpload
<1>11. CASE ~(validateUploadFile(p, s.maxSize) /\ \A g \in sig : validSignatureSize(g))
  BY <1>7, <1>9, <1>11 DEF BatchUpload
<1> QED BY <1>10, <1>11

\* The blinky form, for one package.
LEMMA BlinkyOfOne ==
  ASSUME NEW s, NEW form, NEW p, NEW sig, OnePackage(s, form, p, sig)
  PROVE  BlinkyUpload(s, form) =
           IF /\ sig = {} => ~s.requireSign
              /\ validateUploadFile(p, s.maxSize) /\ \A g \in sig : validSignatureSize(g)
           THEN UploadFiles(s, OnePair(p, sig)) ELSE {}
PROOF
<1>1. FormFile(form.sigs) = sig /\ form.pkgs # <<>> /\ form.pkgs[1] = p /\ (form.sigs = <<>> <=> sig = {})
  <2>1. FormFile(form.sigs) = sig
    BY OneSignature
  <2>2. form.sigs = <<>> <=> sig = {}
    BY OneSignature
  <2> QED BY <2>1, <2>2 DEF OnePackage
<1>2. CASE validateUploadFile(p, s.maxSize) /\ \A g \in sig : validSignatureSize(g)
  <2>1. p.size <= PackageBytes(s.maxSize) /\ \A g \in sig : g.size <= MaxSignatureBytes
    <3>1. p.size \in Nat /\ PackageBytes(s.maxSize) \in Nat
      BY DoorAssumption DEF OnePackage, SentPackage, PackageBytes
    <3> QED BY <1>2, <3>1 DEF validateUploadFile, Exceeds, validSignatureSize
  <2>2. FormFits(form, MultipartBytes(s.maxSize))
    BY <2>1, OneSize
  <2> QED BY <1>1, <1>2, <2>2 DEF BlinkyUpload, OnePair
<1>3. CASE ~(validateUploadFile(p, s.maxSize) /\ \A g \in sig : validSignatureSize(g))
  BY <1>1, <1>3 DEF BlinkyUpload
<1> QED BY <1>2, <1>3

\* The staged route, for one package.
LEMMA StagedOfOne ==
  ASSUME NEW s, NEW form, NEW p, NEW sig, OnePackage(s, form, p, sig)
  PROVE  UNION {StagedUploadOf(s, q, SignatureOf(form, q)) : q \in ToSet(ClientPackages(form))} =
           IF p.file # 0 /\ validateUploadFile(p, s.maxSize) /\ \A g \in sig : validSignatureSize(g)
           THEN UploadFiles(s, OnePair(p, sig)) ELSE {}
PROOF
<1>1. /\ SignatureOf(form, p) = sig /\ ToSet(form.sigs) = sig /\ ToSet(form.pkgs) = {p}
      /\ \A g \in sig : g \in SentSignature /\ g.of = p.file /\ g.of # 0
  BY OneSignature
<1>2. ToSet(ClientPackages(form)) = {p}
  BY <1>1 DEF ClientPackages
<1>3. UNION {StagedUploadOf(s, q, SignatureOf(form, q)) : q \in ToSet(ClientPackages(form))} = StagedUploadOf(s, p, sig)
  BY <1>1, <1>2
<1>4. 1 + Cardinality(sig) <= BatchPackages(s.maxPackages)
  <2>1. Cardinality(sig) \in {0, 1}
    BY FS_EmptySet, FS_Singleton DEF OnePackage
  <2>2. BatchPackages(s.maxPackages) \in Nat /\ BatchPackages(s.maxPackages) > 1
    BY DoorAssumption DEF OnePackage, Roomy, BatchPackages
  <2> QED BY <2>1, <2>2
<1>5. Presignable(s, p.file, p, FALSE) <=> p.file # 0 /\ validateUploadFile(p, s.maxSize)
  <2>1. p.size \in Nat /\ PackageBytes(s.maxSize) \in Nat
    BY DoorAssumption DEF OnePackage, SentPackage, PackageBytes
  <2> QED BY <2>1 DEF Presignable, checkStagedSize, validateUploadFile, Exceeds
<1>6. \A g \in sig : Presignable(s, g.of, g, TRUE) <=> validSignatureSize(g)
  BY <1>1 DEF Presignable, checkStagedSize, validSignatureSize
<1> QED BY <1>3, <1>4, <1>5, <1>6 DEF StagedUploadOf, OnePair

\* The service takes one valid package, and none without a name.
LEMMA UploadOfOne ==
  ASSUME NEW s, NEW p, NEW sig, UploadFiles(s, OnePair(p, sig)) # {}
  PROVE  p.file # 0 /\ (sig = {} => ~s.requireSign)
PROOF
<1> DEFINE pair == OnePair(p, sig)
<1>1. DOMAIN pair = {1} /\ pair[1].p = p /\ pair[1].sig = sig
  BY DEF OnePair
<1>2. \A i \in DOMAIN pair : validate(s, pair[i].p, pair[i].sig)
  BY DEF UploadFiles
<1>3. validate(s, p, sig)
  BY <1>1, <1>2
<1> QED BY <1>3 DEF validate, validatedPackageFilename, verifySignature

\* The three routes publish the same of one package.
LEMMA OneAgrees ==
  ASSUME NEW s, NEW form, NEW p, NEW sig, OnePackage(s, form, p, sig)
  PROVE  LET staged == UNION {StagedUploadOf(s, q, SignatureOf(form, q)) : q \in ToSet(ClientPackages(form))}
         IN BatchUpload(s, form) = staged /\ BlinkyUpload(s, form) = staged
PROOF
<1> DEFINE staged == UNION {StagedUploadOf(s, q, SignatureOf(form, q)) : q \in ToSet(ClientPackages(form))}
           up == UploadFiles(s, OnePair(p, sig))
           fine == validateUploadFile(p, s.maxSize) /\ \A g \in sig : validSignatureSize(g)
<1>1. BatchUpload(s, form) = (IF p.file # 0 /\ fine THEN up ELSE {})
  BY BatchOfOne
<1>2. staged = (IF p.file # 0 /\ fine THEN up ELSE {})
  BY StagedOfOne
<1>3. BlinkyUpload(s, form) = (IF (sig = {} => ~s.requireSign) /\ fine THEN up ELSE {})
  BY BlinkyOfOne
<1>4. up # {} => p.file # 0 /\ (sig = {} => ~s.requireSign)
  BY UploadOfOne
<1> HIDE DEF staged, up, fine
<1>5. BatchUpload(s, form) = staged /\ BlinkyUpload(s, form) = staged
  BY <1>1, <1>2, <1>3, <1>4
<1> QED BY <1>5 DEF staged

\* A sequence without repetitions has as many members as it is long.
LEMMA DistinctCount ==
  ASSUME NEW f, NEW n \in Nat, DOMAIN f = 1..n, \A i, j \in 1..n : f[i] = f[j] => i = j
  PROVE  Cardinality(ToSet(f)) = n
PROOF
<1> DEFINE T == ToSet(f)
           h == [i \in 1..n |-> f[i]]
<1>1. T = {f[i] : i \in 1..n}
  BY DEF ToSet
<1>2. h \in [1..n -> T] /\ \A t \in T : \E i \in 1..n : h[i] = t
  BY <1>1
<1>3. \A i, j \in 1..n : h[i] = h[j] => i = j
  OBVIOUS
<1> HIDE DEF h, T
<1>4. h \in Surjection(1..n, T)
  BY <1>2 DEF Surjection
<1>5. h \in Injection(1..n, T)
  BY <1>2, <1>3 DEF Injection, IsInjective
<1>6. Cardinality(T) = n
  <2>1. ExistsBijection(1..n, T)
    BY <1>4, <1>5 DEF ExistsBijection, Bijection
  <2> QED BY <2>1, FS_CountingElements
<1> QED BY <1>6 DEF T

\* A batch is published as a whole.
LEMMA BatchWhole ==
  ASSUME NEW s \in UploadSettings, NEW form \in UploadForms, BatchUpload(s, form) # {}
  PROVE  LET batch == BatchUpload(s, form)
         IN /\ {u.p : u \in batch} = ToSet(form.pkgs)
            /\ Cardinality(batch) = Len(form.pkgs)
            /\ UNION {u.sig : u \in batch} = ToSet(form.sigs)
            /\ \A u \in batch : s.requireSign => \E g \in u.sig : g.good /\ g.of = u.p.file
PROOF
<1> DEFINE batch == BatchUpload(s, form)
           pairs == BatchPairs(form)
           n == Len(form.pkgs)
<1>1. form.pkgs \in Seq(SentPackage) /\ form.sigs \in Seq(SentSignature)
  BY DoorAssumption DEF SentPackage, SentSignature
<1>2. n \in Nat /\ DOMAIN form.pkgs = 1..n
  BY <1>1, LenProperties
<1>3. BatchPackageNames(form) /\ batch = UploadFiles(s, pairs)
  BY DEF BatchUpload
<1>4. batch = ToSet(pairs) /\ \A i \in DOMAIN pairs : validate(s, pairs[i].p, pairs[i].sig)
  BY <1>3 DEF UploadFiles
<1>5. /\ DOMAIN pairs = 1..n
      /\ \A i \in 1..n : pairs[i].p = form.pkgs[i] /\ pairs[i].sig = SignatureOf(form, form.pkgs[i])
  BY <1>2 DEF BatchPairs
<1>6. \A i, j \in 1..n : form.pkgs[i].file = form.pkgs[j].file => i = j
  BY <1>2, <1>3 DEF BatchPackageNames, IsInjective
<1> HIDE DEF batch, pairs, n
<1>7. batch = {pairs[i] : i \in 1..n} /\ ToSet(form.pkgs) = {form.pkgs[i] : i \in 1..n}
  BY <1>2, <1>4, <1>5 DEF ToSet
<1>8. {u.p : u \in batch} = ToSet(form.pkgs)
  <2>1. ASSUME NEW x \in {u.p : u \in batch} PROVE x \in ToSet(form.pkgs)
    <3>1. PICK i \in 1..n : x = pairs[i].p
      BY <1>7
    <3> QED BY <1>5, <1>7, <3>1
  <2>2. ASSUME NEW x \in ToSet(form.pkgs) PROVE x \in {u.p : u \in batch}
    <3>1. PICK i \in 1..n : x = form.pkgs[i]
      BY <1>7
    <3>2. pairs[i] \in batch /\ pairs[i].p = x
      BY <1>5, <1>7, <3>1
    <3> QED BY <3>2
  <2> QED BY <2>1, <2>2
<1>9. Cardinality(batch) = n
  <2>1. \A i, j \in 1..n : pairs[i] = pairs[j] => i = j
    BY <1>5, <1>6
  <2> QED BY <1>2, <1>4, <1>5, <2>1, DistinctCount
<1>10. UNION {u.sig : u \in batch} = ToSet(form.sigs)
  <2>1. ASSUME NEW g \in UNION {u.sig : u \in batch} PROVE g \in ToSet(form.sigs)
    <3>1. PICK u \in batch : g \in u.sig
      OBVIOUS
    <3>2. PICK i \in 1..n : u = pairs[i]
      BY <1>7
    <3>3. g \in SignatureOf(form, form.pkgs[i])
      BY <1>5, <3>1, <3>2
    <3> QED BY <3>3 DEF SignatureOf
  <2>2. ASSUME NEW g \in ToSet(form.sigs) PROVE g \in UNION {u.sig : u \in batch}
    <3>1. PICK p \in ToSet(form.pkgs) : p.file = g.of
      BY <1>3 DEF BatchPackageNames
    <3>2. PICK i \in 1..n : p = form.pkgs[i]
      BY <1>7
    <3>3. g \in SignatureOf(form, p)
      BY <3>1 DEF SignatureOf
    <3>4. g \in pairs[i].sig /\ pairs[i] \in batch
      BY <1>5, <1>7, <3>2, <3>3
    <3> QED BY <3>4
  <2> QED BY <2>1, <2>2
<1>11. ASSUME NEW u \in batch, s.requireSign PROVE \E g \in u.sig : g.good /\ g.of = u.p.file
  <2>1. PICK i \in 1..n : u = pairs[i]
    BY <1>7
  <2>2. verifySignature(s, u.p, u.sig)
    BY <1>4, <1>5, <2>1 DEF validate
  <2> QED BY <1>11, <2>2 DEF verifySignature
<1> QED BY <1>8, <1>9, <1>10, <1>11 DEF batch, n

\* What the checked case is: nothing yet, or what each route published of a form.
DoorRecord(c) ==
  \/ c = [kind |-> "none"]
  \/ \E s \in UploadSettings, form \in UploadForms :
       c = [kind |-> "upload", s |-> s, form |-> form,
            blinky |-> BlinkyUpload(s, form), batch |-> BatchUpload(s, form),
            staged |-> UNION {StagedUploadOf(s, p, SignatureOf(form, p)) : p \in ToSet(ClientPackages(form))}]

\* Such a case has both properties.
LEMMA RecordHolds == ASSUME DoorRecord(doorCase) PROVE DoorsHold
PROOF
<1>1. CASE doorCase = [kind |-> "none"]
  BY <1>1 DEF DoorsHold, DoorsAgree, BatchIsWhole
<1>2. ASSUME NEW s \in UploadSettings, NEW form \in UploadForms,
             doorCase = [kind |-> "upload", s |-> s, form |-> form,
                         blinky |-> BlinkyUpload(s, form), batch |-> BatchUpload(s, form),
                         staged |-> UNION {StagedUploadOf(s, p, SignatureOf(form, p)) :
                                             p \in ToSet(ClientPackages(form))}]
      PROVE  DoorsHold
  <2> DEFINE staged == UNION {StagedUploadOf(s, p, SignatureOf(form, p)) : p \in ToSet(ClientPackages(form))}
  <2>1. /\ doorCase.kind = "upload" /\ doorCase.s = s /\ doorCase.form = form /\ doorCase.staged = staged
        /\ doorCase.blinky = BlinkyUpload(s, form) /\ doorCase.batch = BatchUpload(s, form)
    BY <1>2
  <2>2. BatchIsWhole
    <3>1. CASE BatchUpload(s, form) = {}
      BY <2>1, <3>1 DEF BatchIsWhole
    <3>2. CASE BatchUpload(s, form) # {}
      <4> DEFINE batch == BatchUpload(s, form)
      <4>1. /\ {u.p : u \in batch} = ToSet(form.pkgs)
            /\ Cardinality(batch) = Len(form.pkgs)
            /\ UNION {u.sig : u \in batch} = ToSet(form.sigs)
            /\ \A u \in batch : s.requireSign => \E g \in u.sig : g.good /\ g.of = u.p.file
        BY <3>2, BatchWhole
      <4>2. doorCase.batch = batch
        BY <2>1
      <4> HIDE DEF batch
      <4> QED BY <2>1, <4>1, <4>2 DEF BatchIsWhole
    <3> QED BY <3>1, <3>2
  <2>3. DoorsAgree
    <3>1. ASSUME Roomy(s), Len(form.pkgs) = 1, Len(form.sigs) <= 1,
                 \A g \in ToSet(form.sigs) : g.of # 0 /\ g.of = form.pkgs[1].file
          PROVE  BatchUpload(s, form) = staged /\ BlinkyUpload(s, form) = staged
      <4>1. form.pkgs \in Seq(SentPackage) /\ form.sigs \in Seq(SentSignature)
        BY DoorAssumption DEF SentPackage, SentSignature
      <4>2. PICK p \in SentPackage : form.pkgs = <<p>>
        BY <3>1, <4>1
      <4>3. Len(form.sigs) = 0 \/ Len(form.sigs) = 1
        BY <3>1, <4>1, LenProperties
      <4>4. CASE Len(form.sigs) = 0
        <5>1. form.sigs = <<>>
          BY <4>1, <4>4, EmptySeq
        <5>2. OnePackage(s, form, p, {})
          BY <3>1, <4>2, <5>1 DEF OnePackage
        <5> QED BY <5>2, OneAgrees
      <4>5. CASE Len(form.sigs) = 1
        <5>1. PICK g \in SentSignature : form.sigs = <<g>>
          <6>1. form.sigs[1] \in SentSignature /\ form.sigs = <<form.sigs[1]>>
            BY <4>1, <4>5
          <6> QED BY <6>1
        <5>2. g \in ToSet(form.sigs) /\ form.pkgs[1] = p
          BY <4>2, <5>1 DEF ToSet
        <5>3. g.of = p.file /\ g.of # 0
          BY <3>1, <5>2
        <5>4. OnePackage(s, form, p, {g})
          BY <3>1, <4>2, <5>1, <5>3 DEF OnePackage
        <5> QED BY <5>4, OneAgrees
      <4> QED BY <4>3, <4>4, <4>5
    <3> QED BY <2>1, <3>1 DEF DoorsAgree
  <2> QED BY <2>2, <2>3 DEF DoorsHold
<1> QED BY <1>1, <1>2 DEF DoorRecord

\* For any limits, settings and forms: of one package, with its signature or without, the blinky form,
\* the batch and the staged route publish exactly the same where the batch limits have room for it, and
\* a batch of any length is published as a whole, every signature with its package, or not at all.
THEOREM DoorsCorrect == DoorSpec => []DoorsHold
PROOF
<1>1. DoorInit => DoorRecord(doorCase)
  BY DEF DoorInit, DoorRecord
<1>2. DoorRecord(doorCase) /\ [DoorNext]_doorCase => DoorRecord(doorCase)'
  BY DEF DoorNext, DoorCase, DoorRecord
<1>3. DoorRecord(doorCase) => DoorsHold
  BY RecordHolds
<1> QED BY <1>1, <1>2, <1>3, PTL DEF DoorSpec
=============================================================================
