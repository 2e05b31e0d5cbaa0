---------------------------- MODULE StoresProofs ----------------------------
(***************************************************************************)
(* Theorems about ayato's stores: the layout migration (Migration), for    *)
(* any number of jobs, paths, uploads and interruptions; the rate limiter  *)
(* (RateLimit) and the key-value stores (KVStore), for any number of       *)
(* replicas, callers, keys, windows and faults.                            *)
(***************************************************************************)
EXTENDS Migration, RateLimit, FiniteSetTheorems, TLAPS

(***************************************************************************)
(* Layout migration.                                                       *)
(***************************************************************************)
Hashes == PoolObjs \cup {NoHash}

JobType == [pc : {"idle", "copy", "delete", "mark", "layout", "done"}, phase : {"expand", "contract"},
            todo : SUBSET ((PoolPaths \X Hashes) \cup PoolObjs)]

MGTyped ==
  /\ mgPtr \in [PoolPaths -> Hashes] /\ mgDirect \in [PoolPaths -> Hashes] /\ mgLive \in [PoolPaths -> Hashes]
  /\ mgPool \subseteq PoolObjs
  /\ mgMeta \in [expanded : BOOLEAN, contracted : BOOLEAN, layout : {0, 1}]
  /\ mgServing \in {"pool", "direct"}
  /\ mgJ \in [MigrateJobs -> JobType]

\* Packages that no listing of an expand has missed.
InTime == ListedPaths \ mgLate

\* What a job knows at each of its places.
JobSound(job) ==
  /\ job.pc = "copy" =>
       /\ job.phase = "expand"
       /\ \A k \in InTime : /\ mgDirect[k] = mgLive[k] \/ <<k, mgLive[k]>> \in job.todo
                            /\ \A h \in Hashes : <<k, h>> \in job.todo => h = mgLive[k]
  /\ job.pc \in {"delete", "mark", "layout"} => job.phase = "contract" /\ mgServing = "direct"
  /\ job.pc = "delete" => mgPool \subseteq job.todo
  /\ job.pc \in {"mark", "layout"} => mgPool = {} /\ \A k \in PoolPaths : mgPtr[k] = NoHash
  /\ job.pc = "layout" => mgMeta.contracted

\* The expanded marker says that every package in time has its own bytes, only then
\* the binary that reads those is shipped, and only that one contracts.
MarkerIsTrue ==
  /\ mgMeta.expanded => \A k \in InTime : mgDirect[k] = mgLive[k]
  /\ mgServing = "direct" => mgMeta.expanded
  /\ mgMeta.layout = 1 => mgServing = "direct"

MGInv == MGTyped /\ StaysReadable /\ LayoutIsTrue /\ MarkerIsTrue /\ \A j \in MigrateJobs : JobSound(mgJ[j])

\* A job that stops knows nothing.
LEMMA JobIdleSound == JobIdle \in JobType /\ JobIdle.pc = "idle" /\ JobSound(JobIdle)
  BY DEF JobIdle, JobType, JobSound

\* A step of one job that leaves the layout alone: only that job's knowledge counts.
LEMMA OneJob ==
  ASSUME NEW j \in MigrateJobs, NEW r, MGInv, r \in JobType, JobSound(r), Job(j, r),
         UNCHANGED <<mgData, mgMeta, mgWorld>>
  PROVE  MGInv'
<1>1. mgJ' = [mgJ EXCEPT ![j] = r] /\ UNCHANGED <<mgPtr, mgPool, mgDirect, mgMeta, mgServing, mgLive, mgLate>>
  BY DEF Job, mgData, mgWorld
<1>2. MGTyped' /\ StaysReadable' /\ LayoutIsTrue' /\ MarkerIsTrue'
  BY <1>1 DEF MGInv, MGTyped, StaysReadable, LayoutIsTrue, MarkerIsTrue, Readable, InTime, ListedPaths
<1>3. InTime' = InTime
  BY <1>1 DEF InTime, ListedPaths
<1>4. \A i \in MigrateJobs : JobSound(mgJ[i])'
  BY <1>1, <1>3 DEF MGInv, MGTyped, JobSound
<1>5. QED
  BY <1>2, <1>4 DEF MGInv

\* The list of pointers.
LEMMA StartExpandStep == ASSUME MGInv, NEW j \in MigrateJobs, StartExpand(j) PROVE MGInv'
<1>t. MGTyped /\ StaysReadable /\ LayoutIsTrue /\ MarkerIsTrue /\ \A i \in MigrateJobs : JobSound(mgJ[i])
  BY DEF MGInv
<1>1. CASE mgMeta.expanded
  <2> DEFINE r == [JobIdle EXCEPT !.pc = "done"]
  <2>1. Job(j, r) /\ UNCHANGED <<mgData, mgMeta, mgWorld>>
    BY <1>1 DEF StartExpand, mgWorld
  <2>2. r \in JobType /\ JobSound(r)
    BY DEF JobType, JobIdle, JobSound
  <2>3. QED
    BY <2>1, <2>2, OneJob
<1>2. CASE ~mgMeta.expanded
  <2> DEFINE todo == {<<k, mgPtr[k]>> : k \in PoolPaths}
             r == [pc |-> "copy", phase |-> "expand", todo |-> todo]
  <2>1. /\ mgJ' = [mgJ EXCEPT ![j] = r] /\ mgLate' = (IF Copying THEN mgLate ELSE {})
        /\ UNCHANGED <<mgPtr, mgPool, mgDirect, mgMeta, mgServing, mgLive>>
    BY <1>2 DEF StartExpand, Job, mgData
  <2>2. todo \subseteq PoolPaths \X Hashes
    BY <1>t DEF MGTyped
  <2>3. mgServing = "pool"
    BY <1>t, <1>2 DEF MarkerIsTrue, MGTyped
  <2>4. \A k \in ListedPaths : mgPtr[k] = mgLive[k]
    BY <1>t, <2>3 DEF StaysReadable, Readable
  <2>5. \A k \in PoolPaths, h \in Hashes : <<k, h>> \in todo <=> h = mgPtr[k]
    BY <1>t DEF MGTyped
  <2>r. r \in JobType /\ r.pc = "copy" /\ r.phase = "expand" /\ r.todo = todo
    BY <2>2 DEF JobType
  <2> HIDE DEF todo, r
  <2>6. MGTyped'
    BY <1>t, <2>1, <2>r DEF MGTyped
  <2>7. ListedPaths' = ListedPaths /\ InTime' \subseteq ListedPaths /\ (Copying => InTime' = InTime)
    BY <2>1 DEF InTime, ListedPaths
  <2>8. StaysReadable' /\ LayoutIsTrue' /\ MarkerIsTrue'
    BY <1>t, <1>2, <2>1, <2>3, <2>7 DEF StaysReadable, LayoutIsTrue, MarkerIsTrue, Readable
  <2>11. mgJ'[j] = r
    BY <1>t, <2>1 DEF MGTyped
  <2>9. JobSound(mgJ[j])'
    <3>1. \A k \in InTime' : k \in PoolPaths /\ mgLive[k] \in Hashes /\ mgPtr[k] = mgLive[k]
      BY <1>t, <2>4, <2>7 DEF ListedPaths, MGTyped
    <3>2. QED
      BY <2>1, <2>5, <2>r, <2>11, <3>1 DEF JobSound
  <2>10. ASSUME NEW i \in MigrateJobs, i # j PROVE JobSound(mgJ[i])'
    <3>1. mgJ'[i] = mgJ[i] /\ (mgJ[i].pc = "copy" => InTime' = InTime)
      BY <1>t, <2>1, <2>7, <2>10 DEF Copying, MGTyped
    <3>2. JobSound(mgJ[i])
      BY <1>t
    <3>3. QED
      BY <2>1, <3>1, <3>2 DEF JobSound
  <2>12. QED
    BY <2>6, <2>8, <2>9, <2>10 DEF MGInv
<1>3. QED
  BY <1>1, <1>2

\* One pointer of the list.
LEMMA CopyStep ==
  ASSUME MGInv, NEW j \in MigrateJobs, NEW k \in PoolPaths, NEW h \in Hashes, CopyObject(j, k, h)
  PROVE  MGInv'
<1>t. MGTyped /\ StaysReadable /\ LayoutIsTrue /\ MarkerIsTrue /\ \A i \in MigrateJobs : JobSound(mgJ[i])
  BY DEF MGInv
<1> DEFINE rest == [mgJ[j] EXCEPT !.todo = @ \ {<<k, h>>}]
<1>0. mgJ[j].pc = "copy" /\ <<k, h>> \in mgJ[j].todo /\ UNCHANGED <<mgPtr, mgPool, mgMeta, mgServing, mgLive, mgLate>>
  BY DEF CopyObject, mgWorld
<1>1. rest \in JobType /\ rest.pc = "copy" /\ rest.phase = mgJ[j].phase /\ rest.todo = mgJ[j].todo \ {<<k, h>>}
  BY <1>t, <1>0 DEF MGTyped, JobType
<1>2. InTime' = InTime /\ ListedPaths' = ListedPaths
  BY <1>0 DEF InTime, ListedPaths
<1>3. k \in InTime => h = mgLive[k] /\ h # NoHash
  BY <1>t, <1>0 DEF JobSound, InTime, ListedPaths
<1>4. CASE Job(j, rest) /\ ((mgDirect' = mgDirect /\ h = NoHash) \/ mgDirect' = [mgDirect EXCEPT ![k] = h])
  <2>1. mgJ' = [mgJ EXCEPT ![j] = rest]
    BY <1>4 DEF Job
  <2>2. /\ mgDirect' \in [PoolPaths -> Hashes]
        /\ \A p \in InTime : mgDirect'[p] = mgDirect[p] \/ (p = k /\ mgDirect'[k] = mgLive[k])
        /\ k \in InTime => mgDirect'[k] = mgLive[k]
    BY <1>t, <1>3, <1>4 DEF MGTyped, InTime, ListedPaths
  <2> HIDE DEF rest
  <2>3. MGTyped'
    BY <1>t, <1>0, <1>1, <2>1, <2>2 DEF MGTyped
  <2>4. LayoutIsTrue' /\ MarkerIsTrue'
    BY <1>t, <1>0, <1>2, <2>2 DEF LayoutIsTrue, MarkerIsTrue
  <2>5. StaysReadable'
    <3> SUFFICES ASSUME NEW p \in ListedPaths PROVE Readable(p)' \/ (mgServing = "direct" /\ p \in mgLate)
      BY <1>0, <1>2 DEF StaysReadable
    <3>1. CASE mgServing = "pool"
      BY <1>t, <1>0, <3>1 DEF StaysReadable, Readable
    <3>2. CASE mgServing = "direct" /\ p \notin mgLate
      BY <1>0, <1>2, <2>4, <3>2 DEF MarkerIsTrue, Readable, InTime
    <3>3. QED
      BY <1>t, <3>1, <3>2 DEF MGTyped
  <2>6. ASSUME NEW i \in MigrateJobs PROVE JobSound(mgJ[i])'
    <3>1. JobSound(mgJ[i])
      BY <1>t
    <3>2. mgJ'[i] = (IF i = j THEN rest ELSE mgJ[i])
      BY <1>t, <2>1 DEF MGTyped
    <3>3. CASE i = j
      BY <1>0, <1>1, <1>2, <2>2, <3>1, <3>2, <3>3 DEF JobSound
    <3>4. CASE i # j
      BY <1>0, <1>2, <2>2, <3>1, <3>2, <3>4 DEF JobSound
    <3>5. QED
      BY <3>3, <3>4
  <2>7. QED
    BY <2>3, <2>4, <2>5, <2>6 DEF MGInv
<1>5. CASE Job(j, JobIdle) /\ UNCHANGED mgDirect
  <2>1. UNCHANGED <<mgData, mgMeta, mgWorld>>
    BY <1>5 DEF CopyObject, mgData, mgWorld
  <2>2. QED
    BY <1>5, <2>1, JobIdleSound, OneJob
<1>6. QED
  BY <1>4, <1>5 DEF CopyObject

\* The server removes and stores packages.
LEMMA TrafficStep ==
  ASSUME MGInv, NEW k \in PoolPaths, RemovePackage(k) \/ \E h \in PoolObjs : UploadPackage(k, h)
  PROVE  MGInv'
<1>t. MGTyped /\ StaysReadable /\ LayoutIsTrue /\ MarkerIsTrue /\ \A i \in MigrateJobs : JobSound(mgJ[i])
  BY DEF MGInv
<1>n. NoHash \in Hashes /\ PoolObjs \subseteq Hashes /\ NoHash \notin PoolObjs
  BY MigrationAssumption DEF Hashes
<1>1. CASE RemovePackage(k)
  <2>1. /\ UNCHANGED <<mgPool, mgMeta, mgServing, mgLate, mgJ>> /\ mgLive' = [mgLive EXCEPT ![k] = NoHash]
        /\ mgServing = "pool" => mgPtr' = [mgPtr EXCEPT ![k] = NoHash] /\ mgDirect' = mgDirect
        /\ mgServing # "pool" => mgDirect' = [mgDirect EXCEPT ![k] = NoHash] /\ mgPtr' = mgPtr
    BY <1>1 DEF RemovePackage
  <2>2. MGTyped'
    BY <1>t, <1>n, <2>1 DEF MGTyped
  <2>3. ListedPaths' = ListedPaths \ {k} /\ InTime' = InTime \ {k}
    BY <1>t, <2>1 DEF ListedPaths, InTime, MGTyped
  <2>4. \A p \in PoolPaths \ {k} : mgLive'[p] = mgLive[p] /\ mgPtr'[p] = mgPtr[p] /\ mgDirect'[p] = mgDirect[p]
    BY <1>t, <2>1 DEF MGTyped
  <2>5. \A p \in PoolPaths : mgPtr[p] = NoHash => mgPtr'[p] = NoHash
    BY <1>t, <2>1 DEF MGTyped
  <2>6. StaysReadable' /\ LayoutIsTrue' /\ MarkerIsTrue'
    BY <1>t, <2>1, <2>3, <2>4, <2>5 DEF StaysReadable, LayoutIsTrue, MarkerIsTrue, Readable, InTime, ListedPaths
  <2>7. \A i \in MigrateJobs : JobSound(mgJ[i])'
    BY <1>t, <2>1, <2>3, <2>4, <2>5 DEF JobSound, InTime, ListedPaths
  <2>8. QED
    BY <2>2, <2>6, <2>7 DEF MGInv
<1>2. ASSUME NEW h \in PoolObjs, UploadPackage(k, h) PROVE MGInv'
  <2> DEFINE late == Copying \/ (mgServing = "pool" /\ mgMeta.expanded)
  <2>1. /\ UNCHANGED <<mgMeta, mgServing, mgJ>> /\ mgLive' = [mgLive EXCEPT ![k] = h] /\ mgLive[k] = NoHash
        /\ mgServing = "pool" =>
             mgPool' = mgPool \cup {h} /\ mgPtr' = [mgPtr EXCEPT ![k] = h] /\ mgDirect' = mgDirect
        /\ mgServing # "pool" => mgDirect' = [mgDirect EXCEPT ![k] = h] /\ mgPtr' = mgPtr /\ mgPool' = mgPool
        /\ late => mgLate' = mgLate \cup {k}
        /\ ~late => mgLate' = mgLate \ {k}
    BY <1>2 DEF UploadPackage
  <2>2. MGTyped'
    BY <1>t, <1>n, <2>1 DEF MGTyped
  <2>3. /\ ListedPaths' = ListedPaths \cup {k} /\ k \notin ListedPaths
        /\ late => InTime' = InTime
        /\ ~late => InTime' = InTime \cup {k}
    BY <1>t, <1>n, <2>1 DEF ListedPaths, InTime, MGTyped
  <2>4. \A p \in PoolPaths \ {k} : mgLive'[p] = mgLive[p] /\ mgPtr'[p] = mgPtr[p] /\ mgDirect'[p] = mgDirect[p]
                                  /\ (p \in mgLate' <=> p \in mgLate)
    BY <1>t, <2>1 DEF MGTyped
  <2>5. mgLive'[k] = h /\ (mgServing = "pool" => mgPtr'[k] = h) /\ (mgServing = "direct" => mgDirect'[k] = h)
    BY <1>t, <2>1 DEF MGTyped
  <2>6. mgPool \subseteq mgPool' /\ (mgServing = "pool" => h \in mgPool')
    BY <1>t, <2>1 DEF MGTyped
  <2>e. ~late /\ mgMeta.expanded => mgServing = "direct"
    BY <1>t DEF MGTyped
  <2>7. StaysReadable'
    BY <1>t, <2>1, <2>3, <2>4, <2>5, <2>6 DEF StaysReadable, Readable, ListedPaths, MGTyped
  <2>8. MarkerIsTrue'
    BY <1>t, <2>1, <2>3, <2>4, <2>5, <2>e DEF MarkerIsTrue, InTime, ListedPaths
  <2>9. LayoutIsTrue'
    BY <1>t, <2>1 DEF LayoutIsTrue, MarkerIsTrue
  <2>10. ASSUME NEW i \in MigrateJobs PROVE JobSound(mgJ[i])'
    <3>1. JobSound(mgJ[i]) /\ mgJ'[i] = mgJ[i]
      BY <1>t, <2>1
    <3>2. mgJ[i].pc = "copy" => late /\ \A p \in InTime : p # k /\ p \in PoolPaths
      BY <2>3 DEF Copying, InTime, ListedPaths
    <3>3. mgJ[i].pc \in {"delete", "mark", "layout"} => mgPool' = mgPool /\ mgPtr' = mgPtr
      BY <2>1, <3>1 DEF JobSound
    <3>4. QED
      BY <2>1, <2>3, <2>4, <3>1, <3>2, <3>3 DEF JobSound
  <2>11. QED
    BY <2>2, <2>7, <2>8, <2>9, <2>10 DEF MGInv
<1>3. QED
  BY <1>1, <1>2

\* Every action keeps the invariant.
LEMMA MGStep == ASSUME MGInv, [MGNext]_mgVars PROVE MGInv'
<1>t. MGTyped /\ StaysReadable /\ LayoutIsTrue /\ MarkerIsTrue /\ \A i \in MigrateJobs : JobSound(mgJ[i])
  BY DEF MGInv
<1> DEFINE same == UNCHANGED <<mgDirect, mgServing, mgLive, mgLate>>
<1>s. same => InTime' = InTime /\ ListedPaths' = ListedPaths
  BY DEF InTime, ListedPaths
<1>2. ASSUME NEW j \in MigrateJobs, mgServing = "direct", StartContract(j) PROVE MGInv'
  <2> DEFINE r == IF ~MayContract THEN JobIdle
                  ELSE IF mgMeta.contracted THEN [pc |-> "done", phase |-> "contract", todo |-> {}]
                  ELSE [pc |-> "delete", phase |-> "contract", todo |-> mgPool]
  <2>1. Job(j, r) /\ UNCHANGED <<mgData, mgMeta, mgWorld>>
    BY <1>2 DEF StartContract
  <2>2. r \in JobType
    BY <1>t DEF MGTyped, JobType, JobIdle
  <2>3. JobSound(r)
    BY <1>2 DEF JobSound, JobIdle
  <2>4. QED
    BY <2>1, <2>2, <2>3, OneJob
<1>4. ASSUME NEW j \in MigrateJobs, NEW o \in PoolObjs, DeleteObject(j, o) PROVE MGInv'
  <2>1. /\ mgJ[j].pc = "delete" /\ UNCHANGED <<mgPtr, mgMeta>> /\ same
        /\ mgPool' = mgPool \ {o} /\ mgJ' = [mgJ EXCEPT ![j] = [mgJ[j] EXCEPT !.todo = @ \ {o}]]
    BY <1>4 DEF DeleteObject, Job, mgWorld
  <2>2. mgServing = "direct"
    BY <1>t, <2>1 DEF JobSound
  <2>3. MGTyped'
    BY <1>t, <2>1 DEF MGTyped, JobType
  <2>4. StaysReadable' /\ LayoutIsTrue' /\ MarkerIsTrue'
    BY <1>t, <1>s, <2>1, <2>2 DEF StaysReadable, LayoutIsTrue, MarkerIsTrue, Readable
  <2>5. \A i \in MigrateJobs : JobSound(mgJ[i])'
    BY <1>t, <1>s, <2>1 DEF JobSound, MGTyped, JobType
  <2>6. QED
    BY <2>3, <2>4, <2>5 DEF MGInv
<1>5. ASSUME NEW j \in MigrateJobs, DeleteIndices(j) PROVE MGInv'
  <2>1. /\ mgJ[j].pc = "delete" /\ UNCHANGED <<mgPool, mgMeta>> /\ same
        /\ mgPtr' = [k \in PoolPaths |-> NoHash]
        /\ mgJ[j].todo = {} /\ mgJ' = [mgJ EXCEPT ![j] = [mgJ[j] EXCEPT !.pc = "mark"]]
    BY <1>5 DEF DeleteIndices, Job, mgWorld
  <2>2. mgServing = "direct" /\ mgPool = {} /\ mgJ[j].phase = "contract"
    BY <1>t, <2>1 DEF JobSound
  <2>3. MGTyped'
    BY <1>t, <2>1 DEF MGTyped, JobType, Hashes
  <2>4. StaysReadable' /\ LayoutIsTrue' /\ MarkerIsTrue'
    BY <1>t, <1>s, <2>1, <2>2 DEF StaysReadable, LayoutIsTrue, MarkerIsTrue, Readable
  <2>5. \A i \in MigrateJobs : JobSound(mgJ[i])'
    BY <1>t, <1>s, <2>1, <2>2 DEF JobSound, MGTyped, JobType
  <2>6. QED
    BY <2>3, <2>4, <2>5 DEF MGInv
<1>6. ASSUME NEW j \in MigrateJobs, SetMarker(j) PROVE MGInv'
  <2>0. Applied(j) /\ UNCHANGED <<mgPtr, mgPool>> /\ same
    BY <1>6 DEF SetMarker, mgData, mgWorld
  <2>1. CASE mgJ[j].phase = "expand"
    <3>1. /\ mgMeta' = [mgMeta EXCEPT !.expanded = TRUE]
          /\ mgJ' = [mgJ EXCEPT ![j] = [mgJ[j] EXCEPT !.pc = "done"]]
      BY <1>6, <2>1 DEF SetMarker, Job
    <3>2. mgJ[j].pc = "copy" /\ mgJ[j].todo = {}
      BY <1>t, <2>0, <2>1 DEF Applied, JobSound
    <3>3. \A k \in InTime : mgDirect[k] = mgLive[k]
      BY <1>t, <3>2 DEF JobSound
    <3>4. MGTyped'
      BY ZenonT(60), <1>t, <2>0, <3>1 DEF MGTyped, JobType
    <3>5. StaysReadable' /\ LayoutIsTrue' /\ MarkerIsTrue'
      BY <1>t, <1>s, <2>0, <3>1, <3>3 DEF StaysReadable, LayoutIsTrue, MarkerIsTrue, MGTyped, Readable
    <3>6. \A i \in MigrateJobs : JobSound(mgJ[i])'
      BY <1>t, <1>s, <2>0, <3>1 DEF JobSound, MGTyped, JobType
    <3>7. QED
      BY <3>4, <3>5, <3>6 DEF MGInv
  <2>2. CASE mgJ[j].phase # "expand"
    <3>1. /\ mgMeta' = [mgMeta EXCEPT !.contracted = TRUE]
          /\ mgJ' = [mgJ EXCEPT ![j] = [mgJ[j] EXCEPT !.pc = "layout"]]
      BY <1>6, <2>2 DEF SetMarker, Job
    <3>2. mgJ[j].pc = "mark"
      BY <1>t, <2>0, <2>2 DEF Applied, JobSound
    <3>4. MGTyped'
      BY ZenonT(60), <1>t, <2>0, <3>1 DEF MGTyped, JobType
    <3>5. StaysReadable' /\ LayoutIsTrue' /\ MarkerIsTrue'
      BY <1>t, <1>s, <2>0, <3>1 DEF StaysReadable, LayoutIsTrue, MarkerIsTrue, MGTyped, Readable
    <3>6. \A i \in MigrateJobs : JobSound(mgJ[i])'
      BY <1>t, <1>s, <2>0, <3>1, <3>2 DEF JobSound, MGTyped, JobType
    <3>7. QED
      BY <3>4, <3>5, <3>6 DEF MGInv
  <2>3. QED
    BY <2>1, <2>2
<1>7. ASSUME NEW j \in MigrateJobs, WriteLayout(j) PROVE MGInv'
  <2>1. /\ mgJ[j].pc = "layout" /\ UNCHANGED <<mgPtr, mgPool>> /\ same
        /\ mgMeta' = [mgMeta EXCEPT !.layout = 1]
        /\ mgJ' = [mgJ EXCEPT ![j] = [mgJ[j] EXCEPT !.pc = "done"]]
    BY <1>7 DEF WriteLayout, LayoutNow, mgData, mgWorld, Job
  <2>2. mgPool = {} /\ (\A k \in PoolPaths : mgPtr[k] = NoHash) /\ mgMeta.contracted /\ mgServing = "direct"
    BY <1>t, <2>1 DEF JobSound
  <2>3. MGTyped'
    BY <1>t, <2>1 DEF MGTyped, JobType
  <2>4. StaysReadable' /\ LayoutIsTrue' /\ MarkerIsTrue'
    BY <1>t, <1>s, <2>1, <2>2 DEF StaysReadable, LayoutIsTrue, MarkerIsTrue, MGTyped, Readable
  <2>5. \A i \in MigrateJobs : JobSound(mgJ[i])'
    BY <1>t, <1>s, <2>1 DEF JobSound, MGTyped, JobType
  <2>6. QED
    BY <2>3, <2>4, <2>5 DEF MGInv
<1>8. ASSUME NEW j \in MigrateJobs, JobEnds(j) \/ JobInterrupted(j) PROVE MGInv'
  BY <1>8, JobIdleSound, OneJob DEF JobEnds, JobInterrupted
<1>9. CASE ShipBinary
  <2>1. mgServing' = "direct" /\ mgMeta.expanded /\ UNCHANGED <<mgPtr, mgPool, mgDirect, mgMeta, mgLive, mgLate, mgJ>>
    BY <1>9 DEF ShipBinary, mgData
  <2>2. InTime' = InTime /\ ListedPaths' = ListedPaths
    BY <2>1 DEF InTime, ListedPaths
  <2>3. MGTyped' /\ LayoutIsTrue' /\ MarkerIsTrue'
    BY <1>t, <2>1, <2>2 DEF MGTyped, LayoutIsTrue, MarkerIsTrue
  <2>4. StaysReadable'
    BY <1>t, <2>1, <2>2 DEF StaysReadable, Readable, MarkerIsTrue, InTime
  <2>5. \A i \in MigrateJobs : JobSound(mgJ[i])'
    BY <1>t, <2>1, <2>2 DEF JobSound
  <2>6. QED
    BY <2>3, <2>4, <2>5 DEF MGInv
<1>11. CASE UNCHANGED mgVars
  BY <1>11, <1>t
     DEF mgVars, MGInv, MGTyped, StaysReadable, LayoutIsTrue, MarkerIsTrue, JobSound, Readable, InTime, ListedPaths
<1>12. QED
  BY <1>2, <1>4, <1>5, <1>6, <1>7, <1>8, <1>9, <1>11, StartExpandStep, CopyStep, TrafficStep DEF MGNext, Hashes

\* Whatever jobs overlap and are interrupted and whatever is removed and stored
\* meanwhile, every package the repositories list is readable by the pool binary,
\* every one that no listing missed by the new binary, and the layout version is true.
THEOREM MigrationCorrect == MGSpec => []MigrationHolds
<1>1. MGInit => MGInv
  <2> SUFFICES ASSUME MGInit PROVE MGInv
    OBVIOUS
  <2>1. MGTyped
    BY MigrationAssumption, JobIdleSound DEF MGInit, MGTyped, Hashes
  <2>2. StaysReadable /\ LayoutIsTrue /\ MarkerIsTrue
    BY DEF MGInit, StaysReadable, LayoutIsTrue, MarkerIsTrue, Readable, ListedPaths
  <2>3. QED
    BY <2>1, <2>2, JobIdleSound DEF MGInit, MGInv
<1>2. MGInv /\ [MGNext]_mgVars => MGInv'
  BY MGStep
<1>3. MGInv => MigrationHolds
  BY DEF MGInv, MigrationHolds
<1>4. QED
  BY <1>1, <1>2, <1>3, PTL DEF MGSpec

(***************************************************************************)
(* The rate limiter.                                                       *)
(***************************************************************************)
RequestType == [pc : {"idle", "add", "count"}, window : Windows, saw : Nat]

RLTyped ==
  /\ rlNow \in 0..MaxRateTime /\ rlAdder \in BOOLEAN
  /\ rlCount \in [Windows -> Nat] /\ rlEver \in [Windows -> SUBSET Nat] /\ rlAdmitted \in [Windows -> Nat]
  /\ rlR \in [Replicas -> RequestType]

\* However requests overlap, no counter, current or earlier, and no request has a
\* number above the requests that were let through.
CountedWereAdmitted ==
  /\ \A w \in Windows : /\ rlCount[w] \in rlEver[w]
                        /\ \A n \in rlEver[w] : n <= rlAdmitted[w]
                        /\ w \in rlRefused => rlAdmitted[w] >= RateLimitOf
  /\ \A r \in Replicas : rlR[r].pc = "count" => rlR[r].saw <= rlAdmitted[rlR[r].window]

\* Without overlap a consistent store's counter is exact, and the one request in
\* flight has read it.
AloneIsExact ==
  rlAdder =>
  /\ \A w \in Windows \ rlOverlap : rlAdmitted[w] = rlCount[w] /\ rlCount[w] <= RateLimitOf
  /\ \A r \in Replicas :
       LET q == rlR[r] IN
       q.pc # "idle" /\ q.window \notin rlOverlap =>
         /\ q.pc = "count" => q.saw = rlCount[q.window]
         /\ q.pc = "add" => rlCount[q.window] = 0
         /\ \A s \in Replicas : rlR[s].pc # "idle" /\ rlR[s].window = q.window => s = r

RLInv == RLTyped /\ CountedWereAdmitted /\ AloneIsExact

\* The window of every moment has a counter.
LEMMA WindowHasCounter == ASSUME NEW now \in 0..MaxRateTime PROVE WindowOf(now) \in Windows
<1>1. \A a, b \in Nat : a <= b => a \div RateWindow \in Nat /\ b \div RateWindow \in Nat
                                  /\ a \div RateWindow <= b \div RateWindow
  BY RateLimitAssumption
<1>2. now \in Nat /\ now <= MaxRateTime
  BY RateLimitAssumption
<1>3. QED
  BY <1>1, <1>2, RateLimitAssumption DEF WindowOf, Windows

\* A request that is over: its replica is idle.
LEMMA RequestIdleType == RequestIdle \in RequestType /\ RequestIdle.pc = "idle"
<1>1. 0 \in Windows
  BY WindowHasCounter, RateLimitAssumption DEF WindowOf, Windows
<1>2. QED
  BY <1>1 DEF RequestIdle, RequestType

\* Every action keeps the invariant.
LEMMA RLStep == ASSUME RLInv, [RLNext]_rlVars PROVE RLInv'
<1> USE DEF RLInv
<1>1. CASE RateClock
  BY <1>1, RateLimitAssumption DEF RateClock, RLTyped, CountedWereAdmitted, AloneIsExact
<1>2. ASSUME NEW r \in Replicas, BumpGet(r) PROVE RLInv'
  <2> DEFINE w == WindowOf(rlNow)
  <2>0. w \in Windows
    BY WindowHasCounter DEF RLTyped
  <2>n. PICK n \in GetCount(w) : Request(r, [pc |-> IF n = 0 THEN "add" ELSE "count", window |-> w, saw |-> n])
    BY <1>2 DEF BumpGet
  <2> DEFINE q == [pc |-> IF n = 0 THEN "add" ELSE "count", window |-> w, saw |-> n]
  <2>m. n \in rlEver[w] /\ n \in Nat /\ (rlAdder => n = rlCount[w])
    BY <2>0, <2>n DEF GetCount, RLTyped, CountedWereAdmitted
  <2>1. /\ rlR[r].pc = "idle" /\ rlR' = [rlR EXCEPT ![r] = q]
        /\ rlOverlap' = (IF \E o \in Replicas : rlR[o].pc # "idle" /\ rlR[o].window = w
                         THEN rlOverlap \cup {w} ELSE rlOverlap)
        /\ UNCHANGED <<rlNow, rlAdder, rlCount, rlEver, rlAdmitted, rlRefused>>
    BY <1>2, <2>n DEF BumpGet, Request
  <2>2. /\ q \in RequestType /\ q.window = w /\ q.saw \in rlEver[w] /\ q.pc \in {"add", "count"}
        /\ rlAdder => q.saw = rlCount[w] /\ (q.pc = "add" => rlCount[w] = 0)
    BY <2>0, <2>m DEF RLTyped, RequestType
  <2> HIDE DEF w, q
  <2>3. RLTyped' /\ CountedWereAdmitted'
    BY <2>0, <2>1, <2>2, SMTT(30) DEF RLTyped, CountedWereAdmitted
  <2>4. AloneIsExact'
    BY <2>0, <2>1, <2>2 DEF RLTyped, AloneIsExact
  <2>5. QED
    BY <2>3, <2>4
<1>3. ASSUME NEW r \in Replicas, BumpAdd(r) PROVE RLInv'
  <2> DEFINE w == rlR[r].window
  <2>0. w \in Windows /\ rlR[r].pc = "add" /\ UNCHANGED <<rlNow, rlAdder, rlOverlap, rlRefused>>
    BY <1>3 DEF RLTyped, RequestType, BumpAdd
  <2>1. CASE BumpCreated(r)
    <3>1. /\ rlCount' = [rlCount EXCEPT ![w] = 1] /\ rlAdmitted' = [rlAdmitted EXCEPT ![w] = rlAdmitted[w] + 1]
          /\ rlEver' = [rlEver EXCEPT ![w] = rlEver[w] \cup {1}]
          /\ rlR' = [rlR EXCEPT ![r] = RequestIdle]
      BY <1>3, <2>1 DEF BumpAdd, Admitted, Request, SetCount
    <3>2. RLTyped'
      BY <2>0, <3>1, RequestIdleType DEF RLTyped
    <3>3. CountedWereAdmitted'
      BY <2>0, <3>1, RequestIdleType, RateLimitAssumption DEF RLTyped, RequestType, CountedWereAdmitted
    <3>4. AloneIsExact'
      BY <2>0, <3>1, RequestIdleType, RateLimitAssumption DEF RLTyped, RequestType, AloneIsExact
    <3>5. QED
      BY <3>2, <3>3, <3>4
  <2>2. CASE ~BumpCreated(r)
    <3> DEFINE q == [rlR[r] EXCEPT !.pc = "count", !.saw = rlCount[w]]
    <3>1. rlR' = [rlR EXCEPT ![r] = q] /\ UNCHANGED <<rlCount, rlEver, rlAdmitted>>
      BY <1>3, <2>2 DEF BumpAdd, Request
    <3>2. q \in RequestType /\ q.pc = "count" /\ q.window = w /\ q.saw = rlCount[w]
      BY <2>0 DEF RLTyped, RequestType
    <3> HIDE DEF q
    <3>3. RLTyped' /\ CountedWereAdmitted'
      BY <2>0, <3>1, <3>2 DEF RLTyped, CountedWereAdmitted
    <3>4. AloneIsExact'
      BY <2>0, <3>1, <3>2 DEF RLTyped, AloneIsExact
    <3>5. QED
      BY <3>3, <3>4
  <2>3. QED
    BY <2>1, <2>2
<1>4. ASSUME NEW r \in Replicas, BumpSet(r) PROVE RLInv'
  <2> DEFINE w == rlR[r].window
  <2>0. /\ w \in Windows /\ rlR[r].saw \in Nat /\ rlR[r].pc = "count" /\ rlR' = [rlR EXCEPT ![r] = RequestIdle]
        /\ UNCHANGED <<rlNow, rlAdder, rlOverlap>>
    BY <1>4 DEF RLTyped, RequestType, BumpSet, Request
  <2>1. CASE OverLimit(rlR[r].saw)
    <3>1. rlRefused' = rlRefused \cup {w} /\ UNCHANGED <<rlCount, rlEver, rlAdmitted>> /\ rlR[r].saw >= RateLimitOf
      BY <1>4, <2>1 DEF BumpSet, OverLimit
    <3>2. RLTyped'
      BY <2>0, <3>1, RequestIdleType DEF RLTyped
    <3>3. CountedWereAdmitted'
      BY <2>0, <3>1, RequestIdleType, RateLimitAssumption DEF RLTyped, CountedWereAdmitted
    <3>4. AloneIsExact'
      BY <2>0, <3>1, RequestIdleType DEF RLTyped, AloneIsExact
    <3>5. QED
      BY <3>2, <3>3, <3>4
  <2>2. CASE ~OverLimit(rlR[r].saw)
    <3>1. /\ rlCount' = [rlCount EXCEPT ![w] = rlR[r].saw + 1] /\ rlR[r].saw < RateLimitOf
          /\ rlEver' = [rlEver EXCEPT ![w] = rlEver[w] \cup {rlR[r].saw + 1}]
          /\ rlAdmitted' = [rlAdmitted EXCEPT ![w] = rlAdmitted[w] + 1] /\ UNCHANGED rlRefused
      BY <1>4, <2>0, <2>2, RateLimitAssumption DEF BumpSet, OverLimit, Admitted, SetCount
    <3>2. RLTyped'
      BY <2>0, <3>1, RequestIdleType DEF RLTyped
    <3>3. CountedWereAdmitted'
      BY <2>0, <3>1, RequestIdleType, RateLimitAssumption DEF RLTyped, RequestType, CountedWereAdmitted
    <3>4. AloneIsExact'
      BY <2>0, <3>1, RequestIdleType, RateLimitAssumption DEF RLTyped, RequestType, AloneIsExact
    <3>5. QED
      BY <3>2, <3>3, <3>4
  <2>3. QED
    BY <2>1, <2>2
<1>5. ASSUME NEW r \in Replicas, FailsOpen(r) PROVE RLInv'
  BY <1>5, RequestIdleType DEF FailsOpen, Request, RLTyped, CountedWereAdmitted, AloneIsExact
<1>6. CASE UNCHANGED rlVars
  BY <1>6 DEF rlVars, RLTyped, CountedWereAdmitted, AloneIsExact
<1>7. QED
  BY <1>1, <1>2, <1>3, <1>4, <1>5, <1>6 DEF RLNext

\* In a consistent store, in a window whose requests came one after the other, at
\* most the limit is let through; and in every store, Workers KV with its late
\* reads included, nobody is refused before the limit was let through.
THEOREM LimitCorrect == RLSpec => []LimitHolds
<1>1. RLInit => RLInv
  BY RequestIdleType, RateLimitAssumption DEF RLInit, RLInv, RLTyped, CountedWereAdmitted, AloneIsExact
<1>2. RLInv /\ [RLNext]_rlVars => RLInv'
  BY RLStep
<1>3. RLInv => LimitHolds
  <2> SUFFICES ASSUME RLInv, NEW w \in Windows
               PROVE  /\ rlAdder /\ w \notin rlOverlap => rlAdmitted[w] <= RateLimitOf
                      /\ w \in rlRefused => rlAdmitted[w] >= RateLimitOf
    BY DEF LimitHolds
  <2>1. rlAdder /\ w \notin rlOverlap => rlAdmitted[w] = rlCount[w] /\ rlCount[w] <= RateLimitOf
    BY DEF RLInv, AloneIsExact
  <2>2. w \in rlRefused => rlAdmitted[w] >= RateLimitOf
    BY DEF RLInv, CountedWereAdmitted
  <2>3. QED
    BY <2>1, <2>2
<1>4. QED
  BY <1>1, <1>2, <1>3, PTL DEF RLSpec

(***************************************************************************)
(* The key-value stores.                                                   *)
(***************************************************************************)
RowType == [there : BOOLEAN, ver : Nat, sealed : BOOLEAN, exp : Nat]
KVCallType ==
  [pc : {"idle", "add", "created", "failed", "list", "listed", "bulk", "stored"},
   todo : SUBSET KVKeys, saw : SUBSET (KVKeys \X Nat), got : SUBSET (KVKeys \X Nat), dup : BOOLEAN]

KVTyped ==
  /\ kvRows \in [KVKeys -> RowType] /\ kvOld \in [KVKeys -> SUBSET RowType]
  /\ kvNow \in Nat /\ kvWrites \in Nat /\ kvSince \in Nat /\ kvBox \in BOOLEAN
  /\ kvC \in [KVCallers -> KVCallType]

LiveAt(row, now) == row.there /\ (row.exp = 0 \/ row.exp > now)

\* A value is sealed only where encryption is configured, and since then always.
RowSound(row, writes, since, box) ==
  /\ row.ver <= writes
  /\ row.sealed => box
  /\ row.there /\ box /\ row.ver > since => row.sealed

\* What a call has seen and done, with respect to the rows as they are now.
CallSound(r, rows, old, now, writes) ==
  /\ ~r.dup
  /\ \A e \in r.saw : e[2] <= writes
  /\ r.pc = "add" => \A k \in r.todo : <<k, rows[k].ver>> \in r.saw => ~LiveAt(rows[k], now)
  /\ r.pc \in {"list", "listed"} =>
       \A e \in r.saw : rows[e[1]].ver = e[2] /\ LiveAt(rows[e[1]], now)
                          => e \in r.got \/ (r.pc = "list" /\ e[1] \in r.todo)
  /\ r.pc = "list" => \A e \in r.saw : rows[e[1]].ver = e[2] => old[e[1]] = {}
  /\ r.pc \in {"bulk", "stored"} =>
       \A e \in r.saw : rows[e[1]].ver > e[2] \/ (r.pc = "bulk" /\ e[1] \in r.todo)

KVInv ==
  /\ KVTyped /\ kvSince <= kvWrites
  /\ \A k \in KVKeys : \A row \in Reads(k) : RowSound(row, kvWrites, kvSince, kvBox)
  /\ \A c \in KVCallers : CallSound(kvC[c], kvRows, kvOld, kvNow, kvWrites)

\* Time passes and rows are written: what the other calls know stays true.
LEMMA CallAges ==
  ASSUME NEW r \in KVCallType, NEW rows \in [KVKeys -> RowType], NEW new \in [KVKeys -> RowType],
         NEW old \in [KVKeys -> SUBSET RowType], NEW still \in [KVKeys -> SUBSET RowType],
         NEW now \in Nat, NEW later \in Nat, now <= later, NEW writes \in Nat, NEW more \in Nat, writes <= more,
         \A k \in KVKeys : (new[k] = rows[k] /\ still[k] \subseteq old[k]) \/ new[k].ver > writes,
         \A k \in KVKeys : rows[k].ver <= writes,
         CallSound(r, rows, old, now, writes)
  PROVE  CallSound(r, new, still, later, more)
<1>1. r.saw \subseteq KVKeys \X Nat /\ r.todo \subseteq KVKeys
  BY DEF KVCallType
<1>2. \A e \in r.saw : e[1] \in KVKeys /\ e[2] \in Nat /\ e[2] <= writes
  BY <1>1 DEF CallSound
<1>3. \A k \in KVKeys : <<k, new[k].ver>> \in r.saw => new[k] = rows[k]
  BY <1>2 DEF RowType
<1>4. \A k \in KVKeys : new[k] = rows[k] /\ LiveAt(new[k], later) => LiveAt(rows[k], now)
  BY DEF LiveAt, RowType
<1>5. ~r.dup /\ \A e \in r.saw : e[2] <= more
  BY <1>2 DEF CallSound
<1>6. r.pc = "add" => \A k \in r.todo : <<k, new[k].ver>> \in r.saw => ~LiveAt(new[k], later)
  BY <1>1, <1>3, <1>4 DEF CallSound
<1>7. r.pc \in {"list", "listed"} =>
       \A e \in r.saw : new[e[1]].ver = e[2] /\ LiveAt(new[e[1]], later)
                          => e \in r.got \/ (r.pc = "list" /\ e[1] \in r.todo)
  BY <1>2, <1>4 DEF CallSound, RowType
<1>8. r.pc \in {"bulk", "stored"} =>
       \A e \in r.saw : new[e[1]].ver > e[2] \/ (r.pc = "bulk" /\ e[1] \in r.todo)
  BY <1>2 DEF CallSound, RowType
<1>9. r.pc = "list" => \A e \in r.saw : new[e[1]].ver = e[2] => still[e[1]] = {}
  <2> SUFFICES ASSUME r.pc = "list", NEW e \in r.saw, new[e[1]].ver = e[2] PROVE still[e[1]] = {}
    OBVIOUS
  <2>1. new[e[1]] = rows[e[1]] /\ still[e[1]] \subseteq old[e[1]]
    BY <1>2
  <2>2. old[e[1]] = {}
    BY <2>1 DEF CallSound
  <2>3. QED
    BY <2>1, <2>2
<1>10. QED
  BY <1>5, <1>6, <1>7, <1>8, <1>9 DEF CallSound

\* A finite set has a subset of every smaller size.
LEMMA SubsetOfSize ==
  ASSUME NEW T, IsFiniteSet(T), NEW m \in Nat, m <= Cardinality(T)
  PROVE  \E U \in SUBSET T : Cardinality(U) = m
<1>1. Cardinality(T) \in Nat /\ ExistsBijection(1..Cardinality(T), T)
  BY FS_CardinalityType
<1>2. PICK f \in Bijection(1..Cardinality(T), T) : TRUE
  BY <1>1 DEF ExistsBijection
<1> DEFINE U == {f[i] : i \in 1..m}
           g == [i \in 1..m |-> f[i]]
<1>3. 1..m \subseteq 1..Cardinality(T)
  BY <1>1
<1>4. /\ f \in [1..Cardinality(T) -> T]
      /\ \A a, b \in 1..Cardinality(T) : f[a] = f[b] => a = b
  BY <1>2 DEF Bijection, Injection, IsInjective
<1>5. U \subseteq T
  BY <1>3, <1>4
<1>6. g \in Bijection(1..m, U)
  BY <1>3, <1>4 DEF Bijection, Injection, Surjection, IsInjective
<1>7. ExistsBijection(1..m, U)
  BY <1>6 DEF ExistsBijection
<1>8. IsFiniteSet(1..m) /\ Cardinality(1..m) = m
  BY FS_Interval
<1>9. Cardinality(U) = m
  BY <1>7, <1>8, FS_Bijection
<1>10. QED
  BY <1>5, <1>9

\* forChunks: while keys are left there is a request to send.
LEMMA ChunkIsLeft ==
  ASSUME NEW todo \in SUBSET KVKeys, todo # {}
  PROVE  \E chunk \in (SUBSET todo) \ {{}} : IsChunk(chunk, todo)
<1>1. IsFiniteSet(todo) /\ Cardinality(todo) \in Nat /\ Cardinality(todo) # 0
  BY KVStoreAssumption, FS_Subset, FS_EmptySet, FS_CardinalityType
<1>2. CASE kvKind # "cf"
  <2>1. PICK k \in todo : TRUE
    OBVIOUS
  <2>2. Cardinality({k}) = 1 /\ {k} # {} /\ {k} \in SUBSET todo
    BY FS_Singleton
  <2>3. QED
    BY <1>2, <2>2 DEF IsChunk
<1>3. CASE kvKind = "cf"
  <2> DEFINE m == IF Cardinality(todo) > BulkChunk THEN BulkChunk ELSE Cardinality(todo)
  <2>1. m \in Nat /\ m # 0 /\ m <= Cardinality(todo)
    BY <1>1, KVStoreAssumption
  <2>2. PICK U \in SUBSET todo : Cardinality(U) = m
    BY <1>1, <2>1, SubsetOfSize
  <2>3. U # {}
    BY <2>1, <2>2, FS_EmptySet
  <2>4. QED
    BY <1>3, <2>2, <2>3 DEF IsChunk
<1>4. QED
  BY <1>2, <1>3

\* A step is fine when its new rows are, and what is new in a call.
LEMMA KVMoves ==
  ASSUME KVInv, KVTyped', kvSince' <= kvWrites', kvNow <= kvNow', kvWrites <= kvWrites',
         \A k \in KVKeys : /\ (kvRows'[k] = kvRows[k] /\ kvOld'[k] \subseteq kvOld[k]) \/ kvRows'[k].ver > kvWrites
                           /\ \A row \in Reads(k)' : RowSound(row, kvWrites', kvSince', kvBox'),
         \A c \in KVCallers : kvC'[c] = kvC[c] \/ CallSound(kvC'[c], kvRows', kvOld', kvNow', kvWrites')
  PROVE  KVInv'
<1>1. ASSUME NEW c \in KVCallers PROVE CallSound(kvC'[c], kvRows', kvOld', kvNow', kvWrites')
  <2>1. CASE kvC'[c] = kvC[c]
    <3>1. CallSound(kvC[c], kvRows, kvOld, kvNow, kvWrites) /\ \A k \in KVKeys : kvRows[k].ver <= kvWrites
      BY DEF KVInv, RowSound, Reads
    <3>2. kvC[c] \in KVCallType /\ kvRows \in [KVKeys -> RowType] /\ kvNow \in Nat /\ kvWrites \in Nat
          /\ kvOld \in [KVKeys -> SUBSET RowType]
      BY DEF KVInv, KVTyped
    <3>3. kvRows' \in [KVKeys -> RowType] /\ kvNow' \in Nat /\ kvWrites' \in Nat
          /\ kvOld' \in [KVKeys -> SUBSET RowType]
      BY DEF KVTyped
    <3>4. CallSound(kvC[c], kvRows', kvOld', kvNow', kvWrites')
      <4>1. \A k \in KVKeys : (kvRows'[k] = kvRows[k] /\ kvOld'[k] \subseteq kvOld[k]) \/ kvRows'[k].ver > kvWrites
        OBVIOUS
      <4>2. kvNow <= kvNow' /\ kvWrites <= kvWrites'
        OBVIOUS
      <4>3. QED
        BY <3>1, <3>2, <3>3, <4>1, <4>2, CallAges
    <3>5. QED
      BY <2>1, <3>4
  <2>2. QED
    BY <2>1
<1>2. QED
  BY <1>1 DEF KVInv

\* A row that is written is sealed as it should be, whichever call wrote it.
LEMMA WrittenRow ==
  ASSUME KVInv, NEW ttl \in Nat
  PROVE  LET row == Row(Seal, ttl)
         IN row \in RowType /\ row.ver = kvWrites + 1 /\ RowSound(row, kvWrites + 1, kvSince, kvBox)
<1>1. kvBox \in BOOLEAN /\ kvWrites \in Nat /\ kvNow \in Nat
  BY DEF KVInv, KVTyped
<1> DEFINE row == Row(Seal, ttl)
<1>2. row \in RowType
  BY <1>1, SMT DEF Row, Seal, RowType
<1>3. row.ver = kvWrites + 1 /\ row.sealed = kvBox
  BY DEF Row, Seal
<1>4. QED
  BY <1>1, <1>2, <1>3 DEF RowSound

\* A call that begins, or is over, has nothing to answer for.
LEMMA KVIdleSound ==
  /\ KVIdle \in KVCallType /\ ~KVIdle.dup /\ KVIdle.saw = {} /\ KVIdle.todo = {} /\ KVIdle.pc = "idle"
  /\ [KVIdle EXCEPT !.pc = "failed"] \in KVCallType
  /\ \A rows, old, now, writes : CallSound(KVIdle, rows, old, now, writes)
  /\ \A rows, old, now, writes : CallSound([KVIdle EXCEPT !.pc = "failed"], rows, old, now, writes)
  BY DEF KVIdle, KVCallType, CallSound

\* A step of one caller that writes nothing.
LEMMA KVCallerStep ==
  ASSUME KVInv, NEW c \in KVCallers, NEW r \in KVCallType, KVCall(c, r), UNCHANGED <<kvSetup, kvRows, kvOld, kvWrites>>,
         CallSound(r, kvRows, kvOld, kvNow, kvWrites)
  PROVE  KVInv'
<1>1. kvC' = [kvC EXCEPT ![c] = r] /\ UNCHANGED <<kvNow, kvBox, kvSince, kvRows, kvOld, kvWrites>>
  BY DEF KVCall, kvSetup
<1>2. KVTyped'
  BY <1>1 DEF KVInv, KVTyped
<1>3. \A d \in KVCallers : kvC'[d] = IF d = c THEN r ELSE kvC[d]
  BY <1>1 DEF KVInv, KVTyped
<1>4. \A d \in KVCallers : CallSound(kvC'[d], kvRows, kvOld, kvNow, kvWrites)
  BY <1>3 DEF KVInv
<1>5. \A k \in KVKeys : Reads(k)' = Reads(k)
  BY <1>1 DEF Reads
<1>6. QED
  BY <1>1, <1>2, <1>4, <1>5 DEF KVInv

\* Rows that are written are as they should be, and the former ones were.
LEMMA KVStored ==
  ASSUME KVInv, NEW keys \in SUBSET KVKeys, NEW row \in RowType, Stores(keys, row), row.ver = kvWrites + 1,
         RowSound(row, kvWrites + 1, kvSince, kvBox), UNCHANGED kvSetup, kvC' \in [KVCallers -> KVCallType],
         \A c \in KVCallers : kvC'[c] = kvC[c] \/ CallSound(kvC'[c], kvRows', kvOld', kvNow', kvWrites')
  PROVE  KVInv'
<1>1. kvWrites' = kvWrites + 1 /\ UNCHANGED <<kvNow, kvBox, kvSince>>
  BY DEF Stores, KVWrite, kvSetup
<1>2. /\ kvRows \in [KVKeys -> RowType] /\ kvOld \in [KVKeys -> SUBSET RowType]
      /\ kvNow \in Nat /\ kvWrites \in Nat /\ kvSince \in Nat /\ kvBox \in BOOLEAN /\ kvSince <= kvWrites
  BY DEF KVInv, KVTyped
<1>3. \A k \in KVKeys :
        /\ kvRows'[k] = IF k \in keys THEN row ELSE kvRows[k]
        /\ kvOld'[k] = kvOld[k] \/ (k \in keys /\ kvOld'[k] = kvOld[k] \cup {kvRows[k]})
  BY DEF Stores
<1>4. kvRows' \in [KVKeys -> RowType] /\ kvOld' \in [KVKeys -> SUBSET RowType]
  <2>1. \A k \in KVKeys : kvRows'[k] \in RowType /\ kvOld'[k] \in SUBSET RowType
    BY <1>2, <1>3
  <2>2. kvRows' = [k \in KVKeys |-> kvRows'[k]] /\ kvOld' = [k \in KVKeys |-> kvOld'[k]]
    BY DEF Stores
  <2>3. QED
    BY <2>1, <2>2
<1>5. KVTyped'
  BY <1>1, <1>2, <1>4 DEF KVTyped
<1>6. \A k \in KVKeys : \A q \in Reads(k)' : q = row \/ q \in Reads(k)
  BY <1>3 DEF Reads
<1>7. \A k \in KVKeys : \A q \in Reads(k) : q \in RowType /\ RowSound(q, kvWrites, kvSince, kvBox)
  BY <1>2 DEF Reads, KVInv
<1>8. \A q \in RowType : RowSound(q, kvWrites, kvSince, kvBox) => RowSound(q, kvWrites + 1, kvSince, kvBox)
  BY <1>2 DEF RowSound, RowType
<1>9. \A k \in KVKeys : \A q \in Reads(k)' : RowSound(q, kvWrites', kvSince', kvBox')
  BY <1>1, <1>6, <1>7, <1>8
<1>10. \A k \in KVKeys : (kvRows'[k] = kvRows[k] /\ kvOld'[k] \subseteq kvOld[k]) \/ kvRows'[k].ver > kvWrites
  BY <1>2, <1>3
<1>11. kvSince' <= kvWrites' /\ kvNow <= kvNow' /\ kvWrites <= kvWrites'
  BY <1>1, <1>2
<1>12. QED
  BY <1>5, <1>9, <1>10, <1>11, KVMoves

\* A key is created where nothing lives: by SQL, and by badger's commit.
LEMMA KVCreated ==
  ASSUME KVInv, NEW c \in KVCallers, NEW k \in KVKeys, NEW ttl \in Nat, ~Live(kvRows[k]),
         Stores({k}, Row(Seal, ttl)),
         KVCall(c, [KVIdle EXCEPT !.pc = "created", !.dup = Live(kvRows[k])]), UNCHANGED kvSetup
  PROVE  KVInv'
<1> DEFINE row == Row(Seal, ttl)
           r == [KVIdle EXCEPT !.pc = "created", !.dup = Live(kvRows[k])]
<1>1. row \in RowType /\ row.ver = kvWrites + 1 /\ RowSound(row, kvWrites + 1, kvSince, kvBox)
  BY WrittenRow
<1>2. Live(kvRows[k]) = FALSE
  BY Zenon DEF Live, KVInv, KVTyped, RowType
<1>3. r \in KVCallType /\ CallSound(r, kvRows', kvOld', kvNow', kvWrites')
  BY <1>2 DEF KVIdle, KVCallType, CallSound
<1>4. kvC' = [kvC EXCEPT ![c] = r] /\ kvC \in [KVCallers -> KVCallType]
  BY DEF KVCall, KVInv, KVTyped
<1> HIDE DEF row, r
<1>5. /\ kvC' \in [KVCallers -> KVCallType]
      /\ \A d \in KVCallers : kvC'[d] = kvC[d] \/ CallSound(kvC'[d], kvRows', kvOld', kvNow', kvWrites')
  BY <1>3, <1>4
<1>6. {k} \in SUBSET KVKeys /\ Stores({k}, row)
  BY DEF row
<1>7. QED
  BY <1>1, <1>5, <1>6, KVStored

\* Set and Delete.
LEMMA KVSetStep ==
  ASSUME KVInv, NEW k \in KVKeys, KVDelete(k) \/ \E ttl \in KVTTLs : KVSet(k, ttl)
  PROVE  KVInv'
<1>1. PICK row \in RowType : /\ Stores({k}, row) /\ row.ver = kvWrites + 1
                             /\ RowSound(row, kvWrites + 1, kvSince, kvBox)
  <2>1. CASE KVDelete(k)
    <3> DEFINE row == [NoRow EXCEPT !.ver = kvWrites + 1]
    <3>n. kvWrites + 1 \in Nat
      BY DEF KVInv, KVTyped
    <3>1. row \in RowType /\ row.ver = kvWrites + 1 /\ ~row.there /\ ~row.sealed
      BY <3>n DEF NoRow, RowType
    <3>3. Stores({k}, row)
      BY <2>1 DEF KVDelete
    <3> HIDE DEF row
    <3>2. RowSound(row, kvWrites + 1, kvSince, kvBox)
      BY <3>1 DEF RowSound, RowType
    <3>4. QED
      BY <3>1, <3>2, <3>3
  <2>2. ASSUME NEW ttl \in KVTTLs, KVSet(k, ttl)
        PROVE  \E row \in RowType : /\ Stores({k}, row) /\ row.ver = kvWrites + 1
                                    /\ RowSound(row, kvWrites + 1, kvSince, kvBox)
    <3>1. ttl \in Nat
      BY KVStoreAssumption
    <3>2. QED
      BY <2>2, <3>1, WrittenRow DEF KVSet
  <2>3. QED
    BY <2>1, <2>2
<1>2. UNCHANGED <<kvSetup, kvC>>
  BY DEF KVDelete, KVSet
<1>3. kvC' \in [KVCallers -> KVCallType] /\ {k} \in SUBSET KVKeys
  BY <1>2 DEF KVInv, KVTyped
<1>4. QED
  BY <1>1, <1>2, <1>3, KVStored

\* Add, of badger and of the SQL store.
LEMMA KVAddStep ==
  ASSUME KVInv, NEW c \in KVCallers, NEW k \in KVKeys,
         BadgerAddGet(c, k) \/ \E ttl \in KVTTLs : BadgerAddCommit(c, k, ttl) \/ SQLAdd(c, k, ttl)
  PROVE  KVInv'
<1>r. kvRows[k] \in RowType /\ \A j \in KVKeys : kvRows[j].ver \in Nat /\ kvRows[j].ver <= kvWrites
  BY DEF KVInv, KVTyped, RowSound, RowType, Reads
<1>1. CASE BadgerAddGet(c, k)
  <2> DEFINE r == [KVIdle EXCEPT !.pc = "add", !.todo = {k}, !.saw = Seen({k})]
  <2>1. ~Live(kvRows[k]) /\ KVCall(c, r) /\ UNCHANGED <<kvSetup, kvRows, kvOld, kvWrites>>
    BY <1>1 DEF BadgerAddGet
  <2>s. Seen({k}) = {<<k, kvRows[k].ver>>}
    BY Zenon DEF Seen
  <2>t. {<<k, kvRows[k].ver>>} \in SUBSET (KVKeys \X Nat)
    BY <1>r
  <2>2. r \in KVCallType /\ r.pc = "add" /\ r.todo = {k} /\ r.saw = {<<k, kvRows[k].ver>>} /\ ~r.dup
    BY <2>s, <2>t DEF KVIdle, KVCallType
  <2>3. ~LiveAt(kvRows[k], kvNow)
    BY <2>1 DEF Live, LiveAt
  <2> HIDE DEF r
  <2>4. CallSound(r, kvRows, kvOld, kvNow, kvWrites)
    BY <1>r, <2>2, <2>3 DEF CallSound
  <2>5. QED
    BY <2>1, <2>2, <2>4, KVCallerStep
<1>2. ASSUME NEW ttl \in KVTTLs, BadgerAddCommit(c, k, ttl) PROVE KVInv'
  <2>1. kvC[c].pc = "add" /\ k \in kvC[c].todo /\ UNCHANGED kvSetup /\ ttl \in Nat
    BY <1>2, KVStoreAssumption DEF BadgerAddCommit
  <2>2. CASE Commits(c, k)
    <3>1. <<k, kvRows[k].ver>> \in kvC[c].saw
      BY <2>2 DEF Commits, Seen
    <3>2. ~LiveAt(kvRows[k], kvNow)
      BY <2>1, <3>1 DEF KVInv, CallSound
    <3>3. ~Live(kvRows[k])
      BY <3>2 DEF Live, LiveAt
    <3>4. /\ Stores({k}, Row(Seal, ttl))
          /\ KVCall(c, [KVIdle EXCEPT !.pc = "created", !.dup = Live(kvRows[k])])
      BY <1>2, <2>2 DEF BadgerAddCommit
    <3>5. QED
      BY <2>1, <3>3, <3>4, KVCreated
  <2>3. CASE ~Commits(c, k)
    <3>1. KVCall(c, [KVIdle EXCEPT !.pc = "failed"]) /\ UNCHANGED <<kvSetup, kvRows, kvOld, kvWrites>>
      BY <1>2, <2>3 DEF BadgerAddCommit
    <3>2. QED
      BY <3>1, KVIdleSound, KVCallerStep
  <2>4. QED
    BY <2>2, <2>3
<1>3. ASSUME NEW ttl \in KVTTLs, SQLAdd(c, k, ttl) PROVE KVInv'
  <2>1. ~Live(kvRows[k]) /\ ttl \in Nat
    BY <1>3, KVStoreAssumption DEF SQLAdd, Live
  <2>2. QED
    BY <1>3, <2>1, KVCreated DEF SQLAdd
<1>4. QED
  BY <1>1, <1>2, <1>3

\* List: one snapshot, or the names first and then the values.
LEMMA KVListStep ==
  ASSUME KVInv, NEW c \in KVCallers,
         (\E names \in SUBSET KVKeys : ListKeys(c, names)) \/ \E k \in KVKeys : ListValue(c, k)
  PROVE  KVInv'
<1>r. /\ \A j \in KVKeys : kvRows[j].ver \in Nat /\ kvRows[j].ver <= kvWrites
      /\ kvC[c] \in KVCallType /\ CallSound(kvC[c], kvRows, kvOld, kvNow, kvWrites)
  BY DEF KVInv, KVTyped, RowSound, RowType, Reads
<1>o. \A j \in KVKeys : \A row \in Reads(j) : row.ver \in Nat /\ Open(row) = row.ver
  BY DEF KVInv, KVTyped, RowSound, RowType, Reads, Open
<1>1. ASSUME NEW names \in SUBSET KVKeys, ListKeys(c, names) PROVE KVInv'
  <2> DEFINE settled == {k \in names : Settled(k)}
             got == {<<k, Open(kvRows[k])>> : k \in names}
             r == IF kvKind = "cf" /\ names # {}
                  THEN [KVIdle EXCEPT !.pc = "list", !.todo = names, !.saw = Seen(settled)]
                  ELSE [KVIdle EXCEPT !.pc = "listed", !.saw = Seen(settled), !.got = got]
  <2>1. KVCall(c, r) /\ UNCHANGED <<kvSetup, kvRows, kvOld, kvWrites>>
    BY <1>1 DEF ListKeys
  <2>2. Seen(settled) \subseteq KVKeys \X Nat /\ got \subseteq KVKeys \X Nat /\ Seen(settled) \subseteq got
    BY <1>r, <1>o DEF Seen, Reads
  <2>3. \A e \in Seen(settled) : e[1] \in names /\ kvOld[e[1]] = {} /\ e[2] <= kvWrites
    BY <1>r DEF Seen, Settled
  <2>4. /\ r \in KVCallType /\ r.saw = Seen(settled) /\ ~r.dup
        /\ (r.pc = "list" /\ r.todo = names) \/ (r.pc = "listed" /\ r.got = got)
    BY <2>2 DEF KVIdle, KVCallType
  <2> HIDE DEF r, settled, got
  <2>5. CallSound(r, kvRows, kvOld, kvNow, kvWrites)
    BY <2>2, <2>3, <2>4 DEF CallSound
  <2>6. QED
    BY <2>1, <2>4, <2>5, KVCallerStep
<1>2. ASSUME NEW k \in KVKeys, ListValue(c, k) PROVE KVInv'
  <2> DEFINE me == kvC[c]
  <2>a. PICK row \in Reads(k) :
          KVCall(c, Listed(IF ~Live(row) THEN AfterMiss(me, k)
                           ELSE [me EXCEPT !.todo = @ \ {k}, !.got = @ \cup {<<k, Open(row)>>}]))
    BY <1>2 DEF ListValue
  <2> DEFINE got == IF Live(row) THEN me.got \cup {<<k, row.ver>>} ELSE me.got
             q == IF ~Live(row) THEN AfterMiss(me, k)
                  ELSE [me EXCEPT !.todo = @ \ {k}, !.got = @ \cup {<<k, Open(row)>>}]
             r == Listed(q)
  <2>1. me.pc = "list" /\ KVCall(c, r) /\ UNCHANGED <<kvSetup, kvRows, kvOld, kvWrites>>
    BY <1>2, <2>a DEF ListValue
  <2>2. /\ q \in KVCallType /\ q.pc = "list" /\ q.todo = me.todo \ {k} /\ q.saw = me.saw /\ q.got = got
        /\ q.dup = me.dup
    <3>1. CASE ~Live(row)
      BY <1>r, <2>1, <3>1 DEF AfterMiss, KVCallType
    <3>2. CASE Live(row)
      <4>1. q = [me EXCEPT !.todo = @ \ {k}, !.got = @ \cup {<<k, row.ver>>}]
        BY <1>o, <3>2
      <4>2. <<k, row.ver>> \in KVKeys \X Nat
        BY <1>o
      <4> HIDE DEF q
      <4>3. QED
        BY <1>r, <2>1, <3>2, <4>1, <4>2 DEF KVCallType
    <3>3. QED
      BY <3>1, <3>2
  <2> HIDE DEF q
  <2>3. /\ r \in KVCallType /\ r.saw = me.saw /\ r.got = got /\ r.dup = me.dup
        /\ (r.pc = "list" /\ r.todo = me.todo \ {k}) \/ (r.pc = "listed" /\ me.todo \ {k} = {})
    BY <2>2 DEF Listed, KVCallType
  <2>4. me.got \subseteq got /\ (Live(row) => <<k, row.ver>> \in got)
    OBVIOUS
  <2> HIDE DEF r, got
  <2>5. \A e \in me.saw : e = <<e[1], e[2]>>
    BY <1>r DEF KVCallType
  <2>s. \A e \in me.saw : kvRows[e[1]].ver = e[2] => kvOld[e[1]] = {}
    BY <1>r, <2>1 DEF CallSound
  <2>6. \A e \in me.saw : kvRows[e[1]].ver = e[2] /\ LiveAt(kvRows[e[1]], kvNow)
                            => e \in got \/ e[1] \in me.todo \ {k}
    <3> SUFFICES ASSUME NEW e \in me.saw, kvRows[e[1]].ver = e[2], LiveAt(kvRows[e[1]], kvNow)
                 PROVE  e \in got \/ e[1] \in me.todo \ {k}
      OBVIOUS
    <3>1. e \in me.got \/ e[1] \in me.todo
      BY <1>r, <2>1 DEF CallSound
    <3>2. CASE e[1] = k
      <4>1. row = kvRows[k]
        BY <2>s, <3>2 DEF Reads
      <4>2. <<k, row.ver>> \in got
        BY <2>4, <3>2, <4>1 DEF Live, LiveAt
      <4>3. QED
        BY <2>5, <3>2, <4>1, <4>2
    <3>3. QED
      BY <2>4, <3>1, <3>2
  <2>7. CallSound(r, kvRows, kvOld, kvNow, kvWrites)
    BY <1>r, <2>1, <2>3, <2>6, <2>s DEF CallSound
  <2>8. QED
    BY <2>1, <2>3, <2>7, KVCallerStep
<1>3. QED
  BY <1>1, <1>2

\* A batch: its start, its requests and its return.
LEMMA KVBulkStep ==
  ASSUME KVInv, NEW c \in KVCallers,
         \/ StoreBulk(c, KVKeys) \/ BulkReturns(c)
         \/ \E chunk \in SUBSET kvC[c].todo : BulkRequest(c, chunk)
  PROVE  KVInv'
<1>r. /\ \A j \in KVKeys : kvRows[j] \in RowType /\ kvRows[j].ver \in Nat /\ kvRows[j].ver <= kvWrites
      /\ kvC[c] \in KVCallType /\ CallSound(kvC[c], kvRows, kvOld, kvNow, kvWrites) /\ kvWrites \in Nat
  BY DEF KVInv, KVTyped, RowSound, RowType, Reads
<1>1. CASE StoreBulk(c, KVKeys)
  <2> DEFINE r == [KVIdle EXCEPT !.pc = "bulk", !.todo = KVKeys, !.saw = Seen(KVKeys)]
  <2>1. KVCall(c, r) /\ UNCHANGED <<kvSetup, kvRows, kvOld, kvWrites>>
    BY <1>1 DEF StoreBulk
  <2>2. Seen(KVKeys) \in SUBSET (KVKeys \X Nat) /\ \A e \in Seen(KVKeys) : e[1] \in KVKeys /\ e[2] <= kvWrites
    BY <1>r DEF Seen
  <2>3. r \in KVCallType /\ r.pc = "bulk" /\ r.todo = KVKeys /\ r.saw = Seen(KVKeys) /\ ~r.dup
    BY <2>2 DEF KVIdle, KVCallType
  <2> HIDE DEF r
  <2>4. CallSound(r, kvRows, kvOld, kvNow, kvWrites)
    BY <2>2, <2>3 DEF CallSound
  <2>5. QED
    BY <2>1, <2>3, <2>4, KVCallerStep
<1>2. CASE BulkReturns(c)
  <2> DEFINE me == kvC[c]
             r == [me EXCEPT !.pc = "stored", !.todo = {}]
  <2>1. /\ me.pc = "bulk" /\ KVCall(c, r) /\ UNCHANGED <<kvSetup, kvRows, kvOld, kvWrites>>
        /\ ~ \E chunk \in (SUBSET me.todo) \ {{}} : IsChunk(chunk, me.todo)
    BY <1>2 DEF BulkReturns
  <2>2. me.todo \in SUBSET KVKeys
    BY <1>r DEF KVCallType
  <2>3. me.todo = {}
    BY <2>1, <2>2, ChunkIsLeft
  <2>4. r \in KVCallType /\ r.pc = "stored" /\ r.saw = me.saw /\ r.dup = me.dup
    BY <1>r DEF KVCallType
  <2> HIDE DEF r
  <2>5. CallSound(r, kvRows, kvOld, kvNow, kvWrites)
    BY <1>r, <2>1, <2>3, <2>4 DEF CallSound
  <2>6. QED
    BY <2>1, <2>4, <2>5, KVCallerStep
<1>3. ASSUME NEW chunk \in SUBSET kvC[c].todo, BulkRequest(c, chunk) PROVE KVInv'
  <2> DEFINE me == kvC[c]
             row == Row(Seal, 0)
             r == [me EXCEPT !.todo = @ \ chunk]
  <2>1. me.pc = "bulk" /\ Stores(chunk, row) /\ kvC' = [kvC EXCEPT ![c] = r] /\ UNCHANGED kvSetup
    BY <1>3 DEF BulkRequest, SealBulk, KVCall
  <2>2. row \in RowType /\ row.ver = kvWrites + 1 /\ RowSound(row, kvWrites + 1, kvSince, kvBox)
    BY WrittenRow
  <2>3. r \in KVCallType /\ r.pc = "bulk" /\ r.todo = me.todo \ chunk /\ r.saw = me.saw /\ r.dup = me.dup
    BY <1>r, <2>1 DEF KVCallType
  <2> HIDE DEF row, r
  <2>4. chunk \in SUBSET KVKeys
    BY <1>r DEF KVCallType
  <2>5. kvWrites' = kvWrites + 1 /\ \A k \in KVKeys : kvRows'[k] = IF k \in chunk THEN row ELSE kvRows[k]
    BY <2>1 DEF Stores, KVWrite
  <2>7. \A e \in me.saw : e[1] \in KVKeys /\ e[2] \in Nat /\ e[2] <= kvWrites
    BY <1>r DEF KVCallType, CallSound
  <2>8. \A e \in me.saw : kvRows'[e[1]].ver > e[2] \/ e[1] \in me.todo \ chunk
    BY <1>r, <2>1, <2>2, <2>5, <2>7 DEF CallSound
  <2>9. CallSound(r, kvRows', kvOld', kvNow', kvWrites')
    BY <1>r, <2>1, <2>3, <2>5, <2>7, <2>8 DEF CallSound
  <2>10. /\ kvC' \in [KVCallers -> KVCallType]
         /\ \A d \in KVCallers : kvC'[d] = kvC[d] \/ CallSound(kvC'[d], kvRows', kvOld', kvNow', kvWrites')
    BY <2>1, <2>3, <2>9 DEF KVInv, KVTyped
  <2>12. QED
    BY <2>1, <2>2, <2>4, <2>10, KVStored
<1>4. QED
  BY <1>1, <1>2, <1>3

\* Every action keeps the invariant.
LEMMA KVStep == ASSUME KVInv, [KVNext]_kvVars PROVE KVInv'
<1>1. CASE EnableEncryption
  <2>1. /\ kvBox' = TRUE /\ kvSince' = kvWrites /\ kvC' = [c \in KVCallers |-> KVIdle]
        /\ UNCHANGED <<kvRows, kvOld, kvNow, kvWrites>>
    BY <1>1 DEF EnableEncryption
  <2>2. KVTyped' /\ kvSince' <= kvWrites'
    BY <2>1, KVIdleSound DEF KVInv, KVTyped
  <2>3. \A k \in KVKeys : \A row \in Reads(k)' : RowSound(row, kvWrites', kvSince', kvBox')
    BY <2>1 DEF KVInv, KVTyped, RowType, RowSound, Reads
  <2>4. \A c \in KVCallers : CallSound(kvC'[c], kvRows', kvOld', kvNow', kvWrites')
    BY <2>1, KVIdleSound
  <2>5. QED
    BY <2>2, <2>3, <2>4 DEF KVInv
<1>2. CASE KVClock
  <2>1. kvNow' = kvNow + 1 /\ UNCHANGED <<kvRows, kvOld, kvWrites, kvBox, kvSince, kvC>>
    BY <1>2 DEF KVClock
  <2>2. KVTyped' /\ kvSince' <= kvWrites' /\ kvNow <= kvNow' /\ kvWrites <= kvWrites'
    BY <2>1 DEF KVInv, KVTyped
  <2>3. QED
    BY <2>1, <2>2, KVMoves DEF KVInv, Reads
<1>3. ASSUME NEW c \in KVCallers, KVFails(c) PROVE KVInv'
  BY <1>3, KVIdleSound, KVCallerStep DEF KVFails
<1>4. CASE UNCHANGED kvVars
  BY <1>4 DEF kvVars, KVInv, KVTyped, Reads
<1>p. ASSUME NEW k \in KVKeys, Propagates(k) PROVE KVInv'
  <2>1. /\ kvOld' = [kvOld EXCEPT ![k] = {}]
        /\ UNCHANGED <<kvNow, kvBox, kvSince, kvRows, kvWrites, kvC>>
    BY <1>p DEF Propagates, kvSetup
  <2>2. KVTyped' /\ kvSince' <= kvWrites' /\ kvNow <= kvNow' /\ kvWrites <= kvWrites'
    BY <2>1 DEF KVInv, KVTyped
  <2>3. \A j \in KVKeys : kvRows'[j] = kvRows[j] /\ kvOld'[j] \subseteq kvOld[j]
    BY <2>1 DEF KVInv, KVTyped
  <2>4. \A j \in KVKeys : \A row \in Reads(j)' : RowSound(row, kvWrites', kvSince', kvBox')
    BY <2>1, <2>3 DEF KVInv, Reads
  <2>5. QED
    BY <2>1, <2>2, <2>3, <2>4, KVMoves
<1>5. QED
  BY <1>1, <1>2, <1>3, <1>4, <1>p, KVSetStep, KVAddStep, KVListStep, KVBulkStep DEF KVNext

\* The stores create a key once, list and store whole, and seal what they write,
\* whichever store it is, with any number of callers, keys and bulk requests, and
\* with any number of earlier rows that Workers KV's edge nodes still answer with.
THEOREM StoreCorrect == KVSpec => []StoreHolds
<1>1. KVInit => KVInv
  <2> SUFFICES ASSUME KVInit PROVE KVInv
    OBVIOUS
  <2>1. NoRow \in RowType /\ NoRow.ver = 0 /\ ~NoRow.sealed /\ ~NoRow.there
    BY DEF NoRow, RowType
  <2>2. KVTyped
    BY <2>1, KVIdleSound DEF KVInit, KVTyped
  <2>3. \A k \in KVKeys : \A row \in Reads(k) : RowSound(row, kvWrites, kvSince, kvBox)
    BY <2>1 DEF KVInit, RowSound, Reads
  <2>4. QED
    BY <2>2, <2>3, KVIdleSound DEF KVInit, KVInv
<1>2. KVInv /\ [KVNext]_kvVars => KVInv'
  BY KVStep
<1>3. KVInv => StoreHolds
  <2> SUFFICES ASSUME KVInv PROVE StoreHolds
    OBVIOUS
  <2>1. OneCreator
    BY DEF KVInv, CallSound, OneCreator
  <2>2. ListIsWhole
    BY DEF KVInv, CallSound, ListIsWhole, Live, LiveAt
  <2>3. BatchIsStored
    BY DEF KVInv, CallSound, BatchIsStored
  <2>4. SealedAtRest
    BY DEF KVInv, RowSound, SealedAtRest, Open, Reads
  <2>5. QED
    BY <2>1, <2>2, <2>3, <2>4 DEF StoreHolds
<1>4. QED
  BY <1>1, <1>2, <1>3, PTL DEF KVSpec

\* The shared stores and the rate limiter that counts in them keep their promises
\* side by side.
THEOREM SharedStoresCorrect == KVSpec /\ RLSpec => []SharedStoresHold
<1>1. StoreHolds /\ LimitHolds => SharedStoresHold
  BY DEF SharedStoresHold
<1>2. QED
  BY <1>1, StoreCorrect, LimitCorrect, PTL
=============================================================================
