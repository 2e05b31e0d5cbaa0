------------------------------ MODULE Migration ------------------------------
(***************************************************************************)
(* ayato migrate: the jobs that take package bytes out of the pool of the  *)
(* old layout (expand), and later remove the pool (contract), with the     *)
(* markers that make a job resume where an earlier one was interrupted.    *)
(*                                                                         *)
(* A path points to an object of the pool; several paths may share one.    *)
(* The binary that serves reads and writes either the pool or the paths    *)
(* themselves; it removes and stores packages while the jobs run.          *)
(***************************************************************************)
EXTENDS Naturals, FiniteSets

CONSTANTS MigrateJobs, PoolPaths,
          PoolObjs,               \* bytes, by their hash
          NoHash,                 \* no pointer, or an empty one; no bytes; not listed
          PoolStart,              \* path -> its pointer at first
          MaxMigrateFaults, MaxMigrateUploads

ASSUME MigrationAssumption == NoHash \notin PoolObjs /\ PoolStart \in [PoolPaths -> PoolObjs \cup {NoHash}]

VARIABLES mgPtr,      \* path -> the pool pointer
          mgPool,     \* objects of the pool
          mgDirect,   \* path -> the bytes it holds itself
          mgMeta,     \* [expanded, contracted, layout]
          mgServing,  \* what the binary that serves reads: "pool" or "direct"
          mgLive,     \* path -> the bytes that the repositories list
          mgLate,     \* paths stored behind the listing of an expand
          mgJ,        \* job -> [pc, phase, todo]
          mgFaults, mgUploads

mgVars == <<mgPtr, mgPool, mgDirect, mgMeta, mgServing, mgLive, mgLate, mgJ, mgFaults, mgUploads>>
mgData == <<mgPtr, mgPool, mgDirect>>
mgWorld == <<mgServing, mgLive, mgLate, mgUploads>>

JobIdle == [pc |-> "idle", phase |-> "expand", todo |-> {}]

MGInit ==
  /\ mgPtr = PoolStart /\ mgPool = {PoolStart[k] : k \in PoolPaths} \ {NoHash}
  /\ mgDirect = [k \in PoolPaths |-> NoHash]
  /\ mgMeta = [expanded |-> FALSE, contracted |-> FALSE, layout |-> 0]
  /\ mgServing = "pool" /\ mgLive = PoolStart /\ mgLate = {} /\ mgFaults = 0 /\ mgUploads = 0
  /\ mgJ = [j \in MigrateJobs |-> JobIdle]

Job(j, r) == mgJ' = [mgJ EXCEPT ![j] = r]

\* Never contract a layout that was not expanded.
MayContract == mgMeta.expanded

Copying == \E j \in MigrateJobs : mgJ[j].pc = "copy"

\* runOne of the expand phase, up to the list of pointers.  What was stored behind
\* the listing of a job that is over is listed now.
StartExpand(j) ==
  /\ mgJ[j].pc = "idle"
  /\ Job(j, IF mgMeta.expanded THEN [JobIdle EXCEPT !.pc = "done"]
            ELSE [pc |-> "copy", phase |-> "expand", todo |-> {<<k, mgPtr[k]>> : k \in PoolPaths}])
  /\ mgLate' = IF mgMeta.expanded \/ Copying THEN mgLate ELSE {}
  /\ UNCHANGED <<mgData, mgMeta, mgServing, mgLive, mgFaults, mgUploads>>

\* runOne of the contract phase, up to the list of objects.
StartContract(j) ==
  /\ mgJ[j].pc = "idle"
  /\ Job(j, IF ~MayContract THEN JobIdle
            ELSE IF mgMeta.contracted THEN [pc |-> "done", phase |-> "contract", todo |-> {}]
            ELSE [pc |-> "delete", phase |-> "contract", todo |-> mgPool])
  /\ UNCHANGED <<mgData, mgMeta, mgWorld, mgFaults>>

\* Expand, one pointer of the list: an empty one is passed over, an object that is
\* gone ends the job.
CopyObject(j, k, h) ==
  LET rest == [mgJ[j] EXCEPT !.todo = @ \ {<<k, h>>}]
  IN /\ mgJ[j].pc = "copy" /\ <<k, h>> \in mgJ[j].todo
     /\ \/ h = NoHash /\ Job(j, rest) /\ UNCHANGED mgDirect
        \/ h \in mgPool /\ mgDirect' = [mgDirect EXCEPT ![k] = h] /\ Job(j, rest)
        \/ h \notin mgPool \cup {NoHash} /\ Job(j, JobIdle) /\ UNCHANGED mgDirect
     /\ UNCHANGED <<mgPtr, mgPool, mgMeta, mgWorld, mgFaults>>

\* Contract, one DeleteObject.
DeleteObject(j, o) ==
  /\ mgJ[j].pc = "delete" /\ o \in mgJ[j].todo
  /\ mgPool' = mgPool \ {o} /\ Job(j, [mgJ[j] EXCEPT !.todo = @ \ {o}])
  /\ UNCHANGED <<mgPtr, mgDirect, mgMeta, mgWorld, mgFaults>>

\* Contract goes on to the indices, BulkDelete.
DeleteIndices(j) ==
  /\ mgJ[j].pc = "delete" /\ mgJ[j].todo = {}
  /\ mgPtr' = [k \in PoolPaths |-> NoHash] /\ Job(j, [mgJ[j] EXCEPT !.pc = "mark"])
  /\ UNCHANGED <<mgPool, mgDirect, mgMeta, mgWorld, mgFaults>>

\* Deviation: expand is marked as soon as the pointers are listed.
AppliedListed(j) == mgJ[j].pc \in {"mark", "copy"}

\* The phase was applied.
Applied(j) == mgJ[j].pc = "mark" \/ (mgJ[j].pc = "copy" /\ mgJ[j].todo = {})

SetMarker(j) ==
  /\ Applied(j)
  /\ IF mgJ[j].phase = "expand"
     THEN mgMeta' = [mgMeta EXCEPT !.expanded = TRUE] /\ Job(j, [mgJ[j] EXCEPT !.pc = "done"])
     ELSE mgMeta' = [mgMeta EXCEPT !.contracted = TRUE] /\ Job(j, [mgJ[j] EXCEPT !.pc = "layout"])
  /\ UNCHANGED <<mgData, mgWorld, mgFaults>>

\* Deviation: the layout may be written once the objects are gone.
LayoutSoon(j) == mgJ[j].pc = "layout" \/ (mgJ[j].pc = "delete" /\ mgJ[j].todo = {})

\* After the marker.
LayoutNow(j) == mgJ[j].pc = "layout"

WriteLayout(j) ==
  /\ LayoutNow(j)
  /\ mgMeta' = [mgMeta EXCEPT !.layout = 1] /\ Job(j, [mgJ[j] EXCEPT !.pc = "done"])
  /\ UNCHANGED <<mgData, mgWorld, mgFaults>>

JobEnds(j) ==
  /\ mgJ[j].pc = "done" /\ Job(j, JobIdle)
  /\ UNCHANGED <<mgData, mgMeta, mgWorld, mgFaults>>

\* A store fails or the process dies: the job is over where it was.
JobInterrupted(j) ==
  /\ mgJ[j].pc \notin {"idle", "done"} /\ mgFaults < MaxMigrateFaults /\ mgFaults' = mgFaults + 1
  /\ Job(j, JobIdle)
  /\ UNCHANGED <<mgData, mgMeta, mgWorld>>

\* The operator ships the binary that reads the new layout once expand is done.
ShipBinary ==
  /\ mgServing = "pool" /\ mgMeta.expanded /\ mgServing' = "direct"
  /\ UNCHANGED <<mgData, mgMeta, mgLive, mgLate, mgJ, mgFaults, mgUploads>>

\* The server removes a package, from the layout it reads.
RemovePackage(k) ==
  /\ mgLive[k] # NoHash /\ mgLive' = [mgLive EXCEPT ![k] = NoHash]
  /\ IF mgServing = "pool" THEN mgPtr' = [mgPtr EXCEPT ![k] = NoHash] /\ UNCHANGED mgDirect
     ELSE mgDirect' = [mgDirect EXCEPT ![k] = NoHash] /\ UNCHANGED mgPtr
  /\ UNCHANGED <<mgPool, mgMeta, mgServing, mgLate, mgJ, mgFaults, mgUploads>>

\* The server stores a package that is not listed, in the layout it reads; the name
\* may have been there before, with other bytes.
UploadPackage(k, h) ==
  /\ mgUploads < MaxMigrateUploads /\ mgUploads' = mgUploads + 1
  /\ mgLive[k] = NoHash /\ mgLive' = [mgLive EXCEPT ![k] = h]
  /\ IF mgServing = "pool"
     THEN mgPool' = mgPool \cup {h} /\ mgPtr' = [mgPtr EXCEPT ![k] = h] /\ UNCHANGED mgDirect
     ELSE mgDirect' = [mgDirect EXCEPT ![k] = h] /\ UNCHANGED <<mgPool, mgPtr>>
  /\ mgLate' = IF Copying \/ (mgServing = "pool" /\ mgMeta.expanded) THEN mgLate \cup {k} ELSE mgLate \ {k}
  /\ UNCHANGED <<mgMeta, mgServing, mgJ, mgFaults>>

MGNext ==
  \/ ShipBinary
  \/ \E k \in PoolPaths : RemovePackage(k) \/ \E h \in PoolObjs : UploadPackage(k, h)
  \/ \E j \in MigrateJobs :
       \/ StartExpand(j) \/ (mgServing = "direct" /\ StartContract(j))
       \/ (\E k \in PoolPaths, h \in PoolObjs \cup {NoHash} : CopyObject(j, k, h))
       \/ (\E o \in PoolObjs : DeleteObject(j, o))
       \/ DeleteIndices(j) \/ SetMarker(j) \/ WriteLayout(j) \/ JobEnds(j) \/ JobInterrupted(j)

MGSpec == MGInit /\ [][MGNext]_mgVars

\* The binary that serves has the bytes the repositories list for a path.
Readable(k) ==
  IF mgServing = "pool" THEN mgPtr[k] = mgLive[k] /\ mgLive[k] \in mgPool ELSE mgDirect[k] = mgLive[k]

ListedPaths == {k \in PoolPaths : mgLive[k] # NoHash}

\* Every package the repositories list is readable by the binary that serves, with
\* the bytes that were stored, at every moment of both phases, with jobs that
\* overlap and are interrupted and packages that come and go meanwhile: by the pool
\* binary every one, by the new binary every one that was not stored behind the
\* listing of an expand.
StaysReadable == \A k \in ListedPaths : Readable(k) \/ (mgServing = "direct" /\ k \in mgLate)

\* The layout version says what is there: at 1, nothing is left of the pool.
LayoutIsTrue ==
  mgMeta.layout = 1 => mgPool = {} /\ (\A k \in PoolPaths : mgPtr[k] = NoHash) /\ mgMeta.contracted

\* What comments say and the code does not keep (README, section 6), so no run has them.
\* Whatever is stored while the jobs run is readable afterwards (m001_unpool.go:
\* "The pool still serves until Contract, so this is safe under live traffic").
LiveTrafficSafe == \A k \in ListedPaths : Readable(k)

\* A contract that reports success has advanced the layout version, also when
\* it resumed an interrupted one (migrate.go: "Markers make it idempotent and
\* resumable; Contract advances the layout version").
ContractAdvances ==
  \A j \in MigrateJobs : (mgJ[j].pc = "done" /\ mgJ[j].phase = "contract") => mgMeta.layout = 1

\* Migration, as a whole: packages stay readable and the layout version is true.
MigrationHolds == StaysReadable /\ LayoutIsTrue
=============================================================================
