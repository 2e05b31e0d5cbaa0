--------------------------- MODULE MikoJobsProofs ---------------------------
(***************************************************************************)
(* Theorems about MikoJobs, for every number of jobs, workers, retries,    *)
(* restarts and every capacity.                                            *)
(***************************************************************************)
EXTENDS MikoJobs, TLAPS

(***************************************************************************)
(* Typing.                                                                 *)
(***************************************************************************)
\* A worker that is past pop holds a job, and a waiting one names a child.
WorkerHasJob ==
    \A w \in Workers :
        /\ wk[w].pc \notin {"idle", "exited"} => wk[w].job \in Jobs
        /\ wk[w].pc = "chaining" => wk[w].child \in Jobs

Typed == TypeOK /\ WorkerHasJob

\* Service.update keeps the store and the issued file operations well-typed.
LEMMA UpdateType ==
    ASSUME store \in [Jobs -> JobRecord], unsaved \subseteq FileOp,
           NEW a \in Actors, NEW j \in Jobs, NEW rec \in JobRecord,
           Update(a, j, rec)
    PROVE  store' \in [Jobs -> JobRecord] /\ unsaved' \subseteq FileOp
<1>1. Durable(rec) \in JobRecord
  BY DEF Durable, JobRecord
<1>2. SaveOp(a, j, rec) \in FileOp
  BY <1>1 DEF SaveOp, FileOp
<1>3. QED
  BY <1>2 DEF Update

\* So does finalizeLog.
LEMMA FinalizeLogType ==
    ASSUME store \in [Jobs -> JobRecord], unsaved \subseteq FileOp, logs \subseteq Jobs,
           NEW a \in Actors, NEW j \in Jobs, FinalizeLog(a, j)
    PROVE  /\ store' \in [Jobs -> JobRecord]
           /\ unsaved' \subseteq FileOp
           /\ logs' \subseteq Jobs
<1> DEFINE rec == [store[j] EXCEPT !.logs = TRUE]
<1>1. rec \in JobRecord
  BY DEF JobRecord
<1>2. CASE j \in logs
  <2>1. Update(a, j, rec)
    BY <1>2 DEF FinalizeLog
  <2>2. QED
    BY <1>1, <2>1, UpdateType DEF FinalizeLog
<1>3. CASE j \notin logs
  BY <1>3 DEF FinalizeLog
<1>4. QED
  BY <1>2, <1>3

\* The field updates of process, setStatus and Cancel stay within JobRecord.
LEMMA RecordTypes ==
    ASSUME NEW rec \in JobRecord
    PROVE  /\ \A st \in ActiveStatus \cup TerminalStatus : [rec EXCEPT !.status = st] \in JobRecord
           /\ \A n \in 0..MaxRetries : [rec EXCEPT !.retries = n] \in JobRecord
           /\ \A st \in TerminalStatus, b \in BOOLEAN :
                 [rec EXCEPT !.status = st, !.artifact = b] \in JobRecord
BY DEF JobRecord

\* The actors that issue file operations are in Actors.
LEMMA ActorTypes ==
    /\ \A j \in Jobs : Submitter(j) \in Actors /\ Canceller(j) \in Actors
    /\ \A w \in Workers : Worker(w) \in Actors
    /\ Sweeper \in Actors
BY DEF Actors

\* sweepArtifacts keeps the store, the directories and the file operations typed.
LEMMA SweepType ==
    ASSUME store \in [Jobs -> JobRecord], dirs \subseteq Jobs, unsaved \subseteq FileOp,
           NEW a \in Actors, NEW expired \in SUBSET Jobs, SweepArtifacts(a, expired)
    PROVE  /\ store' \in [Jobs -> JobRecord]
           /\ dirs' \subseteq Jobs
           /\ unsaved' \subseteq FileOp
<1>1. \A j \in Jobs : SaveOp(a, j, store[j]) \in FileOp
  BY DEF SaveOp, Durable, FileOp, JobRecord
<1>2. \A j \in Jobs : [store[j] EXCEPT !.artifact = FALSE] \in JobRecord
  BY DEF JobRecord
<1>3. QED
  BY <1>1, <1>2 DEF SweepArtifacts

\* Creating a job keeps the submissions and the log buffers typed.
LEMMA BeginSubmitType ==
    ASSUME sub \in [Jobs -> SubRecord], logs \subseteq Jobs, NEW j \in Jobs, BeginSubmit(j)
    PROVE  sub' \in [Jobs -> SubRecord] /\ logs' \subseteq Jobs
BY DEF BeginSubmit, SubRecord, SubPC

\* The service starts well-typed, with idle workers.
LEMMA InitTyped == Init => Typed
<1>1. NoJob \in JobRecord
  BY MikoAssumption DEF NoJob, JobRecord
<1>2. IdleWorker \in WorkerRecord
  BY MikoAssumption DEF IdleWorker, WorkerRecord, WorkerPC
<1>3. ASSUME Init PROVE sub \in [Jobs -> SubRecord]
  <2>1. [pc |-> "none", evicted |-> {}] \in SubRecord
    BY DEF SubPC, SubRecord
  <2>2. QED
    BY <1>3, <2>1 DEF Init
<1>4. ASSUME Init PROVE WorkerHasJob
  BY <1>4 DEF Init, WorkerHasJob, IdleWorker
<1>5. ASSUME Init PROVE queue \in Seq(Jobs) /\ Len(queue) <= QueueSize
  BY <1>5, MikoAssumption DEF Init
<1>6. ASSUME Init PROVE wk \in [Workers -> WorkerRecord]
  BY <1>6, <1>2 DEF Init
<1>7. ASSUME Init PROVE store \in [Jobs -> JobRecord] /\ disk \in [Jobs -> JobRecord]
  BY <1>7, <1>1 DEF Init
<1>8. ASSUME Init PROVE restarts \in 0..MaxRestarts
  BY <1>8, MikoAssumption DEF Init
<1>9. ASSUME Init PROVE stopping \in BOOLEAN
  BY <1>9, Zenon DEF Init
<1>10. QED
  BY <1>3, <1>4, <1>5, <1>6, <1>7, <1>8, <1>9 DEF Init, Typed, TypeOK

\* Every action keeps the variables in their types.
LEMMA NextTyped == Typed /\ [Next]_vars => Typed'
<1> SUFFICES ASSUME TypeOK, WorkerHasJob, [Next]_vars
             PROVE  TypeOK' /\ WorkerHasJob'
  BY DEF Typed
<1> USE MikoAssumption
<1>a. NoJob \in JobRecord /\ NewJob \in JobRecord
  <2>1. NoJob \in JobRecord
    BY DEF NoJob, JobRecord
  <2>2. QED
    BY <2>1, RecordTypes DEF NewJob, ActiveStatus
<1>b. IdleWorker \in WorkerRecord
  BY DEF IdleWorker, WorkerRecord, WorkerPC
<1>1. ASSUME NEW j \in Jobs, Submit(j)
      PROVE  TypeOK' /\ WorkerHasJob'
  BY <1>1 DEF Submit, BeginSubmit, TypeOK, WorkerHasJob, SubPC, SubRecord
<1>2. ASSUME NEW j \in Jobs, InsertJob(j)
      PROVE  TypeOK' /\ WorkerHasJob'
  <2> DEFINE st == [store EXCEPT ![j] = NewJob]
             ev == Evictable(st)
  <2>1. st \in [Jobs -> JobRecord]
    BY <1>a DEF TypeOK
  <2>2. ev \subseteq Jobs
    BY DEF Evictable, Terminal
  <2> HIDE DEF st, ev
  <2>3. store' \in [Jobs -> JobRecord] /\ dirs' \subseteq Jobs
    BY <1>2, <1>a, <2>1 DEF InsertJob, TypeOK, st, ev
  <2>4. sub' \in [Jobs -> SubRecord]
    BY <1>2, <2>2 DEF InsertJob, TypeOK, SubPC, SubRecord, st, ev
  <2>5. unsaved' \subseteq FileOp
    <3>1. SaveOp(Submitter(j), j, NewJob) \in FileOp
      BY <1>a, ActorTypes DEF SaveOp, Durable, FileOp, JobRecord
    <3>2. QED
      BY <1>2, <3>1 DEF InsertJob, TypeOK
  <2>6. QED
    BY <1>2, <2>3, <2>4, <2>5 DEF InsertJob, TypeOK, WorkerHasJob
<1>3. ASSUME NEW j \in Jobs, RemoveEvicted(j)
      PROVE  TypeOK' /\ WorkerHasJob'
  <2>1. sub[j].evicted \subseteq Jobs
    BY DEF TypeOK, SubRecord
  <2>2. unsaved' \subseteq FileOp
    BY <1>3, <1>a, <2>1, ActorTypes DEF RemoveEvicted, TypeOK, FileOp
  <2>3. sub' \in [Jobs -> SubRecord]
    BY <1>3 DEF RemoveEvicted, TypeOK, SubPC, SubRecord
  <2>4. QED
    BY <1>3, <2>2, <2>3 DEF RemoveEvicted, TypeOK, WorkerHasJob
<1>4. ASSUME NEW j \in Jobs, Push(j)
      PROVE  TypeOK' /\ WorkerHasJob'
  <2>1. CASE Len(queue) < QueueSize
    <3>0. sub' = [sub EXCEPT ![j].pc = "accepted"] /\ queue' = Append(queue, j)
      BY <1>4, <2>1 DEF Push
    <3>1. sub' \in [Jobs -> SubRecord]
      <4>1. sub \in [Jobs -> SubRecord]
        BY DEF TypeOK
      <4>2. [sub[j] EXCEPT !.pc = "accepted"] \in SubRecord
        BY <4>1 DEF SubPC, SubRecord
      <4>3. QED
        BY <3>0, <4>1, <4>2
    <3>2. queue' \in Seq(Jobs) /\ Len(queue') <= QueueSize
      BY <2>1, <3>0 DEF TypeOK
    <3>3. QED
      BY <1>4, <3>1, <3>2 DEF Push, TypeOK, WorkerHasJob
  <2>2. CASE ~(Len(queue) < QueueSize)
    <3>1. sub' \in [Jobs -> SubRecord]
      BY <1>4, <2>2 DEF Push, TypeOK, SubPC, SubRecord
    <3>2. QED
      BY <1>4, <2>2, <3>1 DEF Push, TypeOK, WorkerHasJob
  <2>3. QED
    BY <2>1, <2>2
<1>5. ASSUME NEW j \in Jobs, RejectCloseLog(j)
      PROVE  TypeOK' /\ WorkerHasJob'
  <2>1. store' \in [Jobs -> JobRecord] /\ unsaved' \subseteq FileOp /\ logs' \subseteq Jobs
    BY <1>5, FinalizeLogType, ActorTypes DEF RejectCloseLog, TypeOK
  <2>2. sub' \in [Jobs -> SubRecord]
    BY <1>5 DEF RejectCloseLog, TypeOK, SubPC, SubRecord
  <2>3. QED
    BY <1>5, <2>1, <2>2 DEF RejectCloseLog, TypeOK, WorkerHasJob
<1>6. ASSUME NEW j \in Jobs, RejectFail(j)
      PROVE  TypeOK' /\ WorkerHasJob'
  <2>1. [store[j] EXCEPT !.status = "failed"] \in JobRecord
    BY ZenonT(60) DEF TypeOK, JobRecord, TerminalStatus
  <2>2. store' \in [Jobs -> JobRecord] /\ unsaved' \subseteq FileOp
    BY <1>6, <2>1, UpdateType, ActorTypes DEF RejectFail, TypeOK
  <2>3. sub' \in [Jobs -> SubRecord]
    BY <1>6 DEF RejectFail, TypeOK, SubPC, SubRecord
  <2>4. QED
    BY <1>6, <2>2, <2>3 DEF RejectFail, TypeOK, WorkerHasJob
<1>7. ASSUME NEW j \in Jobs, CancelQueued(j)
      PROVE  TypeOK' /\ WorkerHasJob'
  <2> DEFINE rec == [store[j] EXCEPT !.status = "cancelled"]
  <2>1. rec \in JobRecord
    BY ZenonT(60) DEF TypeOK, JobRecord, TerminalStatus
  <2>2. SaveOp(Canceller(j), j, rec) \in FileOp
    BY <2>1, ActorTypes DEF SaveOp, Durable, FileOp, JobRecord
  <2>3. QED
    BY <1>7, <2>1, <2>2 DEF CancelQueued, TypeOK, WorkerHasJob
<1>8. ASSUME NEW j \in Jobs, CancelRunning(j)
      PROVE  TypeOK' /\ WorkerHasJob'
  BY <1>8 DEF CancelRunning, TypeOK, WorkerHasJob
<1>9. ASSUME NEW w \in Workers, WorkerStep(w)
      PROVE  TypeOK' /\ WorkerHasJob'
  <2> USE <1>9 DEF TypeOK, WorkerHasJob, At, Goto
  <2> DEFINE j == wk[w].job
  <2>0. wk[w] \in WorkerRecord
    OBVIOUS
  <2>1. CASE Pop(w)
    <3>1. Head(queue) \in Jobs /\ Tail(queue) \in Seq(Jobs) /\ Len(Tail(queue)) <= QueueSize
      BY <2>1 DEF Pop
    <3>2. QED
      BY <2>1, <3>1, <1>b DEF Pop, WorkerRecord, WorkerPC
  <2>2. CASE WorkerExit(w)
    BY <2>2, <2>0 DEF WorkerExit, WorkerRecord, WorkerPC
  <2>3. CASE Claim(w)
    <3>1. running' \subseteq Jobs
      BY <2>3 DEF Claim
    <3>2. \E pc \in {"skip", "claimed"} : Goto(w, pc)
      BY <2>3 DEF Claim
    <3>3. wk' \in [Workers -> WorkerRecord] /\ WorkerHasJob'
      <4>1. j \in Jobs
        BY <2>3 DEF Claim
      <4>2. PICK pc \in {"skip", "claimed"} : Goto(w, pc)
        BY <3>2
      <4>3. QED
        BY <2>0, <4>1, <4>2 DEF WorkerRecord, WorkerPC
    <3>4. QED
      BY <2>3, <3>1, <3>3 DEF Claim
  <2>4. CASE SkipCloseLog(w)
    <3>1. store' \in [Jobs -> JobRecord] /\ unsaved' \subseteq FileOp /\ logs' \subseteq Jobs
      BY <2>4, FinalizeLogType, ActorTypes DEF SkipCloseLog
    <3>2. QED
      BY <2>4, <3>1, <1>b DEF SkipCloseLog, IdleWorker
  <2>5. CASE MarkRunning(w)
    <3>0. j \in Jobs
      BY <2>5 DEF MarkRunning
    <3>1. [store[j] EXCEPT !.status = "running"] \in JobRecord
      BY <3>0, RecordTypes DEF ActiveStatus
    <3>2. store' \in [Jobs -> JobRecord] /\ unsaved' \subseteq FileOp
      BY <2>5, <3>0, <3>1, UpdateType, ActorTypes DEF MarkRunning
    <3>3. QED
      BY <2>5, <2>0, <3>2 DEF MarkRunning, WorkerRecord, WorkerPC
  <2>6. CASE BuildOK(w)
    BY <2>6, <2>0 DEF BuildOK, WorkerRecord, WorkerPC
  <2>7. CASE BuildGiveUp(w)
    BY <2>7, <2>0 DEF BuildGiveUp, WorkerRecord, WorkerPC
  <2>8. CASE BuildRetry(w)
    <3>1. wk[w].tries + 1 \in 0..MaxRetries
      BY <2>8, <2>0 DEF BuildRetry, WorkerRecord
    <3>0. j \in Jobs
      BY <2>8 DEF BuildRetry
    <3>2. [store[j] EXCEPT !.retries = wk[w].tries + 1] \in JobRecord
      BY <3>0, <3>1, RecordTypes
    <3>3. store' \in [Jobs -> JobRecord] /\ unsaved' \subseteq FileOp
      BY <2>8, <3>0, <3>2, UpdateType, ActorTypes DEF BuildRetry
    <3>4. QED
      BY <2>8, <2>0, <3>1, <3>3 DEF BuildRetry, WorkerRecord, WorkerPC
  <2>9. CASE Backoff(w)
    <3>1. CASE Goto(w, "building")
      BY <2>9, <2>0, <3>1 DEF Backoff, WorkerRecord, WorkerPC
    <3>2. CASE Goto(w, "deciding")
      BY <2>9, <2>0, <3>2 DEF Backoff, WorkerRecord, WorkerPC
    <3>3. QED
      BY <2>9, <3>1, <3>2 DEF Backoff
  <2>10. CASE UploadOK(w)
    <3>1. wk' \in [Workers -> WorkerRecord] /\ WorkerHasJob'
      BY <2>10, <2>0 DEF UploadOK, WorkerRecord, WorkerPC
    <3>2. published' \subseteq Jobs
      BY <2>10 DEF UploadOK
    <3>3. QED
      BY <2>10, <3>1, <3>2 DEF UploadOK
  <2>11. CASE UploadFail(w)
    BY <2>11, <2>0 DEF UploadFail, WorkerRecord, WorkerPC
  <2>12. CASE Decide(w)
    <3>1. CtxDone(j) \in BOOLEAN
      BY DEF CtxDone
    <3>2. QED
      BY <2>12, <2>0, <3>1 DEF Decide, WorkerRecord, WorkerPC
  <2>13. CASE Finish(w)
    <3> DEFINE rec == [store[j] EXCEPT !.status = Outcome(w),
                           !.artifact = @ \/ (Succeeded(w) /\ KeepArtifacts(w))]
    <3>1. j \in Jobs /\ Outcome(w) \in TerminalStatus
      BY <2>13 DEF Finish, Outcome, TerminalStatus
    <3>a. (store[j].artifact \/ (Succeeded(w) /\ KeepArtifacts(w))) \in BOOLEAN
      OBVIOUS
    <3>2. rec \in JobRecord
      BY <3>1, <3>a, RecordTypes
    <3>3. store' \in [Jobs -> JobRecord] /\ unsaved' \subseteq FileOp
      BY <2>13, <3>1, <3>2, UpdateType, ActorTypes DEF Finish
    <3>4. QED
      BY <2>13, <2>0, <3>3 DEF Finish, WorkerRecord, WorkerPC
  <2>14. CASE \E i \in Jobs : EnqueueRebuild(w, i)
    <3>1. PICK i \in Jobs : EnqueueRebuild(w, i)
      BY <2>14
    <3>2. wk' \in [Workers -> WorkerRecord] /\ WorkerHasJob'
      BY <2>0, <3>1 DEF EnqueueRebuild, WorkerRecord, WorkerPC
    <3>3. sub' \in [Jobs -> SubRecord] /\ logs' \subseteq Jobs
      BY <3>1, BeginSubmitType DEF EnqueueRebuild
    <3>4. QED
      BY <3>1, <3>2, <3>3 DEF EnqueueRebuild
  <2>15. CASE RebuildEnqueued(w)
    <3>1. CASE Goto(w, "chain")
      BY <2>15, <2>0, <3>1 DEF RebuildEnqueued, WorkerRecord, WorkerPC
    <3>2. CASE Goto(w, "sweep")
      BY <2>15, <2>0, <3>2 DEF RebuildEnqueued, WorkerRecord, WorkerPC
    <3>3. QED
      BY <2>15, <3>1, <3>2 DEF RebuildEnqueued
  <2>16. CASE ChainDone(w)
    BY <2>16, <2>0 DEF ChainDone, WorkerRecord, WorkerPC
  <2>17. CASE WorkerSweep(w)
    <3>1. PICK expired \in SUBSET {i \in Jobs : Expired(i)} : SweepArtifacts(Worker(w), expired)
      BY <2>17 DEF WorkerSweep
    <3>2. store' \in [Jobs -> JobRecord] /\ dirs' \subseteq Jobs /\ unsaved' \subseteq FileOp
      BY <3>1, ActorTypes, SweepType
    <3>3. QED
      BY <2>17, <2>0, <3>2 DEF WorkerSweep, WorkerRecord, WorkerPC
  <2>18. CASE CloseLog(w)
    <3>1. store' \in [Jobs -> JobRecord] /\ unsaved' \subseteq FileOp /\ logs' \subseteq Jobs
      BY <2>18, FinalizeLogType, ActorTypes DEF CloseLog
    <3>2. QED
      BY <2>18, <2>0, <3>1 DEF CloseLog, WorkerRecord, WorkerPC
  <2>19. CASE Release(w)
    BY <2>19, <1>b DEF Release, IdleWorker
  <2>20. QED
    BY <2>1, <2>2, <2>3, <2>4, <2>5, <2>6, <2>7, <2>8, <2>9, <2>10, <2>11, <2>12,
       <2>13, <2>14, <2>15, <2>16, <2>17, <2>18, <2>19 DEF WorkerStep
<1>10. ASSUME NEW op \in unsaved, Flush(op)
       PROVE  TypeOK' /\ WorkerHasJob'
  BY <1>10 DEF Flush, TypeOK, WorkerHasJob, FileOp
<1>11. CASE SweepTick
  <2>1. PICK expired \in SUBSET {i \in Jobs : Expired(i)} : SweepArtifacts(Sweeper, expired)
    BY <1>11 DEF SweepTick
  <2>2. store' \in [Jobs -> JobRecord] /\ dirs' \subseteq Jobs /\ unsaved' \subseteq FileOp
    BY <2>1, ActorTypes, SweepType DEF TypeOK
  <2>3. QED
    BY <1>11, <2>2 DEF SweepTick, TypeOK, WorkerHasJob
<1>12. CASE Shutdown
  BY <1>12 DEF Shutdown, TypeOK, WorkerHasJob
<1>13. CASE Restart
  <2>1. \A j \in Jobs : Restored(disk[j]) \in JobRecord
    BY DEF TypeOK, Restored, JobRecord, TerminalStatus
  <2>2. sub' \in [Jobs -> SubRecord]
    BY <1>13 DEF Restart, TypeOK, SubPC, SubRecord
  <2>3. wk' \in [Workers -> WorkerRecord] /\ WorkerHasJob'
    BY <1>13, <1>b DEF Restart, WorkerHasJob, IdleWorker
  <2>4. restarts' \in 0..MaxRestarts
    BY <1>13 DEF Restart, TypeOK
  <2>5. queue' \in Seq(Jobs) /\ Len(queue') <= QueueSize
    BY <1>13 DEF Restart
  <2>6. store' \in [Jobs -> JobRecord] /\ disk' \in [Jobs -> JobRecord]
    BY <1>13, <2>1 DEF Restart
  <2>7. stopping' \in BOOLEAN
    BY <1>13, Zenon DEF Restart
  <2>8. QED
    BY <1>13, <2>2, <2>3, <2>4, <2>5, <2>6, <2>7 DEF Restart, TypeOK
<1>14. CASE UNCHANGED vars
  BY <1>14 DEF vars, TypeOK, WorkerHasJob
<1>15. QED
  BY <1>1, <1>2, <1>3, <1>4, <1>5, <1>6, <1>7, <1>8, <1>9, <1>10, <1>11, <1>12,
     <1>13, <1>14 DEF Next, SubmitStep

\* The type invariant holds in every behaviour of the job service.
THEOREM TypeCorrect == Spec => []TypeOK
<1>1. Spec => []Typed
  BY InitTyped, NextTyped, PTL DEF Spec
<1>2. QED
  BY <1>1, PTL DEF Typed

(***************************************************************************)
(* Safety.  IndInv is preserved by two kinds of steps, each treated once:  *)
(* a worker moves on with its job (MoveKeeps), and a step of somebody else *)
(* that leaves the workers and the queue alone (StayKeeps).  What is left  *)
(* are the steps that hand a job over: Push, Pop, the two ways a worker    *)
(* lets go of its job, the file operations and Restart.                    *)
(***************************************************************************)
\* A file operation that was issued in this step carries no artifact directory
\* and no success of an unpublished host-signed job.
CleanOps ==
    \A op \in unsaved' : op \notin unsaved =>
        /\ ~op.rec.artifact
        /\ op.rec.status = "success" /\ op.job \notin ClientSigned => op.job \in published'

\* Worker w, past pop, goes on with job j; other workers stay where they are.
Moves(w, j) ==
    /\ wk[w].job = j /\ wk'[w].job = j
    /\ wk[w].pc \notin {"idle", "exited"} /\ wk'[w].pc \notin {"idle", "exited"}
    /\ \A v \in Workers \ {w} : wk'[v] = wk[v]

\* What a step of worker w may do around its job.
MoveShared(j) ==
    /\ queue' = queue
    /\ disk' = disk
    /\ \A i \in Jobs : sub'[i].pc = sub[i].pc \/ (sub[i].pc = "none" /\ sub'[i].pc = "new")
    /\ \A i \in logs' : i \in logs \/ sub'[i].pc = "new"
    /\ \A i \in Jobs \ {j} : store'[i] = store[i]
    /\ running \subseteq running' /\ dirs \subseteq dirs' /\ published \subseteq published'

MoveOwn(w, j) ==
    /\ wk'[w].pc = "release" => j \notin logs'
    /\ wk'[w].pc \in {"claimed"} \cup BuildPC \cup DonePC => j \in running'
    /\ store'[j].status = "running" => wk'[w].pc \in BuildPC
    /\ wk'[w].pc \in {"skip"} \cup DonePC => store'[j].status \notin ActiveStatus
    /\ store'[j].artifact =>
          wk'[w].ok /\ j \in ClientSigned /\ wk'[w].pc \in DonePC /\ j \in dirs'
    /\ wk'[w].pc \in {"popped", "skip", "claimed", "building", "backoff"} => ~wk'[w].ok
    /\ wk'[w].ok /\ wk'[w].pc \in BuildPC => j \in dirs'
    /\ wk'[w].ok /\ wk'[w].pc \in {"deciding", "finishing"} /\ j \notin ClientSigned
          => j \in published'
    /\ store'[j].status = "success" /\ j \notin ClientSigned => j \in published'

\* A worker that moves on with its job preserves the invariant.
LEMMA MoveKeeps ==
    ASSUME Typed, IndInv, NEW w \in Workers, NEW j \in Jobs,
           Moves(w, j), MoveShared(j), MoveOwn(w, j), CleanOps
    PROVE  IndInv'
<1>1. \A v \in Workers : \A i \in Jobs : Holds(v, i)' <=> Holds(v, i)
  BY DEF Moves, Holds
<1>2. \A i \in Jobs : InQueue(i)' <=> InQueue(i)
  BY DEF MoveShared, InQueue
<1>3. Holds(w, j)
  BY DEF Moves, Holds
<1>4. \A i \in Jobs : sub[i].pc # "none" => sub'[i].pc = sub[i].pc
  BY DEF MoveShared
<1>5. sub[j].pc = "accepted" /\ ~InQueue(j) /\ \A v \in Workers : Holds(v, j) => v = w
  BY <1>3 DEF IndInv, OneOwner
<1>6. OneOwner'
  BY <1>1, <1>2, <1>4 DEF IndInv, OneOwner, MoveShared
<1>7. NoStrandedJob'
  <2> SUFFICES ASSUME NEW i \in Jobs, store'[i].status \in ActiveStatus
               PROVE  Submitting(i)' \/ InQueue(i)' \/ \E v \in Workers : Holds(v, i)'
    BY DEF NoStrandedJob
  <2>1. CASE i = j
    BY <1>1, <1>3, <2>1
  <2>2. CASE i # j
    <3>1. Submitting(i) => Submitting(i)'
      BY <1>4 DEF Submitting
    <3>2. QED
      BY <1>1, <1>2, <2>2, <3>1 DEF IndInv, NoStrandedJob, MoveShared
  <2>3. QED
    BY <2>1, <2>2
<1>8. DoneIsSettled'
  <2> SUFFICES ASSUME NEW v \in Workers, NEW i \in Jobs, Holds(v, i),
                      wk'[v].pc \in {"skip"} \cup DonePC
               PROVE  store'[i].status \notin ActiveStatus
    BY <1>1 DEF DoneIsSettled
  <2>1. CASE v = w
    BY <2>1 DEF Moves, Holds, MoveOwn
  <2>2. CASE v # w
    BY <1>5, <2>2 DEF Moves, MoveShared, IndInv, DoneIsSettled
  <2>3. QED
    BY <2>1, <2>2
<1>9. LogHasCloser'
  <2> SUFFICES ASSUME NEW i \in logs'
               PROVE  \/ sub'[i].pc \in {"new", "inserted", "stored", "rejected"}
                      \/ InQueue(i)'
                      \/ \E v \in Workers : Holds(v, i)' /\ wk'[v].pc # "release"
    BY DEF LogHasCloser
  <2>1. CASE i = j
    BY <1>1, <1>3, <2>1 DEF MoveOwn
  <2>2. CASE i \notin logs
    BY <2>2 DEF MoveShared
  <2>3. CASE i \in logs /\ i # j
    <3>0. i \in Jobs
      BY <2>3 DEF Typed, TypeOK
    <3>1. CASE \E v \in Workers : Holds(v, i) /\ wk[v].pc # "release"
      <4>1. PICK v \in Workers : Holds(v, i) /\ wk[v].pc # "release"
        BY <3>1
      <4>2. v # w
        BY <4>1, <2>3 DEF Holds, Moves
      <4>3. QED
        BY <1>1, <3>0, <4>1, <4>2 DEF Moves
    <3>2. QED
      BY <1>2, <1>4, <2>3, <3>0, <3>1 DEF IndInv, LogHasCloser
  <2>4. QED
    BY <2>1, <2>2, <2>3
<1>10. RunningIsHeld'
  <2>1. ASSUME NEW i \in Jobs, store'[i].status = "running"
        PROVE  \E v \in Workers : Holds(v, i)' /\ wk'[v].pc \in BuildPC
    <3>1. CASE i = j
      BY <1>1, <1>3, <2>1, <3>1 DEF MoveOwn
    <3>2. CASE i # j
      <4>1. PICK v \in Workers : Holds(v, i) /\ wk[v].pc \in BuildPC
        BY <2>1, <3>2 DEF MoveShared, IndInv, RunningIsHeld
      <4>2. v # w
        BY <3>2, <4>1 DEF Holds, Moves
      <4>3. QED
        BY <1>1, <4>1, <4>2 DEF Moves
    <3>3. QED
      BY <3>1, <3>2
  <2>2. ASSUME NEW v \in Workers, NEW i \in Jobs, Holds(v, i)',
               wk'[v].pc \in {"claimed"} \cup BuildPC \cup DonePC
        PROVE  i \in running'
    <3>1. CASE v = w
      BY <2>2, <3>1 DEF Holds, Moves, MoveOwn
    <3>2. CASE v # w
      BY <1>1, <2>2, <3>2 DEF Moves, MoveShared, IndInv, RunningIsHeld
    <3>3. QED
      BY <3>1, <3>2
  <2>3. QED
    BY <2>1, <2>2 DEF RunningIsHeld
<1>11. ArtifactIsKept'
  <2>1. ASSUME NEW i \in Jobs, store'[i].artifact
        PROVE  /\ sub'[i].pc = "accepted"
               /\ ~InQueue(i)'
               /\ \A v \in Workers : Holds(v, i)' => KeepArtifacts(v)' /\ wk'[v].pc \in DonePC
    <3>1. CASE i = j
      BY <1>1, <1>2, <1>4, <1>5, <2>1, <3>1 DEF MoveOwn, KeepArtifacts, Moves
    <3>2. CASE i # j
      <4>1. store[i].artifact
        BY <2>1, <3>2 DEF MoveShared
      <4>2. sub'[i].pc = "accepted" /\ ~InQueue(i)'
        BY <1>2, <1>4, <4>1 DEF IndInv, ArtifactIsKept
      <4>3. ASSUME NEW v \in Workers, Holds(v, i)'
            PROVE  KeepArtifacts(v)' /\ wk'[v].pc \in DonePC
        <5>1. v # w
          BY <1>1, <1>3, <3>2, <4>3 DEF Holds, Moves
        <5>2. KeepArtifacts(v) /\ wk[v].pc \in DonePC
          BY <1>1, <4>1, <4>3 DEF IndInv, ArtifactIsKept
        <5>3. QED
          BY <5>1, <5>2 DEF Moves, KeepArtifacts
      <4>4. QED
        BY <4>2, <4>3
    <3>3. QED
      BY <3>1, <3>2
  <2>2. \A i \in Jobs : ~disk'[i].artifact
    BY DEF MoveShared, IndInv, ArtifactIsKept
  <2>3. \A op \in unsaved' : ~op.rec.artifact
    BY DEF CleanOps, IndInv, ArtifactIsKept
  <2>4. QED
    BY <2>1, <2>2, <2>3 DEF ArtifactIsKept
<1>12. ArtifactExists'
  BY DEF ArtifactExists, IndInv, MoveShared, MoveOwn
<1>13. OkIsBuilt'
  <2> SUFFICES ASSUME NEW v \in Workers, NEW i \in Jobs
               PROVE  /\ wk'[v].pc \in {"popped", "skip", "claimed", "building", "backoff"}
                            => ~wk'[v].ok
                      /\ Holds(v, i)' /\ wk'[v].ok /\ wk'[v].pc \in BuildPC => i \in dirs'
                      /\ Holds(v, i)' /\ wk'[v].ok /\ wk'[v].pc \in {"deciding", "finishing"}
                            /\ i \notin ClientSigned => i \in published'
    BY DEF OkIsBuilt
  <2>1. CASE v = w
    BY <2>1 DEF Holds, Moves, MoveOwn
  <2>2. CASE v # w
    BY <1>1, <2>2 DEF Moves, MoveShared, IndInv, OkIsBuilt
  <2>3. QED
    BY <2>1, <2>2
<1>14. SuccessEverywherePublished'
  <2>1. SuccessIsPublished'
    BY DEF IndInv, SuccessEverywherePublished, SuccessIsPublished, MoveShared, MoveOwn
  <2>2. \A op \in unsaved' :
          op.rec.status = "success" /\ op.job \notin ClientSigned => op.job \in published'
    BY DEF CleanOps, MoveShared, IndInv, SuccessEverywherePublished
  <2>3. QED
    BY <2>1, <2>2 DEF SuccessEverywherePublished
<1>15. QED
  BY <1>6, <1>7, <1>8, <1>9, <1>10, <1>11, <1>12, <1>13, <1>14 DEF IndInv

\* What a step of a handler or of the sweeper may do.
OpenPC == {"new", "inserted", "stored", "rejected"}

StayShared ==
    /\ queue' = queue /\ wk' = wk /\ running' = running
    /\ published' = published /\ disk' = disk
    /\ \A i \in Jobs : sub[i].pc = "accepted" => sub'[i].pc = "accepted"
    /\ \A i \in logs' : sub'[i].pc \in OpenPC \/ (i \in logs /\ sub[i].pc \notin OpenPC)

StayStore ==
    /\ \A i \in Jobs : store'[i].status \in ActiveStatus =>
          \/ /\ store'[i].status = store[i].status
             /\ Submitting(i) => Submitting(i)'
          \/ store'[i].status = "queued" /\ sub[i].pc = "new" /\ Submitting(i)'
    /\ \A i \in Jobs : store'[i].artifact => store[i].artifact /\ i \in dirs'
    /\ \A i \in Jobs : store'[i].status = "success" => store[i].status = "success"
    /\ \A i \in dirs : i \in dirs' \/ store[i].artifact

\* A step of a handler or of the sweeper preserves the invariant.
LEMMA StayKeeps ==
    ASSUME Typed, IndInv, StayShared, StayStore, CleanOps
    PROVE  IndInv'
<1>1. \A v \in Workers : \A i \in Jobs : Holds(v, i)' <=> Holds(v, i)
  BY DEF StayShared, Holds
<1>2. \A i \in Jobs : InQueue(i)' <=> InQueue(i)
  BY DEF StayShared, InQueue
<1>3. OneOwner'
  BY <1>1, <1>2 DEF IndInv, OneOwner, StayShared
<1>4. NoStrandedJob'
  BY <1>1, <1>2 DEF IndInv, NoStrandedJob, StayStore
<1>5. DoneIsSettled'
  <2> SUFFICES ASSUME NEW v \in Workers, NEW i \in Jobs, Holds(v, i),
                      wk[v].pc \in {"skip"} \cup DonePC,
                      store'[i].status \in ActiveStatus
               PROVE  FALSE
    BY <1>1 DEF DoneIsSettled, StayShared
  <2>1. store[i].status \notin ActiveStatus
    BY DEF IndInv, DoneIsSettled
  <2>2. sub[i].pc = "accepted"
    BY DEF IndInv, OneOwner
  <2>3. QED
    BY <2>1, <2>2 DEF StayStore
<1>6. LogHasCloser'
  <2> SUFFICES ASSUME NEW i \in logs', sub'[i].pc \notin OpenPC
               PROVE  InQueue(i)' \/ \E v \in Workers : Holds(v, i)' /\ wk'[v].pc # "release"
    BY DEF LogHasCloser, OpenPC
  <2>1. i \in logs /\ sub[i].pc \notin OpenPC
    BY DEF StayShared
  <2>2. i \in Jobs
    BY <2>1 DEF Typed, TypeOK
  <2>3. InQueue(i) \/ \E v \in Workers : Holds(v, i) /\ wk[v].pc # "release"
    BY <2>1 DEF IndInv, LogHasCloser, OpenPC
  <2>4. QED
    BY <1>1, <1>2, <2>2, <2>3 DEF StayShared
<1>7. RunningIsHeld'
  <2>1. \A i \in Jobs : store'[i].status = "running" => store[i].status = "running"
    BY DEF StayStore, ActiveStatus
  <2>2. QED
    BY <1>1, <2>1 DEF IndInv, RunningIsHeld, StayShared
<1>8. ArtifactIsKept'
  <2>1. \A i \in Jobs : store'[i].artifact => store[i].artifact
    BY DEF StayStore
  <2>2. \A v \in Workers : KeepArtifacts(v)' <=> KeepArtifacts(v)
    BY DEF KeepArtifacts, StayShared
  <2>3. \A op \in unsaved' : ~op.rec.artifact
    BY DEF CleanOps, IndInv, ArtifactIsKept
  <2>4. QED
    BY <1>1, <1>2, <2>1, <2>2, <2>3 DEF IndInv, ArtifactIsKept, StayShared
<1>9. ArtifactExists'
  BY DEF ArtifactExists, StayStore
<1>10. OkIsBuilt'
  <2>1. ASSUME NEW v \in Workers, NEW i \in Jobs, Holds(v, i), wk[v].pc \in BuildPC, i \in dirs
        PROVE  i \in dirs'
    <3>1. ~store[i].artifact
      BY <2>1 DEF IndInv, ArtifactIsKept, BuildPC, DonePC
    <3>2. QED
      BY <2>1, <3>1 DEF StayStore
  <2>2. QED
    BY <1>1, <2>1 DEF IndInv, OkIsBuilt, StayShared
<1>11. SuccessEverywherePublished'
  <2>1. SuccessIsPublished'
    BY DEF IndInv, SuccessEverywherePublished, SuccessIsPublished, StayShared, StayStore
  <2>2. \A op \in unsaved' :
          op.rec.status = "success" /\ op.job \notin ClientSigned => op.job \in published'
    BY DEF CleanOps, StayShared, IndInv, SuccessEverywherePublished
  <2>3. QED
    BY <2>1, <2>2 DEF SuccessEverywherePublished
<1>12. QED
  BY <1>3, <1>4, <1>5, <1>6, <1>7, <1>8, <1>9, <1>10, <1>11 DEF IndInv

\* The effect of Service.update on the fields that IndInv reads.
LEMMA UpdateEffect ==
    ASSUME store \in [Jobs -> JobRecord], unsaved \subseteq FileOp,
           NEW a, NEW j \in Jobs, NEW rec \in JobRecord, Update(a, j, rec)
    PROVE  /\ \A i \in Jobs \ {j} : store'[i] = store[i]
           /\ store[j].status = "none" => store'[j] = store[j]
           /\ store[j].status # "none" => store'[j] = rec
           /\ \A op \in unsaved' : op \notin unsaved =>
                 /\ ~op.rec.artifact /\ op.rec.status = rec.status /\ op.job = j
                 /\ store'[j] = rec
<1>1. Durable(rec).artifact = FALSE /\ Durable(rec).status = rec.status
  BY DEF Durable, JobRecord
<1>2. CASE store[j].status = "none"
  BY <1>2 DEF Update
<1>3. CASE store[j].status # "none"
  <2>1. store' = [store EXCEPT ![j] = rec] /\ unsaved' = unsaved \cup {SaveOp(a, j, rec)}
    BY <1>3 DEF Update
  <2>2. SaveOp(a, j, rec).rec = Durable(rec) /\ SaveOp(a, j, rec).job = j
    BY DEF SaveOp
  <2>3. QED
    BY <1>1, <1>3, <2>1, <2>2
<1>4. QED
  BY <1>2, <1>3

\* finalizeLog changes neither a status nor an artifact directory.
LEMMA FinalizeLogEffect ==
    ASSUME store \in [Jobs -> JobRecord], unsaved \subseteq FileOp,
           NEW a, NEW j \in Jobs, FinalizeLog(a, j)
    PROVE  /\ logs' = logs \ {j}
           /\ \A i \in Jobs \ {j} : store'[i] = store[i]
           /\ store'[j].status = store[j].status /\ store'[j].artifact = store[j].artifact
           /\ \A op \in unsaved' : op \notin unsaved =>
                 ~op.rec.artifact /\ op.rec.status = store[j].status /\ op.job = j
<1> DEFINE rec == [store[j] EXCEPT !.logs = TRUE]
<1>1. rec \in JobRecord /\ rec.status = store[j].status /\ rec.artifact = store[j].artifact
  BY DEF JobRecord
<1> HIDE DEF rec
<1>2. CASE j \in logs
  <2>1. Update(a, j, rec)
    BY <1>2 DEF FinalizeLog, rec
  <2>2. QED
    BY <1>1, <2>1, UpdateEffect DEF FinalizeLog
<1>3. CASE j \notin logs
  BY <1>3 DEF FinalizeLog
<1>4. QED
  BY <1>2, <1>3

\* The steps of the handlers and of the sweeper.
LEMMA HandlerKeeps ==
    ASSUME Typed, IndInv, NEW j \in Jobs,
           \/ Submit(j) \/ InsertJob(j) \/ RemoveEvicted(j) \/ RejectCloseLog(j)
           \/ RejectFail(j) \/ CancelQueued(j) \/ CancelRunning(j)
    PROVE  IndInv'
<1>a. /\ store \in [Jobs -> JobRecord] /\ unsaved \subseteq FileOp
      /\ sub \in [Jobs -> SubRecord] /\ logs \subseteq Jobs
  BY DEF Typed, TypeOK
<1>b. \A i \in Jobs : store[i].artifact => i \in dirs /\ sub[i].pc = "accepted"
  BY DEF IndInv, ArtifactExists, ArtifactIsKept
<1>1. CASE Submit(j)
  <2>1. StayShared
    BY <1>1, <1>a DEF Submit, BeginSubmit, StayShared, OpenPC, SubRecord
  <2>2. StayStore
    BY <1>1, <1>a, <1>b DEF Submit, BeginSubmit, StayStore, Submitting, SubRecord
  <2>3. CleanOps
    BY <1>1 DEF Submit, CleanOps
  <2>4. QED
    BY <2>1, <2>2, <2>3, StayKeeps
<1>2. CASE InsertJob(j)
  <2> DEFINE st == [store EXCEPT ![j] = NewJob]
             ev == Evictable(st)
  <2>1. /\ store' = [i \in Jobs |-> IF i \in ev THEN NoJob ELSE st[i]]
        /\ dirs' = dirs \ {i \in ev : st[i].artifact}
        /\ sub' = [sub EXCEPT ![j] = [pc |-> "inserted", evicted |-> ev]]
        /\ unsaved' = unsaved \cup {SaveOp(Submitter(j), j, NewJob)}
        /\ sub[j].pc = "new"
    BY <1>2 DEF InsertJob
  <2>2. /\ NewJob.status = "queued" /\ ~NewJob.artifact
        /\ NoJob.status = "none" /\ ~NoJob.artifact
    BY DEF NewJob, NoJob
  <2>3. st[j] = NewJob /\ \A i \in Jobs \ {j} : st[i] = store[i]
    BY <1>a
  <2> HIDE DEF st, ev
  <2>4. StayShared
    BY <1>2, <1>a, <2>1 DEF InsertJob, StayShared, OpenPC, SubRecord
  <2>5. StayStore
    <3>1. \A i \in Jobs : store'[i].status \in ActiveStatus =>
            \/ store'[i].status = store[i].status /\ (Submitting(i) => Submitting(i)')
            \/ store'[i].status = "queued" /\ sub[i].pc = "new" /\ Submitting(i)'
      BY <1>a, <2>1, <2>2, <2>3 DEF Submitting, ActiveStatus, SubRecord
    <3>2. \A i \in Jobs : store'[i].artifact => store[i].artifact /\ i \in dirs'
      BY <1>b, <2>1, <2>2, <2>3
    <3>3. \A i \in Jobs : store'[i].status = "success" => store[i].status = "success"
      BY <2>1, <2>2, <2>3
    <3>4. \A i \in dirs : i \in dirs' \/ store[i].artifact
      <4>1. ev \subseteq Jobs
        BY DEF ev, Evictable, Terminal
      <4>2. QED
        BY <2>1, <2>2, <2>3, <4>1
    <3>5. QED
      BY <3>1, <3>2, <3>3, <3>4 DEF StayStore
  <2>6. CleanOps
    <3>1. SaveOp(Submitter(j), j, NewJob).rec = Durable(NewJob)
      BY DEF SaveOp
    <3>2. ~Durable(NewJob).artifact /\ Durable(NewJob).status = "queued"
      BY DEF Durable, NewJob, NoJob
    <3>3. QED
      BY <2>1, <3>1, <3>2 DEF CleanOps
  <2>7. QED
    BY <2>4, <2>5, <2>6, StayKeeps
<1>3. CASE RemoveEvicted(j)
  <2>1. StayShared
    BY <1>3, <1>a DEF RemoveEvicted, StayShared, OpenPC, SubRecord
  <2>2. StayStore
    BY <1>3, <1>a, <1>b DEF RemoveEvicted, StayStore, Submitting, SubRecord
  <2>3. CleanOps
    BY <1>3 DEF RemoveEvicted, CleanOps, NoJob
  <2>4. QED
    BY <2>1, <2>2, <2>3, StayKeeps
<1>4. CASE RejectCloseLog(j)
  <2>1. FinalizeLog(Submitter(j), j) /\ sub' = [sub EXCEPT ![j].pc = "failing"]
    BY <1>4 DEF RejectCloseLog
  <2>2. sub[j].pc = "rejected" /\ ~store[j].artifact
    BY <1>4, <1>b DEF RejectCloseLog
  <2>3. /\ logs' = logs \ {j}
        /\ \A i \in Jobs : store'[i].status = store[i].status /\ store'[i].artifact = store[i].artifact
        /\ \A op \in unsaved' : op \notin unsaved =>
                 ~op.rec.artifact /\ op.rec.status = store[j].status /\ op.job = j
    BY <1>a, <2>1, FinalizeLogEffect
  <2>4. StayShared
    BY <1>4, <1>a, <2>1, <2>2, <2>3 DEF RejectCloseLog, StayShared, OpenPC, SubRecord
  <2>5. StayStore
    BY <1>4, <1>a, <1>b, <2>1, <2>2, <2>3 DEF RejectCloseLog, StayStore, Submitting, SubRecord
  <2>6. CleanOps
    BY <1>4, <2>3 DEF RejectCloseLog, CleanOps, IndInv, SuccessEverywherePublished, SuccessIsPublished
  <2>7. QED
    BY <2>4, <2>5, <2>6, StayKeeps
<1>5. CASE RejectFail(j)
  <2> DEFINE rec == [store[j] EXCEPT !.status = "failed"]
  <2>1. Update(Submitter(j), j, rec) /\ sub' = [sub EXCEPT ![j].pc = "refused"]
    BY <1>5 DEF RejectFail
  <2>2. rec \in JobRecord /\ rec.status = "failed" /\ rec.artifact = store[j].artifact
    BY <1>a DEF JobRecord, TerminalStatus
  <2>3. sub[j].pc = "failing" /\ ~store[j].artifact
    BY <1>5, <1>b DEF RejectFail
  <2> HIDE DEF rec
  <2>4. /\ \A i \in Jobs \ {j} : store'[i] = store[i]
        /\ store'[j].status \in {"none", "failed"} /\ ~store'[j].artifact
        /\ \A op \in unsaved' : op \notin unsaved =>
              ~op.rec.artifact /\ op.rec.status = "failed"
    <3>1. Update(Submitter(j), j, rec) /\ rec \in JobRecord
      BY <2>1, <2>2
    <3>2. /\ \A i \in Jobs \ {j} : store'[i] = store[i]
          /\ store[j].status = "none" => store'[j] = store[j]
          /\ store[j].status # "none" => store'[j] = rec
          /\ \A op \in unsaved' : op \notin unsaved =>
                /\ ~op.rec.artifact /\ op.rec.status = rec.status /\ op.job = j
                /\ store'[j] = rec
      BY <1>a, <3>1, UpdateEffect DEF Update
    <3>3. QED
      BY <2>2, <2>3, <3>2
  <2>5. StayShared
    BY <1>5, <1>a, <2>1, <2>3 DEF RejectFail, StayShared, OpenPC, SubRecord
  <2>6. StayStore
    BY <1>5, <1>a, <1>b, <2>1, <2>4 DEF RejectFail, StayStore, Submitting, ActiveStatus, SubRecord
  <2>7. CleanOps
    BY <2>4 DEF CleanOps
  <2>8. QED
    BY <2>5, <2>6, <2>7, StayKeeps
<1>6. CASE CancelQueued(j)
  <2> DEFINE rec == [store[j] EXCEPT !.status = "cancelled"]
  <2>1. rec.status = "cancelled" /\ rec.artifact = store[j].artifact
    BY <1>a DEF JobRecord
  <2>2. store' = [store EXCEPT ![j] = rec]
        /\ unsaved' = unsaved \cup {SaveOp(Canceller(j), j, rec)}
    BY <1>6 DEF CancelQueued
  <2>3. ~SaveOp(Canceller(j), j, rec).rec.artifact
        /\ SaveOp(Canceller(j), j, rec).rec.status = "cancelled"
    BY <1>a DEF SaveOp, Durable, JobRecord
  <2> HIDE DEF rec
  <2>4. StayShared
    BY <1>6 DEF CancelQueued, StayShared
  <2>5. StayStore
    <3>1. \A i \in Jobs : store'[i].artifact => store[i].artifact
      BY <1>a, <2>1, <2>2
    <3>2. \A i \in Jobs : store'[i].status = store[i].status \/ store'[i].status = "cancelled"
      BY <1>a, <2>1, <2>2
    <3>3. sub' = sub /\ dirs' = dirs
      BY <1>6 DEF CancelQueued
    <3>4. QED
      BY <1>b, <3>1, <3>2, <3>3 DEF StayStore, Submitting, ActiveStatus
  <2>6. CleanOps
    BY <2>2, <2>3 DEF CleanOps
  <2>7. QED
    BY <2>4, <2>5, <2>6, StayKeeps
<1>7. CASE CancelRunning(j)
  <2>1. StayShared /\ StayStore /\ CleanOps
    BY <1>7, <1>b DEF CancelRunning, StayShared, StayStore, CleanOps, Submitting
  <2>2. QED
    BY <2>1, StayKeeps
<1>8. QED
  BY <1>1, <1>2, <1>3, <1>4, <1>5, <1>6, <1>7

\* The effect of sweepArtifacts on the fields that IndInv reads.
LEMMA SweepEffect ==
    ASSUME store \in [Jobs -> JobRecord], NEW a,
           NEW expired \in SUBSET {i \in Jobs : Expired(i)}, SweepArtifacts(a, expired)
    PROVE  /\ \A i \in Jobs : store'[i].status = store[i].status
           /\ \A i \in Jobs : store'[i].artifact => store[i].artifact /\ i \notin expired
           /\ \A i \in Jobs : i \notin expired => store'[i] = store[i]
           /\ \A i \in expired : store[i].artifact /\ \A v \in Workers : wk[v].job # i
           /\ dirs' = dirs \ expired
           /\ \A op \in unsaved' : op \notin unsaved =>
                 op.job \in Jobs /\ ~op.rec.artifact /\ op.rec.status = store[op.job].status
<1>1. \A i \in Jobs : LET r == [store[i] EXCEPT !.artifact = FALSE]
                      IN r.status = store[i].status /\ ~r.artifact
  BY DEF JobRecord
<1>2. store' = [i \in Jobs |-> IF i \in expired THEN [store[i] EXCEPT !.artifact = FALSE]
                                ELSE store[i]]
      /\ dirs' = dirs \ expired
      /\ unsaved' = unsaved \cup {SaveOp(a, i, store[i]) : i \in expired}
  BY DEF SweepArtifacts
<1>3. \A i \in expired : store[i].artifact /\ \A v \in Workers : wk[v].job # i
  BY DEF Expired
<1>4. \A i \in Jobs : /\ SaveOp(a, i, store[i]).job = i
                      /\ ~SaveOp(a, i, store[i]).rec.artifact
                      /\ SaveOp(a, i, store[i]).rec.status = store[i].status
  BY DEF SaveOp, Durable, JobRecord
<1>5. \A op \in unsaved' : op \notin unsaved =>
                 op.job \in Jobs /\ ~op.rec.artifact /\ op.rec.status = store[op.job].status
  BY <1>2, <1>4
<1>6. QED
  BY <1>1, <1>2, <1>3, <1>5

\* The sweeper's timer.
LEMMA SweepTickKeeps ==
    ASSUME Typed, IndInv, SweepTick PROVE IndInv'
<1>a. store \in [Jobs -> JobRecord]
  BY DEF Typed, TypeOK
<1>1. PICK expired \in SUBSET {i \in Jobs : Expired(i)} : SweepArtifacts(Sweeper, expired)
  BY DEF SweepTick
<1>2. /\ \A i \in Jobs : store'[i].status = store[i].status
      /\ \A i \in Jobs : store'[i].artifact => store[i].artifact /\ i \notin expired
      /\ \A i \in expired : store[i].artifact
      /\ dirs' = dirs \ expired
      /\ \A op \in unsaved' : op \notin unsaved =>
             op.job \in Jobs /\ ~op.rec.artifact /\ op.rec.status = store[op.job].status
  BY <1>1, <1>a, SweepEffect
<1>3. StayShared
  BY DEF SweepTick, StayShared
<1>4. StayStore
  <2>1. sub' = sub
    BY DEF SweepTick
  <2>2. QED
    BY <1>2, <2>1 DEF StayStore, Submitting, IndInv, ArtifactExists
<1>5. CleanOps
  <2>1. published' = published
    BY DEF SweepTick
  <2>2. QED
    BY <1>2, <2>1 DEF CleanOps, IndInv, SuccessEverywherePublished, SuccessIsPublished
<1>6. QED
  BY <1>3, <1>4, <1>5, StayKeeps

\* The sweep at the end of process touches other jobs than the worker's own: it
\* is a sweep followed by a move of the worker.
LEMMA WorkerSweepKeeps ==
    ASSUME Typed, IndInv, NEW w \in Workers, WorkerSweep(w) PROVE IndInv'
<1> DEFINE j == wk[w].job
<1>a. store \in [Jobs -> JobRecord] /\ wk \in [Workers -> WorkerRecord] /\ wk[w] \in WorkerRecord
  BY DEF Typed, TypeOK
<1>1. wk[w].pc = "sweep" /\ j \in Jobs /\ Holds(w, j)
  BY DEF WorkerSweep, At, Typed, WorkerHasJob, Holds
<1>2. PICK expired \in SUBSET {i \in Jobs : Expired(i)} : SweepArtifacts(Worker(w), expired)
  BY DEF WorkerSweep
<1>3. /\ \A i \in Jobs : store'[i].status = store[i].status
      /\ \A i \in Jobs : store'[i].artifact => store[i].artifact /\ i \notin expired
      /\ \A i \in expired : store[i].artifact /\ \A v \in Workers : wk[v].job # i
      /\ dirs' = dirs \ expired
      /\ \A op \in unsaved' : op \notin unsaved =>
             op.job \in Jobs /\ ~op.rec.artifact /\ op.rec.status = store[op.job].status
  BY <1>2, <1>a, SweepEffect
<1>4. /\ Moves(w, j) /\ wk'[w].pc = "closing" /\ wk'[w].ok = wk[w].ok
      /\ \A v \in Workers : wk'[v].ok = wk[v].ok /\ wk'[v].job = wk[v].job
  BY <1>a, <1>1 DEF WorkerSweep, Goto, Moves, WorkerRecord
<1>5. /\ queue' = queue /\ running' = running /\ logs' = logs /\ sub' = sub
      /\ disk' = disk /\ published' = published
  BY DEF WorkerSweep
<1> HIDE DEF j
<1>6. \A v \in Workers : \A i \in Jobs : Holds(v, i)' <=> Holds(v, i)
  BY <1>4 DEF Moves, Holds
<1>7. \A i \in Jobs : (InQueue(i)' <=> InQueue(i)) /\ (Submitting(i)' <=> Submitting(i))
  BY <1>5 DEF InQueue, Submitting
<1>8. \A v \in Workers : /\ wk'[v].pc = wk[v].pc \/ (v = w /\ wk'[v].pc = "closing")
                         /\ KeepArtifacts(v)' <=> KeepArtifacts(v)
  BY <1>4 DEF Moves, KeepArtifacts
<1>9. OneOwner' /\ NoStrandedJob'
  BY <1>3, <1>5, <1>6, <1>7 DEF IndInv, OneOwner, NoStrandedJob
<1>10. DoneIsSettled'
  BY <1>1, <1>3, <1>6, <1>8 DEF IndInv, DoneIsSettled, DonePC
<1>11. LogHasCloser'
  <2>1. \A i \in logs : i \in Jobs
    BY DEF Typed, TypeOK
  <2>2. QED
    BY <1>5, <1>6, <1>7, <1>8, <2>1 DEF IndInv, LogHasCloser
<1>12. RunningIsHeld'
  <2>1. \A i \in Jobs : store'[i].status = "running" =>
           \E v \in Workers : Holds(v, i)' /\ wk'[v].pc \in BuildPC
    <3> SUFFICES ASSUME NEW i \in Jobs, store[i].status = "running"
                 PROVE  \E v \in Workers : Holds(v, i)' /\ wk'[v].pc \in BuildPC
      BY <1>3
    <3>1. PICK v \in Workers : Holds(v, i) /\ wk[v].pc \in BuildPC
      BY DEF IndInv, RunningIsHeld
    <3>2. v # w
      BY <1>1, <3>1 DEF BuildPC
    <3>3. QED
      BY <1>6, <1>8, <3>1, <3>2
  <2>2. \A v \in Workers : wk'[v].pc \in {"claimed"} \cup BuildPC \cup DonePC
                             => wk[v].pc \in {"claimed"} \cup BuildPC \cup DonePC
    BY <1>1, <1>8 DEF DonePC
  <2>3. QED
    BY <1>5, <1>6, <2>1, <2>2 DEF IndInv, RunningIsHeld
<1>13. ArtifactIsKept'
  <2>1. \A v \in Workers : wk[v].pc \in DonePC => wk'[v].pc \in DonePC
    BY <1>8 DEF DonePC
  <2>2. \A op \in unsaved' : ~op.rec.artifact
    BY <1>3 DEF IndInv, ArtifactIsKept
  <2>3. QED
    BY <1>3, <1>5, <1>6, <1>7, <1>8, <2>1, <2>2 DEF IndInv, ArtifactIsKept
<1>14. ArtifactExists'
  BY <1>3 DEF IndInv, ArtifactExists
<1>15. OkIsBuilt'
  <2>1. \A v \in Workers : \A i \in Jobs : Holds(v, i) /\ i \in dirs => i \in dirs'
    BY <1>3 DEF Holds
  <2>2. \A v \in Workers : wk'[v].pc \notin DonePC => wk'[v].pc = wk[v].pc
    BY <1>8 DEF DonePC
  <2>3. QED
    BY <1>4, <1>5, <1>6, <2>1, <2>2 DEF IndInv, OkIsBuilt, BuildPC, DonePC
<1>16. SuccessEverywherePublished'
  BY <1>3, <1>5 DEF IndInv, SuccessEverywherePublished, SuccessIsPublished
<1>17. QED
  BY <1>9, <1>10, <1>11, <1>12, <1>13, <1>14, <1>15, <1>16 DEF IndInv

\* The steps in which a worker goes on with the job it holds.
LEMMA WorkerMoveKeeps ==
    ASSUME Typed, IndInv, NEW w \in Workers,
           \/ Claim(w) \/ MarkRunning(w) \/ BuildOK(w) \/ BuildGiveUp(w) \/ BuildRetry(w)
           \/ Backoff(w) \/ UploadOK(w) \/ UploadFail(w) \/ Decide(w) \/ Finish(w)
           \/ (\E i \in Jobs : EnqueueRebuild(w, i)) \/ RebuildEnqueued(w) \/ ChainDone(w)
           \/ WorkerSweep(w) \/ CloseLog(w)
    PROVE  IndInv'
<1> DEFINE j == wk[w].job
<1>a. /\ store \in [Jobs -> JobRecord] /\ unsaved \subseteq FileOp
      /\ wk \in [Workers -> WorkerRecord] /\ sub \in [Jobs -> SubRecord] /\ logs \subseteq Jobs
      /\ wk[w] \in WorkerRecord
  BY DEF Typed, TypeOK
<1>b. wk[w].pc \notin {"idle", "exited"} => j \in Jobs /\ Holds(w, j)
  BY DEF Typed, WorkerHasJob, Holds
\* What the invariant says about the worker's own job before the step.
<1>c. ASSUME wk[w].pc \notin {"idle", "exited"}
      PROVE  /\ wk[w].pc \in {"claimed"} \cup BuildPC \cup DonePC => j \in running
             /\ store[j].status = "running" => wk[w].pc \in BuildPC
             /\ wk[w].pc \in {"skip"} \cup DonePC => store[j].status \notin ActiveStatus
             /\ store[j].artifact => /\ wk[w].ok /\ j \in ClientSigned
                                     /\ wk[w].pc \in DonePC /\ j \in dirs
             /\ wk[w].pc \in {"popped", "skip", "claimed", "building", "backoff"} => ~wk[w].ok
             /\ wk[w].ok /\ wk[w].pc \in BuildPC => j \in dirs
             /\ wk[w].ok /\ wk[w].pc \in {"deciding", "finishing"} /\ j \notin ClientSigned
                   => j \in published
             /\ store[j].status = "success" /\ j \notin ClientSigned => j \in published
  <2>0. j \in Jobs /\ Holds(w, j)
    BY <1>b, <1>c
  <2>1. wk[w].pc \in {"claimed"} \cup BuildPC \cup DonePC => j \in running
    BY <2>0 DEF IndInv, RunningIsHeld
  <2>2. store[j].status = "running" => wk[w].pc \in BuildPC
    <3>1. \A v \in Workers : Holds(v, j) => v = w
      BY <2>0 DEF IndInv, OneOwner
    <3>2. QED
      BY <2>0, <3>1 DEF IndInv, RunningIsHeld
  <2>3. wk[w].pc \in {"skip"} \cup DonePC => store[j].status \notin ActiveStatus
    BY <2>0 DEF IndInv, DoneIsSettled
  <2>4. store[j].artifact => wk[w].ok /\ j \in ClientSigned /\ wk[w].pc \in DonePC /\ j \in dirs
    BY <2>0 DEF IndInv, ArtifactIsKept, ArtifactExists, KeepArtifacts
  <2>5. /\ wk[w].pc \in {"popped", "skip", "claimed", "building", "backoff"} => ~wk[w].ok
        /\ wk[w].ok /\ wk[w].pc \in BuildPC => j \in dirs
        /\ wk[w].ok /\ wk[w].pc \in {"deciding", "finishing"} /\ j \notin ClientSigned
              => j \in published
    BY <2>0 DEF IndInv, OkIsBuilt
  <2>6. store[j].status = "success" /\ j \notin ClientSigned => j \in published
    BY <2>0 DEF IndInv, SuccessEverywherePublished, SuccessIsPublished
  <2>7. QED
    BY <2>1, <2>2, <2>3, <2>4, <2>5, <2>6
<1> HIDE DEF j
<1>1. CASE Claim(w)
  <2>1. /\ wk[w].pc = "popped" /\ j \in Jobs /\ store' = store /\ unsaved' = unsaved
    BY <1>1, <1>b DEF Claim, At
  <2>2. CASE store[j].status \in {"none", "cancelled"}
    <3>1. /\ Moves(w, j) /\ wk'[w].pc = "skip" /\ wk'[w].ok = wk[w].ok
          /\ running' = running
      BY <1>1, <1>a, <2>1, <2>2 DEF Claim, Goto, Moves, j, WorkerRecord
    <3>2. MoveShared(j) /\ CleanOps
      BY <1>1, <3>1 DEF Claim, MoveShared, CleanOps
    <3>3. MoveOwn(w, j)
      BY <1>1, <1>c, <2>1, <2>2, <3>1 DEF Claim, MoveOwn, BuildPC, DonePC, ActiveStatus
    <3>4. QED
      BY <2>1, <3>1, <3>2, <3>3, MoveKeeps
  <2>3. CASE store[j].status \notin {"none", "cancelled"}
    <3>1. /\ Moves(w, j) /\ wk'[w].pc = "claimed" /\ wk'[w].ok = wk[w].ok
          /\ running' = running \cup {j}
      BY <1>1, <1>a, <2>1, <2>3 DEF Claim, Goto, Moves, j, WorkerRecord
    <3>2. MoveShared(j) /\ CleanOps
      BY <1>1, <3>1 DEF Claim, MoveShared, CleanOps
    <3>3. MoveOwn(w, j)
      BY <1>1, <1>c, <2>1, <2>3, <3>1 DEF Claim, MoveOwn, BuildPC, DonePC
    <3>4. QED
      BY <2>1, <3>1, <3>2, <3>3, MoveKeeps
  <2>4. QED
    BY <2>2, <2>3
<1>2. CASE MarkRunning(w)
  <2> DEFINE rec == [store[j] EXCEPT !.status = "running"]
  <2>1. wk[w].pc = "claimed" /\ j \in Jobs /\ Update(Worker(w), j, rec)
    BY <1>2, <1>b DEF MarkRunning, At, j
  <2>2. rec \in JobRecord /\ rec.status = "running" /\ rec.artifact = store[j].artifact
    BY <1>a, <2>1 DEF JobRecord, ActiveStatus
  <2> HIDE DEF rec
  <2>3. /\ \A i \in Jobs \ {j} : store'[i] = store[i]
        /\ store'[j].status \in {"none", "running"} /\ store'[j].artifact = store[j].artifact
        /\ \A op \in unsaved' : op \notin unsaved => ~op.rec.artifact /\ op.rec.status = "running"
    BY <1>a, <2>1, <2>2, UpdateEffect DEF Update
  <2>4. Moves(w, j) /\ wk'[w].pc = "building" /\ wk'[w].ok = wk[w].ok
    BY <1>2, <1>a, <2>1 DEF MarkRunning, Goto, Moves, j, WorkerRecord
  <2>5. MoveShared(j) /\ CleanOps
    BY <1>2, <2>3 DEF MarkRunning, MoveShared, CleanOps
  <2>6. MoveOwn(w, j)
    BY <1>2, <1>c, <2>1, <2>3, <2>4 DEF MarkRunning, MoveOwn, BuildPC, DonePC
  <2>7. QED
    BY <2>1, <2>4, <2>5, <2>6, MoveKeeps
<1>3. CASE BuildOK(w)
  <2>1. wk[w].pc = "building" /\ j \in Jobs /\ store' = store /\ unsaved' = unsaved
    BY <1>3, <1>b DEF BuildOK, At
  <2>2. /\ Moves(w, j) /\ wk'[w].ok = TRUE
        /\ wk'[w].pc = IF j \in ClientSigned THEN "deciding" ELSE "built"
    BY <1>3, <1>a, <2>1 DEF BuildOK, Moves, j, WorkerRecord
  <2>3. MoveShared(j) /\ CleanOps
    BY <1>3 DEF BuildOK, MoveShared, CleanOps
  <2>4. MoveOwn(w, j)
    <3>1. j \in dirs'
      BY <1>3 DEF BuildOK, j
    <3>2. CASE j \in ClientSigned
      BY <1>3, <1>c, <2>1, <2>2, <3>1, <3>2 DEF BuildOK, MoveOwn, BuildPC, DonePC
    <3>3. CASE j \notin ClientSigned
      BY <1>3, <1>c, <2>1, <2>2, <3>1, <3>3 DEF BuildOK, MoveOwn, BuildPC, DonePC
    <3>4. QED
      BY <3>2, <3>3
  <2>5. QED
    BY <2>1, <2>2, <2>3, <2>4, MoveKeeps
<1>4. CASE BuildGiveUp(w)
  <2>1. wk[w].pc = "building" /\ j \in Jobs /\ store' = store /\ unsaved' = unsaved
    BY <1>4, <1>b DEF BuildGiveUp, At
  <2>2. Moves(w, j) /\ wk'[w].pc = "deciding" /\ wk'[w].ok = FALSE
    BY <1>4, <1>a, <2>1 DEF BuildGiveUp, Moves, j, WorkerRecord
  <2>3. MoveShared(j) /\ CleanOps
    BY <1>4 DEF BuildGiveUp, MoveShared, CleanOps
  <2>4. MoveOwn(w, j)
    BY <1>4, <1>c, <2>1, <2>2 DEF BuildGiveUp, MoveOwn, BuildPC, DonePC
  <2>5. QED
    BY <2>1, <2>2, <2>3, <2>4, MoveKeeps
<1>5. CASE BuildRetry(w)
  <2> DEFINE rec == [store[j] EXCEPT !.retries = wk[w].tries + 1]
  <2>1. wk[w].pc = "building" /\ j \in Jobs /\ Update(Worker(w), j, rec)
    BY <1>5, <1>b DEF BuildRetry, At, j
  <2>2. wk[w].tries + 1 \in 0..MaxRetries
    BY <1>5, <1>a, MikoAssumption DEF BuildRetry, WorkerRecord
  <2>3. rec \in JobRecord /\ rec.status = store[j].status /\ rec.artifact = store[j].artifact
    BY <1>a, <2>1, <2>2 DEF JobRecord
  <2> HIDE DEF rec
  <2>4. /\ \A i \in Jobs \ {j} : store'[i] = store[i]
        /\ store'[j].status = store[j].status /\ store'[j].artifact = store[j].artifact
        /\ \A op \in unsaved' : op \notin unsaved =>
              ~op.rec.artifact /\ op.rec.status = store[j].status /\ op.job = j
    BY <1>a, <2>1, <2>3, UpdateEffect DEF Update
  <2>5. Moves(w, j) /\ wk'[w].pc = "backoff" /\ wk'[w].ok = wk[w].ok
    BY <1>5, <1>a, <2>1 DEF BuildRetry, Moves, j, WorkerRecord
  <2>6. MoveShared(j) /\ CleanOps
    BY <1>5, <1>c, <2>1, <2>4 DEF BuildRetry, MoveShared, CleanOps
  <2>7. MoveOwn(w, j)
    BY <1>5, <1>c, <2>1, <2>4, <2>5 DEF BuildRetry, MoveOwn, BuildPC, DonePC
  <2>8. QED
    BY <2>1, <2>5, <2>6, <2>7, MoveKeeps
<1>6. CASE Backoff(w)
  <2>1. wk[w].pc = "backoff" /\ j \in Jobs /\ store' = store /\ unsaved' = unsaved
    BY <1>6, <1>b DEF Backoff, At
  <2>2. PICK pc \in {"building", "deciding"} : Goto(w, pc)
    BY <1>6 DEF Backoff
  <2>3. Moves(w, j) /\ wk'[w].pc = pc /\ wk'[w].ok = wk[w].ok
    BY <1>a, <2>1, <2>2 DEF Goto, Moves, j, WorkerRecord
  <2>4. MoveShared(j) /\ CleanOps
    BY <1>6 DEF Backoff, MoveShared, CleanOps
  <2>5. MoveOwn(w, j)
    BY <1>6, <1>c, <2>1, <2>2, <2>3 DEF Backoff, MoveOwn, BuildPC, DonePC
  <2>6. QED
    BY <2>1, <2>3, <2>4, <2>5, MoveKeeps
<1>7. CASE UploadOK(w)
  <2>1. wk[w].pc = "built" /\ j \in Jobs /\ store' = store /\ unsaved' = unsaved
    BY <1>7, <1>b DEF UploadOK, At
  <2>2. Moves(w, j) /\ wk'[w].pc = "deciding" /\ wk'[w].ok = wk[w].ok
    BY <1>7, <1>a, <2>1 DEF UploadOK, Goto, Moves, j, WorkerRecord
  <2>3. MoveShared(j) /\ CleanOps
    BY <1>7 DEF UploadOK, MoveShared, CleanOps
  <2>4. MoveOwn(w, j)
    <3>1. j \in published'
      BY <1>7 DEF UploadOK, j
    <3>2. QED
      BY <1>7, <1>c, <2>1, <2>2, <3>1 DEF UploadOK, MoveOwn, BuildPC, DonePC
  <2>5. QED
    BY <2>1, <2>2, <2>3, <2>4, MoveKeeps
<1>8. CASE UploadFail(w)
  <2>1. wk[w].pc = "built" /\ j \in Jobs /\ store' = store /\ unsaved' = unsaved
    BY <1>8, <1>b DEF UploadFail, At
  <2>2. Moves(w, j) /\ wk'[w].pc = "deciding" /\ wk'[w].ok = FALSE
    BY <1>8, <1>a, <2>1 DEF UploadFail, Moves, j, WorkerRecord
  <2>3. published \subseteq published'
    BY <1>8 DEF UploadFail
  <2>4. MoveShared(j) /\ CleanOps
    BY <1>8, <2>3 DEF UploadFail, MoveShared, CleanOps
  <2>5. MoveOwn(w, j)
    BY <1>8, <1>c, <2>1, <2>2, <2>3 DEF UploadFail, MoveOwn, BuildPC, DonePC
  <2>6. QED
    BY <2>1, <2>2, <2>4, <2>5, MoveKeeps
<1>9. CASE Decide(w)
  <2>1. wk[w].pc = "deciding" /\ j \in Jobs /\ store' = store /\ unsaved' = unsaved
    BY <1>9, <1>b DEF Decide, At
  <2>2. Moves(w, j) /\ wk'[w].pc = "finishing" /\ wk'[w].ok = wk[w].ok
    BY <1>9, <1>a, <2>1 DEF Decide, Moves, j, WorkerRecord
  <2>3. MoveShared(j) /\ CleanOps
    BY <1>9 DEF Decide, MoveShared, CleanOps
  <2>4. MoveOwn(w, j)
    BY <1>9, <1>c, <2>1, <2>2 DEF Decide, MoveOwn, BuildPC, DonePC
  <2>5. QED
    BY <2>1, <2>2, <2>3, <2>4, MoveKeeps
<1>10. CASE Finish(w)
  <2> DEFINE art == store[j].artifact \/ (Succeeded(w) /\ KeepArtifacts(w))
             rec == [store[j] EXCEPT !.status = Outcome(w), !.artifact = art]
  <2>1. wk[w].pc = "finishing" /\ j \in Jobs /\ Update(Worker(w), j, rec)
    BY <1>10, <1>b DEF Finish, At, j
  <2>2. Outcome(w) \in TerminalStatus /\ (Outcome(w) = "success" => wk[w].ok)
    BY DEF Outcome, TerminalStatus
  <2>3. rec.status = Outcome(w) /\ (rec.artifact => wk[w].ok /\ j \in ClientSigned)
    BY <1>a, <1>c, <2>1 DEF JobRecord, KeepArtifacts, BuildPC, DonePC, j
  <2>4. rec \in JobRecord
    <3>1. art \in BOOLEAN
      BY <1>a, <2>1 DEF JobRecord, Succeeded, KeepArtifacts
    <3>2. QED
      BY <1>a, <2>1, <2>2, <3>1, RecordTypes
  <2> HIDE DEF rec, art
  <2>5. /\ \A i \in Jobs \ {j} : store'[i] = store[i]
        /\ store'[j].status \in TerminalStatus \cup {"none"}
        /\ store'[j].status = "success" => wk[w].ok
        /\ store'[j].artifact => wk[w].ok /\ j \in ClientSigned
        /\ \A op \in unsaved' : op \notin unsaved =>
              ~op.rec.artifact /\ (op.rec.status = "success" => wk[w].ok) /\ op.job = j
    <3>1. store[j].artifact => wk[w].ok /\ j \in ClientSigned
      BY <1>c, <2>1
    <3>2. CASE store[j].status = "none"
      BY <1>a, <2>1, <2>2, <2>3, <2>4, <3>1, <3>2, UpdateEffect DEF Update
    <3>3. CASE store[j].status # "none"
      BY <1>a, <2>1, <2>2, <2>3, <2>4, <3>3, UpdateEffect DEF Update
    <3>4. QED
      BY <3>2, <3>3
  <2>6. Moves(w, j) /\ wk'[w].pc \in {"chain", "sweep"} /\ wk'[w].ok = wk[w].ok
    <3>1. PICK pc \in {"chain", "sweep"} : Goto(w, pc)
      BY <1>10 DEF Finish
    <3>2. QED
      BY <1>a, <2>1, <3>1 DEF Goto, Moves, j, WorkerRecord
  <2>7. MoveShared(j) /\ CleanOps
    BY <1>10, <1>c, <2>1, <2>5 DEF Finish, MoveShared, CleanOps
  <2>8. MoveOwn(w, j)
    BY <1>10, <1>c, <2>1, <2>5, <2>6
       DEF Finish, MoveOwn, BuildPC, DonePC, TerminalStatus, ActiveStatus
  <2>9. QED
    BY <2>1, <2>6, <2>7, <2>8, MoveKeeps
<1>11. CASE \E i \in Jobs : EnqueueRebuild(w, i)
  <2>1. PICK i \in Jobs : EnqueueRebuild(w, i)
    BY <1>11
  <2>2. wk[w].pc = "chain" /\ j \in Jobs /\ store' = store /\ unsaved' = unsaved
    BY <2>1, <1>b DEF EnqueueRebuild, At
  <2>3. Moves(w, j) /\ wk'[w].pc = "chaining" /\ wk'[w].ok = wk[w].ok
    BY <1>a, <2>1, <2>2 DEF EnqueueRebuild, Moves, j, WorkerRecord
  <2>4. MoveShared(j) /\ CleanOps
    BY ZenonT(60), <1>a, <2>1 DEF EnqueueRebuild, BeginSubmit, MoveShared, CleanOps, SubRecord
  <2>5. MoveOwn(w, j)
    BY <1>c, <2>1, <2>2, <2>3 DEF EnqueueRebuild, MoveOwn, BuildPC, DonePC
  <2>6. QED
    BY <2>2, <2>3, <2>4, <2>5, MoveKeeps
<1>12. CASE RebuildEnqueued(w)
  <2>1. wk[w].pc = "chaining" /\ j \in Jobs /\ store' = store /\ unsaved' = unsaved
    BY <1>12, <1>b DEF RebuildEnqueued, At
  <2>2. PICK pc \in {"chain", "sweep"} : Goto(w, pc)
    BY <1>12 DEF RebuildEnqueued
  <2>3. Moves(w, j) /\ wk'[w].pc = pc /\ wk'[w].ok = wk[w].ok
    BY <1>a, <2>1, <2>2 DEF Goto, Moves, j, WorkerRecord
  <2>4. MoveShared(j) /\ CleanOps
    BY <1>12 DEF RebuildEnqueued, MoveShared, CleanOps
  <2>5. MoveOwn(w, j)
    BY <1>12, <1>c, <2>1, <2>2, <2>3 DEF RebuildEnqueued, MoveOwn, BuildPC, DonePC
  <2>6. QED
    BY <2>1, <2>3, <2>4, <2>5, MoveKeeps
<1>13. CASE ChainDone(w)
  <2>1. wk[w].pc = "chain" /\ j \in Jobs /\ store' = store /\ unsaved' = unsaved
    BY <1>13, <1>b DEF ChainDone, At
  <2>2. Moves(w, j) /\ wk'[w].pc = "sweep" /\ wk'[w].ok = wk[w].ok
    BY <1>13, <1>a, <2>1 DEF ChainDone, Goto, Moves, j, WorkerRecord
  <2>3. MoveShared(j) /\ CleanOps
    BY <1>13 DEF ChainDone, MoveShared, CleanOps
  <2>4. MoveOwn(w, j)
    BY <1>13, <1>c, <2>1, <2>2 DEF ChainDone, MoveOwn, BuildPC, DonePC
  <2>5. QED
    BY <2>1, <2>2, <2>3, <2>4, MoveKeeps
<1>14. CASE CloseLog(w)
  <2>1. wk[w].pc = "closing" /\ j \in Jobs /\ FinalizeLog(Worker(w), j)
    BY <1>14, <1>b DEF CloseLog, At, j
  <2>2. /\ logs' = logs \ {j}
        /\ \A i \in Jobs \ {j} : store'[i] = store[i]
        /\ store'[j].status = store[j].status /\ store'[j].artifact = store[j].artifact
        /\ \A op \in unsaved' : op \notin unsaved =>
              ~op.rec.artifact /\ op.rec.status = store[j].status /\ op.job = j
    BY <1>a, <2>1, FinalizeLogEffect
  <2>3. Moves(w, j) /\ wk'[w].pc = "release" /\ wk'[w].ok = wk[w].ok
    BY <1>14, <1>a, <2>1 DEF CloseLog, Goto, Moves, j, WorkerRecord
  <2>4. MoveShared(j) /\ CleanOps
    BY <1>14, <1>c, <2>1, <2>2 DEF CloseLog, MoveShared, CleanOps
  <2>5. MoveOwn(w, j)
    BY <1>14, <1>c, <2>1, <2>2, <2>3 DEF CloseLog, MoveOwn, BuildPC, DonePC
  <2>6. QED
    BY <2>1, <2>3, <2>4, <2>5, MoveKeeps
<1>15. CASE WorkerSweep(w)
  BY <1>15, WorkerSweepKeeps
<1>16. QED
  BY <1>1, <1>2, <1>3, <1>4, <1>5, <1>6, <1>7, <1>8, <1>9, <1>10, <1>11, <1>12,
     <1>13, <1>14, <1>15

\* A worker that has nothing left to do for job j lets go of it.
LetsGo(w, j) ==
    /\ Holds(w, j) /\ wk[w].pc \in {"skip", "release"}
    /\ ~Holds(w, j)' /\ wk'[w] = IdleWorker
    /\ \A v \in Workers \ {w} : wk'[v] = wk[v]
    /\ queue' = queue /\ sub' = sub /\ disk' = disk /\ published' = published
    /\ \A i \in Jobs : store'[i].status = store[i].status /\ store'[i].artifact = store[i].artifact
    /\ logs' \subseteq logs /\ j \notin logs'
    /\ running \ {j} \subseteq running'
    /\ dirs \ {j} \subseteq dirs' /\ (store[j].artifact => j \in dirs')

\* Letting go of a settled job preserves the invariant.
LEMMA LetGoKeeps ==
    ASSUME Typed, IndInv, NEW w \in Workers, NEW j \in Jobs, LetsGo(w, j), CleanOps
    PROVE  IndInv'
<1>1. \A v \in Workers : \A i \in Jobs :
         Holds(v, i)' <=> Holds(v, i) /\ v # w
  <2>1. IdleWorker.pc = "idle"
    BY DEF IdleWorker
  <2>2. QED
    BY <2>1 DEF LetsGo, Holds
<1>2. \A i \in Jobs : (InQueue(i)' <=> InQueue(i)) /\ (Submitting(i)' <=> Submitting(i))
  BY DEF LetsGo, InQueue, Submitting
<1>3. store[j].status \notin ActiveStatus
  BY DEF LetsGo, IndInv, DoneIsSettled, DonePC
<1>4. \A i \in Jobs : Holds(w, i) => i = j
  BY DEF LetsGo, Holds
<1>5. \A v \in Workers : Holds(v, j) => v = w
  BY DEF LetsGo, IndInv, OneOwner
<1>6. OneOwner'
  BY <1>1, <1>2 DEF IndInv, OneOwner, LetsGo
<1>7. NoStrandedJob'
  BY <1>1, <1>2, <1>3, <1>4 DEF IndInv, NoStrandedJob, LetsGo
<1>8. DoneIsSettled'
  BY <1>1 DEF IndInv, DoneIsSettled, LetsGo
<1>9. LogHasCloser'
  <2>1. \A i \in logs : i \in Jobs
    BY DEF Typed, TypeOK
  <2>2. QED
    BY <1>1, <1>2, <1>4, <2>1 DEF IndInv, LogHasCloser, LetsGo
<1>10. RunningIsHeld'
  <2>1. \A i \in Jobs : store'[i].status = "running" =>
           \E v \in Workers : Holds(v, i)' /\ wk'[v].pc \in BuildPC
    <3> SUFFICES ASSUME NEW i \in Jobs, store[i].status = "running"
                 PROVE  \E v \in Workers : Holds(v, i)' /\ wk'[v].pc \in BuildPC
      BY DEF LetsGo
    <3>1. PICK v \in Workers : Holds(v, i) /\ wk[v].pc \in BuildPC
      BY DEF IndInv, RunningIsHeld
    <3>2. v # w
      BY <3>1 DEF LetsGo, BuildPC
    <3>3. QED
      BY <1>1, <3>1, <3>2 DEF LetsGo
  <2>2. ASSUME NEW v \in Workers, NEW i \in Jobs, Holds(v, i)',
               wk'[v].pc \in {"claimed"} \cup BuildPC \cup DonePC
        PROVE  i \in running'
    <3>1. v # w /\ Holds(v, i) /\ i # j
      BY <1>1, <1>5, <2>2
    <3>2. QED
      BY <2>2, <3>1 DEF LetsGo, IndInv, RunningIsHeld
  <2>3. QED
    BY <2>1, <2>2 DEF RunningIsHeld
<1>11. ArtifactIsKept'
  <2>1. ASSUME NEW i \in Jobs, store'[i].artifact, NEW v \in Workers, Holds(v, i)'
        PROVE  KeepArtifacts(v)' /\ wk'[v].pc \in DonePC
    <3>1. v # w /\ Holds(v, i) /\ store[i].artifact
      BY <1>1, <2>1 DEF LetsGo
    <3>2. KeepArtifacts(v) /\ wk[v].pc \in DonePC
      BY <3>1 DEF IndInv, ArtifactIsKept
    <3>3. QED
      BY <3>1, <3>2 DEF LetsGo, KeepArtifacts
  <2>2. \A op \in unsaved' : ~op.rec.artifact
    BY DEF CleanOps, IndInv, ArtifactIsKept
  <2>3. QED
    BY <1>2, <2>1, <2>2 DEF LetsGo, IndInv, ArtifactIsKept
<1>12. ArtifactExists'
  BY DEF LetsGo, IndInv, ArtifactExists
<1>13. OkIsBuilt'
  <2> SUFFICES ASSUME NEW v \in Workers, NEW i \in Jobs
               PROVE  /\ wk'[v].pc \in {"popped", "skip", "claimed", "building", "backoff"}
                            => ~wk'[v].ok
                      /\ Holds(v, i)' /\ wk'[v].ok /\ wk'[v].pc \in BuildPC => i \in dirs'
                      /\ Holds(v, i)' /\ wk'[v].ok /\ wk'[v].pc \in {"deciding", "finishing"}
                            /\ i \notin ClientSigned => i \in published'
    BY DEF OkIsBuilt
  <2>1. CASE v = w
    BY <1>1, <2>1 DEF LetsGo, IdleWorker
  <2>2. CASE v # w
    BY <1>1, <1>5, <2>2 DEF LetsGo, IndInv, OkIsBuilt
  <2>3. QED
    BY <2>1, <2>2
<1>14. SuccessEverywherePublished'
  <2>1. SuccessIsPublished'
    BY DEF IndInv, SuccessEverywherePublished, SuccessIsPublished, LetsGo
  <2>2. \A op \in unsaved' :
          op.rec.status = "success" /\ op.job \notin ClientSigned => op.job \in published'
    BY DEF CleanOps, LetsGo, IndInv, SuccessEverywherePublished
  <2>3. QED
    BY <2>1, <2>2 DEF SuccessEverywherePublished
<1>15. QED
  BY <1>6, <1>7, <1>8, <1>9, <1>10, <1>11, <1>12, <1>13, <1>14 DEF IndInv

\* The two ends of process: the job was skipped, or everything was done.
LEMMA WorkerLetsGoKeeps ==
    ASSUME Typed, IndInv, NEW w \in Workers, SkipCloseLog(w) \/ Release(w)
    PROVE  IndInv'
<1> DEFINE j == wk[w].job
<1>a. /\ store \in [Jobs -> JobRecord] /\ unsaved \subseteq FileOp
      /\ wk \in [Workers -> WorkerRecord] /\ logs \subseteq Jobs
  BY DEF Typed, TypeOK
<1>b. /\ wk[w].pc \in {"skip", "release"} /\ j \in Jobs /\ Holds(w, j)
      /\ wk' = [wk EXCEPT ![w] = IdleWorker]
  BY DEF SkipCloseLog, Release, At, Typed, WorkerHasJob, Holds
<1>c. /\ wk'[w] = IdleWorker /\ ~Holds(w, j)'
      /\ \A v \in Workers \ {w} : wk'[v] = wk[v]
  BY <1>a, <1>b DEF Holds, IdleWorker
<1>1. CASE SkipCloseLog(w)
  <2>1. FinalizeLog(Worker(w), j)
    BY <1>1 DEF SkipCloseLog
  <2> HIDE DEF j
  <2>2. /\ logs' = logs \ {j}
        /\ \A i \in Jobs : store'[i].status = store[i].status /\ store'[i].artifact = store[i].artifact
        /\ \A op \in unsaved' : op \notin unsaved =>
              ~op.rec.artifact /\ op.rec.status = store[j].status /\ op.job = j
    BY <1>a, <1>b, <2>1, FinalizeLogEffect
  <2>3. /\ queue' = queue /\ sub' = sub /\ disk' = disk /\ published' = published
        /\ running' = running /\ dirs' = dirs
    BY <1>1 DEF SkipCloseLog
  <2>4. LetsGo(w, j)
    BY <1>b, <1>c, <2>2, <2>3 DEF LetsGo, IndInv, ArtifactExists
  <2>5. CleanOps
    BY <1>b, <2>2, <2>3 DEF CleanOps, IndInv, SuccessEverywherePublished, SuccessIsPublished
  <2>6. QED
    BY <1>b, <2>4, <2>5, LetGoKeeps
<1>2. CASE Release(w)
  <2>1. /\ store' = store /\ queue' = queue /\ logs' = logs /\ sub' = sub /\ disk' = disk
        /\ unsaved' = unsaved /\ published' = published
        /\ running' = running \ {j}
        /\ dirs' = IF KeepArtifacts(w) THEN dirs ELSE dirs \ {j}
        /\ wk[w].pc = "release"
    BY <1>2 DEF Release, At
  <2> HIDE DEF j
  <2>2. j \notin logs
    <3>1. sub[j].pc = "accepted" /\ ~InQueue(j) /\ \A v \in Workers : Holds(v, j) => v = w
      BY <1>b DEF IndInv, OneOwner
    <3>2. QED
      BY <2>1, <3>1 DEF IndInv, LogHasCloser
  <2>3. store[j].artifact => KeepArtifacts(w) /\ j \in dirs
    BY <1>b DEF IndInv, ArtifactIsKept, ArtifactExists
  <2>4. LetsGo(w, j) /\ CleanOps
    BY <1>b, <1>c, <2>1, <2>2, <2>3 DEF LetsGo, CleanOps
  <2>5. QED
    BY <1>b, <2>4, LetGoKeeps
<1>3. QED
  BY <1>1, <1>2

\* push hands the job from its submission to the queue, or refuses it.
LEMMA PushKeeps ==
    ASSUME Typed, IndInv, NEW j \in Jobs, Push(j)
    PROVE  IndInv'
<1>a. queue \in Seq(Jobs) /\ sub \in [Jobs -> SubRecord] /\ logs \subseteq Jobs
  BY DEF Typed, TypeOK
<1>b. /\ store' = store /\ running' = running /\ logs' = logs /\ wk' = wk /\ disk' = disk
      /\ unsaved' = unsaved /\ dirs' = dirs /\ published' = published /\ sub[j].pc = "stored"
  BY DEF Push
<1>c. ~InQueue(j) /\ (\A v \in Workers : ~Holds(v, j)) /\ ~store[j].artifact
  BY <1>b DEF IndInv, OneOwner, ArtifactIsKept
<1>1. CASE Len(queue) < QueueSize
  <2>1. queue' = Append(queue, j) /\ sub' = [sub EXCEPT ![j].pc = "accepted"]
    BY <1>1 DEF Push
  <2>2. /\ Len(queue') = Len(queue) + 1 /\ Len(queue) \in Nat
        /\ \A n \in 1..Len(queue) : queue'[n] = queue[n]
        /\ queue'[Len(queue) + 1] = j
    BY <1>a, <2>1
  <2>3. sub'[j].pc = "accepted" /\ \A i \in Jobs \ {j} : sub'[i] = sub[i]
    BY <1>a, <2>1 DEF SubRecord
  <2>4. \A i \in Jobs : InQueue(i)' <=> InQueue(i) \/ i = j
    BY <2>2 DEF InQueue
  <2>5. \A v \in Workers : \A i \in Jobs : Holds(v, i)' <=> Holds(v, i)
    BY <1>b DEF Holds
  <2>6. \A a, b \in 1..Len(queue') : queue'[a] = queue'[b] => a = b
    BY <1>c, <2>2 DEF InQueue, IndInv, OneOwner
  <2>7. OneOwner'
    BY <1>c, <2>3, <2>4, <2>5, <2>6 DEF IndInv, OneOwner
  <2>8. NoStrandedJob'
    BY <1>b, <2>3, <2>4, <2>5 DEF IndInv, NoStrandedJob, Submitting
  <2>9. LogHasCloser'
    BY <1>a, <1>b, <2>3, <2>4, <2>5 DEF IndInv, LogHasCloser
  <2>10. DoneIsSettled' /\ RunningIsHeld' /\ OkIsBuilt'
    BY <1>b, <2>5 DEF IndInv, DoneIsSettled, RunningIsHeld, OkIsBuilt
  <2>11. \A v \in Workers : KeepArtifacts(v)' <=> KeepArtifacts(v)
    BY <1>b DEF KeepArtifacts
  <2>12. ArtifactIsKept'
    BY <1>b, <1>c, <2>3, <2>4, <2>5, <2>11 DEF IndInv, ArtifactIsKept
  <2>13. ArtifactExists' /\ SuccessEverywherePublished'
    BY <1>b DEF IndInv, ArtifactExists, SuccessEverywherePublished, SuccessIsPublished
  <2>14. QED
    BY <2>7, <2>8, <2>9, <2>10, <2>12, <2>13 DEF IndInv
<1>2. CASE ~(Len(queue) < QueueSize)
  <2>1. queue' = queue /\ sub' = [sub EXCEPT ![j].pc = "rejected"]
    BY <1>2 DEF Push
  <2>2. StayShared
    BY <1>a, <1>b, <2>1 DEF StayShared, OpenPC, SubRecord
  <2>3. StayStore
    BY <1>a, <1>b, <2>1 DEF StayStore, Submitting, SubRecord, IndInv, ArtifactExists
  <2>4. CleanOps
    BY <1>b DEF CleanOps
  <2>5. QED
    BY <2>2, <2>3, <2>4, StayKeeps
<1>3. QED
  BY <1>1, <1>2

\* pop hands the job at the head of the queue to an idle worker.
LEMMA PopKeeps ==
    ASSUME Typed, IndInv, NEW w \in Workers, Pop(w)
    PROVE  IndInv'
<1> DEFINE j == Head(queue)
<1>a. queue \in Seq(Jobs) /\ wk \in [Workers -> WorkerRecord] /\ logs \subseteq Jobs
  BY DEF Typed, TypeOK
<1>b. /\ store' = store /\ running' = running /\ logs' = logs /\ sub' = sub /\ disk' = disk
      /\ unsaved' = unsaved /\ dirs' = dirs /\ published' = published
      /\ wk[w].pc = "idle" /\ queue # <<>> /\ queue' = Tail(queue)
      /\ wk' = [wk EXCEPT ![w] = [IdleWorker EXCEPT !.pc = "popped", !.job = j]]
  BY DEF Pop, At
<1>1. /\ j \in Jobs /\ j = queue[1] /\ Len(queue) \in Nat /\ Len(queue) >= 1
      /\ Len(queue') = Len(queue) - 1
      /\ \A n \in 1..Len(queue') : queue'[n] = queue[n + 1]
  BY <1>a, <1>b
<1> HIDE DEF j
<1>2. /\ wk'[w].pc = "popped" /\ wk'[w].job = j /\ ~wk'[w].ok
      /\ \A v \in Workers \ {w} : wk'[v] = wk[v]
  BY <1>a, <1>b DEF IdleWorker
<1>3. InQueue(j)
  BY <1>1 DEF InQueue
<1>4. \A a, b \in 1..Len(queue) : queue[a] = queue[b] => a = b
  BY DEF IndInv, OneOwner
<1>5. \A i \in Jobs : InQueue(i)' <=> InQueue(i) /\ i # j
  <2> SUFFICES ASSUME NEW i \in Jobs
               PROVE  InQueue(i)' <=> InQueue(i) /\ i # j
    OBVIOUS
  <2>1. ASSUME InQueue(i)' PROVE InQueue(i) /\ i # j
    <3>1. PICK n \in 1..Len(queue') : queue'[n] = i
      BY <2>1 DEF InQueue
    <3>2. n + 1 \in 1..Len(queue) /\ queue[n + 1] = i /\ n + 1 # 1
      BY <1>1, <3>1
    <3>3. QED
      BY <1>1, <1>4, <3>2 DEF InQueue
  <2>2. ASSUME InQueue(i), i # j PROVE InQueue(i)'
    <3>1. PICK n \in 1..Len(queue) : queue[n] = i
      BY <2>2 DEF InQueue
    <3>2. n - 1 \in 1..Len(queue') /\ queue'[n - 1] = i
      BY <1>1, <2>2, <3>1
    <3>3. QED
      BY <3>2 DEF InQueue
  <2>3. QED
    BY <2>1, <2>2
<1>6. \A v \in Workers : \A i \in Jobs :
         Holds(v, i)' <=> Holds(v, i) \/ (v = w /\ i = j)
  BY <1>b, <1>2 DEF Holds
<1>7. /\ sub[j].pc = "accepted" /\ (\A v \in Workers : ~Holds(v, j)) /\ ~store[j].artifact
  BY <1>1, <1>3 DEF IndInv, OneOwner, ArtifactIsKept
<1>8. \A i \in Jobs : ~Holds(w, i)
  BY <1>b DEF Holds
<1>9. \A a, b \in 1..Len(queue') : queue'[a] = queue'[b] => a = b
  <2> SUFFICES ASSUME NEW a \in 1..Len(queue'), NEW b \in 1..Len(queue'), queue'[a] = queue'[b]
               PROVE  a = b
    OBVIOUS
  <2>1. a + 1 \in 1..Len(queue) /\ b + 1 \in 1..Len(queue) /\ queue[a + 1] = queue[b + 1]
    BY <1>1
  <2>2. QED
    BY <1>4, <2>1
<1>10. OneOwner'
  BY <1>b, <1>5, <1>6, <1>7, <1>8, <1>9 DEF IndInv, OneOwner
<1>11. NoStrandedJob'
  <2>1. \A i \in Jobs : Submitting(i)' <=> Submitting(i)
    BY <1>b DEF Submitting
  <2>2. QED
    BY <1>b, <1>5, <1>6, <2>1 DEF IndInv, NoStrandedJob
<1>12. DoneIsSettled'
  BY <1>b, <1>2, <1>6 DEF IndInv, DoneIsSettled, DonePC
<1>13. LogHasCloser'
  <2> SUFFICES ASSUME NEW i \in logs
               PROVE  \/ sub'[i].pc \in {"new", "inserted", "stored", "rejected"}
                      \/ InQueue(i)'
                      \/ \E v \in Workers : Holds(v, i)' /\ wk'[v].pc # "release"
    BY <1>b DEF LogHasCloser
  <2>1. i \in Jobs
    BY <1>a
  <2>2. CASE i = j
    BY <1>2, <1>6, <2>1, <2>2
  <2>3. CASE i # j
    BY <1>b, <1>2, <1>5, <1>6, <1>8, <2>1, <2>3 DEF IndInv, LogHasCloser
  <2>4. QED
    BY <2>2, <2>3
<1>14. RunningIsHeld'
  <2>1. \A i \in Jobs : store'[i].status = "running" =>
           \E v \in Workers : Holds(v, i)' /\ wk'[v].pc \in BuildPC
    BY <1>b, <1>2, <1>6, <1>8 DEF IndInv, RunningIsHeld
  <2>2. \A v \in Workers : \A i \in Jobs :
           Holds(v, i)' /\ wk'[v].pc \in {"claimed"} \cup BuildPC \cup DonePC => i \in running'
    BY <1>b, <1>2, <1>6 DEF IndInv, RunningIsHeld, BuildPC, DonePC
  <2>3. QED
    BY <2>1, <2>2 DEF RunningIsHeld
<1>15. ArtifactIsKept'
  <2>1. ASSUME NEW i \in Jobs, store[i].artifact, NEW v \in Workers, Holds(v, i)'
        PROVE  KeepArtifacts(v)' /\ wk'[v].pc \in DonePC
    <3>1. v # w /\ Holds(v, i)
      BY <1>6, <1>7, <1>8, <2>1
    <3>2. KeepArtifacts(v) /\ wk[v].pc \in DonePC
      BY <2>1, <3>1 DEF IndInv, ArtifactIsKept
    <3>3. QED
      BY <1>2, <3>1, <3>2 DEF KeepArtifacts
  <2>2. QED
    BY <1>b, <1>5, <2>1 DEF IndInv, ArtifactIsKept
<1>16. OkIsBuilt'
  <2> SUFFICES ASSUME NEW v \in Workers, NEW i \in Jobs
               PROVE  /\ wk'[v].pc \in {"popped", "skip", "claimed", "building", "backoff"}
                            => ~wk'[v].ok
                      /\ Holds(v, i)' /\ wk'[v].ok /\ wk'[v].pc \in BuildPC => i \in dirs'
                      /\ Holds(v, i)' /\ wk'[v].ok /\ wk'[v].pc \in {"deciding", "finishing"}
                            /\ i \notin ClientSigned => i \in published'
    BY DEF OkIsBuilt
  <2>1. CASE v = w
    BY <1>2, <2>1
  <2>2. CASE v # w
    BY <1>b, <1>2, <1>6, <2>2 DEF IndInv, OkIsBuilt
  <2>3. QED
    BY <2>1, <2>2
<1>17. ArtifactExists' /\ SuccessEverywherePublished'
  BY <1>b DEF IndInv, ArtifactExists, SuccessEverywherePublished, SuccessIsPublished
<1>18. QED
  BY <1>10, <1>11, <1>12, <1>13, <1>14, <1>15, <1>16, <1>17 DEF IndInv

\* A worker that exits held no job.
LEMMA ExitKeeps ==
    ASSUME Typed, IndInv, NEW w \in Workers, WorkerExit(w)
    PROVE  IndInv'
<1>a. wk \in [Workers -> WorkerRecord] /\ logs \subseteq Jobs
  BY DEF Typed, TypeOK
<1>b. /\ store' = store /\ queue' = queue /\ running' = running /\ logs' = logs /\ sub' = sub
      /\ disk' = disk /\ unsaved' = unsaved /\ dirs' = dirs /\ published' = published
      /\ wk[w].pc = "idle" /\ wk' = [wk EXCEPT ![w].pc = "exited"]
  BY DEF WorkerExit, At, Goto
<1>1. /\ wk'[w].pc = "exited" /\ wk'[w].ok = wk[w].ok
      /\ \A v \in Workers \ {w} : wk'[v] = wk[v]
  BY <1>a, <1>b DEF WorkerRecord
<1>2. \A v \in Workers : \A i \in Jobs : Holds(v, i)' <=> Holds(v, i) /\ v # w
  BY <1>b, <1>1 DEF Holds
<1>3. \A i \in Jobs : ~Holds(w, i)
  BY <1>b DEF Holds
<1>4. \A i \in Jobs : (InQueue(i)' <=> InQueue(i)) /\ (Submitting(i)' <=> Submitting(i))
  BY <1>b DEF InQueue, Submitting
<1>5. OneOwner' /\ NoStrandedJob'
  BY <1>b, <1>2, <1>3, <1>4 DEF IndInv, OneOwner, NoStrandedJob
<1>6. DoneIsSettled' /\ LogHasCloser'
  BY <1>a, <1>b, <1>1, <1>2, <1>3, <1>4 DEF IndInv, DoneIsSettled, LogHasCloser
<1>7. RunningIsHeld'
  BY <1>b, <1>1, <1>2, <1>3 DEF IndInv, RunningIsHeld
<1>8. ArtifactIsKept'
  <2>1. \A v \in Workers \ {w} : KeepArtifacts(v)' <=> KeepArtifacts(v)
    BY <1>1 DEF KeepArtifacts
  <2>2. QED
    BY <1>b, <1>1, <1>2, <1>4, <2>1 DEF IndInv, ArtifactIsKept
<1>9. OkIsBuilt'
  BY <1>b, <1>1, <1>2 DEF IndInv, OkIsBuilt
<1>10. ArtifactExists' /\ SuccessEverywherePublished'
  BY <1>b DEF IndInv, ArtifactExists, SuccessEverywherePublished, SuccessIsPublished
<1>11. QED
  BY <1>5, <1>6, <1>7, <1>8, <1>9, <1>10 DEF IndInv

\* A file operation that completes moves one record from unsaved to disk.
LEMMA FlushKeeps ==
    ASSUME Typed, IndInv, NEW op \in unsaved, Flush(op)
    PROVE  IndInv'
<1>a. disk \in [Jobs -> JobRecord] /\ op \in FileOp
  BY DEF Typed, TypeOK
<1>b. /\ store' = store /\ queue' = queue /\ running' = running /\ logs' = logs /\ sub' = sub
      /\ wk' = wk /\ dirs' = dirs /\ published' = published
      /\ disk' = [disk EXCEPT ![op.job] = op.rec] /\ unsaved' = unsaved \ {op}
  BY DEF Flush
<1>c. \A i \in Jobs : disk'[i] = IF i = op.job THEN op.rec ELSE disk[i]
  BY <1>a, <1>b
<1>1. \A v \in Workers : KeepArtifacts(v)' <=> KeepArtifacts(v)
  BY <1>b DEF KeepArtifacts
<1>2. \A v \in Workers : \A i \in Jobs : Holds(v, i)' <=> Holds(v, i)
  BY <1>b DEF Holds
<1>3. \A i \in Jobs : (InQueue(i)' <=> InQueue(i)) /\ (Submitting(i)' <=> Submitting(i))
  BY <1>b DEF InQueue, Submitting
<1>4. OneOwner' /\ NoStrandedJob' /\ DoneIsSettled' /\ RunningIsHeld' /\ OkIsBuilt'
  BY <1>b, <1>2, <1>3 DEF IndInv, OneOwner, NoStrandedJob, DoneIsSettled, RunningIsHeld, OkIsBuilt
<1>5. LogHasCloser'
  <2>1. \A i \in logs : i \in Jobs
    BY DEF Typed, TypeOK
  <2>2. QED
    BY <1>b, <1>2, <1>3, <2>1 DEF IndInv, LogHasCloser
<1>6. ArtifactIsKept'
  <2>1. \A i \in Jobs : ~disk'[i].artifact
    BY <1>c DEF IndInv, ArtifactIsKept
  <2>2. QED
    BY <1>b, <1>1, <1>2, <1>3, <2>1 DEF IndInv, ArtifactIsKept
<1>7. ArtifactExists'
  BY <1>b DEF IndInv, ArtifactExists
<1>8. SuccessEverywherePublished'
  BY <1>b, <1>c DEF IndInv, SuccessEverywherePublished, SuccessIsPublished
<1>9. QED
  BY <1>4, <1>5, <1>6, <1>7, <1>8 DEF IndInv

\* Restart forgets everything but the files, and settles what they left open.
LEMMA RestartKeeps ==
    ASSUME Typed, IndInv, Restart
    PROVE  IndInv'
<1>a. disk \in [Jobs -> JobRecord]
  BY DEF Typed, TypeOK
<1>b. /\ store' = [i \in Jobs |-> Restored(disk[i])] /\ disk' = [i \in Jobs |-> Restored(disk[i])]
      /\ queue' = <<>> /\ logs' = {} /\ wk' = [v \in Workers |-> IdleWorker]
      /\ unsaved' = {} /\ published' = published
  BY DEF Restart
<1>1. \A i \in Jobs : /\ Restored(disk[i]).status \notin ActiveStatus
                      /\ ~Restored(disk[i]).artifact
                      /\ Restored(disk[i]).status = "success" => disk[i].status = "success"
  BY <1>a DEF Restored, JobRecord, ActiveStatus, IndInv, ArtifactIsKept
<1>2. \A i \in Jobs : /\ store'[i].status \notin ActiveStatus /\ ~store'[i].artifact
                      /\ disk'[i] = store'[i]
                      /\ store'[i].status = "success" => disk[i].status = "success"
  BY <1>b, <1>1
<1>3. \A v \in Workers : wk'[v].pc = "idle"
  BY <1>b DEF IdleWorker
<1>4. \A v \in Workers : \A i \in Jobs : ~Holds(v, i)'
  BY <1>3 DEF Holds
<1>5. Len(queue') = 0 /\ \A i \in Jobs : ~InQueue(i)'
  BY <1>b DEF InQueue
<1>6. OneOwner'
  BY <1>4, <1>5 DEF OneOwner
<1>7. NoStrandedJob' /\ DoneIsSettled' /\ LogHasCloser' /\ ArtifactExists'
  BY <1>b, <1>2, <1>4 DEF NoStrandedJob, DoneIsSettled, LogHasCloser, ArtifactExists
<1>8. RunningIsHeld' /\ OkIsBuilt'
  BY <1>2, <1>3, <1>4 DEF RunningIsHeld, OkIsBuilt, ActiveStatus
<1>9. ArtifactIsKept'
  BY <1>b, <1>2 DEF ArtifactIsKept
<1>10. SuccessEverywherePublished'
  BY <1>b, <1>2 DEF IndInv, SuccessEverywherePublished, SuccessIsPublished
<1>11. QED
  BY <1>6, <1>7, <1>8, <1>9, <1>10 DEF IndInv

\* The invariant does not mention the variables that Shutdown changes.
LEMMA IdleKeeps ==
    ASSUME Typed, IndInv, Shutdown \/ UNCHANGED vars
    PROVE  IndInv'
<1>1. /\ StayShared /\ CleanOps
  BY DEF Shutdown, vars, StayShared, CleanOps
<1>2. store' = store /\ sub' = sub /\ dirs' = dirs
  BY DEF Shutdown, vars
<1>3. StayStore
  BY <1>2 DEF StayStore, Submitting, IndInv, ArtifactExists
<1>4. QED
  BY <1>1, <1>3, StayKeeps

\* The initial state satisfies the invariant.
LEMMA InitInv == Init => IndInv
<1> SUFFICES ASSUME Init PROVE IndInv
  OBVIOUS
<1>1. /\ \A i \in Jobs : /\ store[i].status = "none" /\ ~store[i].artifact
                         /\ disk[i].status = "none" /\ ~disk[i].artifact
      /\ \A v \in Workers : wk[v].pc = "idle"
      /\ logs = {} /\ unsaved = {}
  BY DEF Init, NoJob, IdleWorker
<1>2. Len(queue) = 0 /\ \A i \in Jobs : ~InQueue(i)
  BY DEF Init, InQueue
<1>3. \A v \in Workers : \A i \in Jobs : ~Holds(v, i)
  BY <1>1 DEF Holds
<1>4. OneOwner
  BY <1>2, <1>3 DEF OneOwner
<1>5. NoStrandedJob /\ DoneIsSettled /\ LogHasCloser /\ ArtifactExists /\ ArtifactIsKept
  BY <1>1, <1>3 DEF NoStrandedJob, DoneIsSettled, LogHasCloser, ArtifactExists,
                    ArtifactIsKept, ActiveStatus
<1>6. RunningIsHeld /\ OkIsBuilt /\ SuccessEverywherePublished
  BY <1>1, <1>3 DEF RunningIsHeld, OkIsBuilt, SuccessEverywherePublished, SuccessIsPublished
<1>7. QED
  BY <1>4, <1>5, <1>6 DEF IndInv

\* Every step preserves the invariant.
LEMMA NextKeeps == Typed /\ IndInv /\ [Next]_vars => IndInv'
<1> SUFFICES ASSUME Typed, IndInv, [Next]_vars PROVE IndInv'
  OBVIOUS
<1>1. CASE \E j \in Jobs : Submit(j) \/ SubmitStep(j) \/ CancelQueued(j) \/ CancelRunning(j)
  BY <1>1, HandlerKeeps, PushKeeps DEF SubmitStep
<1>2. CASE \E w \in Workers : WorkerStep(w)
  <2>1. PICK w \in Workers : WorkerStep(w)
    BY <1>2
  <2>2. CASE Pop(w)
    BY <2>2, PopKeeps
  <2>3. CASE WorkerExit(w)
    BY <2>3, ExitKeeps
  <2>4. CASE SkipCloseLog(w) \/ Release(w)
    BY <2>4, WorkerLetsGoKeeps
  <2>5. QED
    BY <2>1, <2>2, <2>3, <2>4, WorkerMoveKeeps DEF WorkerStep
<1>3. CASE \E op \in unsaved : Flush(op)
  BY <1>3, FlushKeeps
<1>4. CASE SweepTick
  BY <1>4, SweepTickKeeps
<1>5. CASE Restart
  BY <1>5, RestartKeeps
<1>6. CASE Shutdown \/ UNCHANGED vars
  BY <1>6, IdleKeeps
<1>7. QED
  BY <1>1, <1>2, <1>3, <1>4, <1>5, <1>6 DEF Next

\* The inductive invariant holds in every behaviour of the job service.
THEOREM Inductive == Spec => [](Typed /\ IndInv)
<1>1. Init => Typed /\ IndInv
  BY InitTyped, InitInv
<1>2. (Typed /\ IndInv) /\ [Next]_vars => (Typed /\ IndInv)'
  BY NextTyped, NextKeeps
<1>3. QED
  BY <1>1, <1>2, PTL DEF Spec

\* The channel and process run a job at most once, one actor at a time.
THEOREM OneOwnerAlways == Spec => []OneOwner
<1>1. Typed /\ IndInv => OneOwner
  BY DEF IndInv
<1>2. QED
  BY <1>1, Inductive, PTL

\* Every queued or running record belongs to somebody who will settle it.
THEOREM NoJobStranded == Spec => []NoStrandedJob
<1>1. Typed /\ IndInv => NoStrandedJob
  BY DEF IndInv
<1>2. QED
  BY <1>1, Inductive, PTL

\* Every live log buffer has somebody who will close it.
THEOREM LogsWillClose == Spec => []LogWillClose
<1>1. Typed /\ IndInv => LogWillClose
  BY DEF IndInv, LogHasCloser, LogWillClose, Submitting
<1>2. QED
  BY <1>1, Inductive, PTL

\* Cancel of a job whose status is running always finds its cancel function.
THEOREM CancelAlwaysReaches == Spec => []CancelReachesBuild
<1>1. Typed /\ IndInv => CancelReachesBuild
  BY DEF IndInv, RunningIsHeld, CancelReachesBuild
<1>2. QED
  BY <1>1, Inductive, PTL

\* No path deletes a directory that a record still offers for download.
THEOREM ArtifactsExist == Spec => []ArtifactExists
<1>1. Typed /\ IndInv => ArtifactExists
  BY DEF IndInv
<1>2. QED
  BY <1>1, Inductive, PTL

\* A host-signed job that says success, in memory or on disk, was published.
THEOREM SuccessMeansPublished == Spec => []SuccessIsPublished
<1>1. Typed /\ IndInv => SuccessIsPublished
  BY DEF IndInv, SuccessEverywherePublished
<1>2. QED
  BY <1>1, Inductive, PTL

(***************************************************************************)
(* Records and files (RecordsHold).  Every save happens after mu is        *)
(* released, so what keeps a late snapshot from overwriting a newer one is *)
(* who may owe a save of a job, and when.  RecInv says so for each job.    *)
(* Three kinds of steps are treated once: those that leave the record      *)
(* alone and may hand the job over only while it is quiet (KeepsRecord),   *)
(* those that save a quiet job (WritesRecord), and those after which the   *)
(* job has no record (NoRecord).                                           *)
(***************************************************************************)
\* No file operation of job j is under way.
Quiet(j) == \A op \in unsaved : op.job # j

\* SavesAreCurrent and FileFollowsRecord, for one job.
JobSaves(j) ==
    store[j].status # "none" /\ j \notin Cancellable =>
        /\ \A op \in unsaved : op.job = j => op.rec = Durable(store[j]) /\ MayOwe(op.by, j)
        /\ Quiet(j) => disk[j] = Durable(store[j])

\* The two parts of RecInv, from what holds of each job.
LEMMA SavesOfJobs ==
    ASSUME Typed, RecInv PROVE \A i \in Jobs : JobSaves(i)
BY DEF RecInv, SavesAreCurrent, FileFollowsRecord, JobSaves, Quiet, Stored

\* And back, after a step.
LEMMA JobsOfSaves ==
    ASSUME Typed', \A i \in Jobs : JobSaves(i)'
    PROVE  SavesAreCurrent' /\ FileFollowsRecord'
<1>1. \A op \in unsaved' : op.job \in Jobs
  BY DEF Typed, TypeOK, FileOp
<1>2. QED
  BY <1>1 DEF SavesAreCurrent, FileFollowsRecord, JobSaves, Quiet, Stored

\* Job i is where it was.
SamePlace(i) ==
    /\ sub'[i].pc = sub[i].pc
    /\ InQueue(i)' <=> InQueue(i)
    /\ \A w \in Workers : Holds(w, i)' <=> Holds(w, i)

\* A step that leaves record, file and operations of a job alone may hand the job
\* over only when no save is under way.
LEMMA KeepsRecord ==
    ASSUME NEW i \in Jobs, JobSaves(i), store'[i] = store[i], disk'[i] = disk[i],
           \A op \in unsaved' : op.job = i => op \in unsaved,
           \A op \in unsaved : op.job = i => op \in unsaved',
           store[i].status # "none" /\ i \notin Cancellable => SamePlace(i) \/ Quiet(i)
    PROVE  JobSaves(i)'
<1> SUFFICES ASSUME store[i].status # "none", i \notin Cancellable
             PROVE  /\ \A op \in unsaved' : op.job = i =>
                          op.rec = Durable(store[i]) /\ MayOwe(op.by, i)'
                    /\ Quiet(i)' => disk[i] = Durable(store[i])
  BY DEF JobSaves, Durable
<1>1. Quiet(i)' <=> Quiet(i)
  BY DEF Quiet
<1>2. CASE Quiet(i)
  BY <1>1, <1>2 DEF JobSaves, Quiet
<1>3. CASE SamePlace(i)
  <2>1. \A a : MayOwe(a, i) => MayOwe(a, i)'
    BY <1>3 DEF SamePlace, MayOwe, Submitting
  <2>2. QED
    BY <1>1, <2>1 DEF JobSaves
<1>4. QED
  BY <1>2, <1>3

\* A step that changes the record of a quiet job issues one save of it.
LEMMA WritesRecord ==
    ASSUME NEW i \in Jobs, Quiet(i), NEW o \in unsaved',
           o.job = i, o.rec = Durable(store[i])', MayOwe(o.by, i)',
           \A op \in unsaved' : op.job = i => op \in unsaved \/ op = o
    PROVE  JobSaves(i)'
BY DEF JobSaves, Quiet

\* Nothing is claimed of a job without a record or one that somebody may cancel.
LEMMA NoRecord ==
    ASSUME NEW i \in Jobs, store'[i].status = "none" \/ i \in Cancellable
    PROVE  JobSaves(i)'
BY DEF JobSaves

\* When no save of a job is under way.
LEMMA QuietWhen ==
    ASSUME NEW i \in Jobs, JobSaves(i), store[i].status # "none", i \notin Cancellable,
           \/ Submitting(i) /\ Synced(Submitter(i))
           \/ sub[i].pc \in {"stored", "rejected"}
           \/ InQueue(i)
           \/ \E w \in Workers : Holds(w, i) /\ Synced(Worker(w))
           \/ store[i].artifact /\ \A w \in Workers : ~Holds(w, i)
    PROVE  Quiet(i)
<1> SUFFICES ASSUME NEW op \in unsaved, op.job = i PROVE FALSE
  BY DEF Quiet
<1>1. MayOwe(op.by, i)
  BY DEF JobSaves
<1>2. QED
  BY <1>1 DEF MayOwe, Synced, Submitting

\* Who may have a save under way after a step: the submission, and the holder.
LEMMA SubmitterOwes ==
    ASSUME IndInv', NEW i \in Jobs, sub'[i].pc \in {"inserted", "failing", "refused"}
    PROVE  MayOwe(Submitter(i), i)'
<1>1. ~InQueue(i)' /\ \A w \in Workers : ~Holds(w, i)'
  BY DEF IndInv, OneOwner
<1>2. ~store'[i].artifact
  BY DEF IndInv, ArtifactIsKept
<1>3. QED
  BY <1>1, <1>2 DEF MayOwe, Submitting

\* The worker that holds the job.
LEMMA HolderOwes ==
    ASSUME IndInv', NEW i \in Jobs, NEW w \in Workers, Holds(w, i)'
    PROVE  MayOwe(Worker(w), i)'
<1>1. ~InQueue(i)' /\ sub'[i].pc = "accepted" /\ \A v \in Workers : Holds(v, i)' => v = w
  BY DEF IndInv, OneOwner
<1>2. QED
  BY <1>1 DEF MayOwe, Submitting

\* Service.update of job j by actor a.
LEMMA UpdateSaves ==
    ASSUME Typed, \A i \in Jobs : JobSaves(i), disk' = disk,
           NEW a, NEW j \in Jobs, NEW rec \in JobRecord, Update(a, j, rec),
           \A i \in Jobs \ {j} : SamePlace(i),
           store[j].status # "none" /\ j \notin Cancellable => Quiet(j) /\ MayOwe(a, j)'
    PROVE  \A i \in Jobs : JobSaves(i)'
<1>a. store \in [Jobs -> JobRecord]
  BY DEF Typed, TypeOK
<1>1. CASE store[j].status = "none"
  <2>1. store' = store /\ unsaved' = unsaved
    BY <1>1 DEF Update
  <2>2. QED
    BY <1>1, <2>1, KeepsRecord
<1>2. CASE store[j].status # "none"
  <2> DEFINE o == SaveOp(a, j, rec)
  <2>1. store' = [store EXCEPT ![j] = rec] /\ unsaved' = unsaved \cup {o}
    BY <1>2 DEF Update
  <2>2. o.job = j /\ o.by = a /\ o.rec = Durable(rec)
    BY DEF SaveOp
  <2> HIDE DEF o
  <2>3. ASSUME NEW i \in Jobs \ {j} PROVE JobSaves(i)'
    BY <2>1, <2>2, <1>a, KeepsRecord
  <2>4. ASSUME j \notin Cancellable PROVE JobSaves(j)'
    <3>1. store'[j] = rec
      BY <2>1, <1>a
    <3>2. Durable(rec) = Durable(store[j])'
      BY <3>1 DEF Durable
    <3>3. QED
      BY <1>2, <2>1, <2>2, <2>4, <3>2, WritesRecord
  <2>5. QED
    BY <2>3, <2>4, NoRecord
<1>3. QED
  BY <1>1, <1>2

\* finalizeLog of job j by actor a.
LEMMA FinalizeSaves ==
    ASSUME Typed, \A i \in Jobs : JobSaves(i), disk' = disk,
           NEW a, NEW j \in Jobs, FinalizeLog(a, j),
           \A i \in Jobs \ {j} : SamePlace(i),
           store[j].status # "none" /\ j \notin Cancellable => Quiet(j) /\ MayOwe(a, j)'
    PROVE  \A i \in Jobs : JobSaves(i)'
<1> DEFINE rec == [store[j] EXCEPT !.logs = TRUE]
<1>1. rec \in JobRecord
  BY DEF Typed, TypeOK, JobRecord
<1> HIDE DEF rec
<1>2. CASE j \in logs
  <2>1. Update(a, j, rec)
    BY <1>2 DEF FinalizeLog, rec
  <2>2. QED
    BY <1>1, <2>1, UpdateSaves
<1>3. CASE j \notin logs
  <2>1. store' = store /\ unsaved' = unsaved
    BY <1>3 DEF FinalizeLog
  <2>2. QED
    BY <2>1, KeepsRecord
<1>4. QED
  BY <1>2, <1>3

\* The submission has not yet reached the store.
FreshPC == {"none", "new"}

\* What every step keeps that neither inserts a job nor removes files nor reaches the
\* disk: no record comes or goes, and a job reaches its worker as it was queued.
PlainStore ==
    /\ disk' = disk
    /\ \A i \in Jobs : store'[i].status = "none" <=> store[i].status = "none"
    /\ \A op \in unsaved' :
          op \in unsaved \/ store[op.job].status # "none" \/ sub[op.job].pc = "accepted"
    /\ \A i \in Jobs \ Cancellable : store'[i].status = "cancelled" =>
          \/ store[i].status = "cancelled"
          \/ \E w \in Workers : Holds(w, i)' /\ wk'[w].pc \notin {"popped", "skip"}

\* Jobs move only along submission, queue, pop and claim.
PlainPlace ==
    /\ \A i \in Jobs :
          /\ sub'[i].pc \in FreshPC => sub[i].pc \in FreshPC
          /\ sub'[i].evicted = sub[i].evicted
          /\ sub'[i].pc = "inserted" <=> sub[i].pc = "inserted"
          /\ Submitting(i)' => Submitting(i) \/ sub[i].pc = "none"
          /\ InQueue(i)' => InQueue(i) \/ Submitting(i)
    /\ \A w \in Workers : \A i \in Jobs : Holds(w, i)' =>
          /\ wk'[w].pc = "popped" => InQueue(i) \/ (Holds(w, i) /\ wk[w].pc = "popped")
          /\ wk'[w].pc = "skip" => /\ Holds(w, i)
                                   /\ \/ wk[w].pc = "skip"
                                      \/ /\ wk[w].pc = "popped"
                                         /\ store[i].status \in {"none", "cancelled"}

\* Such a step preserves RecInv once each job's saves are accounted for.
LEMMA PlainKeeps ==
    ASSUME Typed, Typed', IndInv', RecInv, PlainStore, PlainPlace,
           \A i \in Jobs : JobSaves(i)'
    PROVE  RecInv' /\ ActiveNeverEvicted
<1>1. FreshIsClean'
  <2> SUFFICES ASSUME NEW i \in Jobs, sub'[i].pc \in FreshPC
               PROVE  /\ store'[i].status = "none" /\ disk'[i].status = "none"
                      /\ \A op \in unsaved' : op.job # i
                      /\ \A k \in Jobs : i \notin sub'[k].evicted
    BY DEF FreshIsClean, FreshPC
  <2>1. /\ store[i].status = "none" /\ disk[i].status = "none"
        /\ \A op \in unsaved : op.job # i
        /\ \A k \in Jobs : i \notin sub[k].evicted
    BY DEF PlainPlace, RecInv, FreshIsClean, FreshPC
  <2>2. QED
    BY <2>1 DEF PlainPlace, PlainStore, FreshPC
<1>2. EvictedIsGone'
  <2>1. \A k \in Jobs : sub[k].evicted \subseteq Jobs
    BY DEF Typed, TypeOK, SubRecord
  <2>2. QED
    BY <2>1 DEF RecInv, EvictedIsGone, PlainPlace, PlainStore
<1>3. ReachesWorker'
  <2> SUFFICES ASSUME NEW i \in Jobs \ Cancellable
               PROVE  /\ Submitting(i)' \/ InQueue(i)' => store'[i].status # "cancelled"
                      /\ \A w \in Workers : Holds(w, i)' =>
                           /\ wk'[w].pc = "popped" => store'[i].status # "cancelled"
                           /\ wk'[w].pc = "skip" => store'[i].status = "none"
    BY DEF ReachesWorker
  <2>1. ASSUME store'[i].status = "cancelled",
               \/ Submitting(i)' \/ InQueue(i)'
               \/ \E w \in Workers : Holds(w, i)' /\ wk'[w].pc \in {"popped", "skip"}
        PROVE  store[i].status = "cancelled"
    <3>1. \A v \in Workers : Holds(v, i)' => /\ sub'[i].pc = "accepted" /\ ~InQueue(i)'
                                             /\ \A w \in Workers : Holds(w, i)' => w = v
      BY DEF IndInv, OneOwner
    <3>2. \A v \in Workers : Holds(v, i)' => ~Submitting(i)'
      BY <3>1 DEF Submitting
    <3>3. QED
      BY <2>1, <3>1, <3>2 DEF PlainStore
  <2>2. sub[i].pc = "none" => store[i].status = "none"
    BY DEF RecInv, FreshIsClean
  <2>3. Submitting(i)' \/ InQueue(i)' => store'[i].status # "cancelled"
    BY <2>1, <2>2 DEF PlainPlace, RecInv, ReachesWorker
  <2>4. ASSUME NEW w \in Workers, Holds(w, i)', wk'[w].pc = "popped"
        PROVE  store'[i].status # "cancelled"
    BY <2>1, <2>4 DEF PlainPlace, RecInv, ReachesWorker
  <2>5. ASSUME NEW w \in Workers, Holds(w, i)', wk'[w].pc = "skip"
        PROVE  store'[i].status = "none"
    BY <2>5 DEF PlainPlace, PlainStore, RecInv, ReachesWorker
  <2>6. QED
    BY <2>3, <2>4, <2>5
<1>4. SavesAreCurrent' /\ FileFollowsRecord'
  BY JobsOfSaves
<1>5. ActiveNeverEvicted
  BY DEF ActiveNeverEvicted, PlainStore, ActiveStatus
<1>6. QED
  BY <1>1, <1>2, <1>3, <1>4, <1>5 DEF RecInv

\* A step that touches neither the records nor the files: a job that changes hands in
\* it is quiet.
LEMMA HandOver ==
    ASSUME Typed, Typed', IndInv', RecInv, PlainPlace,
           store' = store, disk' = disk, unsaved' = unsaved,
           \A i \in Jobs : store[i].status # "none" /\ i \notin Cancellable =>
               SamePlace(i) \/ Quiet(i)
    PROVE  RecInv' /\ ActiveNeverEvicted
<1>1. \A i \in Jobs : JobSaves(i)
  BY SavesOfJobs
<1>2. \A i \in Jobs : JobSaves(i)'
  BY <1>1, KeepsRecord
<1>3. PlainStore
  BY DEF PlainStore
<1>4. QED
  BY <1>2, <1>3, PlainKeeps

\* Service.update that moves no job but j.
LEMMA UpdateStore ==
    ASSUME Typed, disk' = disk, NEW a, NEW j \in Jobs, NEW rec \in JobRecord,
           Update(a, j, rec), rec.status # "none",
           rec.status = "cancelled" /\ j \notin Cancellable =>
              \/ store[j].status = "cancelled"
              \/ \E w \in Workers : Holds(w, j)' /\ wk'[w].pc \notin {"popped", "skip"}
    PROVE  PlainStore
<1>a. store \in [Jobs -> JobRecord]
  BY DEF Typed, TypeOK
<1>1. CASE store[j].status = "none"
  BY <1>1 DEF Update, PlainStore
<1>2. CASE store[j].status # "none"
  <2>1. store' = [store EXCEPT ![j] = rec] /\ unsaved' = unsaved \cup {SaveOp(a, j, rec)}
    BY <1>2 DEF Update
  <2>2. SaveOp(a, j, rec).job = j
    BY DEF SaveOp
  <2>3. \A i \in Jobs : store'[i] = IF i = j THEN rec ELSE store[i]
    BY <2>1, <1>a
  <2>4. QED
    BY <1>2, <2>1, <2>2, <2>3 DEF PlainStore
<1>3. QED
  BY <1>1, <1>2

\* finalizeLog likewise.
LEMMA FinalizeStore ==
    ASSUME Typed, disk' = disk, NEW a, NEW j \in Jobs, FinalizeLog(a, j)
    PROVE  PlainStore
<1> DEFINE rec == [store[j] EXCEPT !.logs = TRUE]
<1>1. rec \in JobRecord /\ rec.status = store[j].status
  BY DEF Typed, TypeOK, JobRecord
<1> HIDE DEF rec
<1>2. CASE j \in logs /\ store[j].status # "none"
  <2>1. Update(a, j, rec)
    BY <1>2 DEF FinalizeLog, rec
  <2>2. QED
    BY <1>1, <1>2, <2>1, UpdateStore
<1>3. CASE j \notin logs \/ store[j].status = "none"
  <2>1. store' = store /\ unsaved' = unsaved
    BY <1>3 DEF FinalizeLog, Update
  <2>2. QED
    BY <2>1 DEF PlainStore
<1>4. QED
  BY <1>2, <1>3

\* A step of a handler leaves the workers where they are.
LEMMA SamePlaces ==
    ASSUME NEW i \in Jobs, wk' = wk, queue' = queue, sub'[i].pc = sub[i].pc
    PROVE  SamePlace(i)
BY DEF SamePlace, InQueue, Holds

\* It moves at most job j, along the submission.
LEMMA HandlerPlace ==
    ASSUME wk' = wk, queue' = queue, NEW j \in Jobs,
           \A i \in Jobs : sub'[i].evicted = sub[i].evicted,
           \A i \in Jobs \ {j} : sub'[i].pc = sub[i].pc,
           \/ sub'[j].pc = sub[j].pc
           \/ sub[j].pc = "none" /\ sub'[j].pc = "new"
           \/ sub[j].pc = "rejected" /\ sub'[j].pc = "failing"
           \/ sub[j].pc = "failing" /\ sub'[j].pc = "refused"
    PROVE  PlainPlace
<1>1. \A i \in Jobs : InQueue(i)' <=> InQueue(i)
  BY DEF InQueue
<1>2. \A w \in Workers : \A i \in Jobs : Holds(w, i)' <=> Holds(w, i)
  BY DEF Holds
<1>3. ASSUME NEW i \in Jobs
      PROVE  /\ sub'[i].pc \in FreshPC => sub[i].pc \in FreshPC
             /\ sub'[i].pc = "inserted" <=> sub[i].pc = "inserted"
             /\ Submitting(i)' => Submitting(i) \/ sub[i].pc = "none"
  BY DEF FreshPC, Submitting
<1>4. QED
  BY <1>1, <1>2, <1>3 DEF PlainPlace

\* The steps of the handlers that neither insert nor remove.
LEMMA HandlerRecords ==
    ASSUME Typed, Typed', IndInv, IndInv', RecInv, NEW j \in Jobs,
           \/ Submit(j) \/ RejectCloseLog(j) \/ RejectFail(j)
           \/ CancelQueued(j) \/ CancelRunning(j)
    PROVE  RecInv' /\ ActiveNeverEvicted
<1>a. store \in [Jobs -> JobRecord] /\ sub \in [Jobs -> SubRecord] /\ store[j] \in JobRecord
  BY DEF Typed, TypeOK
<1>b. \A i \in Jobs : JobSaves(i)
  BY SavesOfJobs
<1>1. CASE Submit(j)
  <2>1. /\ wk' = wk /\ queue' = queue /\ store' = store /\ disk' = disk /\ unsaved' = unsaved
        /\ sub[j].pc = "none" /\ sub'[j].pc = "new"
        /\ \A i \in Jobs : sub'[i].evicted = sub[i].evicted
        /\ \A i \in Jobs \ {j} : sub'[i].pc = sub[i].pc
    BY <1>1, <1>a DEF Submit, BeginSubmit, SubRecord
  <2>2. PlainPlace
    BY <2>1, HandlerPlace
  <2>3. \A i \in Jobs \ {j} : SamePlace(i)
    BY <2>1, SamePlaces
  <2>4. store[j].status = "none"
    BY <2>1 DEF RecInv, FreshIsClean
  <2>5. QED
    BY <2>1, <2>2, <2>3, <2>4, HandOver
<1>2. CASE CancelRunning(j)
  <2>1. /\ wk' = wk /\ queue' = queue /\ store' = store /\ disk' = disk /\ unsaved' = unsaved
        /\ sub' = sub
    BY <1>2 DEF CancelRunning
  <2>2. PlainPlace
    BY <2>1, HandlerPlace
  <2>3. \A i \in Jobs : SamePlace(i)
    BY <2>1, SamePlaces
  <2>4. QED
    BY <2>1, <2>2, <2>3, HandOver
<1>3. CASE RejectCloseLog(j)
  <2>1. /\ wk' = wk /\ queue' = queue /\ disk' = disk
        /\ sub[j].pc = "rejected" /\ sub'[j].pc = "failing"
        /\ \A i \in Jobs : sub'[i].evicted = sub[i].evicted
        /\ \A i \in Jobs \ {j} : sub'[i].pc = sub[i].pc
        /\ FinalizeLog(Submitter(j), j)
    BY <1>3, <1>a DEF RejectCloseLog, SubRecord
  <2>2. PlainPlace
    BY <2>1, HandlerPlace
  <2>3. \A i \in Jobs \ {j} : SamePlace(i)
    BY <2>1, SamePlaces
  <2>4. store[j].status # "none" /\ j \notin Cancellable => Quiet(j)
    BY <1>b, <2>1, QuietWhen
  <2>5. MayOwe(Submitter(j), j)'
    BY <2>1, SubmitterOwes
  <2>6. \A i \in Jobs : JobSaves(i)'
    BY <1>b, <2>1, <2>3, <2>4, <2>5, FinalizeSaves
  <2>7. PlainStore
    BY <2>1, FinalizeStore
  <2>8. QED
    BY <2>2, <2>6, <2>7, PlainKeeps
<1>4. CASE RejectFail(j)
  <2> DEFINE rec == [store[j] EXCEPT !.status = "failed"]
  <2>1. /\ wk' = wk /\ queue' = queue /\ disk' = disk /\ Synced(Submitter(j))
        /\ sub[j].pc = "failing" /\ sub'[j].pc = "refused"
        /\ \A i \in Jobs : sub'[i].evicted = sub[i].evicted
        /\ \A i \in Jobs \ {j} : sub'[i].pc = sub[i].pc
    BY <1>4, <1>a DEF RejectFail, SubRecord
  <2>2. Update(Submitter(j), j, rec)
    BY <1>4 DEF RejectFail
  <2>3. rec \in JobRecord /\ rec.status = "failed"
    <3>1. rec \in JobRecord
      BY <1>a, RecordTypes DEF TerminalStatus
    <3>2. QED
      BY <1>a, <3>1 DEF JobRecord
  <2> HIDE DEF rec
  <2>4. PlainPlace
    BY <2>1, HandlerPlace
  <2>5. \A i \in Jobs \ {j} : SamePlace(i)
    BY <2>1, SamePlaces
  <2>6. store[j].status # "none" /\ j \notin Cancellable => Quiet(j)
    BY <1>b, <2>1, QuietWhen DEF Submitting
  <2>7. MayOwe(Submitter(j), j)'
    BY <2>1, SubmitterOwes
  <2>8. \A i \in Jobs : JobSaves(i)'
    BY <1>b, <2>1, <2>2, <2>3, <2>5, <2>6, <2>7, UpdateSaves
  <2>9. PlainStore
    BY <2>1, <2>2, <2>3, UpdateStore
  <2>10. QED
    BY <2>4, <2>8, <2>9, PlainKeeps
<1>5. CASE CancelQueued(j)
  <2> DEFINE rec == [store[j] EXCEPT !.status = "cancelled"]
  <2>1. /\ wk' = wk /\ queue' = queue /\ disk' = disk /\ sub' = sub
        /\ j \in Cancellable /\ store[j].status # "none"
    BY <1>5 DEF CancelQueued
  <2>2. Update(Canceller(j), j, rec)
    BY <1>5, <2>1 DEF CancelQueued, Update
  <2>3. rec \in JobRecord /\ rec.status = "cancelled"
    <3>1. rec \in JobRecord
      BY <1>a, RecordTypes DEF TerminalStatus
    <3>2. QED
      BY <1>a, <3>1 DEF JobRecord
  <2> HIDE DEF rec
  <2>4. PlainPlace
    BY <2>1, HandlerPlace
  <2>5. \A i \in Jobs \ {j} : SamePlace(i)
    BY <2>1, SamePlaces
  <2>6. \A i \in Jobs : JobSaves(i)'
    BY <1>b, <2>1, <2>2, <2>3, <2>5, UpdateSaves
  <2>7. PlainStore
    BY <2>1, <2>2, <2>3, UpdateStore
  <2>8. QED
    BY <2>4, <2>6, <2>7, PlainKeeps
<1>6. QED
  BY <1>1, <1>2, <1>3, <1>4, <1>5

\* queue.push hands the job to the queue, or turns it down, with no save under way.
LEMMA PushRecords ==
    ASSUME Typed, Typed', IndInv, IndInv', RecInv, NEW j \in Jobs, Push(j)
    PROVE  RecInv' /\ ActiveNeverEvicted
<1>a. /\ sub \in [Jobs -> SubRecord] /\ queue \in Seq(Jobs)
      /\ wk' = wk /\ store' = store /\ disk' = disk /\ unsaved' = unsaved
      /\ sub[j].pc = "stored"
  BY DEF Typed, TypeOK, Push
<1>1. /\ sub'[j].pc \in {"accepted", "rejected"}
      /\ \A i \in Jobs : sub'[i].evicted = sub[i].evicted
      /\ \A i \in Jobs \ {j} : sub'[i].pc = sub[i].pc
  BY <1>a DEF Push, SubRecord
<1>2. \A i \in Jobs : IF i = j THEN InQueue(i)' => Submitting(i)
                      ELSE InQueue(i)' <=> InQueue(i)
  <2>1. Submitting(j)
    BY <1>a DEF Submitting
  <2>2. CASE queue' = queue
    BY <2>1, <2>2 DEF InQueue
  <2>3. CASE queue' = Append(queue, j)
    <3>1. /\ Len(queue') = Len(queue) + 1 /\ queue'[Len(queue) + 1] = j
          /\ \A k \in 1..Len(queue) : queue'[k] = queue[k]
          /\ Len(queue) \in Nat
      BY <1>a, <2>3
    <3>2. QED
      BY <2>1, <3>1 DEF InQueue
  <2>4. QED
    BY <2>2, <2>3 DEF Push
<1>3. \A w \in Workers : \A i \in Jobs : Holds(w, i)' <=> Holds(w, i)
  BY <1>a DEF Holds
<1>4. \A i \in Jobs \ {j} : SamePlace(i)
  BY <1>1, <1>2, <1>3 DEF SamePlace
<1>5. PlainPlace
  <2>1. ASSUME NEW i \in Jobs
        PROVE  /\ sub'[i].pc \in FreshPC => sub[i].pc \in FreshPC
               /\ sub'[i].pc = "inserted" <=> sub[i].pc = "inserted"
               /\ Submitting(i)' => Submitting(i) \/ sub[i].pc = "none"
    BY <1>a, <1>1 DEF FreshPC, Submitting
  <2>2. QED
    BY <1>a, <1>1, <1>2, <1>3, <2>1 DEF PlainPlace
<1>6. store[j].status # "none" /\ j \notin Cancellable => Quiet(j)
  BY <1>a, SavesOfJobs, QuietWhen
<1>7. QED
  BY <1>a, <1>4, <1>5, <1>6, HandOver

\* A worker goes on with its job: nobody else has it, and it stays where it was.
LEMMA MovePlace ==
    ASSUME NEW w \in Workers, NEW j \in Jobs, Moves(w, j), queue' = queue,
           wk'[w].pc # "popped",
           wk'[w].pc = "skip" => wk[w].pc = "popped" /\ store[j].status \in {"none", "cancelled"},
           \A i \in Jobs : /\ sub'[i].evicted = sub[i].evicted
                           /\ \/ sub'[i].pc = sub[i].pc
                              \/ sub[i].pc = "none" /\ sub'[i].pc = "new"
    PROVE  /\ PlainPlace /\ Holds(w, j) /\ Holds(w, j)'
           /\ \A i \in Jobs : sub'[i].pc = sub[i].pc => SamePlace(i)
<1>1. \A i \in Jobs : InQueue(i)' <=> InQueue(i)
  BY DEF InQueue
<1>2. \A v \in Workers : \A i \in Jobs : Holds(v, i)' <=> Holds(v, i)
  BY DEF Holds, Moves
<1>3. ASSUME NEW i \in Jobs
      PROVE  /\ sub'[i].pc \in FreshPC => sub[i].pc \in FreshPC
             /\ sub'[i].pc = "inserted" <=> sub[i].pc = "inserted"
             /\ Submitting(i)' => Submitting(i) \/ sub[i].pc = "none"
  BY DEF FreshPC, Submitting
<1>4. \A v \in Workers \ {w} : wk'[v].pc = wk[v].pc
  BY DEF Moves
<1>5. \A i \in Jobs : Holds(w, i) => i = j
  BY DEF Moves, Holds
<1>6. PlainPlace
  BY <1>1, <1>2, <1>3, <1>4, <1>5 DEF PlainPlace
<1>7. Holds(w, j) /\ Holds(w, j)'
  BY DEF Moves, Holds
<1>8. QED
  BY <1>1, <1>2, <1>6, <1>7 DEF SamePlace

\* Where a worker is silent, its job has no save under way.
LEMMA HolderQuiet ==
    ASSUME Typed, RecInv, NEW w \in Workers, NEW j \in Jobs, Holds(w, j), Synced(Worker(w))
    PROVE  store[j].status # "none" /\ j \notin Cancellable => Quiet(j)
BY SavesOfJobs, QuietWhen

\* Service.update by the worker that holds the job.
LEMMA WorkerUpdate ==
    ASSUME Typed, Typed', IndInv', RecInv, NEW w \in Workers, NEW j \in Jobs,
           NEW rec \in JobRecord,
           Moves(w, j), Synced(Worker(w)), wk'[w].pc \notin {"popped", "skip"},
           queue' = queue, sub' = sub, disk' = disk,
           Update(Worker(w), j, rec), store[j].status # "none" => rec.status # "none"
    PROVE  RecInv' /\ ActiveNeverEvicted
<1>1. PlainPlace /\ Holds(w, j) /\ Holds(w, j)' /\ \A i \in Jobs : SamePlace(i)
  BY MovePlace
<1>2. \A i \in Jobs : JobSaves(i)
  BY SavesOfJobs
<1>3. store[j].status # "none" /\ j \notin Cancellable => Quiet(j) /\ MayOwe(Worker(w), j)'
  BY <1>1, HolderQuiet, HolderOwes
<1>4. \A i \in Jobs : JobSaves(i)'
  BY <1>1, <1>2, <1>3, UpdateSaves
<1>5. PlainStore
  <2>1. CASE store[j].status = "none"
    BY <2>1 DEF PlainStore, Update
  <2>2. CASE store[j].status # "none"
    BY <1>1, <2>2, UpdateStore
  <2>3. QED
    BY <2>1, <2>2
<1>6. QED
  BY <1>1, <1>4, <1>5, PlainKeeps

\* The steps of a worker that leave records and files alone.
LEMMA WorkerSilent ==
    ASSUME Typed, Typed', IndInv', RecInv, NEW w \in Workers,
           \/ Claim(w) \/ BuildOK(w) \/ BuildGiveUp(w) \/ Backoff(w) \/ UploadOK(w)
           \/ UploadFail(w) \/ Decide(w) \/ RebuildEnqueued(w) \/ ChainDone(w)
           \/ \E i \in Jobs : EnqueueRebuild(w, i)
    PROVE  RecInv' /\ ActiveNeverEvicted
<1> DEFINE j == wk[w].job
<1>a. /\ wk \in [Workers -> WorkerRecord] /\ sub \in [Jobs -> SubRecord]
      /\ wk[w] \in WorkerRecord
  BY DEF Typed, TypeOK
<1>b. wk[w].pc \notin {"idle", "exited"} => j \in Jobs
  BY DEF Typed, WorkerHasJob
<1>1. store' = store /\ disk' = disk /\ unsaved' = unsaved /\ queue' = queue
  BY DEF Claim, BuildOK, BuildGiveUp, Backoff, UploadOK, UploadFail, Decide,
         RebuildEnqueued, ChainDone, EnqueueRebuild
<1>2. \A i \in Jobs : /\ sub'[i].evicted = sub[i].evicted
                      /\ \/ sub'[i].pc = sub[i].pc
                         \/ sub[i].pc = "none" /\ sub'[i].pc = "new"
  <2>1. CASE \E i \in Jobs : EnqueueRebuild(w, i)
    <3>1. PICK k \in Jobs : EnqueueRebuild(w, k)
      BY <2>1
    <3>2. sub[k].pc = "none" /\ sub' = [sub EXCEPT ![k].pc = "new"]
      BY <3>1 DEF EnqueueRebuild, BeginSubmit
    <3>3. QED
      BY <3>2, <1>a DEF SubRecord
  <2>2. CASE ~\E i \in Jobs : EnqueueRebuild(w, i)
    <3>1. sub' = sub
      BY <2>2 DEF Claim, BuildOK, BuildGiveUp, Backoff, UploadOK, UploadFail, Decide,
                  RebuildEnqueued, ChainDone
    <3>2. QED
      BY <3>1
  <2>3. QED
    BY <2>1, <2>2
<1>3. /\ Moves(w, j) /\ j \in Jobs /\ wk'[w].pc # "popped"
      /\ wk'[w].pc = "skip" => wk[w].pc = "popped" /\ store[j].status \in {"none", "cancelled"}
  <2>1. CASE Claim(w)
    <3>1. wk[w].pc = "popped" /\ j \in Jobs
      BY <2>1, <1>b DEF Claim, At
    <3>2. CASE store[j].status \in {"none", "cancelled"}
      BY <2>1, <1>a, <3>1, <3>2 DEF Claim, Goto, Moves, WorkerRecord
    <3>3. CASE store[j].status \notin {"none", "cancelled"}
      BY <2>1, <1>a, <3>1, <3>3 DEF Claim, Goto, Moves, WorkerRecord
    <3>4. QED
      BY <3>2, <3>3
  <2>2. CASE BuildOK(w)
    BY <2>2, <1>a, <1>b DEF BuildOK, At, Moves, WorkerRecord
  <2>3. CASE BuildGiveUp(w)
    BY <2>3, <1>a, <1>b DEF BuildGiveUp, At, Moves, WorkerRecord
  <2>4. CASE Backoff(w)
    BY <2>4, <1>a, <1>b DEF Backoff, Goto, At, Moves, WorkerRecord
  <2>5. CASE UploadOK(w)
    BY <2>5, <1>a, <1>b DEF UploadOK, Goto, At, Moves, WorkerRecord
  <2>6. CASE UploadFail(w)
    BY <2>6, <1>a, <1>b DEF UploadFail, At, Moves, WorkerRecord
  <2>7. CASE Decide(w)
    BY <2>7, <1>a, <1>b DEF Decide, At, Moves, WorkerRecord
  <2>8. CASE RebuildEnqueued(w)
    BY <2>8, <1>a, <1>b DEF RebuildEnqueued, Goto, At, Moves, WorkerRecord
  <2>9. CASE ChainDone(w)
    BY <2>9, <1>a, <1>b DEF ChainDone, Goto, At, Moves, WorkerRecord
  <2>10. CASE \E i \in Jobs : EnqueueRebuild(w, i)
    <3>1. PICK i \in Jobs : EnqueueRebuild(w, i)
      BY <2>10
    <3>2. wk[w].pc = "chain" /\ wk' = [wk EXCEPT ![w].pc = "chaining", ![w].child = i]
      BY <3>1 DEF EnqueueRebuild, At
    <3>3. QED
      BY <3>2, <1>a, <1>b DEF Moves, WorkerRecord
  <2>11. QED
    BY <2>1, <2>2, <2>3, <2>4, <2>5, <2>6, <2>7, <2>8, <2>9, <2>10
<1> HIDE DEF j
<1>4. PlainPlace /\ \A i \in Jobs : sub'[i].pc = sub[i].pc => SamePlace(i)
  BY <1>1, <1>2, <1>3, MovePlace
<1>5. \A i \in Jobs : store[i].status # "none" => SamePlace(i)
  <2>1. \A i \in Jobs : sub[i].pc = "none" => store[i].status = "none"
    BY DEF RecInv, FreshIsClean
  <2>2. QED
    BY <1>2, <1>4, <2>1
<1>6. QED
  BY <1>1, <1>4, <1>5, HandOver

\* The steps of a worker that save its job.
LEMMA WorkerSaves ==
    ASSUME Typed, Typed', IndInv', RecInv, NEW w \in Workers,
           MarkRunning(w) \/ BuildRetry(w) \/ Finish(w) \/ CloseLog(w)
    PROVE  RecInv' /\ ActiveNeverEvicted
<1> DEFINE j == wk[w].job
<1>a. /\ wk \in [Workers -> WorkerRecord] /\ store \in [Jobs -> JobRecord]
      /\ wk[w] \in WorkerRecord
  BY DEF Typed, TypeOK
<1>b. wk[w].pc \notin {"idle", "exited"} /\ Synced(Worker(w)) /\ j \in Jobs
  BY DEF Typed, WorkerHasJob, MarkRunning, BuildRetry, Finish, CloseLog, At
<1>c. store[j] \in JobRecord
  BY <1>a, <1>b
<1>d. sub' = sub /\ queue' = queue /\ disk' = disk
  BY DEF MarkRunning, BuildRetry, Finish, CloseLog
<1>1. CASE MarkRunning(w)
  <2> DEFINE rec == [store[j] EXCEPT !.status = "running"]
  <2>1. Update(Worker(w), j, rec)
    BY <1>1 DEF MarkRunning
  <2>2. rec \in JobRecord
    BY <1>c, RecordTypes DEF ActiveStatus
  <2>3. rec.status = "running"
    BY <1>c DEF JobRecord
  <2>4. Moves(w, j) /\ wk'[w].pc = "building"
    BY <1>1, <1>a, <1>b DEF MarkRunning, Goto, Moves, WorkerRecord
  <2> HIDE DEF rec, j
  <2>5. QED
    BY <1>b, <1>d, <2>1, <2>2, <2>3, <2>4, WorkerUpdate
<1>2. CASE BuildRetry(w)
  <2> DEFINE rec == [store[j] EXCEPT !.retries = wk[w].tries + 1]
  <2>1. Update(Worker(w), j, rec)
    BY <1>2 DEF BuildRetry
  <2>2. wk[w].tries + 1 \in 0..MaxRetries
    BY <1>2, <1>a, MikoAssumption DEF BuildRetry, WorkerRecord
  <2>3. rec \in JobRecord
    BY <1>c, <2>2, RecordTypes
  <2>4. rec.status = store[j].status
    BY <1>c DEF JobRecord
  <2>5. Moves(w, j) /\ wk'[w].pc = "backoff"
    BY <1>2, <1>a, <1>b DEF BuildRetry, Moves, WorkerRecord
  <2> HIDE DEF rec, j
  <2>6. QED
    BY <1>b, <1>d, <2>1, <2>3, <2>4, <2>5, WorkerUpdate
<1>3. CASE Finish(w)
  <2> DEFINE art == store[j].artifact \/ (Succeeded(w) /\ KeepArtifacts(w))
             rec == [store[j] EXCEPT !.status = Outcome(w), !.artifact = art]
  <2>1. Update(Worker(w), j, rec)
    BY <1>3 DEF Finish
  <2>2. Outcome(w) \in TerminalStatus /\ Outcome(w) # "none"
    BY DEF Outcome, TerminalStatus
  <2>3. art \in BOOLEAN
    BY <1>c DEF JobRecord
  <2> HIDE DEF art
  <2>4. rec \in JobRecord
    BY <1>c, <2>2, <2>3, RecordTypes
  <2>5. rec.status = Outcome(w)
    BY <1>c DEF JobRecord
  <2>6. Moves(w, j) /\ wk'[w].pc \in {"chain", "sweep"}
    BY <1>3, <1>a, <1>b DEF Finish, Goto, Moves, WorkerRecord
  <2> HIDE DEF rec, j
  <2>7. QED
    BY <1>b, <1>d, <2>1, <2>2, <2>4, <2>5, <2>6, WorkerUpdate
<1>4. CASE CloseLog(w)
  <2>1. PICK i \in Jobs : i = j
    BY <1>b
  <2>2. FinalizeLog(Worker(w), i)
    BY <1>4, <2>1 DEF CloseLog
  <2>3. Moves(w, i) /\ wk'[w].pc = "release"
    BY <1>4, <1>a, <1>b, <2>1 DEF CloseLog, Goto, Moves, WorkerRecord
  <2> HIDE DEF j
  <2>4. PlainPlace /\ Holds(w, i) /\ Holds(w, i)' /\ \A k \in Jobs : SamePlace(k)
    BY <1>d, <2>3, MovePlace
  <2>5. store[i].status # "none" /\ i \notin Cancellable => Quiet(i) /\ MayOwe(Worker(w), i)'
    BY <1>b, <2>4, HolderQuiet, HolderOwes
  <2>6. \A k \in Jobs : JobSaves(k)'
    BY <1>d, <2>2, <2>4, <2>5, SavesOfJobs, FinalizeSaves
  <2>7. PlainStore
    BY <1>d, <2>2, FinalizeStore
  <2>8. QED
    BY <2>4, <2>6, <2>7, PlainKeeps
<1>5. QED
  BY <1>1, <1>2, <1>3, <1>4

\* A worker that lets go of its job.
LEMMA LetGoPlace ==
    ASSUME NEW w \in Workers, NEW j \in Jobs, wk \in [Workers -> WorkerRecord],
           wk[w].job = j, wk' = [wk EXCEPT ![w] = IdleWorker], queue' = queue, sub' = sub
    PROVE  PlainPlace /\ \A i \in Jobs \ {j} : SamePlace(i)
<1>1. \A i \in Jobs : (InQueue(i)' <=> InQueue(i)) /\ (Submitting(i)' <=> Submitting(i))
  BY DEF InQueue, Submitting
<1>2. wk'[w].pc = "idle" /\ \A v \in Workers \ {w} : wk'[v] = wk[v]
  BY DEF IdleWorker
<1>3. \A v \in Workers : \A i \in Jobs : Holds(v, i)' <=> v # w /\ Holds(v, i)
  BY <1>2 DEF Holds
<1>4. \A i \in Jobs \ {j} : ~Holds(w, i)
  BY DEF Holds
<1>5. QED
  BY <1>1, <1>2, <1>3, <1>4 DEF PlainPlace, SamePlace

\* A skipped job has no record, a released one no save under way.
LEMMA LetGoRecords ==
    ASSUME Typed, Typed', IndInv', RecInv, NEW w \in Workers, SkipCloseLog(w) \/ Release(w)
    PROVE  RecInv' /\ ActiveNeverEvicted
<1>a. /\ wk \in [Workers -> WorkerRecord]
      /\ wk[w].pc \in {"skip", "release"} /\ Synced(Worker(w)) /\ wk[w].job \in Jobs
      /\ wk' = [wk EXCEPT ![w] = IdleWorker]
      /\ queue' = queue /\ sub' = sub /\ disk' = disk
  BY DEF Typed, TypeOK, WorkerHasJob, SkipCloseLog, Release, At
<1>1. PICK j \in Jobs : j = wk[w].job
  BY <1>a
<1>2. PlainPlace /\ (\A i \in Jobs \ {j} : SamePlace(i)) /\ Holds(w, j)
  BY <1>a, <1>1, LetGoPlace DEF Holds
<1>3. CASE Release(w)
  <2>1. store' = store /\ unsaved' = unsaved
    BY <1>3 DEF Release
  <2>2. store[j].status # "none" /\ j \notin Cancellable => Quiet(j)
    BY <1>a, <1>2, HolderQuiet
  <2>3. QED
    BY <1>a, <1>2, <2>1, <2>2, HandOver
<1>4. CASE SkipCloseLog(w)
  <2>1. FinalizeLog(Worker(w), j) /\ wk[w].pc = "skip"
    BY <1>1, <1>4 DEF SkipCloseLog, At
  <2>2. j \notin Cancellable => store[j].status = "none"
    BY <1>2, <2>1 DEF RecInv, ReachesWorker
  <2>3. \A i \in Jobs : JobSaves(i)'
    BY <1>a, <1>2, <2>1, <2>2, SavesOfJobs, FinalizeSaves
  <2>4. PlainStore
    BY <1>a, <2>1, FinalizeStore
  <2>5. QED
    BY <1>2, <2>3, <2>4, PlainKeeps
<1>5. QED
  BY <1>3, <1>4

\* queue.pop hands a job over with no save under way; an idle worker may exit.
LEMMA IdleWorkerRecords ==
    ASSUME Typed, Typed', IndInv, IndInv', RecInv, NEW w \in Workers, Pop(w) \/ WorkerExit(w)
    PROVE  RecInv' /\ ActiveNeverEvicted
<1>a. /\ wk \in [Workers -> WorkerRecord] /\ queue \in Seq(Jobs) /\ wk[w].pc = "idle"
      /\ sub' = sub /\ store' = store /\ disk' = disk /\ unsaved' = unsaved
  BY DEF Typed, TypeOK, Pop, WorkerExit, At
<1>b. \A i \in Jobs : Submitting(i)' <=> Submitting(i)
  BY <1>a DEF Submitting
<1>1. CASE WorkerExit(w)
  <2>1. queue' = queue /\ wk'[w].pc = "exited" /\ \A v \in Workers \ {w} : wk'[v] = wk[v]
    BY <1>1, <1>a DEF WorkerExit, Goto, WorkerRecord
  <2>2. \A v \in Workers : \A i \in Jobs : Holds(v, i)' <=> Holds(v, i)
    BY <1>a, <2>1 DEF Holds
  <2>3. \A i \in Jobs : InQueue(i)' <=> InQueue(i)
    BY <2>1 DEF InQueue
  <2>4. PlainPlace
    BY <1>a, <1>b, <2>1, <2>2, <2>3 DEF PlainPlace
  <2>5. \A i \in Jobs : SamePlace(i)
    BY <1>a, <2>2, <2>3 DEF SamePlace
  <2>6. QED
    BY <1>a, <2>4, <2>5, HandOver
<1>2. CASE Pop(w)
  <2>1. queue # <<>> /\ queue' = Tail(queue)
        /\ wk' = [wk EXCEPT ![w] = [IdleWorker EXCEPT !.pc = "popped", !.job = Head(queue)]]
    BY <1>2 DEF Pop
  <2>2. PICK j \in Jobs : j = Head(queue)
    BY <1>a, <2>1
  <2>3. /\ wk'[w].pc = "popped" /\ wk'[w].job = j
        /\ \A v \in Workers \ {w} : wk'[v] = wk[v]
    BY <1>a, <2>1, <2>2 DEF IdleWorker
  <2>4. /\ Len(queue) \in Nat \ {0} /\ Len(queue') = Len(queue) - 1 /\ queue[1] = j
        /\ \A k \in 1..Len(queue') : queue'[k] = queue[k + 1]
    BY <1>a, <2>1, <2>2
  <2>5. InQueue(j)
    BY <2>4 DEF InQueue
  <2>6. \A i \in Jobs : InQueue(i)' => InQueue(i)
    <3> SUFFICES ASSUME NEW i \in Jobs, NEW k \in 1..Len(queue'), queue'[k] = i
                 PROVE  InQueue(i)
      BY DEF InQueue
    <3>1. k + 1 \in 1..Len(queue) /\ queue[k + 1] = i
      BY <2>4
    <3>2. QED
      BY <3>1 DEF InQueue
  <2>7. \A i \in Jobs \ {j} : InQueue(i) => InQueue(i)'
    <3> SUFFICES ASSUME NEW i \in Jobs \ {j}, NEW k \in 1..Len(queue), queue[k] = i
                 PROVE  InQueue(i)'
      BY DEF InQueue
    <3>1. k - 1 \in 1..Len(queue') /\ queue'[k - 1] = i
      BY <2>4
    <3>2. QED
      BY <3>1 DEF InQueue
  <2>8. /\ \A v \in Workers \ {w} : \A i \in Jobs : Holds(v, i)' <=> Holds(v, i)
        /\ \A i \in Jobs : ~Holds(w, i) /\ (Holds(w, i)' <=> i = j)
    BY <1>a, <2>3 DEF Holds
  <2>9. PlainPlace
    BY <1>a, <1>b, <2>3, <2>5, <2>6, <2>8 DEF PlainPlace
  <2>10. \A i \in Jobs \ {j} : SamePlace(i)
    BY <1>a, <2>6, <2>7, <2>8 DEF SamePlace
  <2>11. store[j].status # "none" /\ j \notin Cancellable => Quiet(j)
    BY <2>5, SavesOfJobs, QuietWhen
  <2>12. QED
    BY <1>a, <2>9, <2>10, <2>11, HandOver
<1>3. QED
  BY <1>1, <1>2

\* A sweep saves the jobs whose artifacts it drops: nobody has them any more.
LEMMA SweepSaves ==
    ASSUME Typed, IndInv, RecInv, disk' = disk, sub' = sub, queue' = queue,
           NEW a, NEW expired \in SUBSET {i \in Jobs : Expired(i)}, SweepArtifacts(a, expired),
           \A v \in Workers : \A i \in Jobs : Holds(v, i)' <=> Holds(v, i)
    PROVE  PlainStore /\ \A i \in Jobs : JobSaves(i)'
<1>a. store \in [Jobs -> JobRecord]
  BY DEF Typed, TypeOK
<1>b. \A i \in Jobs : JobSaves(i)
  BY SavesOfJobs
<1>1. /\ store' = [i \in Jobs |-> IF i \in expired THEN [store[i] EXCEPT !.artifact = FALSE]
                                  ELSE store[i]]
      /\ unsaved' = unsaved \cup {SaveOp(a, i, store[i]) : i \in expired}
  BY DEF SweepArtifacts
<1>2. \A i \in Jobs : /\ SaveOp(a, i, store[i]).job = i /\ SaveOp(a, i, store[i]).by = a
                      /\ SaveOp(a, i, store[i]).rec = Durable(store[i])
  BY DEF SaveOp
<1>3. \A i \in Jobs : (InQueue(i)' <=> InQueue(i)) /\ (Submitting(i)' <=> Submitting(i))
  BY DEF InQueue, Submitting
<1>4. \A i \in Jobs : store'[i].status = store[i].status
  BY <1>a, <1>1 DEF JobRecord
<1>5. ASSUME NEW i \in expired
      PROVE  i \in Jobs /\ store[i].artifact /\ \A v \in Workers : ~Holds(v, i)
  BY DEF Expired, Holds
<1>6. ASSUME NEW i \in Jobs \ expired PROVE JobSaves(i)'
  <2>1. SamePlace(i)
    BY <1>3 DEF SamePlace
  <2>2. store'[i] = store[i]
    BY <1>1
  <2>3. /\ \A op \in unsaved' : op.job = i => op \in unsaved
        /\ \A op \in unsaved : op \in unsaved'
    BY <1>1, <1>2, <1>5
  <2>4. QED
    BY <1>b, <2>1, <2>2, <2>3, KeepsRecord
<1>7. ASSUME NEW i \in expired, store[i].status # "none", i \notin Cancellable PROVE JobSaves(i)'
  <2> DEFINE o == SaveOp(a, i, store[i])
  <2>1. i \in Jobs /\ o \in unsaved' /\ o.job = i /\ o.by = a /\ o.rec = Durable(store[i])
    BY <1>1, <1>2, <1>5
  <2>2. \A op \in unsaved' : op.job = i => op \in unsaved \/ op = o
    BY <1>1, <1>2, <1>5
  <2> HIDE DEF o
  <2>3. Quiet(i)
    BY <1>b, <1>5, <1>7, QuietWhen
  <2>4. store'[i] = [store[i] EXCEPT !.artifact = FALSE]
    BY <1>1, <2>1
  <2>5. Durable(store[i])' = Durable(store[i]) /\ ~store'[i].artifact
    BY <1>a, <2>1, <2>4 DEF Durable, JobRecord
  <2>6. MayOwe(a, i)'
    <3>1. sub[i].pc = "accepted" /\ ~InQueue(i)
      BY <1>5 DEF IndInv, ArtifactIsKept
    <3>2. QED
      BY <1>3, <1>5, <2>1, <2>5, <3>1 DEF MayOwe, Submitting
  <2>7. QED
    BY <2>1, <2>2, <2>3, <2>5, <2>6, WritesRecord
<1>8. \A i \in Jobs : JobSaves(i)'
  BY <1>4, <1>6, <1>7, NoRecord
<1>9. \A op \in unsaved' : op \in unsaved \/ sub[op.job].pc = "accepted"
  <2>1. \A i \in expired : sub[i].pc = "accepted"
    BY <1>5 DEF IndInv, ArtifactIsKept
  <2>2. QED
    BY <1>1, <1>2, <1>5, <2>1
<1>10. QED
  BY <1>4, <1>8, <1>9 DEF PlainStore

\* The two sweeps: at the end of process and on the timer.
LEMMA SweepRecords ==
    ASSUME Typed, Typed', IndInv, IndInv', RecInv,
           SweepTick \/ \E w \in Workers : WorkerSweep(w)
    PROVE  RecInv' /\ ActiveNeverEvicted
<1>a. sub' = sub /\ queue' = queue /\ disk' = disk
  BY DEF SweepTick, WorkerSweep
<1>1. \E a : \E expired \in SUBSET {i \in Jobs : Expired(i)} : SweepArtifacts(a, expired)
  <2>1. CASE SweepTick
    <3>1. \E expired \in SUBSET {i \in Jobs : Expired(i)} : SweepArtifacts(Sweeper, expired)
      BY <2>1 DEF SweepTick
    <3>2. QED
      BY <3>1
  <2>2. CASE \E w \in Workers : WorkerSweep(w)
    <3>1. PICK w \in Workers : WorkerSweep(w)
      BY <2>2
    <3>2. \E expired \in SUBSET {i \in Jobs : Expired(i)} : SweepArtifacts(Worker(w), expired)
      BY <3>1 DEF WorkerSweep
    <3>3. QED
      BY <3>2
  <2>3. QED
    BY <2>1, <2>2
<1>2. PlainPlace /\ \A v \in Workers : \A i \in Jobs : Holds(v, i)' <=> Holds(v, i)
  <2>1. CASE SweepTick
    <3>1. wk' = wk
      BY <2>1 DEF SweepTick
    <3>2. \A i \in Jobs : SamePlace(i)
      BY <1>a, <3>1, SamePlaces
    <3>3. CASE Jobs = {}
      BY <3>3 DEF PlainPlace
    <3>4. CASE Jobs # {}
      BY <1>a, <3>1, <3>2, <3>4, HandlerPlace DEF SamePlace
    <3>5. QED
      BY <3>2, <3>3, <3>4 DEF SamePlace
  <2>2. CASE \E w \in Workers : WorkerSweep(w)
    <3>1. PICK w \in Workers : WorkerSweep(w)
      BY <2>2
    <3>2. PICK j \in Jobs : j = wk[w].job
      BY <3>1 DEF WorkerSweep, At, Typed, WorkerHasJob
    <3>3. Moves(w, j) /\ wk'[w].pc = "closing"
      BY <3>1, <3>2 DEF WorkerSweep, At, Goto, Moves, Typed, TypeOK, WorkerRecord
    <3>4. PlainPlace /\ \A i \in Jobs : SamePlace(i)
      BY <1>a, <3>3, MovePlace
    <3>5. QED
      BY <3>4 DEF SamePlace
  <2>3. QED
    BY <2>1, <2>2
<1>3. PlainStore /\ \A i \in Jobs : JobSaves(i)'
  BY <1>a, <1>1, <1>2, SweepSaves
<1>4. QED
  BY <1>2, <1>3, PlainKeeps

\* The critical section of a submission: one record comes, finished ones go.
LEMMA InsertRecords ==
    ASSUME Typed, Typed', IndInv, IndInv', RecInv, NEW j \in Jobs, InsertJob(j)
    PROVE  RecInv' /\ ActiveNeverEvicted
<1> DEFINE st == [store EXCEPT ![j] = NewJob]
           ev == Evictable(st)
           o == SaveOp(Submitter(j), j, NewJob)
<1>a. /\ store \in [Jobs -> JobRecord] /\ sub \in [Jobs -> SubRecord]
      /\ \A op \in unsaved : op.job \in Jobs
  BY DEF Typed, TypeOK, FileOp
<1>b. \A i \in Jobs : JobSaves(i)
  BY SavesOfJobs
<1>1. /\ store' = [i \in Jobs |-> IF i \in ev THEN NoJob ELSE st[i]]
      /\ sub' = [sub EXCEPT ![j] = [pc |-> "inserted", evicted |-> ev]]
      /\ unsaved' = unsaved \cup {o}
      /\ sub[j].pc = "new" /\ wk' = wk /\ queue' = queue /\ disk' = disk
  BY DEF InsertJob
<1>2. /\ o.job = j /\ o.by = Submitter(j) /\ o.rec = Durable(NewJob)
      /\ NewJob.status = "queued" /\ NoJob.status = "none"
  BY DEF SaveOp, NewJob, NoJob
<1>3. ev \subseteq Jobs \ {j} /\ \A i \in ev : store[i].status \in TerminalStatus
  <2>1. \A i \in ev : i \in Jobs /\ st[i].status \in TerminalStatus
    BY DEF Evictable, Terminal
  <2>2. st[j] = NewJob /\ \A i \in Jobs \ {j} : st[i] = store[i]
    BY <1>a
  <2>3. QED
    BY <1>2, <2>1, <2>2 DEF TerminalStatus
<1>4. /\ store'[j] = NewJob
      /\ \A i \in Jobs \ {j} : store'[i] = IF i \in ev THEN NoJob ELSE store[i]
  BY <1>a, <1>1, <1>3
<1>5. /\ sub'[j].pc = "inserted" /\ sub'[j].evicted = ev
      /\ \A i \in Jobs \ {j} : sub'[i] = sub[i]
  BY <1>a, <1>1
<1> HIDE DEF st, ev, o
<1>6. /\ store[j].status = "none" /\ disk[j].status = "none" /\ Quiet(j)
      /\ \A k \in Jobs : j \notin sub[k].evicted
  BY <1>1 DEF RecInv, FreshIsClean, Quiet
<1>7. ASSUME NEW i \in Jobs PROVE JobSaves(i)'
  <2>1. CASE i = j
    <3>1. MayOwe(Submitter(j), j)'
      BY <1>5, SubmitterOwes
    <3>2. o.rec = Durable(store[j])'
      BY <1>2, <1>4 DEF Durable
    <3>3. QED
      BY <1>1, <1>2, <1>6, <2>1, <3>1, <3>2, WritesRecord
  <2>2. CASE i # j /\ i \in ev
    BY <1>2, <1>4, <2>2, NoRecord
  <2>3. CASE i # j /\ i \notin ev
    <3>1. SamePlace(i)
      BY <1>1, <1>5, <2>3, SamePlaces
    <3>2. store'[i] = store[i]
      BY <1>4, <2>3
    <3>3. QED
      BY <1>b, <1>1, <1>2, <2>3, <3>1, <3>2, KeepsRecord
  <2>4. QED
    BY <2>1, <2>2, <2>3
<1>8. FreshIsClean'
  <2> SUFFICES ASSUME NEW i \in Jobs, sub'[i].pc \in {"none", "new"}
               PROVE  /\ store'[i].status = "none" /\ disk'[i].status = "none"
                      /\ \A op \in unsaved' : op.job # i
                      /\ \A k \in Jobs : i \notin sub'[k].evicted
    BY DEF FreshIsClean
  <2>1. i # j /\ sub[i].pc \in {"none", "new"}
    BY <1>5
  <2>2. /\ store[i].status = "none" /\ disk[i].status = "none"
        /\ \A op \in unsaved : op.job # i
        /\ \A k \in Jobs : i \notin sub[k].evicted
    BY <2>1 DEF RecInv, FreshIsClean
  <2>3. i \notin ev
    BY <1>3, <2>2 DEF TerminalStatus
  <2>4. store'[i].status = "none" /\ disk'[i].status = "none"
    BY <1>1, <1>4, <2>1, <2>2, <2>3
  <2>5. \A op \in unsaved' : op.job # i
    BY <1>1, <1>2, <2>1, <2>2
  <2>6. \A k \in Jobs : i \notin sub'[k].evicted
    BY <1>5, <2>2, <2>3
  <2>7. QED
    BY <2>4, <2>5, <2>6
<1>9. EvictedIsGone'
  <2>1. \A k \in Jobs : sub[k].evicted \subseteq Jobs
    BY <1>a DEF SubRecord
  <2>2. \A i \in ev : store'[i].status = "none"
    BY <1>2, <1>3, <1>4
  <2>3. ASSUME NEW k \in Jobs \ {j}
        PROVE  /\ sub'[k].pc # "inserted" => sub'[k].evicted = {}
               /\ \A i \in sub'[k].evicted : store'[i].status = "none"
    BY <1>2, <1>4, <1>5, <1>6, <2>1 DEF RecInv, EvictedIsGone
  <2>4. QED
    BY <1>5, <2>2, <2>3 DEF EvictedIsGone
<1>10. ReachesWorker'
  <2>1. \A w \in Workers : \A i \in Jobs : Holds(w, i)' <=> Holds(w, i)
    BY <1>1 DEF Holds
  <2>2. \A i \in Jobs : InQueue(i)' <=> InQueue(i)
    BY <1>1 DEF InQueue
  <2>3. \A i \in Jobs \ {j} : Submitting(i)' <=> Submitting(i)
    BY <1>5 DEF Submitting
  <2>4. \A i \in Jobs \ {j} : store'[i].status \in {"none", store[i].status}
    BY <1>2, <1>4
  <2>5. ~\E w \in Workers : Holds(w, j)
    BY <1>1 DEF IndInv, OneOwner
  <2>6. ASSUME NEW i \in Jobs \ Cancellable, i # j
        PROVE  /\ Submitting(i)' \/ InQueue(i)' => store'[i].status # "cancelled"
               /\ \A w \in Workers : Holds(w, i)' =>
                     /\ wk'[w].pc = "popped" => store'[i].status # "cancelled"
                     /\ wk'[w].pc = "skip" => store'[i].status = "none"
    BY <1>1, <2>1, <2>2, <2>3, <2>4, <2>6 DEF RecInv, ReachesWorker
  <2>7. store'[j].status # "cancelled"
    BY <1>2, <1>4
  <2>8. QED
    BY <2>1, <2>5, <2>6, <2>7 DEF ReachesWorker
<1>11. ActiveNeverEvicted
  <2>1. \A i \in Jobs \ {j} : store[i].status \in ActiveStatus => i \notin ev
    BY <1>3 DEF ActiveStatus, TerminalStatus
  <2>2. QED
    BY <1>4, <1>6, <2>1 DEF ActiveNeverEvicted, ActiveStatus
<1>12. QED
  BY <1>7, <1>8, <1>9, <1>10, <1>11, JobsOfSaves DEF RecInv

\* The files of the evicted jobs go, and none of them has a record.
LEMMA RemoveRecords ==
    ASSUME Typed, Typed', IndInv', RecInv, NEW j \in Jobs, RemoveEvicted(j)
    PROVE  RecInv' /\ ActiveNeverEvicted
<1> DEFINE ops == {[by |-> Submitter(j), job |-> i, rec |-> NoJob] : i \in sub[j].evicted}
<1>a. sub \in [Jobs -> SubRecord]
  BY DEF Typed, TypeOK
<1>b. \A i \in Jobs : JobSaves(i)
  BY SavesOfJobs
<1>1. /\ store' = store /\ disk' = disk /\ wk' = wk /\ queue' = queue
      /\ unsaved' = unsaved \cup ops
      /\ sub[j].pc = "inserted" /\ Synced(Submitter(j))
      /\ sub'[j].pc = "stored" /\ sub'[j].evicted = {}
      /\ \A i \in Jobs \ {j} : sub'[i] = sub[i]
  BY <1>a DEF RemoveEvicted
<1>2. \A op \in ops : op.job \in sub[j].evicted
  OBVIOUS
<1> HIDE DEF ops
<1>3. \A i \in sub[j].evicted : store[i].status = "none" /\ sub[i].pc \notin {"none", "new"} /\ i \in Jobs
  <2>1. sub[j].evicted \subseteq Jobs
    BY <1>a DEF SubRecord
  <2>2. QED
    BY <2>1 DEF RecInv, EvictedIsGone, FreshIsClean
<1>4. ASSUME NEW i \in Jobs PROVE JobSaves(i)'
  <2>1. CASE store[i].status = "none" \/ i \in Cancellable
    BY <1>1, <2>1, NoRecord
  <2>2. CASE store[i].status # "none" /\ i \notin Cancellable
    <3>1. i \notin sub[j].evicted
      BY <1>3, <2>2
    <3>2. SamePlace(i) \/ Quiet(i)
      <4>1. CASE i = j
        BY <1>b, <1>1, <2>2, <4>1, QuietWhen DEF Submitting
      <4>2. CASE i # j
        BY <1>1, <4>2, SamePlaces
      <4>3. QED
        BY <4>1, <4>2
    <3>3. QED
      BY <1>b, <1>1, <1>2, <3>1, <3>2, KeepsRecord
  <2>3. QED
    BY <2>1, <2>2
<1>5. FreshIsClean'
  <2> SUFFICES ASSUME NEW i \in Jobs, sub'[i].pc \in {"none", "new"}
               PROVE  /\ store'[i].status = "none" /\ disk'[i].status = "none"
                      /\ \A op \in unsaved' : op.job # i
                      /\ \A k \in Jobs : i \notin sub'[k].evicted
    BY DEF FreshIsClean
  <2>1. i # j /\ sub[i].pc \in {"none", "new"}
    BY <1>1
  <2>2. /\ store[i].status = "none" /\ disk[i].status = "none"
        /\ \A op \in unsaved : op.job # i
        /\ \A k \in Jobs : i \notin sub[k].evicted
    BY <2>1 DEF RecInv, FreshIsClean
  <2>3. QED
    BY <1>1, <1>2, <1>3, <2>1, <2>2
<1>6. EvictedIsGone'
  BY <1>1 DEF RecInv, EvictedIsGone
<1>7. ReachesWorker'
  <2>1. \A i \in Jobs : Submitting(i)' <=> Submitting(i)
    BY <1>1 DEF Submitting
  <2>2. \A i \in Jobs : InQueue(i)' <=> InQueue(i)
    BY <1>1 DEF InQueue
  <2>3. \A w \in Workers : \A i \in Jobs : Holds(w, i)' <=> Holds(w, i)
    BY <1>1 DEF Holds
  <2>4. QED
    BY <1>1, <2>1, <2>2, <2>3 DEF RecInv, ReachesWorker
<1>8. ActiveNeverEvicted
  BY <1>1 DEF ActiveNeverEvicted, ActiveStatus
<1>9. QED
  BY <1>4, <1>5, <1>6, <1>7, <1>8, JobsOfSaves DEF RecInv

\* A file operation reaches the disk: of a job that counts it writes what memory says.
LEMMA FlushRecords ==
    ASSUME Typed, Typed', IndInv', RecInv, NEW o \in unsaved, Flush(o)
    PROVE  RecInv' /\ ActiveNeverEvicted
<1>a. disk \in [Jobs -> JobRecord] /\ o.job \in Jobs
  BY DEF Typed, TypeOK, FileOp
<1>b. \A i \in Jobs : JobSaves(i)
  BY SavesOfJobs
<1>1. /\ store' = store /\ wk' = wk /\ queue' = queue /\ sub' = sub
      /\ unsaved' = unsaved \ {o} /\ disk'[o.job] = o.rec
      /\ \A i \in Jobs : i # o.job => disk'[i] = disk[i]
  BY <1>a DEF Flush
<1>2. \A i \in Jobs : SamePlace(i)
  BY <1>1, SamePlaces
<1>3. ASSUME NEW i \in Jobs PROVE JobSaves(i)'
  <2>1. CASE i # o.job
    BY <1>b, <1>1, <1>2, <2>1, KeepsRecord
  <2>2. CASE i = o.job /\ store[i].status # "none" /\ i \notin Cancellable
    <3>1. disk'[i] = Durable(store[i])
      BY <1>b, <1>1, <2>2 DEF JobSaves
    <3>2. \A a : MayOwe(a, i) => MayOwe(a, i)'
      BY <1>1, <1>2 DEF SamePlace, MayOwe, Submitting
    <3>3. Durable(store[i])' = Durable(store[i])
      BY <1>1 DEF Durable
    <3>4. \A op \in unsaved' : op.job = i => op.rec = Durable(store[i]) /\ MayOwe(op.by, i)'
      BY <1>b, <1>1, <2>2, <3>2 DEF JobSaves
    <3>5. QED
      BY <3>1, <3>3, <3>4 DEF JobSaves
  <2>3. QED
    BY <1>1, <2>1, <2>2, NoRecord
<1>4. FreshIsClean'
  BY <1>a, <1>1 DEF RecInv, FreshIsClean
<1>5. EvictedIsGone'
  BY <1>1 DEF RecInv, EvictedIsGone
<1>6. ReachesWorker'
  <2>1. \A i \in Jobs : Submitting(i)' <=> Submitting(i)
    BY <1>1 DEF Submitting
  <2>2. QED
    BY <1>1, <1>2, <2>1 DEF RecInv, ReachesWorker, SamePlace
<1>7. ActiveNeverEvicted
  BY <1>1 DEF ActiveNeverEvicted, ActiveStatus
<1>8. QED
  BY <1>3, <1>4, <1>5, <1>6, <1>7, JobsOfSaves DEF RecInv

\* After a restart memory says what the files say, and nobody has a job.
LEMMA RestartRecords ==
    ASSUME Typed, Typed', IndInv, IndInv', RecInv, Restart
    PROVE  RecInv' /\ ActiveNeverEvicted
<1>a. disk \in [Jobs -> JobRecord] /\ sub \in [Jobs -> SubRecord] /\ restarts \in Nat
  BY MikoAssumption DEF Typed, TypeOK
<1>1. /\ disk' = [i \in Jobs |-> Restored(disk[i])] /\ store' = disk'
      /\ unsaved' = {} /\ restarts' = restarts + 1 /\ queue' = <<>>
      /\ \A w \in Workers : wk'[w].pc = "idle"
  BY DEF Restart, IdleWorker
<1>2. \A i \in Jobs : /\ sub'[i].pc \in {"none", "accepted", "refused"}
                      /\ sub'[i].pc = "none" => sub[i].pc = "none"
                      /\ sub'[i].evicted = {}
  <2>1. \A i \in Jobs : sub[i].pc = "none" => sub[i].evicted = {}
    BY DEF RecInv, EvictedIsGone
  <2>2. sub' = [i \in Jobs |-> IF sub[i].pc = "none" THEN sub[i]
                  ELSE [pc |-> IF sub[i].pc = "accepted" THEN "accepted" ELSE "refused",
                        evicted |-> {}]]
    BY DEF Restart
  <2>3. QED
    BY <2>1, <2>2
<1>3. \A i \in Jobs : disk[i].status = "none" => disk'[i].status = "none"
  BY <1>a, <1>1 DEF Restored, ActiveStatus
<1>4. \A w \in Workers : \A i \in Jobs : ~Holds(w, i)'
  BY <1>1 DEF Holds
<1>5. \A i \in Jobs : ~InQueue(i)' /\ ~Submitting(i)'
  BY <1>1, <1>2 DEF InQueue, Submitting
<1>6. FreshIsClean'
  BY <1>1, <1>2, <1>3 DEF RecInv, FreshIsClean
<1>7. EvictedIsGone' /\ ReachesWorker'
  BY <1>2, <1>4, <1>5 DEF EvictedIsGone, ReachesWorker
<1>8. SavesAreCurrent'
  BY <1>1 DEF SavesAreCurrent
<1>9. FileFollowsRecord'
  <2>1. \A i \in Jobs : ~disk'[i].artifact /\ disk'[i] \in JobRecord
    BY DEF IndInv, ArtifactIsKept, Typed, TypeOK
  <2>2. \A i \in Jobs : Durable(disk'[i]) = disk'[i]
    BY <2>1 DEF Durable, JobRecord
  <2>3. \A i \in Jobs : Durable(store[i])' = disk'[i]
    BY <1>1, <2>2 DEF Durable
  <2>4. QED
    BY <2>3 DEF FileFollowsRecord, Stored
<1>10. ActiveNeverEvicted
  BY <1>a, <1>1 DEF ActiveNeverEvicted
<1>11. QED
  BY <1>6, <1>7, <1>8, <1>9, <1>10 DEF RecInv

\* Shutdown and stuttering.
LEMMA StillRecords ==
    ASSUME Typed, Typed', IndInv', RecInv, Shutdown \/ UNCHANGED vars
    PROVE  RecInv' /\ ActiveNeverEvicted
<1>1. /\ store' = store /\ disk' = disk /\ unsaved' = unsaved /\ queue' = queue
      /\ wk' = wk /\ sub' = sub
  BY DEF Shutdown, vars
<1>2. \A i \in Jobs : SamePlace(i)
  BY <1>1, SamePlaces
<1>3. CASE Jobs = {}
  BY <1>3 DEF RecInv, FreshIsClean, EvictedIsGone, ReachesWorker, SavesAreCurrent,
              FileFollowsRecord, ActiveNeverEvicted, Stored
<1>4. CASE Jobs # {}
  <2>1. PlainPlace
    BY <1>1, <1>4, HandlerPlace
  <2>2. QED
    BY <1>1, <1>2, <2>1, HandOver
<1>5. QED
  BY <1>3, <1>4

\* The initial state has no jobs.
LEMMA InitRecords == Init => RecInv
<1> SUFFICES ASSUME Init PROVE RecInv
  OBVIOUS
<1>1. /\ \A i \in Jobs : /\ store[i].status = "none" /\ disk[i].status = "none"
                         /\ sub[i].pc = "none" /\ sub[i].evicted = {}
      /\ unsaved = {} /\ queue = <<>>
      /\ \A w \in Workers : wk[w].pc = "idle"
  BY DEF Init, NoJob, IdleWorker
<1>2. QED
  BY <1>1 DEF RecInv, FreshIsClean, EvictedIsGone, ReachesWorker, SavesAreCurrent,
              FileFollowsRecord, Stored, Holds

\* Every step keeps RecInv and evicts no active job.
LEMMA NextRecords ==
    ASSUME Typed, Typed', IndInv, IndInv', RecInv, [Next]_vars
    PROVE  RecInv' /\ ActiveNeverEvicted
<1>1. CASE \E j \in Jobs : Submit(j) \/ SubmitStep(j) \/ CancelQueued(j) \/ CancelRunning(j)
  BY <1>1, HandlerRecords, InsertRecords, RemoveRecords, PushRecords DEF SubmitStep
<1>2. CASE \E w \in Workers : WorkerStep(w)
  <2>1. PICK w \in Workers : WorkerStep(w)
    BY <1>2
  <2>2. CASE Pop(w) \/ WorkerExit(w)
    BY <2>2, IdleWorkerRecords
  <2>3. CASE SkipCloseLog(w) \/ Release(w)
    BY <2>3, LetGoRecords
  <2>4. CASE MarkRunning(w) \/ BuildRetry(w) \/ Finish(w) \/ CloseLog(w)
    BY <2>4, WorkerSaves
  <2>5. CASE WorkerSweep(w)
    BY <2>5, SweepRecords
  <2>6. QED
    BY <2>1, <2>2, <2>3, <2>4, <2>5, WorkerSilent DEF WorkerStep
<1>3. CASE \E op \in unsaved : Flush(op)
  BY <1>3, FlushRecords
<1>4. CASE SweepTick
  BY <1>4, SweepRecords
<1>5. CASE Restart
  BY <1>5, RestartRecords
<1>6. CASE Shutdown \/ UNCHANGED vars
  BY <1>6, StillRecords
<1>7. QED
  BY <1>1, <1>2, <1>3, <1>4, <1>5, <1>6 DEF Next

\* Once the saves of a job that nobody cancels have succeeded its file says what its record
\* says, although every save happens after mu is released, and eviction takes no
\* active job.
THEOREM RecordsCorrect == Spec => RecordsHold
<1> DEFINE I == Typed /\ IndInv /\ RecInv
<1>1. Init => I
  BY InitTyped, InitInv, InitRecords
<1>2. I /\ [Next]_vars => I' /\ FileFollowsRecord' /\ ActiveNeverEvicted
  <2> SUFFICES ASSUME Typed, IndInv, RecInv, [Next]_vars
               PROVE  I' /\ FileFollowsRecord' /\ ActiveNeverEvicted
    OBVIOUS
  <2>1. Typed' /\ IndInv'
    BY NextTyped, NextKeeps
  <2>2. QED
    BY <2>1, NextRecords DEF RecInv
<1>3. Spec => []I
  <2>1. I /\ [Next]_vars => I'
    BY <1>2
  <2> HIDE DEF I
  <2>2. QED
    BY <1>1, <2>1, PTL DEF Spec
<1>4. I /\ [Next]_vars => [FileFollowsRecord' /\ ActiveNeverEvicted]_vars
  BY <1>2
<1> HIDE DEF I
<1>5. QED
  BY <1>3, <1>4, PTL DEF Spec, RecordsHold
=============================================================================
