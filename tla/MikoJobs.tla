------------------------------ MODULE MikoJobs ------------------------------
(***************************************************************************)
(* The build-job lifecycle of miko, the build server (miko/service).       *)
(*                                                                         *)
(* Actors: HTTP handlers that submit and cancel jobs, a pool of workers    *)
(* that pop jobs from a bounded channel and run Service.process, and the   *)
(* artifact sweeper.  They share the job store (guarded by Service.mu),    *)
(* the map of live log buffers (guarded by logsMu), the queue and a        *)
(* directory with one file per job.  An action is one critical section of  *)
(* mu, one channel operation, or one file operation; the file operations   *)
(* of Service.update happen after mu is released, so a snapshot can reach  *)
(* the disk later than a newer one taken by another actor.                 *)
(*                                                                         *)
(* A job is named by its position in the order of CreatedAt.  Validation   *)
(* of a request (which has no effect when it fails) is left out.           *)
(***************************************************************************)
EXTENDS Integers, Sequences, FiniteSets

CONSTANTS
    MaxJobs,        \* how many jobs are ever submitted (bound of the model)
    Workers,        \* the worker goroutines started by Run
    QueueSize,      \* capacity of the channel: defaultQueueSize
    MaxStored,      \* maxStoredJobs
    MaxRetries,     \* Settings.MaxRetries
    ClientSigned,   \* the jobs submitted with SignMode "client"
    Cancellable,    \* the jobs that somebody may ask to cancel
    SonameRebuild,  \* Settings.SonameRebuild
    MaxSubmitting,  \* how many submissions are under way at once (bound)
    MaxRestarts     \* how many crashes or restarts are explored (bound)

ASSUME MikoAssumption ==
    /\ MaxJobs \in Nat
    /\ QueueSize \in Nat
    /\ MaxStored \in Nat
    /\ MaxRetries \in Nat
    /\ ClientSigned \subseteq 1..MaxJobs
    /\ Cancellable \subseteq 1..MaxJobs
    /\ SonameRebuild \in BOOLEAN
    /\ MaxSubmitting \in Nat
    /\ MaxRestarts \in Nat

Jobs == 1..MaxJobs
NoChild == 0

VARIABLES
    store,      \* Service.store: the job records; NoJob when the map has no entry
    queue,      \* the channel of popped-once job pointers
    running,    \* Service.running: the jobs with a registered cancel function
    cancelled,  \* the jobs whose context was cancelled through that function
    logs,       \* Service.logs: the jobs with a live log buffer
    sub,        \* progress of submitWithReason for each job
    wk,         \* progress of process in each worker
    disk,       \* the job files; NoJob when there is no file
    unsaved,    \* file operations issued by an actor and not yet done
    dirs,       \* the jobs whose build output directory exists
    published,  \* the jobs whose packages reached ayato
    stopping,   \* the root context is cancelled
    restarts    \* how many times the process was restarted

vars == <<store, queue, running, cancelled, logs, sub, wk, disk, unsaved,
          dirs, published, stopping, restarts>>

(***************************************************************************)
(* Data.                                                                   *)
(***************************************************************************)
ActiveStatus == {"queued", "running"}
TerminalStatus == {"success", "failed", "cancelled"}

\* BuildJob, down to the fields that the lifecycle reads or writes.
JobRecord == [status   : {"none"} \cup ActiveStatus \cup TerminalStatus,
              retries  : 0..MaxRetries,
              logs     : BOOLEAN,      \* the log text was copied into Logs
              artifact : BOOLEAN]      \* ArtifactDir is set

NoJob == [status |-> "none", retries |-> 0, logs |-> FALSE, artifact |-> FALSE]

NewJob == [NoJob EXCEPT !.status = "queued"]

\* The JSON form of a job: ArtifactDir is tagged json:"-".
Durable(rec) == [rec EXCEPT !.artifact = FALSE]

Stored(st) == {j \in Jobs : st[j].status # "none"}
Terminal(st) == {j \in Jobs : st[j].status \in TerminalStatus}

Submitter(j) == <<"submit", j>>
Canceller(j) == <<"cancel", j>>
Worker(w) == <<"worker", w>>
Sweeper == <<"sweep", 0>>
Actors == {Submitter(j) : j \in Jobs} \cup {Canceller(j) : j \in Jobs}
             \cup {Worker(w) : w \in Workers} \cup {Sweeper}

\* A file operation: write rec, or remove the file when rec is NoJob.
FileOp == [by : Actors, job : Jobs, rec : JobRecord]

SubPC == {"none", "new", "inserted", "stored", "rejected", "failing",
          "accepted", "refused"}
SubRecord == [pc : SubPC, evicted : SUBSET Jobs]

WorkerPC == {"idle", "popped", "skip", "claimed", "building", "backoff",
             "built", "deciding", "finishing", "chain", "chaining", "sweep",
             "closing", "release", "exited"}

WorkerRecord == [pc : WorkerPC, job : Jobs \cup {NoChild}, tries : 0..MaxRetries,
                 ok : BOOLEAN, cancelled : BOOLEAN, child : Jobs \cup {NoChild}]

IdleWorker == [pc |-> "idle", job |-> NoChild, tries |-> 0, ok |-> FALSE,
               cancelled |-> FALSE, child |-> NoChild]

\* One type invariant: every variable ranges over what the code can store.
TypeOK ==
    /\ store \in [Jobs -> JobRecord]
    /\ queue \in Seq(Jobs) /\ Len(queue) <= QueueSize
    /\ running \subseteq Jobs
    /\ cancelled \subseteq Jobs
    /\ logs \subseteq Jobs
    /\ sub \in [Jobs -> SubRecord]
    /\ wk \in [Workers -> WorkerRecord]
    /\ disk \in [Jobs -> JobRecord]
    /\ unsaved \subseteq FileOp
    /\ dirs \subseteq Jobs
    /\ published \subseteq Jobs
    /\ stopping \in BOOLEAN
    /\ restarts \in 0..MaxRestarts

Init ==
    /\ store = [j \in Jobs |-> NoJob]
    /\ queue = <<>>
    /\ running = {}
    /\ cancelled = {}
    /\ logs = {}
    /\ sub = [j \in Jobs |-> [pc |-> "none", evicted |-> {}]]
    /\ wk = [w \in Workers |-> IdleWorker]
    /\ disk = [j \in Jobs |-> NoJob]
    /\ unsaved = {}
    /\ dirs = {}
    /\ published = {}
    /\ stopping = FALSE
    /\ restarts = 0

(***************************************************************************)
(* The job store and its files.                                            *)
(***************************************************************************)
\* An actor goes on only when its own file operations are done.
Synced(a) == \A op \in unsaved : op.by # a

\* persist.save of a snapshot, issued by actor a.
SaveOp(a, j, rec) == [by |-> a, job |-> j, rec |-> Durable(rec)]

\* Service.update: mutate the record under mu if the job is still stored,
\* then save the snapshot; nothing happens for an evicted job.
Update(a, j, rec) ==
    IF store[j].status # "none"
    THEN /\ store' = [store EXCEPT ![j] = rec]
         /\ unsaved' = unsaved \cup {SaveOp(a, j, rec)}
    ELSE UNCHANGED <<store, unsaved>>

\* Deviation: eviction takes any old job, finished or not.
EvictableAnyStatus(st) ==
    {j \in Stored(st) :
        Cardinality({i \in Stored(st) : i < j})
            < Cardinality(Stored(st)) - MaxStored}

\* evictLocked: the oldest terminal jobs, as many as exceed MaxStored.
Evictable(st) ==
    {j \in Terminal(st) :
        Cardinality({i \in Terminal(st) : i < j})
            < Cardinality(Stored(st)) - MaxStored}

\* safefile.WriteFile and safefile.Remove: one file operation reaches the disk.  The
\* code only logs an operation that fails; the model has none that does.
Flush(op) ==
    /\ op \in unsaved
    /\ disk' = [disk EXCEPT ![op.job] = op.rec]
    /\ unsaved' = unsaved \ {op}
    /\ UNCHANGED <<store, queue, running, cancelled, logs, sub, wk, dirs,
                   published, stopping, restarts>>

(***************************************************************************)
(* submitWithReason.                                                       *)
(***************************************************************************)
Submitting(j) == sub[j].pc \in {"new", "inserted", "stored", "rejected", "failing"}

\* The job is created and its log buffer installed, outside mu.
BeginSubmit(j) ==
    /\ sub[j].pc = "none"
    /\ \A i \in Jobs : i < j => sub[i].pc # "none"
    /\ Cardinality({i \in Jobs : Submitting(i)}) < MaxSubmitting
    /\ sub' = [sub EXCEPT ![j].pc = "new"]
    /\ logs' = logs \cup {j}

Submit(j) ==
    /\ BeginSubmit(j)
    /\ UNCHANGED <<store, queue, running, cancelled, wk, disk, unsaved, dirs,
                   published, stopping, restarts>>

\* The critical section: insert, evict, snapshot.
InsertJob(j) ==
    /\ sub[j].pc = "new"
    /\ LET st == [store EXCEPT ![j] = NewJob]
           ev == Evictable(st)
       IN /\ store' = [i \in Jobs |-> IF i \in ev THEN NoJob ELSE st[i]]
          /\ dirs' = dirs \ {i \in ev : st[i].artifact}
          /\ sub' = [sub EXCEPT ![j] = [pc |-> "inserted", evicted |-> ev]]
          /\ unsaved' = unsaved \cup {SaveOp(Submitter(j), j, NewJob)}
    /\ UNCHANGED <<queue, running, cancelled, logs, wk, disk, published,
                   stopping, restarts>>

\* Deviation: the job is queued while its first save is still under way.
RemoveEvictedUnsynced(j) ==
    /\ sub[j].pc = "inserted"
    /\ sub' = [sub EXCEPT ![j] = [pc |-> "accepted", evicted |-> {}]]
    /\ queue' = Append(queue, j)
    /\ unsaved' = unsaved \cup
          {[by |-> Submitter(j), job |-> i, rec |-> NoJob] : i \in sub[j].evicted}
    /\ UNCHANGED <<store, running, cancelled, logs, wk, disk, dirs, published,
                   stopping, restarts>>

\* persistRemove of every evicted job, after the save of the new one.
RemoveEvicted(j) ==
    /\ sub[j].pc = "inserted"
    /\ Synced(Submitter(j))
    /\ sub' = [sub EXCEPT ![j] = [pc |-> "stored", evicted |-> {}]]
    /\ unsaved' = unsaved \cup
          {[by |-> Submitter(j), job |-> i, rec |-> NoJob] : i \in sub[j].evicted}
    /\ UNCHANGED <<store, queue, running, cancelled, logs, wk, disk, dirs,
                   published, stopping, restarts>>

\* Deviation: the capacity check is off by one.
PushOverCapacity(j) ==
    /\ sub[j].pc = "stored"
    /\ Synced(Submitter(j))
    /\ IF Len(queue) <= QueueSize
       THEN /\ queue' = Append(queue, j)
            /\ sub' = [sub EXCEPT ![j].pc = "accepted"]
       ELSE /\ sub' = [sub EXCEPT ![j].pc = "rejected"]
            /\ queue' = queue
    /\ UNCHANGED <<store, running, cancelled, logs, wk, disk, unsaved, dirs,
                   published, stopping, restarts>>

\* Deviation: push blocks while the channel is full.
PushBlocking(j) ==
    /\ sub[j].pc = "stored"
    /\ Synced(Submitter(j))
    /\ Len(queue) < QueueSize
    /\ queue' = Append(queue, j)
    /\ sub' = [sub EXCEPT ![j].pc = "accepted"]
    /\ UNCHANGED <<store, running, cancelled, logs, wk, disk, unsaved, dirs,
                   published, stopping, restarts>>

\* queue.push never blocks: a full channel refuses the job.
Push(j) ==
    /\ sub[j].pc = "stored"
    /\ Synced(Submitter(j))
    /\ IF Len(queue) < QueueSize
       THEN /\ queue' = Append(queue, j)
            /\ sub' = [sub EXCEPT ![j].pc = "accepted"]
       ELSE /\ sub' = [sub EXCEPT ![j].pc = "rejected"]
            /\ queue' = queue
    /\ UNCHANGED <<store, running, cancelled, logs, wk, disk, unsaved, dirs,
                   published, stopping, restarts>>

\* finalizeLog, in the three places that call it: take the buffer out of the
\* map, close it and copy its text into the record.  MikoLogs splits this step.
FinalizeLog(a, j) ==
    /\ logs' = logs \ {j}
    /\ IF j \in logs
       THEN Update(a, j, [store[j] EXCEPT !.logs = TRUE])
       ELSE UNCHANGED <<store, unsaved>>

RejectCloseLog(j) ==
    /\ sub[j].pc = "rejected"
    /\ FinalizeLog(Submitter(j), j)
    /\ sub' = [sub EXCEPT ![j].pc = "failing"]
    /\ UNCHANGED <<queue, running, cancelled, wk, disk, dirs, published,
                   stopping, restarts>>

\* setStatus(failed): whatever the status is by now.
RejectFail(j) ==
    /\ sub[j].pc = "failing"
    /\ Synced(Submitter(j))
    /\ Update(Submitter(j), j, [store[j] EXCEPT !.status = "failed"])
    /\ sub' = [sub EXCEPT ![j].pc = "refused"]
    /\ UNCHANGED <<queue, running, cancelled, logs, wk, disk, dirs, published,
                   stopping, restarts>>

SubmitStep(j) ==
    InsertJob(j) \/ RemoveEvicted(j) \/ Push(j) \/ RejectCloseLog(j) \/ RejectFail(j)

(***************************************************************************)
(* Cancel.                                                                 *)
(***************************************************************************)
CancelQueued(j) ==
    /\ j \in Cancellable
    /\ store[j].status = "queued"
    /\ LET rec == [store[j] EXCEPT !.status = "cancelled"]
       IN /\ store' = [store EXCEPT ![j] = rec]
          /\ unsaved' = unsaved \cup {SaveOp(Canceller(j), j, rec)}
    /\ UNCHANGED <<queue, running, cancelled, logs, sub, wk, disk, dirs,
                   published, stopping, restarts>>

\* cancel := running[id]; a nil function is skipped silently.
CancelRunning(j) ==
    /\ j \in Cancellable
    /\ store[j].status = "running"
    /\ cancelled' = IF j \in running THEN cancelled \cup {j} ELSE cancelled
    /\ UNCHANGED <<store, queue, running, logs, sub, wk, disk, unsaved, dirs,
                   published, stopping, restarts>>

(***************************************************************************)
(* runWorker and process.                                                  *)
(***************************************************************************)
\* jobCtx.Err(): Cancel reached this build, or the service is stopping.
CtxDone(j) == j \in cancelled \/ stopping

Goto(w, pc) == wk' = [wk EXCEPT ![w].pc = pc]

At(w, pc) == wk[w].pc = pc /\ Synced(Worker(w))

\* Deviation: the job is read from the head of the queue but stays there.
PopPeek(w) ==
    /\ At(w, "idle")
    /\ queue # <<>>
    /\ wk' = [wk EXCEPT ![w] = [IdleWorker EXCEPT !.pc = "popped", !.job = Head(queue)]]
    /\ UNCHANGED <<store, queue, running, cancelled, logs, sub, disk, unsaved,
                   dirs, published, stopping, restarts>>

\* queue.pop: with ctx done and a job ready, select may take either branch.
Pop(w) ==
    /\ At(w, "idle")
    /\ queue # <<>>
    /\ wk' = [wk EXCEPT ![w] = [IdleWorker EXCEPT !.pc = "popped", !.job = Head(queue)]]
    /\ queue' = Tail(queue)
    /\ UNCHANGED <<store, running, cancelled, logs, sub, disk, unsaved, dirs,
                   published, stopping, restarts>>

WorkerExit(w) ==
    /\ At(w, "idle")
    /\ stopping
    /\ Goto(w, "exited")
    /\ UNCHANGED <<store, queue, running, cancelled, logs, sub, disk, unsaved,
                   dirs, published, stopping, restarts>>

\* Deviation: the cancel function is not registered.
ClaimUnregistered(w) ==
    /\ At(w, "popped")
    /\ Goto(w, IF store[wk[w].job].status \in {"none", "cancelled"}
               THEN "skip" ELSE "claimed")
    /\ UNCHANGED <<store, queue, running, cancelled, logs, sub, disk, unsaved,
                   dirs, published, stopping, restarts>>

\* First critical section of process: skip an evicted or a cancelled job,
\* otherwise register the cancel function.
Claim(w) ==
    /\ At(w, "popped")
    /\ LET j == wk[w].job
       IN IF store[j].status \in {"none", "cancelled"}
          THEN Goto(w, "skip") /\ UNCHANGED running
          ELSE Goto(w, "claimed") /\ running' = running \cup {j}
    /\ UNCHANGED <<store, queue, cancelled, logs, sub, disk, unsaved, dirs,
                   published, stopping, restarts>>

\* Deviation: a skipped job keeps its log buffer open.
SkipKeepLog(w) ==
    /\ At(w, "skip")
    /\ wk' = [wk EXCEPT ![w] = IdleWorker]
    /\ UNCHANGED <<store, queue, running, cancelled, logs, sub, disk, unsaved,
                   dirs, published, stopping, restarts>>

SkipCloseLog(w) ==
    /\ At(w, "skip")
    /\ FinalizeLog(Worker(w), wk[w].job)
    /\ wk' = [wk EXCEPT ![w] = IdleWorker]
    /\ UNCHANGED <<queue, running, cancelled, sub, disk, dirs, published,
                   stopping, restarts>>

\* Second critical section: the status is overwritten without being read.
MarkRunning(w) ==
    /\ At(w, "claimed")
    /\ Update(Worker(w), wk[w].job, [store[wk[w].job] EXCEPT !.status = "running"])
    /\ Goto(w, "building")
    /\ UNCHANGED <<queue, running, cancelled, logs, sub, disk, dirs, published,
                   stopping, restarts>>

\* runBuild succeeds and leaves its output directory behind.
BuildOK(w) ==
    /\ At(w, "building")
    /\ dirs' = dirs \cup {wk[w].job}
    /\ wk' = [wk EXCEPT ![w].ok = TRUE,
                        ![w].pc = IF wk[w].job \in ClientSigned THEN "deciding" ELSE "built"]
    /\ UNCHANGED <<store, queue, running, cancelled, logs, sub, disk, unsaved,
                   published, stopping, restarts>>

\* A failure that backoff.Retry returns: permanent, cancelled, or the last try.
\* runBuild has removed its output directory.
BuildGiveUp(w) ==
    /\ At(w, "building")
    /\ wk' = [wk EXCEPT ![w].ok = FALSE, ![w].pc = "deciding"]
    /\ UNCHANGED <<store, queue, running, cancelled, logs, sub, disk, unsaved,
                   dirs, published, stopping, restarts>>

\* A transient failure with tries left: notify records the retry.
BuildRetry(w) ==
    /\ At(w, "building")
    /\ ~CtxDone(wk[w].job)
    /\ wk[w].tries < MaxRetries
    /\ Update(Worker(w), wk[w].job,
              [store[wk[w].job] EXCEPT !.retries = wk[w].tries + 1])
    /\ wk' = [wk EXCEPT ![w].tries = wk[w].tries + 1, ![w].pc = "backoff"]
    /\ UNCHANGED <<queue, running, cancelled, logs, sub, disk, dirs, published,
                   stopping, restarts>>

\* The backoff timer fires, or the context ends the wait.
Backoff(w) ==
    /\ At(w, "backoff")
    /\ \/ Goto(w, "building")
       \/ CtxDone(wk[w].job) /\ Goto(w, "deciding")
    /\ UNCHANGED <<store, queue, running, cancelled, logs, sub, disk, unsaved,
                   dirs, published, stopping, restarts>>

\* signAndUpload.  An error does not say whether ayato committed the upload.
UploadOK(w) ==
    /\ At(w, "built")
    /\ published' = published \cup {wk[w].job}
    /\ Goto(w, "deciding")
    /\ UNCHANGED <<store, queue, running, cancelled, logs, sub, disk, unsaved,
                   dirs, stopping, restarts>>

UploadFail(w) ==
    /\ At(w, "built")
    /\ published' \in {published, published \cup {wk[w].job}}
    /\ wk' = [wk EXCEPT ![w].ok = FALSE, ![w].pc = "deciding"]
    /\ UNCHANGED <<store, queue, running, cancelled, logs, sub, disk, unsaved,
                   dirs, stopping, restarts>>

\* cancelled := isCancelled(jobCtx, err), read before the final update.
Decide(w) ==
    /\ At(w, "deciding")
    /\ wk' = [wk EXCEPT ![w].cancelled = CtxDone(wk[w].job), ![w].pc = "finishing"]
    /\ UNCHANGED <<store, queue, running, cancelled, logs, sub, disk, unsaved,
                   dirs, published, stopping, restarts>>

\* keepArtifacts: a client-signed build that succeeded keeps its directory.
KeepArtifacts(w) == wk[w].ok /\ wk[w].job \in ClientSigned

Succeeded(w) == wk[w].ok /\ ~wk[w].cancelled

\* Deviation: the error of the upload is dropped.
OutcomeIgnoringError(w) == IF wk[w].cancelled THEN "cancelled" ELSE "success"

Outcome(w) == IF wk[w].cancelled THEN "cancelled"
              ELSE IF wk[w].ok THEN "success" ELSE "failed"

Finish(w) ==
    /\ At(w, "finishing")
    /\ LET j == wk[w].job
       IN Update(Worker(w), j,
            [store[j] EXCEPT !.status = Outcome(w),
                             !.artifact = @ \/ (Succeeded(w) /\ KeepArtifacts(w))])
    /\ Goto(w, IF SonameRebuild /\ Succeeded(w) /\ wk[w].job \notin ClientSigned
               THEN "chain" ELSE "sweep")
    /\ UNCHANGED <<queue, running, cancelled, logs, sub, disk, dirs, published,
                   stopping, restarts>>

\* enqueueRebuildChain: the worker itself submits the next reverse dependency
\* and waits for that submission, not for the build.
EnqueueRebuild(w, j) ==
    /\ At(w, "chain")
    /\ BeginSubmit(j)
    /\ wk' = [wk EXCEPT ![w].pc = "chaining", ![w].child = j]
    /\ UNCHANGED <<store, queue, running, cancelled, disk, unsaved, dirs,
                   published, stopping, restarts>>

\* A refused submission ends the chain.
RebuildEnqueued(w) ==
    /\ At(w, "chaining")
    /\ \/ sub[wk[w].child].pc = "accepted" /\ Goto(w, "chain")
       \/ sub[wk[w].child].pc = "refused" /\ Synced(Submitter(wk[w].child)) /\ Goto(w, "sweep")
    /\ UNCHANGED <<store, queue, running, cancelled, logs, sub, disk, unsaved,
                   dirs, published, stopping, restarts>>

ChainDone(w) ==
    /\ At(w, "chain")
    /\ Goto(w, "sweep")
    /\ UNCHANGED <<store, queue, running, cancelled, logs, sub, disk, unsaved,
                   dirs, published, stopping, restarts>>

\* A job's artifacts can expire once its worker has left process: the
\* retention (one hour) is far longer than the rest of process takes.
Expired(j) == store[j].artifact /\ \A w \in Workers : wk[w].job # j

\* sweepArtifacts: clear ArtifactDir under mu, delete the directories, save.
SweepArtifacts(a, expired) ==
    /\ store' = [j \in Jobs |-> IF j \in expired
                                THEN [store[j] EXCEPT !.artifact = FALSE] ELSE store[j]]
    /\ dirs' = dirs \ expired
    /\ unsaved' = unsaved \cup {SaveOp(a, j, store[j]) : j \in expired}

WorkerSweep(w) ==
    /\ At(w, "sweep")
    /\ \E expired \in SUBSET {j \in Jobs : Expired(j)} : SweepArtifacts(Worker(w), expired)
    /\ Goto(w, "closing")
    /\ UNCHANGED <<queue, running, cancelled, logs, sub, disk, published,
                   stopping, restarts>>

\* sweepLoop, on its timer.
SweepTick ==
    /\ Synced(Sweeper)
    /\ \E expired \in SUBSET {j \in Jobs : Expired(j)} :
          expired # {} /\ SweepArtifacts(Sweeper, expired)
    /\ UNCHANGED <<queue, running, cancelled, logs, sub, wk, disk, published,
                   stopping, restarts>>

\* The deferred calls of process, last in first out: finalizeLog, ...
CloseLog(w) ==
    /\ At(w, "closing")
    /\ FinalizeLog(Worker(w), wk[w].job)
    /\ Goto(w, "release")
    /\ UNCHANGED <<queue, running, cancelled, sub, disk, dirs, published,
                   stopping, restarts>>

\* Deviation: the output directory is removed in every sign mode.
ReleaseRemovingAll(w) ==
    /\ At(w, "release")
    /\ dirs' = dirs \ {wk[w].job}
    /\ running' = running \ {wk[w].job}
    /\ cancelled' = cancelled \ {wk[w].job}
    /\ wk' = [wk EXCEPT ![w] = IdleWorker]
    /\ UNCHANGED <<store, queue, logs, sub, disk, unsaved, published,
                   stopping, restarts>>

\* ... then RemoveAll(outDir), then the cancel function and its context go.
Release(w) ==
    /\ At(w, "release")
    /\ dirs' = IF KeepArtifacts(w) THEN dirs ELSE dirs \ {wk[w].job}
    /\ running' = running \ {wk[w].job}
    /\ cancelled' = cancelled \ {wk[w].job}
    /\ wk' = [wk EXCEPT ![w] = IdleWorker]
    /\ UNCHANGED <<store, queue, logs, sub, disk, unsaved, published,
                   stopping, restarts>>

WorkerStep(w) ==
    \/ Pop(w) \/ WorkerExit(w) \/ Claim(w) \/ SkipCloseLog(w) \/ MarkRunning(w)
    \/ BuildOK(w) \/ BuildGiveUp(w) \/ BuildRetry(w) \/ Backoff(w)
    \/ UploadOK(w) \/ UploadFail(w) \/ Decide(w) \/ Finish(w)
    \/ (\E j \in Jobs : EnqueueRebuild(w, j)) \/ RebuildEnqueued(w) \/ ChainDone(w)
    \/ WorkerSweep(w) \/ CloseLog(w) \/ Release(w)

(***************************************************************************)
(* Shutdown, crash and restart.                                            *)
(***************************************************************************)
Shutdown ==
    /\ restarts < MaxRestarts
    /\ ~stopping
    /\ stopping' = TRUE
    /\ UNCHANGED <<store, queue, running, cancelled, logs, sub, wk, disk,
                   unsaved, dirs, published, restarts>>

\* Deviation: jobs are restored with the status they had.
RestoredAsIs(rec) == rec

\* restore: a job left queued or running on disk is failed and saved again.
Restored(rec) == IF rec.status \in ActiveStatus
                 THEN [rec EXCEPT !.status = "failed"] ELSE rec

\* The process ends at any point and starts again from the files.  Submissions
\* that were under way are gone; their job identifiers are never used again.
Restart ==
    /\ restarts < MaxRestarts
    /\ disk' = [j \in Jobs |-> Restored(disk[j])]
    /\ store' = disk'
    /\ queue' = <<>>
    /\ running' = {}
    /\ cancelled' = {}
    /\ logs' = {}
    /\ sub' = [j \in Jobs |-> IF sub[j].pc = "none" THEN sub[j]
                              ELSE [pc |-> IF sub[j].pc = "accepted" THEN "accepted" ELSE "refused",
                                    evicted |-> {}]]
    /\ wk' = [w \in Workers |-> IdleWorker]
    /\ unsaved' = {}
    /\ stopping' = FALSE
    /\ restarts' = restarts + 1
    /\ UNCHANGED <<dirs, published>>

Next ==
    \/ \E j \in Jobs : Submit(j) \/ SubmitStep(j) \/ CancelQueued(j) \/ CancelRunning(j)
    \/ \E w \in Workers : WorkerStep(w)
    \/ \E op \in unsaved : Flush(op)
    \/ SweepTick
    \/ Shutdown
    \/ Restart

Spec == Init /\ [][Next]_vars

\* Handlers and workers are goroutines the runtime keeps scheduling, builds
\* end (they have a timeout), and file operations return.  Nobody has to
\* submit, cancel, sweep, stop or restart.
Fairness ==
    /\ \A j \in Jobs : WF_vars(SubmitStep(j))
    /\ \A w \in Workers : WF_vars(WorkerStep(w))
    /\ WF_vars(\E op \in unsaved : Flush(op))

FairSpec == Spec /\ Fairness

(***************************************************************************)
(* Properties.                                                             *)
(***************************************************************************)
\* Who, besides its submission, is still going to act on job j.
InQueue(j) == \E i \in 1..Len(queue) : queue[i] = j
Holds(w, j) == wk[w].pc \notin {"idle", "exited"} /\ wk[w].job = j

\* A job is in the hands of one actor at a time: it is never queued twice, never
\* worked on while queued or still being submitted, never by two workers (the
\* channel of queue.go and process together run a job at most once).
OneOwner ==
    /\ \A a, b \in 1..Len(queue) : queue[a] = queue[b] => a = b
    /\ \A j \in Jobs : InQueue(j) =>
          sub[j].pc = "accepted" /\ \A w \in Workers : ~Holds(w, j)
    /\ \A w \in Workers : \A j \in Jobs : Holds(w, j) => sub[j].pc = "accepted"
    /\ \A v, w \in Workers : \A j \in Jobs : Holds(v, j) /\ Holds(w, j) => v = w

\* No job is stranded: a record that says queued or running belongs to a job that
\* the submission, the queue or a worker will still settle (submitWithReason,
\* process and restore leave no path that forgets one).
NoStrandedJob ==
    \A j \in Jobs : store[j].status \in ActiveStatus =>
        Submitting(j) \/ InQueue(j) \/ \E w \in Workers : Holds(w, j)

\* Every live log buffer has someone who will still close it, or SSE readers of
\* the job would block forever (comment in submitWithReason).
LogWillClose ==
    \A j \in logs :
        Submitting(j) \/ InQueue(j) \/ \E w \in Workers : Holds(w, j)

\* Cancel of a job that says running finds a cancel function: the status is set
\* after running[id] and left before it is deleted.
CancelReachesBuild == \A j \in Jobs : store[j].status = "running" => j \in running

\* A job that offers artifacts for download has its directory: eviction, the
\* sweeper and process never delete a directory that a record still names.
ArtifactExists == \A j \in Jobs : store[j].artifact => j \in dirs

\* A success of a host-signed job means that its packages reached ayato, also
\* after retries, late cancellations and restarts.
SuccessIsPublished ==
    \A j \in Jobs \ ClientSigned :
        store[j].status = "success" \/ disk[j].status = "success" => j \in published

\* When every file operation of a job is done, its file says what memory says,
\* although each actor saves after releasing mu: the submission, the worker and
\* the sweeper hand the job over only when their saves are done.  Cancel does
\* not, so the jobs that somebody cancels are left out.
FileFollowsRecord ==
    \A j \in Stored(store) \ Cancellable :
        (\A op \in unsaved : op.job # j) => disk[j] = Durable(store[j])

\* Eviction only ever drops a job that is over: an active record leaves the
\* store through its own terminal status, never directly (evictLocked).
ActiveNeverEvicted ==
    \A j \in Jobs : store[j].status \in ActiveStatus /\ store'[j].status = "none"
       => restarts' # restarts

\* Eviction and saving, as a whole: the records of active jobs stay, and the file of
\* a job says what its record says once its saves are done
\* and have succeeded.
RecordsHold == [][FileFollowsRecord' /\ ActiveNeverEvicted]_vars

\* What a comment says and the code does not keep (README, section 6), so no run has it.
\* Cancel marks a queued job cancelled and the worker skips it when popped: a
\* terminal status is final.
TerminalIsFinal ==
    [][\A j \in Jobs : store[j].status \in TerminalStatus =>
          store'[j].status \in {store[j].status, "none"}]_vars

\* The parts of the inductive invariant behind the theorems of MikoJobsProofs.
BuildPC == {"building", "backoff", "built", "deciding", "finishing"}
DonePC == {"chain", "chaining", "sweep", "closing", "release"}

\* A worker that skips its job or has written its outcome leaves it settled.
DoneIsSettled ==
    \A w \in Workers : \A j \in Jobs :
        Holds(w, j) /\ wk[w].pc \in {"skip"} \cup DonePC => store[j].status \notin ActiveStatus

\* A live buffer belongs to someone whose own finalizeLog is still to come.
LogHasCloser ==
    \A j \in logs :
        \/ sub[j].pc \in {"new", "inserted", "stored", "rejected"}
        \/ InQueue(j)
        \/ \E w \in Workers : Holds(w, j) /\ wk[w].pc # "release"

\* The status is running only inside the stretch in which running[id] is set.
RunningIsHeld ==
    /\ \A j \in Jobs : store[j].status = "running" =>
          \E w \in Workers : Holds(w, j) /\ wk[w].pc \in BuildPC
    /\ \A w \in Workers : \A j \in Jobs :
          Holds(w, j) /\ wk[w].pc \in {"claimed"} \cup BuildPC \cup DonePC => j \in running

\* Only a job whose build is over names a directory, and its worker keeps it.
ArtifactIsKept ==
    /\ \A j \in Jobs : store[j].artifact =>
          /\ sub[j].pc = "accepted"
          /\ ~InQueue(j)
          /\ \A w \in Workers : Holds(w, j) => KeepArtifacts(w) /\ wk[w].pc \in DonePC
    /\ \A j \in Jobs : ~disk[j].artifact
    /\ \A op \in unsaved : ~op.rec.artifact

\* What ok means at each point of process.
OkIsBuilt ==
    \A w \in Workers : \A j \in Jobs :
        /\ wk[w].pc \in {"popped", "skip", "claimed", "building", "backoff"} => ~wk[w].ok
        /\ Holds(w, j) /\ wk[w].ok /\ wk[w].pc \in BuildPC => j \in dirs
        /\ Holds(w, j) /\ wk[w].ok /\ wk[w].pc \in {"deciding", "finishing"}
              /\ j \notin ClientSigned => j \in published

\* No success record, in memory, on its way to a file or in one, is unpublished.
SuccessEverywherePublished ==
    /\ SuccessIsPublished
    /\ \A op \in unsaved :
          op.rec.status = "success" /\ op.job \notin ClientSigned => op.job \in published

IndInv ==
    /\ OneOwner
    /\ NoStrandedJob
    /\ DoneIsSettled
    /\ LogHasCloser
    /\ RunningIsHeld
    /\ ArtifactIsKept
    /\ ArtifactExists
    /\ OkIsBuilt
    /\ SuccessEverywherePublished

\* The invariant behind RecordsHold.  A fresh job has no record, no file and no
\* file operation, and an evicted one has no record.
FreshIsClean ==
    \A j \in Jobs : sub[j].pc \in {"none", "new"} =>
        /\ store[j].status = "none" /\ disk[j].status = "none"
        /\ \A op \in unsaved : op.job # j
        /\ \A k \in Jobs : j \notin sub[k].evicted

EvictedIsGone ==
    \A k \in Jobs :
        /\ sub[k].pc # "inserted" => sub[k].evicted = {}
        /\ \A i \in sub[k].evicted : store[i].status = "none"

\* A job nobody cancels reaches its worker uncancelled, so process never skips it
\* while it has a record.
ReachesWorker ==
    \A j \in Jobs \ Cancellable :
        /\ Submitting(j) \/ InQueue(j) => store[j].status # "cancelled"
        /\ \A w \in Workers : Holds(w, j) =>
              /\ wk[w].pc = "popped" => store[j].status # "cancelled"
              /\ wk[w].pc = "skip" => store[j].status = "none"

\* Who may still have a save of job j under way: its submission before the hand-over,
\* then the worker that holds it, and at last whoever swept its artifacts.
MayOwe(a, j) ==
    /\ Submitting(j) => sub[j].pc \in {"inserted", "failing"} /\ a = Submitter(j)
    /\ ~InQueue(j)
    /\ \A w \in Workers : Holds(w, j) => a = Worker(w)
    /\ store[j].artifact => \E w \in Workers : Holds(w, j)

SavesAreCurrent ==
    \A op \in unsaved : op.job \in Stored(store) \ Cancellable =>
        op.rec = Durable(store[op.job]) /\ MayOwe(op.by, op.job)

RecInv ==
    /\ FreshIsClean
    /\ EvictedIsGone
    /\ ReachesWorker
    /\ SavesAreCurrent
    /\ FileFollowsRecord

\* Every submitted job settles for good: its submission returns, its status is
\* final (or it was evicted) and its log buffer is closed.
Settled(j) ==
    /\ sub[j].pc \in {"accepted", "refused"}
    /\ store[j].status \notin ActiveStatus
    /\ j \notin logs
EveryJobSettles == \A j \in Jobs : sub[j].pc = "new" ~> []Settled(j)
=============================================================================
