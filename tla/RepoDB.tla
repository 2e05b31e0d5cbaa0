------------------------------- MODULE RepoDB -------------------------------
(***************************************************************************)
(* The optimistic transaction of ayato/repository over one repository      *)
(* database in a blob store that offers only single-object compare-and-    *)
(* swap.  A writer (one call of RepoAddBatch, RepoRemove, InitArch,        *)
(* ReconcileDB or BackfillSignatures) fetches the database objects one by  *)
(* one, runs the repository tool on local copies, swaps the canonical      *)
(* object and then the derived ones, each against the ETag it read.        *)
(* Writers of one process exclude each other by a mutex; other processes   *)
(* share only the blob store.  Every store call may fail, and a failed put *)
(* may or may not have landed.  A process may die at any point.            *)
(***************************************************************************)
EXTENDS PackageDB, Sequences, FiniteSets

CONSTANTS
    Writers,      \* the calls of this behaviour
    Calls,        \* what a writer may be asked to do
    Process,      \* the server process of each writer
    InitDBs,      \* the databases a behaviour may start from
    Signed,       \* useSignedDB
    MaxAttempts,  \* maxDBAttempts
    MaxFailures   \* failed store calls and crashes explored (bound)

ASSUME RepoDBAssumption ==
    /\ Calls \subseteq Call
    /\ InitDBs \subseteq DBObject
    /\ DOMAIN Process = Writers
    /\ Signed \in BOOLEAN
    /\ MaxAttempts \in Nat \ {0}
    /\ MaxFailures \in Nat

VARIABLES
    obj,       \* the objects in the store
    call,      \* the call of each writer
    wr,        \* the progress of each writer
    failures,  \* how many failures happened so far
    applied,   \* history: the writers whose canonical put landed
    dirty      \* history: a call ended badly since the last reconcile

vars == <<obj, call, wr, failures, applied, dirty>>

(***************************************************************************)
(* Objects and workspaces.  A signature is named by what it signs.         *)
(***************************************************************************)
Artifacts == IF Signed THEN <<"db", "files", "dbsig", "filessig">> ELSE <<"db", "files">>

Objects == [db : DBObject, files : FilesObject, dbsig : DBObject, filessig : FilesObject]
NoObjects == [db |-> NoDB, files |-> NoFiles, dbsig |-> NoDB, filessig |-> NoFiles]

PC == {"idle", "backfill", "waiting", "probe", "fetch", "mutate", "put", "check", "etag", "putderived",
       "final", "ok", "failed", "committed", "crashed"}
Ended == {"ok", "failed", "committed", "crashed"}

Writer == [pc        : PC,
           mode      : {"mutate", "reconcile"},
           ws        : Objects,                      \* the temporary directory
           etag      : DBObject,                     \* ETag of the fetched database
           detag     : DBObject \cup FilesObject,    \* ETag of a derived object
           i         : 1..5,                         \* position in Artifacts
           tries     : 0..MaxAttempts - 1,           \* attempt of run and reconcileDBLocked
           inner     : 0..MaxAttempts - 1,           \* attempt of commitOneDerived
           committed : BOOLEAN]                      \* canonicalCommitted

IdleWriter == [pc |-> "idle", mode |-> "mutate", ws |-> NoObjects, etag |-> NoDB,
               detag |-> NoDB, i |-> 1, tries |-> 0, inner |-> 0, committed |-> FALSE]

\* Type invariant: objects and workspaces hold what the tool can write, and no loop
\* counts past maxDBAttempts.
TypeOK ==
    /\ obj \in Objects
    /\ call \in [Writers -> Calls]
    /\ wr \in [Writers -> Writer]
    /\ failures \in 0..MaxFailures
    /\ applied \subseteq Writers
    /\ dirty \in BOOLEAN

\* The tool on the local copies: the archives, then their signatures.
Written(db, files, sign) == [db |-> db, files |-> files,
                             dbsig |-> IF sign THEN db ELSE NoDB,
                             filessig |-> IF sign THEN files ELSE NoFiles]

\* A database that earlier calls left in order, before or after signing was enabled.
Init ==
    /\ \E d \in InitDBs, sign \in {Signed, FALSE} :
          /\ obj = IF d.live THEN Written(d, RebuiltFiles(d, NoFiles), sign) ELSE NoObjects
          /\ dirty = (d.live /\ sign # Signed)
    /\ call \in [Writers -> Calls]
    /\ wr = [w \in Writers |-> IdleWriter]
    /\ failures = 0
    /\ applied = {}

Active(w) == wr[w].pc \notin {"idle"} \cup Ended
Holding(w) == Active(w) /\ wr[w].pc \notin {"backfill", "waiting"}

(***************************************************************************)
(* Control shared by the steps.                                            *)
(***************************************************************************)
\* A call returns: nil, an error, or an error marked with CanonicalCommitError.
\* Its temporary directory goes and its mutex is released.
Return(w, result) ==
    /\ wr' = [wr EXCEPT ![w] = [IdleWriter EXCEPT !.pc = result, !.mode = wr[w].mode]]
    /\ dirty' = IF wr[w].mode = "reconcile"
                THEN result # "ok"
                ELSE dirty \/ result = "committed"

Goto(w, pc) == wr' = [wr EXCEPT ![w].pc = pc] /\ UNCHANGED dirty

\* Deviation: a failure after an ambiguous put is reported as an ordinary one.
MarkNothing(w, committed) == "failed"

\* markCommitted.
Mark(w, committed) == IF committed THEN "committed" ELSE "failed"

\* Deviation: the attempts are not counted.
RetryForever(w, committed) ==
    /\ wr' = [wr EXCEPT ![w] = [IdleWriter EXCEPT !.pc = "fetch", !.mode = wr[w].mode,
                                                  !.committed = committed]]
    /\ UNCHANGED dirty

\* Deviation: one attempt too many.
RetryOnceMore(w, committed) ==
    IF wr[w].tries < MaxAttempts
    THEN /\ wr' = [wr EXCEPT ![w] =
                     [IdleWriter EXCEPT !.pc = "fetch", !.mode = wr[w].mode,
                                        !.tries = wr[w].tries + 1, !.committed = committed]]
         /\ UNCHANGED dirty
    ELSE Return(w, Mark(w, committed))

\* The next round of dbMutation.run or reconcileDBLocked, with a fresh workspace.
Retry(w, committed) ==
    IF wr[w].tries + 1 < MaxAttempts
    THEN /\ wr' = [wr EXCEPT ![w] =
                     [IdleWriter EXCEPT !.pc = "fetch", !.mode = wr[w].mode,
                                        !.tries = wr[w].tries + 1, !.committed = committed]]
         /\ UNCHANGED dirty
    ELSE Return(w, Mark(w, committed))

\* The derived objects still to be published: the ones the workspace has.
Pending(w, from) == {k \in from..Len(Artifacts) : wr[w].ws[Artifacts[k]].live}

\* The loop of commitDerivedArtifacts.
NextDerived(w, from) ==
    /\ \/ Pending(w, from) = {} /\ wr' = [wr EXCEPT ![w].pc = "final"]
       \/ \E k \in Pending(w, from) :
             /\ \A m \in Pending(w, from) : k <= m
             /\ wr' = [wr EXCEPT ![w].pc = "check", ![w].i = k, ![w].inner = 0]
    /\ UNCHANGED dirty

\* What a lost race after the canonical put means to each kind of call.
LostRace(w) ==
    IF call[w].kind = "init" /\ wr[w].mode = "mutate"
    THEN Return(w, "ok")
    ELSE Retry(w, wr[w].mode = "mutate")

\* And what any other error means: a mutation tries again, the others give up.
StoreFailed(w) ==
    IF wr[w].mode = "reconcile" THEN Return(w, "failed")
    ELSE IF call[w].kind = "init" THEN Return(w, "committed")
    ELSE Retry(w, TRUE)

Failing == failures < MaxFailures /\ failures' = failures + 1

(***************************************************************************)
(* The steps of a call.                                                    *)
(***************************************************************************)
Start(w) ==
    /\ wr[w].pc = "idle"
    /\ wr' = [wr EXCEPT ![w].pc = IF call[w].kind = "backfill" THEN "backfill" ELSE "waiting",
                        ![w].mode = IF call[w].kind = "reconcile" THEN "reconcile" ELSE "mutate"]
    /\ UNCHANGED <<obj, call, failures, applied, dirty>>

\* BackfillSignatures looks before it takes the mutex: a database that lacks a
\* signature is reconciled.
Backfill(w) ==
    /\ wr[w].pc = "backfill"
    /\ IF obj.db.live /\ ~(obj.dbsig.live /\ obj.filessig.live)
       THEN /\ wr' = [wr EXCEPT ![w].pc = "waiting", ![w].mode = "reconcile"]
            /\ UNCHANGED dirty
       ELSE Return(w, "ok")
    /\ UNCHANGED <<obj, call, failures, applied>>

\* dbMu.lock: one writer per process at a time.
Lock(w) ==
    /\ wr[w].pc = "waiting"
    /\ \A v \in Writers : Process[v] = Process[w] => ~Holding(v)
    /\ wr' = [wr EXCEPT ![w].pc = IF call[w].kind = "init" THEN "probe" ELSE "fetch"]
    /\ UNCHANGED <<obj, call, failures, applied, dirty>>

\* InitArch: an existing database is reconciled, a missing one is created.
Probe(w) ==
    /\ wr[w].pc = "probe"
    /\ wr' = [wr EXCEPT ![w] =
                IF obj.db.live
                THEN [wr[w] EXCEPT !.pc = "fetch", !.mode = "reconcile"]
                ELSE [wr[w] EXCEPT !.pc = "mutate"]]
    /\ UNCHANGED <<obj, call, failures, applied, dirty>>

\* fetchDBArtifacts, one object after the other; the reconciler reads no signature.
Fetched(w) == IF wr[w].mode = "reconcile" THEN 2 ELSE Len(Artifacts)

Fetch(w) ==
    LET a == Artifacts[wr[w].i]
    IN /\ wr[w].pc = "fetch"
       /\ ~(wr[w].mode = "reconcile" /\ a = "db" /\ ~obj.db.live)
       /\ wr' = [wr EXCEPT ![w].ws[a] = obj[a],
                           ![w].etag = IF a = "db" THEN obj.db ELSE @,
                           ![w].i = @ + 1,
                           ![w].pc = IF wr[w].i = Fetched(w) THEN "mutate" ELSE "fetch"]
       /\ UNCHANGED <<obj, call, failures, applied, dirty>>

\* There is no database to reconcile.
FetchNothing(w) ==
    /\ wr[w].pc = "fetch"
    /\ wr[w].mode = "reconcile" /\ wr[w].i = 1 /\ ~obj.db.live
    /\ Return(w, "ok")
    /\ UNCHANGED <<obj, call, failures, applied>>

MutatedWorkspace(c, ws) ==
    IF NothingToRemove(c, ws.db) THEN ws
    ELSE Written(Effect(c, ws.db), MutatedFiles(c, ws.db, ws.files), Signed)

Mutate(w) ==
    /\ wr[w].pc = "mutate" /\ wr[w].mode = "mutate"
    /\ Allowed(call[w], wr[w].ws.db)
    /\ wr' = [wr EXCEPT ![w].ws = MutatedWorkspace(call[w], @), ![w].pc = "put"]
    /\ UNCHANGED <<obj, call, failures, applied, dirty>>

\* ErrPackageChanged, or no database to remove from.
MutateRefused(w) ==
    /\ wr[w].pc = "mutate" /\ wr[w].mode = "mutate"
    /\ ~Allowed(call[w], wr[w].ws.db)
    /\ Return(w, Mark(w, wr[w].committed))
    /\ UNCHANGED <<obj, call, failures, applied>>

\* dbReconciler.rebuildDerived.
Rebuild(w) ==
    /\ wr[w].pc = "mutate" /\ wr[w].mode = "reconcile"
    /\ wr' = [wr EXCEPT ![w].ws = Written(@.db, RebuiltFiles(@.db, @.files), Signed),
                        ![w].pc = "check", ![w].i = 2]
    /\ UNCHANGED <<obj, call, failures, applied, dirty>>

\* A fetch or the tool fails: prepare and the reconciler give up.
PrepareFails(w) ==
    /\ wr[w].pc \in {"backfill", "probe", "fetch", "mutate"}
    /\ Failing
    /\ Return(w, Mark(w, wr[w].committed))
    /\ UNCHANGED <<obj, call, applied>>

\* Deviation: the canonical object is overwritten without a precondition.
PutUnconditional(w) ==
    /\ wr[w].pc = "put"
    /\ obj' = [obj EXCEPT !.db = wr[w].ws.db]
    /\ applied' = applied \cup {w}
    /\ NextDerived(w, 2)
    /\ UNCHANGED <<call, failures>>

\* commitDB: the canonical object is swapped first.
Put(w) ==
    /\ wr[w].pc = "put"
    /\ obj.db = wr[w].etag
    /\ obj' = [obj EXCEPT !.db = wr[w].ws.db]
    /\ applied' = applied \cup {w}
    /\ NextDerived(w, 2)
    /\ UNCHANGED <<call, failures>>

\* S3 answers 409 to one of two conditional requests that overlap: the object did
\* not change, but the caller is told that it did.
Overlapping(w) ==
    \E v \in Writers : Process[v] # Process[w] /\ wr[v].pc \in {"put", "putderived"}

\* ErrPreconditionFailed, on which init takes the other's database for its own.
PutConflict(w) ==
    /\ wr[w].pc = "put"
    /\ obj.db # wr[w].etag \/ Overlapping(w)
    /\ IF call[w].kind = "init" THEN Return(w, "ok") ELSE Retry(w, wr[w].committed)
    /\ UNCHANGED <<obj, call, failures, applied>>

\* Any other error: nobody knows whether the put landed.
PutFails(w) ==
    /\ wr[w].pc = "put"
    /\ Failing
    /\ \/ UNCHANGED <<obj, applied>>
       \/ /\ obj.db = wr[w].etag
          /\ obj' = [obj EXCEPT !.db = wr[w].ws.db]
          /\ applied' = applied \cup {w}
    /\ StoreFailed(w)
    /\ UNCHANGED call

\* commitOneDerived: is the canonical object still ours, ...
Check(w) ==
    /\ wr[w].pc = "check"
    /\ IF obj.db = wr[w].ws.db THEN Goto(w, "etag") ELSE LostRace(w)
    /\ UNCHANGED <<obj, call, failures, applied>>

\* ... the current ETag of the derived object, ...
ReadETag(w) ==
    /\ wr[w].pc = "etag"
    /\ wr' = [wr EXCEPT ![w].detag = obj[Artifacts[wr[w].i]], ![w].pc = "putderived"]
    /\ UNCHANGED <<obj, call, failures, applied, dirty>>

\* ... and the swap.
PutDerived(w) ==
    LET a == Artifacts[wr[w].i]
    IN /\ wr[w].pc = "putderived"
       /\ obj[a] = wr[w].detag
       /\ obj' = [obj EXCEPT ![a] = wr[w].ws[a]]
       /\ NextDerived(w, wr[w].i + 1)
       /\ UNCHANGED <<call, failures, applied>>

PutDerivedConflict(w) ==
    /\ wr[w].pc = "putderived"
    /\ obj[Artifacts[wr[w].i]] # wr[w].detag \/ Overlapping(w)
    /\ IF wr[w].inner + 1 < MaxAttempts
       THEN /\ wr' = [wr EXCEPT ![w].inner = @ + 1, ![w].pc = "check"]
            /\ UNCHANGED dirty
       ELSE LostRace(w)
    /\ UNCHANGED <<obj, call, failures, applied>>

\* The last look at the canonical object.
Final(w) ==
    /\ wr[w].pc = "final"
    /\ IF obj.db = wr[w].ws.db THEN Return(w, "ok") ELSE LostRace(w)
    /\ UNCHANGED <<obj, call, failures, applied>>

DerivedFails(w) ==
    /\ wr[w].pc \in {"check", "etag", "putderived", "final"}
    /\ Failing
    /\ \/ UNCHANGED obj
       \/ LET a == Artifacts[wr[w].i]
          IN /\ wr[w].pc = "putderived"
             /\ obj[a] = wr[w].detag
             /\ obj' = [obj EXCEPT ![a] = wr[w].ws[a]]
    /\ StoreFailed(w)
    /\ UNCHANGED <<call, applied>>

\* A server process dies with everything it was doing.
Crash(p) ==
    /\ Failing
    /\ \E w \in Writers : Process[w] = p /\ Active(w)
    /\ wr' = [w \in Writers |->
                IF Process[w] = p /\ Active(w)
                THEN [IdleWriter EXCEPT !.pc = "crashed", !.mode = wr[w].mode] ELSE wr[w]]
    /\ dirty' = TRUE
    /\ UNCHANGED <<obj, call, applied>>

Step(w) ==
    \/ Backfill(w) \/ Probe(w) \/ Fetch(w) \/ FetchNothing(w) \/ Mutate(w) \/ MutateRefused(w) \/ Rebuild(w)
    \/ PrepareFails(w) \/ Put(w) \/ PutConflict(w) \/ PutFails(w) \/ Check(w) \/ ReadETag(w)
    \/ PutDerived(w) \/ PutDerivedConflict(w) \/ Final(w) \/ DerivedFails(w)

Next ==
    \/ \E w \in Writers : Start(w) \/ Lock(w) \/ Step(w)
    \/ \E w \in Writers : Crash(Process[w])

Spec == Init /\ [][Next]_vars

\* Store calls return and goroutines run; a waiting writer gets the mutex (sync.Mutex
\* hands it over to the longest waiter).
FairSpec == Spec /\ \A w \in Writers : SF_vars(Lock(w)) /\ WF_vars(Step(w))

(***************************************************************************)
(* Properties.                                                             *)
(***************************************************************************)
\* The calls appear to be atomic: the canonical database changes only by a whole
\* batch applied to its current value under its condition; nil means applied and
\* an unmarked error means untouched (RepoAddBatch, CanonicalCommitError).
Abstract == INSTANCE RepoDBAbstract WITH
    db <- obj.db,
    state <- [w \in Writers |-> IF wr[w].pc \in {"idle"} \cup Ended THEN wr[w].pc ELSE "busy"]

AppearsAtomic == Abstract!ASpec

\* "Retrying from a freshly fetched canonical database preserves both writers'
\* changes": what an acknowledged add put there stays until a call that touches
\* the same package is applied.
NoLostUpdate ==
    \A w \in Writers :
        wr[w].pc = "ok" /\ call[w].kind = "add" =>
            \A n \in Touched(call[w]) :
                \/ obj.db.pk[n] = call[w].pkgs[n]
                \/ \E v \in applied \ {w} : n \in Touched(call[v])

\* An error without CanonicalCommitError means that the call changed nothing, so
\* that its caller need not restore the database (publicationRollback.run).
UnmarkedErrorIsClean == \A w \in Writers : wr[w].pc = "failed" => w \notin applied

\* Derived objects follow the canonical one: when no call is under way and none
\* ended badly since the last reconcile, .files describes exactly the packages of
\* .db, with all their file lists, and the signatures are the ones of both.
DerivedFollows ==
    /\ obj.files.live /\ obj.files.pk = obj.db.pk
    /\ obj.files.lists = {n \in Names : obj.db.pk[n] # NoPkg}
    /\ Signed => obj.dbsig = obj.db /\ obj.filessig = obj.files

FilesFollowDatabase ==
    ~dirty /\ obj.db.live /\ (\A w \in Writers : ~Active(w)) => DerivedFollows

\* Every call returns: attempts are bounded and the mutex is handed on.
EveryCallReturns == \A w \in Writers : wr[w].pc # "idle" ~> wr[w].pc \in Ended

\* The answers are true: nil means applied and kept, an unmarked error not applied.
AnswersAreTrue == NoLostUpdate /\ UnmarkedErrorIsClean
=============================================================================
