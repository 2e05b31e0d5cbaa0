---------------------------- MODULE RepoDBProofs ----------------------------
(***************************************************************************)
(* Theorems about RepoDB, for every set of writers, calls, processes,      *)
(* packages, start databases, attempts and failures, signed or not: the    *)
(* types, the truth of the answers, and that the transaction implements    *)
(* RepoDBAbstract.                                                         *)
(***************************************************************************)
EXTENDS RepoDB, TLAPS

(***************************************************************************)
(* The inductive invariant.  What holds of a writer is a predicate of its  *)
(* call c, its record s and of ap, whether its canonical put has landed.   *)
(***************************************************************************)
Before == {"idle", "backfill", "waiting", "probe"}
Derived == {"check", "etag", "putderived", "final"}

\* The position in the loops over Artifacts.
Placed(s) ==
    /\ s.pc \in Before => s.i = 1
    /\ s.pc = "fetch" => s.i <= IF s.mode = "reconcile" THEN 2 ELSE Len(Artifacts)
    /\ s.pc \in {"check", "etag", "putderived"} => s.i \in 2..Len(Artifacts)

\* Which calls reach which step: a reconciler never publishes the canonical object.
Routed(c, s) ==
    /\ s.pc = "backfill" => c.kind = "backfill" /\ s.mode = "mutate"
    /\ s.pc = "probe" => c.kind = "init" /\ s.mode = "mutate"
    /\ s.pc = "waiting" /\ c.kind = "init" => s.mode = "mutate"
    /\ s.pc \in {"waiting", "mutate", "put"} \cup Derived /\ s.mode = "mutate" => c.kind \in Mutations
    /\ s.pc = "fetch" /\ s.mode = "mutate" => c.kind \in {"add", "remove"}
    /\ s.pc = "put" => s.mode = "mutate"
    /\ s.mode = "reconcile" => c.kind \notin {"add", "remove"}

\* What a writer may conclude about its own put: canonicalCommitted is set whenever
\* the put of an earlier round may have landed, and the derived objects come after it.
Honest(c, s, ap) ==
    /\ s.pc \in Before => ~ap /\ ~s.committed
    /\ s.mode = "reconcile" => ~ap /\ ~s.committed
    /\ s.pc \in {"fetch", "mutate", "put"} /\ ap => s.committed
    /\ s.pc \in Derived /\ s.mode = "mutate" => ap
    /\ s.pc = "ok" /\ c.kind \in {"add", "remove"} => ap
    /\ s.pc = "failed" => ~ap

\* What the workspace holds: the database named by the ETag, then the call's effect
\* on exactly that database, under the call's condition.
Prepared(c, s) ==
    /\ s.pc \in Before => s.ws.db = NoDB /\ s.ws.files = NoFiles /\ s.etag = NoDB
    /\ s.pc = "fetch" /\ s.i > 1 => s.ws.db = s.etag
    /\ s.pc = "mutate" => s.ws.db = s.etag
    /\ s.pc \in {"mutate", "put"} /\ s.mode = "mutate" /\ c.kind = "init" => s.etag = NoDB
    /\ s.pc = "put" => Allowed(c, s.etag) /\ s.ws.db = Effect(c, s.etag)

Sound(c, s, ap) == Placed(s) /\ Routed(c, s) /\ Honest(c, s, ap) /\ Prepared(c, s)

WritersSound == \A w \in Writers : Sound(call[w], wr[w], w \in applied)

\* What a landed add wrote is there until a landed call touches the package.
AppliedKept ==
    \A w \in applied :
        call[w].kind = "add" =>
            \A n \in Touched(call[w]) :
                \/ obj.db.pk[n] = call[w].pkgs[n]
                \/ \E v \in applied \ {w} : n \in Touched(call[v])

IndInv == TypeOK /\ WritersSound /\ AppliedKept

(***************************************************************************)
(* The data.                                                               *)
(***************************************************************************)
Fields == {"db", "files", "dbsig", "filessig"}

\* The canonical object comes first in Artifacts and only there.
LEMMA ArtifactOrder ==
    /\ Len(Artifacts) \in {2, 4}
    /\ Artifacts[1] = "db"
    /\ \A k \in 1..Len(Artifacts) : Artifacts[k] \in Fields
    /\ \A k \in 2..Len(Artifacts) : Artifacts[k] # "db"
BY RepoDBAssumption DEF Artifacts, Fields

\* The canonical object comes first, .files second.
LEMMA ArtifactPlaces ==
    ASSUME NEW k \in 1..Len(Artifacts)
    PROVE  (Artifacts[k] = "db" <=> k = 1) /\ (Artifacts[k] = "files" <=> k = 2)
<1>1. CASE Signed = TRUE
  BY <1>1 DEF Artifacts
<1>2. CASE Signed = FALSE
  BY <1>2 DEF Artifacts
<1>3. QED
  BY <1>1, <1>2, RepoDBAssumption

\* Absent objects are objects.
LEMMA AbsentTypes == NoDB \in DBObject /\ NoFiles \in FilesObject /\ NoObjects \in Objects
<1>1. Empty \in Packages
  BY DEF Empty, Packages
<1>2. QED
  BY <1>1 DEF NoDB, DBObject, NoFiles, FilesObject, NoObjects, Objects

\* Copying one object from one set of objects to another.
LEMMA CopyType ==
    ASSUME NEW o \in Objects, NEW q \in Objects, NEW a \in Fields
    PROVE  /\ [o EXCEPT ![a] = q[a]] \in Objects
           /\ a # "db" => [o EXCEPT ![a] = q[a]].db = o.db
           /\ a = "db" => [o EXCEPT ![a] = q[a]].db = q.db
           /\ q[a] \in DBObject \cup FilesObject
<1>1. CASE a = "db"
  BY <1>1 DEF Objects
<1>2. CASE a = "files"
  BY <1>2 DEF Objects
<1>3. CASE a = "dbsig"
  BY <1>3 DEF Objects
<1>4. CASE a = "filessig"
  BY <1>4 DEF Objects
<1>5. QED
  BY <1>1, <1>2, <1>3, <1>4 DEF Fields

\* What the tool writes is well-typed.
LEMMA EffectTypes ==
    ASSUME NEW c \in Call, NEW db \in DBObject, NEW files \in FilesObject
    PROVE  Effect(c, db) \in DBObject /\ MutatedFiles(c, db, files) \in FilesObject
<1>1. Effect(c, db).pk \in Packages
  BY DEF Effect, Upsert, Without, Empty, Packages, Call, DBObject
<1>2. Effect(c, db) \in DBObject
  BY <1>1 DEF Effect, DBObject
<1>3. KeptLists(db, files) \subseteq Names /\ Touched(c) \subseteq Names
  BY DEF KeptLists, FilesObject, Touched
<1>4. QED
  BY <1>1, <1>2, <1>3 DEF MutatedFiles, FilesObject

\* What an operation writes are the objects of a repository.
LEMMA WrittenType ==
    ASSUME NEW db \in DBObject, NEW files \in FilesObject, NEW sign
    PROVE  Written(db, files, sign) \in Objects /\ Written(db, files, sign).db = db
BY AbsentTypes DEF Written, Objects

\* The lists a rebuild finds are a files database.
LEMMA RebuiltType ==
    ASSUME NEW db \in DBObject, NEW files
    PROVE  RebuiltFiles(db, files) \in FilesObject
BY DEF RebuiltFiles, FilesObject, DBObject

\* A removal of what is not there leaves the database as it is, so the workspace
\* holds the call's effect whether or not the tool rewrote it.
LEMMA WorkspaceEffect ==
    ASSUME NEW c \in Call, NEW ws \in Objects, Allowed(c, ws.db)
    PROVE  MutatedWorkspace(c, ws) \in Objects /\ MutatedWorkspace(c, ws).db = Effect(c, ws.db)
<1>1. ws.db \in DBObject /\ ws.files \in FilesObject
  BY DEF Objects
<1>2. CASE NothingToRemove(c, ws.db)
  <2>1. c.kind = "remove" /\ ws.db.live
    BY <1>2 DEF NothingToRemove, Allowed, RemoveAllowed
  <2>2. Without(c, ws.db.pk) = ws.db.pk
    BY <1>1, <1>2 DEF NothingToRemove, Without, DBObject, Packages
  <2>3. Effect(c, ws.db) = ws.db
    BY <1>1, <2>1, <2>2 DEF Effect, DBObject
  <2>4. QED
    BY <1>2, <2>3 DEF MutatedWorkspace
<1>3. CASE ~NothingToRemove(c, ws.db)
  BY <1>1, <1>3, EffectTypes, WrittenType DEF MutatedWorkspace
<1>4. QED
  BY <1>2, <1>3

(***************************************************************************)
(* The control operators keep every writer sound.                          *)
(***************************************************************************)
\* A step of w that leaves the others alone needs to account for w only.
LEMMA OneWriter ==
    ASSUME TypeOK, WritersSound, NEW w \in Writers, NEW r \in Writer,
           wr' = [wr EXCEPT ![w] = r], call' = call,
           applied' \in {applied, applied \cup {w}},
           Sound(call[w], r, w \in applied')
    PROVE  wr' \in [Writers -> Writer] /\ WritersSound'
<1>1. wr' \in [Writers -> Writer]
  BY DEF TypeOK
<1>2. ASSUME NEW v \in Writers PROVE Sound(call[v], wr'[v], v \in applied')
  <2>1. CASE v = w
    <3>1. wr'[w] = r
      BY DEF TypeOK
    <3>2. QED
      BY <2>1, <3>1
  <2>2. CASE v # w
    <3>1. wr'[v] = wr[v] /\ (v \in applied') = (v \in applied)
      BY <2>2 DEF TypeOK
    <3>2. Sound(call[v], wr[v], v \in applied)
      BY DEF WritersSound
    <3>3. QED
      BY <3>1, <3>2
  <2>3. QED
    BY <2>1, <2>2
<1>3. QED
  BY <1>1, <1>2 DEF WritersSound

\* A writer at rest.
LEMMA IdleWriterType == IdleWriter \in Writer
<1>1. 0 \in 0..MaxAttempts - 1 /\ 1 \in 1..5
  BY RepoDBAssumption
<1>2. QED
  BY <1>1, AbsentTypes DEF IdleWriter, Writer, PC

\* Return with an answer that is true.
LEMMA ReturnSound ==
    ASSUME TypeOK, WritersSound, NEW w \in Writers, NEW result \in Ended,
           Return(w, result), call' = call, applied' \in {applied, applied \cup {w}},
           wr[w].mode = "reconcile" => w \notin applied',
           result = "ok" /\ call[w].kind \in {"add", "remove"} => w \in applied',
           result = "failed" => w \notin applied'
    PROVE  wr' \in [Writers -> Writer] /\ WritersSound' /\ dirty' \in BOOLEAN
<1> DEFINE r == [IdleWriter EXCEPT !.pc = result, !.mode = wr[w].mode]
<1>1. wr[w] \in Writer
  BY DEF TypeOK
<1>2. r \in Writer
  BY <1>1, IdleWriterType DEF Writer, Ended, PC
<1>3. r.pc = result /\ r.mode = wr[w].mode /\ r.committed = FALSE
  BY DEF IdleWriter
<1>4. wr' = [wr EXCEPT ![w] = r]
  BY DEF Return
<1> HIDE DEF r
<1>5. wr[w].mode = "reconcile" => call[w].kind \notin {"add", "remove"}
  BY DEF WritersSound, Sound, Routed
<1>6. Sound(call[w], r, w \in applied')
  BY <1>3, <1>5 DEF Sound, Placed, Routed, Honest, Prepared, Ended, Before, Derived
<1>7. dirty' \in BOOLEAN
  BY Zenon DEF Return, TypeOK
<1>8. QED
  BY <1>2, <1>4, <1>6, <1>7, OneWriter

\* Retry, told whether the put of this writer may have landed.
LEMMA RetrySound ==
    ASSUME TypeOK, WritersSound, NEW w \in Writers, NEW committed \in BOOLEAN,
           Retry(w, committed), call' = call, applied' \in {applied, applied \cup {w}},
           wr[w].mode = "reconcile" => w \notin applied' /\ ~committed,
           wr[w].mode = "mutate" => call[w].kind \in {"add", "remove"},
           w \in applied' => committed
    PROVE  wr' \in [Writers -> Writer] /\ WritersSound' /\ dirty' \in BOOLEAN
<1>1. wr[w] \in Writer /\ wr[w].tries \in 0..MaxAttempts - 1
  BY DEF TypeOK, Writer
<1>2. CASE wr[w].tries + 1 < MaxAttempts
  <2> DEFINE r == [IdleWriter EXCEPT !.pc = "fetch", !.mode = wr[w].mode,
                                     !.tries = wr[w].tries + 1, !.committed = committed]
  <2>1. r \in Writer
    <3>1. wr[w].tries + 1 \in 0..MaxAttempts - 1
      BY <1>1, <1>2, RepoDBAssumption
    <3>2. QED
      BY <1>1, <3>1, IdleWriterType DEF Writer, PC
  <2>2. /\ r.pc = "fetch" /\ r.mode = wr[w].mode /\ r.committed = committed
        /\ r.i = 1
    BY DEF IdleWriter
  <2>3. wr' = [wr EXCEPT ![w] = r] /\ dirty' = dirty
    BY <1>2 DEF Retry
  <2> HIDE DEF r
  <2>4. wr[w].mode = "reconcile" => call[w].kind \notin {"add", "remove"}
    BY DEF WritersSound, Sound, Routed
  <2>5. Sound(call[w], r, w \in applied')
    BY <2>2, <2>4, ArtifactOrder DEF Sound, Placed, Routed, Honest, Prepared, Before, Derived
  <2>6. QED
    BY <2>1, <2>3, <2>5, OneWriter DEF TypeOK
<1>3. CASE ~(wr[w].tries + 1 < MaxAttempts)
  <2>1. Return(w, Mark(w, committed))
    BY <1>3 DEF Retry
  <2>2. Mark(w, committed) = IF committed THEN "committed" ELSE "failed"
    BY DEF Mark
  <2>3. QED
    BY <2>1, <2>2, ReturnSound DEF Ended
<1>4. QED
  BY <1>2, <1>3

\* The loop over the derived objects, once the canonical one is settled.
LEMMA NextDerivedSound ==
    ASSUME TypeOK, WritersSound, NEW w \in Writers, NEW from \in 2..Len(Artifacts) + 1,
           NextDerived(w, from), call' = call, applied' \in {applied, applied \cup {w}},
           wr[w].pc \in {"put"} \cup Derived,
           wr[w].mode = "mutate" => w \in applied',
           wr[w].mode = "reconcile" => applied' = applied
    PROVE  wr' \in [Writers -> Writer] /\ WritersSound' /\ dirty' \in BOOLEAN
<1>1. wr[w] \in Writer
  BY DEF TypeOK
<1>2. Sound(call[w], wr[w], w \in applied)
  BY DEF WritersSound
<1>3. CASE Pending(w, from) = {} /\ wr' = [wr EXCEPT ![w].pc = "final"]
  <2> DEFINE r == [wr[w] EXCEPT !.pc = "final"]
  <2>1. r \in Writer /\ r.pc = "final" /\ r.mode = wr[w].mode /\ r.committed = wr[w].committed
    BY <1>1 DEF Writer, PC
  <2>2. wr' = [wr EXCEPT ![w] = r]
    BY <1>3
  <2> HIDE DEF r
  <2>3. Sound(call[w], r, w \in applied')
    BY <2>1, <1>2, <1>1 DEF Sound, Placed, Routed, Honest, Prepared, Before, Derived, Writer
  <2>4. QED
    BY <2>1, <2>2, <2>3, OneWriter DEF NextDerived, TypeOK
<1>4. CASE \E k \in Pending(w, from) :
             wr' = [wr EXCEPT ![w].pc = "check", ![w].i = k, ![w].inner = 0]
  <2>1. PICK k \in Pending(w, from) :
              wr' = [wr EXCEPT ![w].pc = "check", ![w].i = k, ![w].inner = 0]
    BY <1>4
  <2> DEFINE r == [wr[w] EXCEPT !.pc = "check", !.i = k, !.inner = 0]
  <2>2. k \in 2..Len(Artifacts) /\ k \in 1..5 /\ 0 \in 0..MaxAttempts - 1
    <3>1. k \in from..Len(Artifacts)
      BY DEF Pending
    <3>2. Len(Artifacts) \in {2, 4}
      BY ArtifactOrder
    <3> DEFINE last == Len(Artifacts)
    <3>3. k \in from..last /\ last \in {2, 4} /\ from \in 2..last + 1
      BY <3>1, <3>2
    <3> HIDE DEF last
    <3>4. k \in 2..last /\ k \in 1..5
      BY <3>3
    <3>5. 0 \in 0..MaxAttempts - 1
      BY RepoDBAssumption
    <3>6. QED
      BY <3>4, <3>5 DEF last
  <2>3. /\ r \in Writer /\ r.pc = "check" /\ r.mode = wr[w].mode /\ r.committed = wr[w].committed
        /\ r.i = k
    BY <1>1, <2>2 DEF Writer, PC
  <2>4. wr' = [wr EXCEPT ![w] = r]
    BY <2>1
  <2> HIDE DEF r
  <2>5. Sound(call[w], r, w \in applied')
    BY <2>2, <2>3, <1>2, <1>1 DEF Sound, Placed, Routed, Honest, Prepared, Before, Derived, Writer
  <2>6. QED
    BY <2>3, <2>4, <2>5, OneWriter DEF NextDerived, TypeOK
<1>5. QED
  BY <1>3, <1>4 DEF NextDerived

\* A lost race after the canonical put.
LEMMA LostRaceSound ==
    ASSUME TypeOK, WritersSound, NEW w \in Writers, wr[w].pc \in Derived,
           LostRace(w), call' = call, applied' = applied
    PROVE  wr' \in [Writers -> Writer] /\ WritersSound' /\ dirty' \in BOOLEAN
<1>1. Sound(call[w], wr[w], w \in applied) /\ wr[w].mode \in {"mutate", "reconcile"}
  BY DEF WritersSound, TypeOK, Writer
<1>2. CASE call[w].kind = "init" /\ wr[w].mode = "mutate"
  BY <1>1, <1>2, ReturnSound DEF LostRace, Ended
<1>3. CASE ~(call[w].kind = "init" /\ wr[w].mode = "mutate")
  <2>1. Retry(w, wr[w].mode = "mutate")
    BY <1>3 DEF LostRace
  <2>2. wr[w].mode = "reconcile" => w \notin applied
    BY <1>1 DEF Sound, Honest
  <2>3. wr[w].mode = "mutate" => call[w].kind \in {"add", "remove"}
    BY <1>1, <1>3 DEF Sound, Routed, Mutations, Derived
  <2>4. QED
    BY <2>1, <2>2, <2>3, <1>1, RetrySound
<1>4. QED
  BY <1>2, <1>3

\* Any other error, with the put landed or not.
LEMMA StoreFailedSound ==
    ASSUME TypeOK, WritersSound, NEW w \in Writers, wr[w].pc \in {"put"} \cup Derived,
           StoreFailed(w), call' = call, applied' \in {applied, applied \cup {w}},
           wr[w].mode = "reconcile" => applied' = applied
    PROVE  wr' \in [Writers -> Writer] /\ WritersSound' /\ dirty' \in BOOLEAN
<1>1. Sound(call[w], wr[w], w \in applied) /\ wr[w].mode \in {"mutate", "reconcile"}
  BY DEF WritersSound, TypeOK, Writer
<1>2. CASE wr[w].mode = "reconcile"
  <2>1. w \notin applied' /\ call[w].kind \notin {"add", "remove"}
    BY <1>1, <1>2 DEF Sound, Honest, Routed
  <2>2. QED
    BY <1>2, <2>1, ReturnSound DEF StoreFailed, Ended
<1>3. CASE wr[w].mode = "mutate" /\ call[w].kind = "init"
  BY <1>3, ReturnSound DEF StoreFailed, Ended
<1>4. CASE wr[w].mode = "mutate" /\ call[w].kind # "init"
  <2>1. call[w].kind \in {"add", "remove"}
    BY <1>1, <1>4 DEF Sound, Routed, Mutations, Derived
  <2>2. QED
    BY <1>4, <2>1, RetrySound DEF StoreFailed
<1>5. QED
  BY <1>1, <1>2, <1>3, <1>4

(***************************************************************************)
(* The actions.                                                            *)
(***************************************************************************)
\* Init: everyone is idle.
LEMMA InitSound == Init => IndInv
<1> SUFFICES ASSUME Init PROVE IndInv
  OBVIOUS
<1>1. obj \in Objects
  <2>1. PICK d \in InitDBs, sign \in {Signed, FALSE} :
            obj = IF d.live THEN Written(d, RebuiltFiles(d, NoFiles), sign) ELSE NoObjects
    BY DEF Init
  <2>2. d \in DBObject
    BY RepoDBAssumption
  <2>3. QED
    BY <2>1, <2>2, AbsentTypes, RebuiltType, WrittenType
<1>2. dirty \in BOOLEAN
  BY Zenon DEF Init
<1>3. failures \in 0..MaxFailures
  BY RepoDBAssumption DEF Init
<1>4. TypeOK
  BY <1>1, <1>2, <1>3, IdleWriterType DEF Init, TypeOK
<1>5. ASSUME NEW w \in Writers PROVE Sound(call[w], wr[w], w \in applied)
  <2>1. wr[w] = IdleWriter /\ w \notin applied
    BY DEF Init
  <2>2. /\ IdleWriter.pc = "idle" /\ IdleWriter.mode = "mutate" /\ ~IdleWriter.committed
        /\ IdleWriter.i = 1 /\ IdleWriter.ws.db = NoDB /\ IdleWriter.ws.files = NoFiles
        /\ IdleWriter.etag = NoDB
    BY DEF IdleWriter, NoObjects
  <2>3. QED
    BY <2>1, <2>2 DEF Sound, Placed, Routed, Honest, Prepared, Before, Derived
<1>6. AppliedKept
  BY DEF Init, AppliedKept
<1>7. QED
  BY <1>4, <1>5, <1>6 DEF IndInv, WritersSound

\* Every step of a writer keeps the types and the writers sound.
LEMMA StepSound ==
    ASSUME TypeOK, WritersSound, NEW w \in Writers, Start(w) \/ Lock(w) \/ Step(w)
    PROVE  TypeOK' /\ WritersSound'
<1>s. /\ Sound(call[w], wr[w], w \in applied)
      /\ wr[w] \in Writer /\ call[w] \in Call /\ obj \in Objects
      /\ wr[w].ws \in Objects /\ wr[w].mode \in {"mutate", "reconcile"}
  BY RepoDBAssumption DEF WritersSound, TypeOK, Writer
<1> DEFINE Keeps(r) == /\ wr' = [wr EXCEPT ![w] = r] /\ r \in Writer
                       /\ Sound(call[w], r, w \in applied)
                       /\ UNCHANGED <<obj, call, failures, applied, dirty>>
<1>k. ASSUME NEW r, Keeps(r) PROVE TypeOK' /\ WritersSound'
  BY <1>k, OneWriter DEF TypeOK
<1>r. ASSUME /\ wr' \in [Writers -> Writer] /\ WritersSound' /\ dirty' \in BOOLEAN
             /\ obj' \in Objects /\ call' = call /\ failures' \in 0..MaxFailures
             /\ applied' \subseteq Writers
      PROVE  TypeOK' /\ WritersSound'
  BY <1>r DEF TypeOK
<1>f. Failing => failures' \in 0..MaxFailures
  BY RepoDBAssumption DEF Failing, TypeOK
<1>1. CASE Start(w)
  <2> DEFINE r == [wr[w] EXCEPT
                     !.pc = IF call[w].kind = "backfill" THEN "backfill" ELSE "waiting",
                     !.mode = IF call[w].kind = "reconcile" THEN "reconcile" ELSE "mutate"]
  <2>1. wr' = [wr EXCEPT ![w] = r]
    BY <1>1 DEF Start
  <2>2. r \in Writer
    BY <1>s DEF Writer, PC
  <2>3. Sound(call[w], r, w \in applied)
    BY <1>1, <1>s DEF Start, Sound, Placed, Routed, Honest, Prepared, Before, Derived, Writer, Call, Mutations
  <2>4. QED
    BY <1>1, <2>1, <2>2, <2>3, <1>k DEF Start
<1>2. CASE Lock(w)
  <2> DEFINE r == [wr[w] EXCEPT !.pc = IF call[w].kind = "init" THEN "probe" ELSE "fetch"]
  <2>1. wr' = [wr EXCEPT ![w] = r]
    BY <1>2 DEF Lock
  <2>2. r \in Writer
    BY <1>s DEF Writer, PC
  <2>3. Sound(call[w], r, w \in applied)
    BY <1>2, <1>s, ArtifactOrder DEF Lock, Sound, Placed, Routed, Honest, Prepared, Before, Derived, Writer, Mutations
  <2>4. QED
    BY <1>2, <2>1, <2>2, <2>3, <1>k DEF Lock
<1>3. CASE Backfill(w)
  <2>1. CASE wr' = [wr EXCEPT ![w].pc = "waiting", ![w].mode = "reconcile"] /\ UNCHANGED dirty
    <3> DEFINE r == [wr[w] EXCEPT !.pc = "waiting", !.mode = "reconcile"]
    <3>1. wr' = [wr EXCEPT ![w] = r]
      BY <2>1
    <3>2. r \in Writer
      BY <1>s DEF Writer, PC
    <3>3. Sound(call[w], r, w \in applied)
      BY <1>3, <1>s DEF Backfill, Sound, Placed, Routed, Honest, Prepared, Before, Derived, Writer
    <3>4. QED
      BY <1>3, <2>1, <3>1, <3>2, <3>3, <1>k DEF Backfill
  <2>2. CASE Return(w, "ok")
    <3>1. call[w].kind \notin {"add", "remove"} /\ w \notin applied
      BY <1>3, <1>s DEF Backfill, Sound, Routed, Honest, Before
    <3>2. UNCHANGED <<obj, call, failures, applied>>
      BY <1>3 DEF Backfill
    <3>3. QED
      BY <2>2, <3>1, <3>2, ReturnSound, <1>r DEF Ended, TypeOK
  <2>3. QED
    BY <1>3, <2>1, <2>2 DEF Backfill
<1>4. CASE Probe(w)
  <2> DEFINE r == IF obj.db.live THEN [wr[w] EXCEPT !.pc = "fetch", !.mode = "reconcile"]
                                 ELSE [wr[w] EXCEPT !.pc = "mutate"]
  <2>1. wr' = [wr EXCEPT ![w] = r]
    BY <1>4 DEF Probe
  <2>2. r \in Writer
    BY <1>s DEF Writer, PC
  <2>3. Sound(call[w], r, w \in applied)
    BY <1>4, <1>s DEF Probe, Sound, Placed, Routed, Honest, Prepared, Before, Derived, Writer, Mutations
  <2>4. QED
    BY <1>4, <2>1, <2>2, <2>3, <1>k DEF Probe
<1>5. CASE Fetch(w)
  <2> DEFINE a == Artifacts[wr[w].i]
             ws == [wr[w].ws EXCEPT ![a] = obj[a]]
             et == IF a = "db" THEN obj.db ELSE wr[w].etag
             nx == IF wr[w].i = Fetched(w) THEN "mutate" ELSE "fetch"
             r == [wr[w] EXCEPT !.ws = ws, !.etag = et, !.i = wr[w].i + 1, !.pc = nx]
  <2>1. wr[w].i \in 1..Fetched(w) /\ Fetched(w) \in {2, Len(Artifacts)} /\ a \in Fields
        /\ (a = "db" <=> wr[w].i = 1)
    BY <1>5, <1>s, ArtifactOrder DEF Fetch, Sound, Placed, Fetched, Writer
  <2>2. ws \in Objects /\ et \in DBObject /\ (a = "db" => ws.db = et)
        /\ (a # "db" => ws.db = wr[w].ws.db)
    BY <1>s, <2>1, CopyType DEF Objects, Writer
  <2>3. wr[w].i + 1 \in 1..5 /\ nx \in PC
    BY <2>1, ArtifactOrder DEF PC
  <2>4. wr' = [wr EXCEPT ![w] = r]
    BY <1>5 DEF Fetch
  <2> HIDE DEF ws, et, a
  <2>5. /\ r \in Writer /\ r.pc = nx /\ r.mode = wr[w].mode /\ r.committed = wr[w].committed
        /\ r.i = wr[w].i + 1 /\ r.ws = ws /\ r.etag = et
    BY <1>s, <2>2, <2>3 DEF Writer
  <2> HIDE DEF r
  <2>6. wr[w].i > 1 => et = wr[w].etag /\ ws.db = et
    BY <1>5, <1>s, <2>1, <2>2 DEF et, Fetch, Sound, Prepared
  <2>7. Placed(r)
    BY <1>s, <2>1, <2>5 DEF Placed, Fetched, Before
  <2>8. wr[w].mode = "mutate" => call[w].kind \in {"add", "remove"}
    BY <1>5, <1>s DEF Fetch, Sound, Routed
  <2>9. Routed(call[w], r)
    BY <1>5, <1>s, <2>5, <2>8 DEF Sound, Routed, Mutations
  <2>10. Honest(call[w], r, w \in applied)
    BY <1>5, <1>s, <2>5 DEF Fetch, Sound, Honest, Before, Derived
  <2>11. ws.db = et
    BY <2>1, <2>2, <2>6 
  <2>12. Prepared(call[w], r)
    BY <2>5, <2>8, <2>11 DEF Prepared, Before
  <2>13. QED
    BY <1>5, <2>4, <2>5, <2>7, <2>9, <2>10, <2>12, <1>k DEF Fetch, Sound
<1>6. CASE FetchNothing(w)
  <2>1. call[w].kind \notin {"add", "remove"} /\ w \notin applied
    BY <1>6, <1>s DEF FetchNothing, Sound, Routed, Honest
  <2>2. Return(w, "ok") /\ UNCHANGED <<obj, call, failures, applied>>
    BY <1>6 DEF FetchNothing
  <2>3. QED
    BY <2>1, <2>2, ReturnSound, <1>r DEF Ended, TypeOK
<1>7. CASE Mutate(w)
  <2> DEFINE ws == MutatedWorkspace(call[w], wr[w].ws)
             r == [wr[w] EXCEPT !.ws = ws, !.pc = "put"]
  <2>1. wr' = [wr EXCEPT ![w] = r]
    BY <1>7 DEF Mutate
  <2>2. ws \in Objects /\ ws.db = Effect(call[w], wr[w].ws.db) /\ Allowed(call[w], wr[w].ws.db)
    BY <1>7, <1>s, WorkspaceEffect DEF Mutate
  <2> HIDE DEF ws
  <2>3. /\ r \in Writer /\ r.pc = "put" /\ r.mode = wr[w].mode /\ r.committed = wr[w].committed
        /\ r.i = wr[w].i /\ r.ws = ws /\ r.etag = wr[w].etag
    BY <1>s, <2>2 DEF Writer, PC
  <2> HIDE DEF r
  <2>4. wr[w].ws.db = wr[w].etag
    BY <1>7, <1>s DEF Mutate, Sound, Prepared
  <2>5. Sound(call[w], r, w \in applied)
    BY <1>7, <1>s, <2>2, <2>3, <2>4 DEF Mutate, Sound, Placed, Routed, Honest, Prepared, Before, Derived
  <2>6. QED
    BY <1>7, <2>1, <2>3, <2>5, <1>k DEF Mutate
<1>8. CASE MutateRefused(w)
  <2>1. Return(w, Mark(w, wr[w].committed)) /\ UNCHANGED <<obj, call, failures, applied>>
    BY <1>8 DEF MutateRefused
  <2>2. w \in applied => wr[w].committed
    BY <1>8, <1>s DEF MutateRefused, Sound, Honest
  <2>3. QED
    BY <1>8, <2>1, <2>2, ReturnSound, <1>r DEF MutateRefused, Mark, Ended, TypeOK
<1>9. CASE Rebuild(w)
  <2> DEFINE ws == Written(wr[w].ws.db, RebuiltFiles(wr[w].ws.db, wr[w].ws.files), Signed)
             r == [wr[w] EXCEPT !.ws = ws, !.pc = "check", !.i = 2]
  <2>1. wr' = [wr EXCEPT ![w] = r]
    BY <1>9 DEF Rebuild
  <2>2. ws \in Objects
    BY <1>s, RebuiltType, WrittenType DEF Objects
  <2>n. 2 \in 1..5 /\ 2 \in 2..Len(Artifacts)
    BY ArtifactOrder
  <2> HIDE DEF ws
  <2>3. /\ r \in Writer /\ r.pc = "check" /\ r.mode = wr[w].mode /\ r.committed = wr[w].committed
        /\ r.i = 2
    BY <1>s, <2>2, <2>n DEF Writer, PC
  <2> HIDE DEF r
  <2>4. Sound(call[w], r, w \in applied)
    BY <1>9, <1>s, <2>3, <2>n DEF Rebuild, Sound, Placed, Routed, Honest, Prepared, Before, Derived
  <2>5. QED
    BY <1>9, <2>1, <2>3, <2>4, <1>k DEF Rebuild
<1>10. CASE PrepareFails(w)
  <2>1. Return(w, Mark(w, wr[w].committed)) /\ UNCHANGED <<obj, call, applied>> /\ Failing
    BY <1>10 DEF PrepareFails
  <2>2. /\ w \in applied => wr[w].committed
        /\ wr[w].mode = "reconcile" => w \notin applied
    BY <1>10, <1>s DEF PrepareFails, Sound, Honest, Before
  <2>3. QED
    BY <2>1, <2>2, <1>f, ReturnSound, <1>r DEF Mark, Ended, TypeOK
<1>11. CASE Put(w)
  <2>1. wr[w].mode = "mutate"
    BY <1>11, <1>s DEF Put, Sound, Routed
  <2>2. obj' \in Objects
    BY <1>11, <1>s DEF Put, Objects
  <2>3. 2 \in 2..Len(Artifacts) + 1
    BY ArtifactOrder
  <2>4. wr' \in [Writers -> Writer] /\ WritersSound' /\ dirty' \in BOOLEAN
    BY <1>11, <2>1, <2>3, NextDerivedSound DEF Put
  <2>5. QED
    BY <1>11, <2>2, <2>4, <1>r DEF Put, TypeOK
<1>12. CASE PutConflict(w)
  <2>1. UNCHANGED <<obj, call, failures, applied>> /\ wr[w].mode = "mutate"
        /\ (w \in applied => wr[w].committed) /\ call[w].kind \in Mutations
    BY <1>12, <1>s DEF PutConflict, Sound, Routed, Honest
  <2>2. CASE call[w].kind = "init"
    BY <1>12, <2>1, <2>2, ReturnSound, <1>r DEF PutConflict, Ended, TypeOK
  <2>3. CASE call[w].kind # "init"
    <3>1. Retry(w, wr[w].committed) /\ wr[w].committed \in BOOLEAN
      BY <1>12, <1>s, <2>3 DEF PutConflict, Writer
    <3>2. QED
      BY <3>1, <2>1, <2>3, RetrySound, <1>r DEF Mutations, TypeOK
  <2>4. QED
    BY <2>2, <2>3
<1>13. CASE PutFails(w)
  <2>1. wr[w].mode = "mutate"
    BY <1>13, <1>s DEF PutFails, Sound, Routed
  <2>2. obj' \in Objects /\ applied' \in {applied, applied \cup {w}}
    BY <1>13, <1>s DEF PutFails, Objects
  <2>3. StoreFailed(w) /\ call' = call /\ Failing
    BY <1>13 DEF PutFails
  <2>4. wr' \in [Writers -> Writer] /\ WritersSound' /\ dirty' \in BOOLEAN
    BY <1>13, <2>1, <2>2, <2>3, StoreFailedSound DEF PutFails
  <2>5. QED
    BY <2>2, <2>3, <2>4, <1>f, <1>r DEF TypeOK
<1>14. CASE Check(w)
  <2>1. UNCHANGED <<obj, call, failures, applied>>
    BY <1>14 DEF Check
  <2>2. CASE Goto(w, "etag")
    <3> DEFINE r == [wr[w] EXCEPT !.pc = "etag"]
    <3>1. wr' = [wr EXCEPT ![w] = r] /\ dirty' = dirty
      BY <2>2 DEF Goto
    <3>2. r \in Writer
      BY <1>s DEF Writer, PC
    <3>3. Sound(call[w], r, w \in applied)
      BY <1>14, <1>s DEF Check, Sound, Placed, Routed, Honest, Prepared, Before, Derived, Writer
    <3>4. QED
      BY <2>1, <3>1, <3>2, <3>3, <1>k
  <2>3. CASE LostRace(w)
    BY <1>14, <2>1, <2>3, LostRaceSound, <1>r DEF Check, Derived, TypeOK
  <2>4. QED
    BY <1>14, <2>2, <2>3 DEF Check
<1>15. CASE ReadETag(w)
  <2> DEFINE e == obj[Artifacts[wr[w].i]]
             r == [wr[w] EXCEPT !.detag = e, !.pc = "putderived"]
  <2>1. wr' = [wr EXCEPT ![w] = r]
    BY <1>15 DEF ReadETag
  <2>2. Artifacts[wr[w].i] \in Fields
    BY <1>15, <1>s, ArtifactOrder DEF ReadETag, Sound, Placed
  <2>3. e \in DBObject \cup FilesObject
    BY <1>s, <2>2, CopyType
  <2> HIDE DEF e
  <2>4. r \in Writer
    BY <1>s, <2>3 DEF Writer, PC
  <2>5. Sound(call[w], r, w \in applied)
    BY <1>15, <1>s DEF ReadETag, Sound, Placed, Routed, Honest, Prepared, Before, Derived, Writer
  <2>6. QED
    BY <1>15, <2>1, <2>4, <2>5, <1>k DEF ReadETag
<1>16. CASE PutDerived(w)
  <2>1. Artifacts[wr[w].i] \in Fields /\ wr[w].i + 1 \in 2..Len(Artifacts) + 1
    BY <1>16, <1>s, ArtifactOrder DEF PutDerived, Sound, Placed
  <2>2. obj' \in Objects
    BY <1>16, <1>s, <2>1, CopyType DEF PutDerived
  <2>3. wr[w].mode = "mutate" => w \in applied
    BY <1>16, <1>s DEF PutDerived, Sound, Honest, Derived
  <2>4. wr' \in [Writers -> Writer] /\ WritersSound' /\ dirty' \in BOOLEAN
    BY <1>16, <2>1, <2>3, NextDerivedSound DEF PutDerived, Derived
  <2>5. QED
    BY <1>16, <2>2, <2>4, <1>r DEF PutDerived, TypeOK
<1>17. CASE PutDerivedConflict(w)
  <2>1. UNCHANGED <<obj, call, failures, applied>>
    BY <1>17 DEF PutDerivedConflict
  <2>2. CASE wr[w].inner + 1 < MaxAttempts
    <3> DEFINE r == [wr[w] EXCEPT !.inner = wr[w].inner + 1, !.pc = "check"]
    <3>1. wr' = [wr EXCEPT ![w] = r] /\ dirty' = dirty
      BY <1>17, <2>2 DEF PutDerivedConflict
    <3>2. wr[w].inner + 1 \in 0..MaxAttempts - 1
      BY <1>s, <2>2, RepoDBAssumption DEF Writer
    <3>3. r \in Writer
      BY <1>s, <3>2 DEF Writer, PC
    <3>4. Sound(call[w], r, w \in applied)
      BY <1>17, <1>s DEF PutDerivedConflict, Sound, Placed, Routed, Honest, Prepared, Before, Derived, Writer
    <3>5. QED
      BY <2>1, <3>1, <3>3, <3>4, <1>k
  <2>3. CASE ~(wr[w].inner + 1 < MaxAttempts)
    BY <1>17, <2>1, <2>3, LostRaceSound, <1>r DEF PutDerivedConflict, Derived, TypeOK
  <2>4. QED
    BY <2>2, <2>3
<1>18. CASE Final(w)
  <2>1. UNCHANGED <<obj, call, failures, applied>>
    BY <1>18 DEF Final
  <2>2. CASE Return(w, "ok")
    <3>1. /\ wr[w].mode = "reconcile" => w \notin applied /\ call[w].kind \notin {"add", "remove"}
          /\ wr[w].mode = "mutate" => w \in applied
      BY <1>18, <1>s DEF Final, Sound, Routed, Honest, Derived
    <3>2. QED
      BY <1>s, <2>1, <2>2, <3>1, ReturnSound, <1>r DEF Ended, TypeOK
  <2>3. CASE LostRace(w)
    BY <1>18, <2>1, <2>3, LostRaceSound, <1>r DEF Final, Derived, TypeOK
  <2>4. QED
    BY <1>18, <2>2, <2>3 DEF Final
<1>19. CASE DerivedFails(w)
  <2>1. StoreFailed(w) /\ UNCHANGED <<call, applied>> /\ Failing /\ wr[w].pc \in Derived
    BY <1>19 DEF DerivedFails, Derived
  <2>2. obj' \in Objects
    <3>1. CASE wr[w].pc = "putderived"
      <4>1. Artifacts[wr[w].i] \in Fields
        BY <3>1, <1>s, ArtifactOrder DEF Sound, Placed
      <4>2. QED
        BY <1>19, <1>s, <4>1, CopyType DEF DerivedFails
    <3>2. CASE wr[w].pc # "putderived"
      BY <1>19, <1>s, <3>2 DEF DerivedFails
    <3>3. QED
      BY <3>1, <3>2
  <2>3. wr' \in [Writers -> Writer] /\ WritersSound' /\ dirty' \in BOOLEAN
    BY <2>1, StoreFailedSound
  <2>4. QED
    BY <2>1, <2>2, <2>3, <1>f, <1>r DEF TypeOK
<1>20. QED
  BY <1>1, <1>2, <1>3, <1>4, <1>5, <1>6, <1>7, <1>8, <1>9, <1>10, <1>11, <1>12, <1>13,
     <1>14, <1>15, <1>16, <1>17, <1>18, <1>19 DEF Step

\* A crash keeps the types and leaves every writer sound.
LEMMA CrashSound ==
    ASSUME TypeOK, WritersSound, NEW p, Crash(p)
    PROVE  TypeOK' /\ WritersSound'
<1> DEFINE Dead(w) == [IdleWriter EXCEPT !.pc = "crashed", !.mode = wr[w].mode]
<1>1. ASSUME NEW w \in Writers
      PROVE  /\ Dead(w) \in Writer /\ Dead(w).pc = "crashed" /\ Dead(w).mode = wr[w].mode
             /\ ~Dead(w).committed
  <2>1. wr[w] \in Writer /\ IdleWriter \in Writer
    BY IdleWriterType DEF TypeOK
  <2>2. QED
    BY <2>1 DEF Writer, PC, IdleWriter
<1>2. ASSUME NEW w \in Writers PROVE wr'[w] \in {Dead(w), wr[w]}
  BY DEF Crash
<1> HIDE DEF Dead
<1>3. wr' \in [Writers -> Writer]
  <2>1. wr' = [w \in Writers |-> wr'[w]]
    BY DEF Crash
  <2>2. QED
    BY <1>1, <1>2, <2>1 DEF TypeOK
<1>4. WritersSound'
  <2> SUFFICES ASSUME NEW w \in Writers PROVE Sound(call[w], wr'[w], w \in applied)
    BY DEF WritersSound, Crash
  <2>1. Sound(call[w], wr[w], w \in applied)
    BY DEF WritersSound
  <2>2. Sound(call[w], Dead(w), w \in applied)
    BY <1>1, <2>1 DEF Sound, Placed, Routed, Honest, Prepared, Before, Derived
  <2>3. QED
    BY <1>2, <2>1, <2>2
<1>5. failures' \in 0..MaxFailures
  <2>1. Failing
    BY DEF Crash
  <2>2. QED
    BY <2>1, RepoDBAssumption DEF Failing, TypeOK
<1>6. QED
  BY <1>3, <1>4, <1>5 DEF Crash, TypeOK

(***************************************************************************)
(* What a step does to the canonical database.                             *)
(***************************************************************************)
Untouched == obj'.db = obj.db /\ applied' = applied

\* The put of w lands: a whole call, applied to the database as it is now.
Landed(w) ==
    /\ call[w].kind \in Mutations
    /\ call[w].kind = "init" => obj.db = NoDB
    /\ Allowed(call[w], obj.db)
    /\ obj'.db = Effect(call[w], obj.db)
    /\ applied' = applied \cup {w}
    /\ wr'[w].pc \notin {"ok", "failed", "crashed"}

Move(w) ==
    /\ call' = call
    /\ \A v \in Writers \ {w} : wr'[v] = wr[v]
    /\ wr'[w].pc # "idle"
    /\ Untouched \/ Landed(w)

\* The control operators change their own writer, and never back to idle.
LEMMA ControlMoves ==
    ASSUME TypeOK, NEW w \in Writers
    PROVE  /\ \A pc \in Ended : Return(w, pc) =>
                 (\A v \in Writers \ {w} : wr'[v] = wr[v]) /\ wr'[w].pc = pc
           /\ \A b \in BOOLEAN : Retry(w, b) =>
                 /\ \A v \in Writers \ {w} : wr'[v] = wr[v]
                 /\ wr'[w].pc \in {"fetch", IF b THEN "committed" ELSE "failed"}
           /\ \A from : NextDerived(w, from) =>
                 (\A v \in Writers \ {w} : wr'[v] = wr[v]) /\ wr'[w].pc \in {"final", "check"}
           /\ LostRace(w) => (\A v \in Writers \ {w} : wr'[v] = wr[v]) /\ wr'[w].pc # "idle"
           /\ StoreFailed(w) =>
                 /\ \A v \in Writers \ {w} : wr'[v] = wr[v]
                 /\ wr'[w].pc # "idle"
                 /\ wr[w].mode = "mutate" => wr'[w].pc \in {"fetch", "committed"}
<1>1. ASSUME NEW pc \in Ended, Return(w, pc)
      PROVE  (\A v \in Writers \ {w} : wr'[v] = wr[v]) /\ wr'[w].pc = pc
  BY <1>1 DEF Return, TypeOK, IdleWriter
<1>2. ASSUME NEW b \in BOOLEAN, Retry(w, b)
      PROVE  /\ \A v \in Writers \ {w} : wr'[v] = wr[v]
             /\ wr'[w].pc \in {"fetch", IF b THEN "committed" ELSE "failed"}
  BY <1>1, <1>2 DEF Retry, Mark, Ended, TypeOK, IdleWriter
<1>3. ASSUME NEW from, NextDerived(w, from)
      PROVE  (\A v \in Writers \ {w} : wr'[v] = wr[v]) /\ wr'[w].pc \in {"final", "check"}
  <2>1. wr[w] \in Writer
    BY DEF TypeOK
  <2>2. CASE wr' = [wr EXCEPT ![w].pc = "final"]
    BY <2>1, <2>2 DEF TypeOK, Writer
  <2>3. CASE \E k \in Pending(w, from) :
               wr' = [wr EXCEPT ![w].pc = "check", ![w].i = k, ![w].inner = 0]
    BY <2>1, <2>3 DEF TypeOK, Writer
  <2>4. QED
    BY <1>3, <2>2, <2>3 DEF NextDerived
<1>4. LostRace(w) => (\A v \in Writers \ {w} : wr'[v] = wr[v]) /\ wr'[w].pc # "idle"
  BY <1>1, <1>2 DEF LostRace, Ended
<1>5. ASSUME StoreFailed(w)
      PROVE  /\ \A v \in Writers \ {w} : wr'[v] = wr[v]
             /\ wr'[w].pc # "idle"
             /\ wr[w].mode = "mutate" => wr'[w].pc \in {"fetch", "committed"}
  BY <1>5, <1>1, <1>2 DEF StoreFailed, Ended
<1>6. QED
  BY <1>1, <1>2, <1>3, <1>4, <1>5

\* Every step of a writer is a move, and it starts the call or belongs to an active one.
LEMMA StepMoves ==
    ASSUME TypeOK, WritersSound, NEW w \in Writers, Start(w) \/ Lock(w) \/ Step(w)
    PROVE  /\ Move(w)
           /\ Active(w) \/ (wr[w].pc = "idle" /\ wr'[w].pc \notin Ended /\ Untouched)
<1>s. /\ Sound(call[w], wr[w], w \in applied)
      /\ wr[w] \in Writer /\ obj \in Objects
  BY DEF WritersSound, TypeOK
<1>l. ASSUME wr[w].pc = "put", obj.db = wr[w].etag,
             obj' = [obj EXCEPT !.db = wr[w].ws.db], applied' = applied \cup {w},
             wr'[w].pc \notin {"ok", "failed", "crashed"}
      PROVE  Landed(w)
  BY <1>l, <1>s DEF Landed, Sound, Routed, Prepared, Objects
<1>d. ASSUME wr[w].pc = "putderived",
             obj' = [obj EXCEPT ![Artifacts[wr[w].i]] = wr[w].ws[Artifacts[wr[w].i]]]
      PROVE  obj'.db = obj.db
  <2>1. Artifacts[wr[w].i] \in Fields /\ Artifacts[wr[w].i] # "db"
    BY <1>d, <1>s, ArtifactOrder DEF Sound, Placed
  <2>2. QED
    BY <1>d, <1>s, <2>1, CopyType DEF Writer
<1>1. CASE Start(w)
  BY <1>1, <1>s DEF Start, Move, Untouched, Ended, TypeOK, Writer
<1>2. CASE Lock(w)
  BY <1>2, <1>s DEF Lock, Move, Untouched, Active, Ended, TypeOK, Writer
<1>3. CASE Backfill(w)
  BY <1>3, <1>s, ControlMoves DEF Backfill, Move, Untouched, Active, Ended, TypeOK, Writer
<1>4. CASE Probe(w)
  BY <1>4, <1>s DEF Probe, Move, Untouched, Active, Ended, TypeOK, Writer
<1>5. CASE Fetch(w)
  BY <1>5, <1>s DEF Fetch, Move, Untouched, Active, Ended, TypeOK, Writer
<1>6. CASE FetchNothing(w)
  BY <1>6, ControlMoves DEF FetchNothing, Move, Untouched, Active, Ended
<1>7. CASE Mutate(w)
  BY <1>7, <1>s DEF Mutate, Move, Untouched, Active, Ended, TypeOK, Writer
<1>8. CASE MutateRefused(w)
  BY <1>8, ControlMoves DEF MutateRefused, Mark, Move, Untouched, Active, Ended
<1>9. CASE Rebuild(w)
  BY <1>9, <1>s DEF Rebuild, Move, Untouched, Active, Ended, TypeOK, Writer
<1>10. CASE PrepareFails(w)
  BY <1>10, ControlMoves DEF PrepareFails, Mark, Move, Untouched, Active, Ended
<1>11. CASE Put(w)
  BY <1>11, <1>l, ControlMoves DEF Put, Move, Active, Ended
<1>12. CASE PutConflict(w)
  BY <1>12, <1>s, ControlMoves DEF PutConflict, Move, Untouched, Active, Ended, Writer
<1>13. CASE PutFails(w)
  <2>1. wr[w].mode = "mutate"
    BY <1>13, <1>s DEF PutFails, Sound, Routed
  <2>2. QED
    BY <1>13, <1>l, <2>1, ControlMoves DEF PutFails, Move, Untouched, Active, Ended
<1>14. CASE Check(w)
  BY <1>14, <1>s, ControlMoves DEF Check, Goto, Move, Untouched, Active, Ended, TypeOK, Writer
<1>15. CASE ReadETag(w)
  BY <1>15, <1>s DEF ReadETag, Move, Untouched, Active, Ended, TypeOK, Writer
<1>16. CASE PutDerived(w)
  BY <1>16, <1>d, ControlMoves DEF PutDerived, Move, Untouched, Active, Ended
<1>17. CASE PutDerivedConflict(w)
  BY <1>17, <1>s, ControlMoves
     DEF PutDerivedConflict, Move, Untouched, Active, Ended, TypeOK, Writer
<1>18. CASE Final(w)
  BY <1>18, ControlMoves DEF Final, Move, Untouched, Active, Ended
<1>19. CASE DerivedFails(w)
  BY <1>19, <1>d, ControlMoves DEF DerivedFails, Move, Untouched, Active, Ended
<1>20. QED
  BY <1>1, <1>2, <1>3, <1>4, <1>5, <1>6, <1>7, <1>8, <1>9, <1>10, <1>11, <1>12, <1>13,
     <1>14, <1>15, <1>16, <1>17, <1>18, <1>19 DEF Step

\* A landed put overwrites only the packages of its own call.
LEMMA MoveKeeps ==
    ASSUME TypeOK, AppliedKept, NEW w \in Writers, Move(w)
    PROVE  AppliedKept'
<1>1. CASE Untouched
  BY <1>1 DEF AppliedKept, Untouched, Move
<1>2. CASE Landed(w)
  <2> SUFFICES ASSUME NEW u \in applied', call[u].kind = "add", NEW n \in Touched(call[u])
               PROVE  \/ obj'.db.pk[n] = call[u].pkgs[n]
                      \/ \E v \in applied' \ {u} : n \in Touched(call[v])
    BY DEF AppliedKept, Move
  <2>1. n \in Names
    BY DEF Touched
  <2>2. CASE u = w
    <3>1. obj'.db.pk = Upsert(call[u], obj.db.pk)
      BY <1>2, <2>2 DEF Landed, Effect
    <3>2. QED
      BY <3>1, <2>1 DEF Upsert
  <2>3. CASE u # w /\ n \in Touched(call[w])
    BY <1>2, <2>3 DEF Landed
  <2>4. CASE u # w /\ n \notin Touched(call[w])
    <3>1. obj'.db.pk[n] = obj.db.pk[n]
      <4>1. CASE call[w].kind = "add"
        BY <1>2, <2>1, <2>4, <4>1 DEF Landed, Effect, Upsert
      <4>2. CASE call[w].kind = "remove"
        BY <1>2, <2>1, <2>4, <4>2 DEF Landed, Effect, Without
      <4>3. CASE call[w].kind = "init"
        BY <1>2, <2>1, <4>3 DEF Landed, Effect, NoDB
      <4>4. QED
        BY <1>2, <4>1, <4>2, <4>3 DEF Landed, Mutations
    <3>2. u \in applied
      BY <1>2, <2>4 DEF Landed
    <3>3. \/ obj.db.pk[n] = call[u].pkgs[n]
          \/ \E v \in applied \ {u} : n \in Touched(call[v])
      BY <3>2 DEF AppliedKept
    <3>4. applied \subseteq applied'
      BY <1>2 DEF Landed
    <3>5. QED
      BY <3>1, <3>3, <3>4
  <2>5. QED
    BY <2>2, <2>3, <2>4
<1>3. QED
  BY <1>1, <1>2 DEF Move

(***************************************************************************)
(* Theorems.                                                               *)
(***************************************************************************)
\* The invariant is inductive: whatever the writers do, in any order and however
\* often the store fails, every writer knows what its put may have done.
THEOREM Inductive == Spec => []IndInv
<1>1. ASSUME IndInv, [Next]_vars PROVE IndInv'
  <2> USE <1>1 DEF IndInv
  <2>1. ASSUME NEW w \in Writers, Start(w) \/ Lock(w) \/ Step(w) PROVE IndInv'
    BY <2>1, StepSound, StepMoves, MoveKeeps
  <2>2. ASSUME NEW p, Crash(p) PROVE IndInv'
    <3>1. AppliedKept'
      BY <2>2 DEF Crash, AppliedKept
    <3>2. QED
      BY <2>2, <3>1, CrashSound
  <2>3. CASE UNCHANGED vars
    BY <2>3 DEF vars, TypeOK, WritersSound, AppliedKept
  <2>4. QED
    BY <2>1, <2>2, <2>3 DEF Next
<1>2. QED
  BY <1>1, InitSound, PTL DEF Spec

\* Objects, workspaces and ETags hold what the tool can write, and no loop of run,
\* reconcileDBLocked or commitOneDerived counts past maxDBAttempts.
THEOREM TypeCorrect == Spec => []TypeOK
<1>1. IndInv => TypeOK
  BY DEF IndInv
<1>2. QED
  BY <1>1, Inductive, PTL

\* An add that RepoAddBatch acknowledged stays in the database until a landed call
\* touches the same package, and an error without CanonicalCommitError means that
\* nothing was written: for any writers of any processes.
THEOREM AnswersTrue == Spec => []AnswersAreTrue
<1>1. IndInv => AnswersAreTrue
  <2> SUFFICES ASSUME IndInv PROVE AnswersAreTrue
    OBVIOUS
  <2>1. \A w \in Writers : Honest(call[w], wr[w], w \in applied)
    BY DEF IndInv, WritersSound, Sound
  <2>2. UnmarkedErrorIsClean
    BY <2>1 DEF UnmarkedErrorIsClean, Honest
  <2>3. NoLostUpdate
    BY <2>1 DEF NoLostUpdate, Honest, IndInv, AppliedKept
  <2>4. QED
    BY <2>2, <2>3 DEF AnswersAreTrue
<1>2. QED
  BY <1>1, Inductive, PTL

(***************************************************************************)
(* The refinement.  Start is Begin, a landed put is Apply, a return is     *)
(* End, a crash is Die, and every other step is invisible.                 *)
(***************************************************************************)
Phase(s) == IF s.pc \in {"idle"} \cup Ended THEN s.pc ELSE "busy"
States == [w \in Writers |-> Phase(wr[w])]

\* Both specifications mean the same by a database and a call.
LEMMA SameData ==
    /\ Abstract!DBObject = DBObject
    /\ \A c, db : Abstract!Allowed(c, db) = Allowed(c, db) /\ Abstract!Effect(c, db) = Effect(c, db)
<1>1. Abstract!NoPkg = NoPkg /\ Abstract!Empty = Empty /\ Abstract!Packages = Packages
  BY DEF Abstract!NoPkg, NoPkg, Abstract!Empty, Empty, Abstract!Packages, Packages
<1>2. ASSUME NEW c PROVE Abstract!Touched(c) = Touched(c)
  BY <1>1 DEF Abstract!Touched, Touched
<1>3. ASSUME NEW c, NEW db PROVE Abstract!Allowed(c, db) = Allowed(c, db)
  <2>1. Abstract!AddAllowed(c, db) = AddAllowed(c, db)
    BY <1>2, Zenon DEF Abstract!AddAllowed, AddAllowed
  <2>2. Abstract!RemoveAllowed(c, db) = RemoveAllowed(c, db)
    BY <1>1, <1>2, Zenon DEF Abstract!RemoveAllowed, RemoveAllowed
  <2>3. QED
    BY <2>1, <2>2, Zenon DEF Abstract!Allowed, Allowed
<1>4. ASSUME NEW c, NEW db PROVE Abstract!Effect(c, db) = Effect(c, db)
  <2>1. Abstract!Upsert(c, db.pk) = Upsert(c, db.pk) /\ Abstract!Without(c, db.pk) = Without(c, db.pk)
    BY <1>1, <1>2 DEF Abstract!Upsert, Upsert, Abstract!Without, Without
  <2>2. QED
    BY <1>1, <2>1, Zenon DEF Abstract!Effect, Effect
<1>5. QED
  BY <1>1, <1>3, <1>4 DEF Abstract!DBObject, DBObject

\* Every step of an operation is a step of the abstract database or none.
LEMMA StepRefines ==
    ASSUME IndInv, IndInv', NEW w \in Writers, Start(w) \/ Lock(w) \/ Step(w)
    PROVE  [Abstract!ANext]_(Abstract!avars)
<1> DEFINE r == Phase(wr'[w])
<1>m. Move(w) /\ (Active(w) \/ (wr[w].pc = "idle" /\ wr'[w].pc \notin Ended /\ Untouched))
  BY StepMoves DEF IndInv
<1>s. States' = [States EXCEPT ![w] = r]
  <2>1. \A v \in Writers \ {w} : wr'[v] = wr[v]
    BY <1>m DEF Move
  <2>2. \A v \in Writers : States'[v] = [States EXCEPT ![w] = r][v]
    BY <2>1 DEF States
  <2>3. QED
    BY <2>2 DEF States
<1>t. States[w] = Phase(wr[w]) /\ States'[w] = r
  BY DEF States
<1>h. Honest(call[w], wr'[w], w \in applied') /\ wr'[w].pc \in PC /\ call' = call
  BY <1>m DEF IndInv, WritersSound, Sound, TypeOK, Writer, Move
<1> USE DEF States, Phase
<1>1. CASE wr[w].pc = "idle" /\ wr'[w].pc \notin Ended /\ Untouched
  <2>1. States[w] = "idle" /\ r = "busy"
    BY <1>1, <1>m DEF Move
  <2>2. Abstract!Begin(w)
    BY <1>1, <1>s, <1>h, <2>1 DEF Abstract!Begin, Untouched
  <2>3. QED
    BY <2>2 DEF Abstract!ANext
<1>2. CASE Active(w) /\ Untouched
  <2>1. States[w] = "busy"
    BY <1>2 DEF Active
  <2>2. CASE wr'[w].pc \in Ended
    <3>1. r = wr'[w].pc /\ r \in {"ok", "failed", "committed", "crashed"}
      BY <2>2 DEF Ended
    <3>2. Abstract!End(w)
      BY <1>2, <1>s, <1>h, <2>1, <3>1 DEF Abstract!End, Untouched, Honest
    <3>3. QED
      BY <3>2 DEF Abstract!ANext
  <2>3. CASE wr'[w].pc \notin Ended
    <3>1. r = "busy"
      BY <1>m, <2>3 DEF Move
    <3>2. States' = States
      BY <1>s, <2>1, <3>1
    <3>3. QED
      BY <1>2, <1>h, <3>2 DEF Abstract!avars, Untouched
  <2>4. QED
    BY <2>2, <2>3
<1>3. CASE Active(w) /\ Landed(w)
  <2>1. States[w] = "busy"
    BY <1>3 DEF Active
  <2>2. r \in {"busy", "committed"}
    BY <1>3, <1>m DEF Landed, Move, Ended
  <2>3. Abstract!Apply(w)
    BY <1>3, <1>s, <1>h, <2>1, <2>2, SameData DEF Abstract!Apply, Landed
  <2>4. QED
    BY <2>3 DEF Abstract!ANext
<1>4. QED
  BY <1>m, <1>1, <1>2, <1>3 DEF Move

\* A crash ends the operations of a process, as the abstract database has it.
LEMMA CrashRefines ==
    ASSUME IndInv, NEW p, Crash(p)
    PROVE  Abstract!ANext
<1> DEFINE dead == {w \in Writers : Process[w] = p /\ Active(w)}
<1>1. dead \in SUBSET {w \in Writers : States[w] = "busy"}
  BY DEF Active, States, Phase
<1>2. States' = [w \in Writers |-> IF w \in dead THEN "crashed" ELSE States[w]]
  <2>1. ASSUME NEW w \in Writers
        PROVE  Phase(wr'[w]) = IF w \in dead THEN "crashed" ELSE Phase(wr[w])
    BY DEF Crash, Phase, IdleWriter, Ended
  <2>2. QED
    BY <2>1 DEF States
<1>3. UNCHANGED <<obj, call, applied>>
  BY DEF Crash
<1> HIDE DEF dead
<1>4. Abstract!Die
  BY <1>1, <1>2, <1>3 DEF Abstract!Die, States, Phase
<1>5. QED
  BY <1>4 DEF Abstract!ANext

\* The transaction implements the atomic database: the canonical object changes only
\* by a whole call applied to its current value under its condition, and the answers
\* of RepoAddBatch, RepoRemove and InitArch say what happened.
THEOREM Refinement == Spec => AppearsAtomic
<1>1. Init => Abstract!AInit
  <2> SUFFICES ASSUME Init PROVE Abstract!AInit
    OBVIOUS
  <2>1. obj.db \in DBObject
    BY InitSound DEF IndInv, TypeOK, Objects
  <2>2. QED
    BY <2>1, SameData DEF Init, IdleWriter, Abstract!AInit
<1>2. ASSUME IndInv, IndInv', [Next]_vars PROVE [Abstract!ANext]_(Abstract!avars)
  <2>1. CASE UNCHANGED vars
    BY <2>1 DEF vars, Abstract!avars
  <2>2. QED
    BY <1>2, <2>1, StepRefines, CrashRefines DEF Next
<1>3. QED
  BY <1>1, <1>2, Inductive, PTL DEF Spec, AppearsAtomic, Abstract!ASpec

(***************************************************************************)
(* The derived objects, for one server process and calls that remove       *)
(* nothing.  Both conditions are needed: two processes may interleave      *)
(* their derived puts, and a removal retried after an ambiguous put finds  *)
(* nothing to remove and publishes the stale .files it fetched.            *)
(***************************************************************************)
OneServer ==
    /\ \A v, w \in Writers : Process[v] = Process[w]
    /\ \A c \in Calls : c.kind # "remove"

\* DerivedFollows of a set of objects.
Complete(o) ==
    /\ o.files.live /\ o.files.pk = o.db.pk
    /\ o.files.lists = {n \in Names : o.db.pk[n] # NoPkg}
    /\ Signed => o.dbsig = o.db /\ o.filessig = o.files

\* .files is right about every package the call does not touch.
Near(c, o) ==
    \A n \in Names \ Touched(c) :
        /\ o.files.pk[n] = o.db.pk[n]
        /\ n \in o.files.lists <=> o.db.pk[n] # NoPkg

\* What the holder of the mutex read is what the store has.
Current(s, o) ==
    /\ s.pc = "fetch" => (s.i > 1 => s.ws.db = o.db) /\ (s.i > 2 => s.ws.files = o.files)
    /\ s.pc = "mutate" => s.ws.db = o.db /\ s.ws.files = o.files
    /\ s.pc = "put" => s.etag = o.db
    /\ s.pc \in Derived => s.ws.db = o.db /\ o.db.live
    /\ s.mode = "reconcile" /\ (s.pc = "mutate" \/ (s.pc = "fetch" /\ s.i > 1)) => o.db.live
    /\ s.pc = "putderived" => s.detag = o[Artifacts[s.i]]

\* Its workspace is complete, and what it has published so far comes from there.
Publishing(s, o, d) ==
    /\ s.pc \in Derived /\ s.mode = "reconcile" => Complete(s.ws)
    /\ s.pc \in {"put"} \cup Derived /\ s.mode = "mutate" /\ ~d => Complete(s.ws)
    /\ s.pc \in Derived =>
          \A k \in 2..Len(Artifacts) :
              (s.pc = "final" \/ k < s.i) /\ s.ws[Artifacts[k]].live =>
                  o[Artifacts[k]] = s.ws[Artifacts[k]]

\* What a mutation that follows no failed call finds, in its first round and later.
Undisturbed(c, s, o, d) ==
    /\ s.mode = "mutate" /\ ~d => Near(c, o)
    /\ s.mode = "mutate" /\ ~d /\ s.pc \in {"probe", "fetch", "mutate", "put"} /\ ~s.committed
          /\ o.db.live => Complete(o)

Held(c, s, o, d) == Current(s, o) /\ Publishing(s, o, d) /\ Undisturbed(c, s, o, d)

FilesInv ==
    /\ \A v, w \in Writers : Holding(v) /\ Holding(w) => v = w
    /\ ~obj.db.live => obj = NoObjects
    /\ (\A w \in Writers : ~Holding(w)) /\ ~dirty /\ obj.db.live => Complete(obj)
    /\ \A w \in Writers : Holding(w) => Held(call[w], wr[w], obj, dirty)

\* A mutation makes a complete workspace out of one that is right about the rest.
LEMMA CompleteEffect ==
    ASSUME NEW c \in Call, NEW o \in Objects, Near(c, o), c.kind \in {"add", "init"},
           c.kind = "init" => o.db = NoDB /\ o.files = NoFiles
    PROVE  Complete(Written(Effect(c, o.db), MutatedFiles(c, o.db, o.files), Signed))
<1> DEFINE e == Effect(c, o.db)
           f == MutatedFiles(c, o.db, o.files)
<1>1. f.live /\ f.pk = e.pk
  BY DEF MutatedFiles
<1>2. f.lists = {n \in Names : e.pk[n] # NoPkg}
  <2>0. o.files.lists \subseteq Names /\ Touched(c) \subseteq Names
    BY DEF Objects, FilesObject, Touched
  <2>1. CASE c.kind = "add"
    <3>1. f.lists = (KeptLists(o.db, o.files) \ Touched(c)) \cup Touched(c)
      BY <2>1 DEF MutatedFiles
    <3>2. e.pk = Upsert(c, o.db.pk)
      BY <2>1 DEF Effect
    <3> HIDE DEF e, f
    <3>3. \A n \in Names : e.pk[n] = IF n \in Touched(c) THEN c.pkgs[n] ELSE o.db.pk[n]
      BY <3>2 DEF Upsert
    <3>4. \A n \in Touched(c) : e.pk[n] # NoPkg
      BY <3>3, <2>0 DEF Touched
    <3>5. \A n \in Names \ Touched(c) : n \in KeptLists(o.db, o.files) <=> e.pk[n] # NoPkg
      BY <3>3 DEF KeptLists, Near
    <3>6. KeptLists(o.db, o.files) \subseteq Names
      BY <2>0 DEF KeptLists
    <3>7. QED
      BY <2>0, <3>1, <3>4, <3>5, <3>6
  <2>2. CASE c.kind = "init"
    <3>1. e.pk = Empty
      BY <2>2 DEF Effect
    <3>2. f.lists = {}
      BY <2>2 DEF MutatedFiles, KeptLists, NoFiles
    <3>3. QED
      BY <3>1, <3>2 DEF Empty
  <2>3. QED
    BY <2>1, <2>2
<1>3. QED
  BY <1>1, <1>2 DEF Complete, Written

\* A rebuilt pair of databases is complete.
LEMMA CompleteRebuilt ==
    ASSUME NEW db \in DBObject, NEW files
    PROVE  Complete(Written(db, RebuiltFiles(db, files), Signed))
BY DEF Complete, Written, RebuiltFiles

\* Complete objects are right about every package.
LEMMA CompleteNear ==
    ASSUME NEW o \in Objects, NEW q \in Objects, NEW c, Complete(q), o.db = q.db, o.files = q.files
    PROVE  Near(c, o)
BY DEF Complete, Near, Objects, DBObject, Packages

\* Nothing in the store: nothing to be wrong about.
LEMMA AbsentNear == ASSUME NEW c PROVE Near(c, NoObjects)
BY DEF Near, NoObjects, NoDB, NoFiles, Empty

\* The canonical put changes only packages the call touches.
LEMMA PutNear ==
    ASSUME NEW c \in Call, NEW o \in Objects, Near(c, o), c.kind \in {"add", "init"},
           c.kind = "init" => o.db = NoDB
    PROVE  Near(c, [o EXCEPT !.db = Effect(c, o.db)])
<1>1. \A n \in Names \ Touched(c) : Effect(c, o.db).pk[n] = o.db.pk[n]
  <2>1. CASE c.kind = "add"
    BY <2>1 DEF Effect, Upsert
  <2>2. CASE c.kind = "init"
    BY <2>2 DEF Effect, NoDB
  <2>3. QED
    BY <2>1, <2>2
<1>2. [o EXCEPT !.db = Effect(c, o.db)].files = o.files
      /\ [o EXCEPT !.db = Effect(c, o.db)].db = Effect(c, o.db)
  BY DEF Objects
<1>3. QED
  BY <1>1, <1>2 DEF Near

\* Once everything is published, the store is as complete as the workspace.
LEMMA Published ==
    ASSUME NEW o \in Objects, NEW ws \in Objects, Complete(ws), o.db = ws.db, ws.db.live,
           \A k \in 2..Len(Artifacts) : ws[Artifacts[k]].live => o[Artifacts[k]] = ws[Artifacts[k]]
    PROVE  Complete(o)
<1>1. 2 \in 2..Len(Artifacts) /\ Artifacts[2] = "files"
  BY RepoDBAssumption DEF Artifacts
<1>2. o.files = ws.files
  BY <1>1 DEF Complete
<1>3. ASSUME Signed PROVE o.dbsig = ws.dbsig /\ o.filessig = ws.filessig
  <2>1. /\ 3 \in 2..Len(Artifacts) /\ Artifacts[3] = "dbsig"
        /\ 4 \in 2..Len(Artifacts) /\ Artifacts[4] = "filessig"
    BY <1>3 DEF Artifacts
  <2>2. ws.dbsig.live /\ ws.filessig.live
    BY <1>3 DEF Complete
  <2>3. QED
    BY <2>1, <2>2
<1>4. QED
  BY <1>2, <1>3 DEF Complete

\* The database a deployment starts from is complete unless it is dirty.
LEMMA InitFiles == Init => FilesInv
<1> SUFFICES ASSUME Init PROVE FilesInv
  OBVIOUS
<1>1. PICK d \in InitDBs, sign \in {Signed, FALSE} :
          /\ obj = IF d.live THEN Written(d, RebuiltFiles(d, NoFiles), sign) ELSE NoObjects
          /\ dirty = (d.live /\ sign # Signed)
  BY DEF Init
<1>2. d \in DBObject
  BY RepoDBAssumption
<1>3. \A w \in Writers : ~Holding(w)
  BY DEF Init, Holding, Active, IdleWriter
<1>4. CASE d.live
  <2>1. obj.db = d
    BY <1>1, <1>4 DEF Written
  <2>2. sign = Signed => Complete(obj)
    BY <1>1, <1>2, <1>4, CompleteRebuilt
  <2>3. QED
    BY <1>1, <1>3, <1>4, <2>1, <2>2 DEF FilesInv
<1>5. CASE ~d.live
  BY <1>1, <1>3, <1>5 DEF FilesInv, NoObjects, NoDB
<1>6. QED
  BY <1>4, <1>5

\* A step of the holder of the mutex has to account for the holder only.
LEMMA HolderStep ==
    ASSUME TypeOK, FilesInv, NEW w \in Writers, Holding(w), Move(w),
           ~obj'.db.live => obj' = NoObjects,
           \/ /\ wr'[w].pc \notin {"idle", "backfill", "waiting"} \cup Ended
              /\ Held(call[w], wr'[w], obj', dirty')
           \/ wr'[w].pc \in Ended /\ (~dirty' /\ obj'.db.live => Complete(obj'))
    PROVE  FilesInv'
<1>1. \A v \in Writers \ {w} : ~Holding(v) /\ wr'[v] = wr[v]
  BY DEF FilesInv, Move
<1>2. \A v \in Writers \ {w} : ~Holding(v)'
  BY <1>1 DEF Holding, Active
<1>3. CASE wr'[w].pc \in Ended /\ (~dirty' /\ obj'.db.live => Complete(obj'))
  BY <1>2, <1>3 DEF FilesInv, Holding, Active
<1>4. CASE /\ wr'[w].pc \notin {"idle", "backfill", "waiting"} \cup Ended
           /\ Held(call[w], wr'[w], obj', dirty')
  <2>1. Holding(w)'
    BY <1>4 DEF Holding, Active
  <2>2. QED
    BY <1>2, <1>4, <2>1 DEF FilesInv, Move
<1>5. QED
  BY <1>3, <1>4

\* A writer outside the mutex disturbs nobody.
LEMMA OutsideStep ==
    ASSUME TypeOK, FilesInv, NEW w \in Writers, ~Holding(w), ~Holding(w)', Move(w),
           obj' = obj, dirty' = dirty
    PROVE  FilesInv'
<1>1. \A v \in Writers : Holding(v)' <=> Holding(v)
  BY DEF Move, Holding, Active
<1>2. \A v \in Writers : Holding(v) => wr'[v] = wr[v]
  BY DEF Move
<1>3. QED
  BY <1>1, <1>2 DEF FilesInv, Move

\* An answer that leaves the database dirty ends the holder's turn well.
LEMMA DirtyReturn ==
    ASSUME TypeOK, FilesInv, NEW w \in Writers, Holding(w), Move(w),
           ~obj'.db.live => obj' = NoObjects,
           NEW result \in Ended, Return(w, result),
           result = "committed" \/ (wr[w].mode = "reconcile" /\ result # "ok")
    PROVE  FilesInv'
<1>1. wr'[w].pc = result
  BY ControlMoves
<1>2. dirty'
  BY DEF Return
<1>3. QED
  BY <1>1, <1>2, HolderStep

\* A round that may have put its database leaves .files right about the rest, or the
\* call ends marked.
LEMMA RetryFiles ==
    ASSUME TypeOK, FilesInv, NEW w \in Writers, Holding(w), Move(w),
           ~obj'.db.live => obj' = NoObjects,
           Retry(w, TRUE), wr[w].mode = "mutate",
           ~dirty => Near(call[w], obj')
    PROVE  FilesInv'
<1>1. CASE wr[w].tries + 1 < MaxAttempts
  <2>1. /\ wr'[w].pc = "fetch" /\ wr'[w].mode = "mutate" /\ wr'[w].i = 1
        /\ wr'[w].committed /\ dirty' = dirty
    BY ZenonT(60), <1>1 DEF Retry, IdleWriter, TypeOK
  <2>2. Held(call[w], wr'[w], obj', dirty')
    BY <2>1 DEF Held, Current, Publishing, Undisturbed, Derived
  <2>3. QED
    BY <2>1, <2>2, HolderStep DEF Ended
<1>2. CASE ~(wr[w].tries + 1 < MaxAttempts)
  <2>1. Return(w, "committed")
    BY <1>2 DEF Retry, Mark
  <2>2. QED
    BY <2>1, DirtyReturn DEF Ended
<1>3. QED
  BY <1>1, <1>2

\* The same for any error of the store.
LEMMA StoreFailedFiles ==
    ASSUME TypeOK, FilesInv, NEW w \in Writers, Holding(w), Move(w),
           ~obj'.db.live => obj' = NoObjects,
           StoreFailed(w),
           wr[w].mode = "mutate" /\ ~dirty => Near(call[w], obj')
    PROVE  FilesInv'
<1>1. wr[w].mode \in {"mutate", "reconcile"}
  BY DEF TypeOK, Writer
<1>2. CASE wr[w].mode = "reconcile"
  BY <1>2, DirtyReturn DEF StoreFailed, Ended
<1>3. CASE wr[w].mode = "mutate" /\ call[w].kind = "init"
  BY <1>3, DirtyReturn DEF StoreFailed, Ended
<1>4. CASE wr[w].mode = "mutate" /\ call[w].kind # "init"
  BY <1>4, RetryFiles DEF StoreFailed
<1>5. QED
  BY <1>1, <1>2, <1>3, <1>4

\* The next derived object, when the ones before it are published.
LEMMA NextDerivedFiles ==
    ASSUME TypeOK, FilesInv, NEW w \in Writers, Holding(w), Move(w),
           NEW from \in 2..Len(Artifacts) + 1, NextDerived(w, from),
           obj'.db = wr[w].ws.db, obj'.db.live, wr[w].pc \in {"put"} \cup Derived,
           wr[w].mode = "reconcile" => Complete(wr[w].ws),
           wr[w].mode = "mutate" /\ ~dirty => Complete(wr[w].ws) /\ Near(call[w], obj'),
           \A k \in 2..Len(Artifacts) :
              k < from /\ wr[w].ws[Artifacts[k]].live => obj'[Artifacts[k]] = wr[w].ws[Artifacts[k]]
    PROVE  FilesInv'
<1>0. wr[w] \in Writer /\ wr \in [Writers -> Writer] /\ dirty' = dirty
  BY DEF TypeOK, NextDerived
<1>1. CASE Pending(w, from) = {} /\ wr' = [wr EXCEPT ![w].pc = "final"]
  <2>1. wr'[w].pc = "final" /\ wr'[w].ws = wr[w].ws /\ wr'[w].mode = wr[w].mode
    BY <1>0, <1>1 DEF Writer
  <2>2. \A k \in 2..Len(Artifacts) : k >= from => ~wr[w].ws[Artifacts[k]].live
    BY <1>1, ArtifactOrder DEF Pending
  <2>3. Held(call[w], wr'[w], obj', dirty')
    BY <1>0, <2>1, <2>2, ArtifactOrder DEF Held, Current, Publishing, Undisturbed, Derived
  <2>4. QED
    BY <2>1, <2>3, HolderStep DEF Ended
<1>2. CASE \E k \in Pending(w, from) :
             /\ \A m \in Pending(w, from) : k <= m
             /\ wr' = [wr EXCEPT ![w].pc = "check", ![w].i = k, ![w].inner = 0]
  <2>1. PICK k \in Pending(w, from) :
             /\ \A m \in Pending(w, from) : k <= m
             /\ wr' = [wr EXCEPT ![w].pc = "check", ![w].i = k, ![w].inner = 0]
    BY <1>2
  <2>2. wr'[w].pc = "check" /\ wr'[w].i = k /\ wr'[w].ws = wr[w].ws /\ wr'[w].mode = wr[w].mode
    BY <1>0, <2>1 DEF Writer
  <2>3. k \in from..Len(Artifacts)
    BY DEF Pending
  <2>4. \A m \in 2..Len(Artifacts) : m < k /\ m >= from => ~wr[w].ws[Artifacts[m]].live
    BY <2>1, <2>3, ArtifactOrder DEF Pending
  <2>5. \A m \in 2..Len(Artifacts) : m < k /\ wr[w].ws[Artifacts[m]].live =>
            obj'[Artifacts[m]] = wr[w].ws[Artifacts[m]]
    BY <2>3, <2>4, ArtifactOrder
  <2>6. Held(call[w], wr'[w], obj', dirty')
    BY <1>0, <2>2, <2>5 DEF Held, Current, Publishing, Undisturbed, Derived
  <2>7. QED
    BY <2>2, <2>6, HolderStep DEF Ended
<1>3. QED
  BY <1>1, <1>2 DEF NextDerived

\* Every step of a writer of the one server keeps the derived objects accounted for.
LEMMA StepFiles ==
    ASSUME OneServer, IndInv, FilesInv, NEW w \in Writers, Start(w) \/ Lock(w) \/ Step(w)
    PROVE  FilesInv'
<1>s. /\ TypeOK /\ Sound(call[w], wr[w], w \in applied) /\ Move(w)
      /\ wr \in [Writers -> Writer] /\ wr[w] \in Writer /\ call[w] \in Call /\ obj \in Objects
      /\ wr[w].ws \in Objects /\ wr[w].mode \in {"mutate", "reconcile"}
      /\ call[w].kind # "remove"
  BY RepoDBAssumption, StepMoves DEF OneServer, IndInv, WritersSound, TypeOK, Writer
<1>a. obj' = obj => (~obj'.db.live => obj' = NoObjects)
  BY DEF FilesInv
<1>h. Holding(w) => Held(call[w], wr[w], obj, dirty)
  BY DEF FilesInv
<1>o. ~Overlapping(w)
  BY DEF Overlapping, OneServer
<1>q. \A pc \in Ended : Return(w, pc) /\ wr[w].mode = "mutate" /\ pc # "committed" => dirty' = dirty
  <2>1. dirty \in BOOLEAN
    BY <1>s DEF TypeOK
  <2>2. QED
    BY <2>1, Zenon DEF Return
<1>1. CASE Start(w)
  <2>1. wr[w].pc = "idle" /\ wr'[w].pc \in {"backfill", "waiting"}
    BY <1>1, <1>s DEF Start, Writer
  <2>2. QED
    BY <1>1, <1>s, <2>1, OutsideStep DEF Start, Holding, Active
<1>2. CASE Lock(w)
  <2>1. \A v \in Writers : ~Holding(v)
    BY <1>2 DEF Lock, OneServer
  <2>2. /\ wr'[w].pc \in {"probe", "fetch"} /\ wr'[w].i = 1 /\ wr'[w].mode = wr[w].mode
        /\ wr'[w].committed = wr[w].committed
        /\ UNCHANGED <<obj, call, dirty>> /\ \A v \in Writers \ {w} : wr'[v] = wr[v]
    BY <1>2, <1>s DEF Lock, Writer, Sound, Placed, Before
  <2>3. \A v \in Writers \ {w} : ~Holding(v)'
    BY <2>1, <2>2 DEF Holding, Active
  <2>4. ~dirty => Near(call[w], obj)
    <3>1. CASE obj.db.live
      BY <1>s, <2>1, <3>1, CompleteNear DEF FilesInv
    <3>2. CASE ~obj.db.live
      BY <3>2, AbsentNear DEF FilesInv
    <3>3. QED
      BY <3>1, <3>2
  <2>5. Held(call[w], wr'[w], obj, dirty)
    BY <2>1, <2>2, <2>4 DEF Held, Current, Publishing, Undisturbed, Derived, FilesInv
  <2>6. Holding(w)'
    BY <2>2 DEF Holding, Active, Ended
  <2>7. QED
    BY <2>2, <2>3, <2>5, <2>6 DEF FilesInv
<1>3. CASE Backfill(w)
  <2>1. wr'[w].pc \in {"waiting", "ok"} /\ dirty' = dirty
    <3>1. wr[w].mode = "mutate"
      BY <1>3, <1>s DEF Backfill, Sound, Routed
    <3>2. CASE Return(w, "ok")
      BY <1>s, <1>q, <3>1, <3>2, ControlMoves DEF Ended
    <3>3. CASE ~Return(w, "ok")
      BY <1>3, <1>s, <3>3 DEF Backfill, Writer
    <3>4. QED
      BY <3>2, <3>3
  <2>2. QED
    BY <1>3, <1>s, <2>1, OutsideStep DEF Backfill, Holding, Active, Ended
<1>4. CASE Probe(w)
  <2>1. Holding(w)
    BY <1>4 DEF Probe, Holding, Active, Ended
  <2>2. wr[w].i = 1 /\ wr[w].mode = "mutate" /\ wr[w].ws.db = NoDB /\ ~wr[w].committed
        /\ wr[w].pc = "probe"
    BY <1>4, <1>s DEF Probe, Sound, Placed, Routed, Prepared, Before, Honest
  <2>3. CASE obj.db.live
    <3>1. wr'[w].pc = "fetch" /\ wr'[w].mode = "reconcile" /\ wr'[w].i = 1
          /\ UNCHANGED <<obj, dirty>>
      BY <1>4, <1>s, <2>2, <2>3 DEF Probe, Writer
    <3>2. Held(call[w], wr'[w], obj, dirty)
      BY <3>1 DEF Held, Current, Publishing, Undisturbed, Derived
    <3>3. QED
      BY <1>s, <1>a, <2>1, <3>1, <3>2, HolderStep DEF Ended
  <2>4. CASE ~obj.db.live
    <3>1. wr'[w] = [wr[w] EXCEPT !.pc = "mutate"] /\ UNCHANGED <<obj, dirty>>
      BY <1>4, <1>s, <2>4 DEF Probe
    <3>2. wr'[w].pc = "mutate" /\ wr'[w].mode = "mutate" /\ wr'[w].ws = wr[w].ws
          /\ wr'[w].committed = wr[w].committed
      BY <1>s, <2>2, <3>1 DEF Writer
    <3>3. wr[w].ws.files = NoFiles
      BY <2>2, <1>s DEF Sound, Prepared, Before
    <3>4. obj.db = NoDB /\ obj.files = NoFiles
      BY <2>4 DEF FilesInv, NoObjects
    <3>5. Held(call[w], wr'[w], obj, dirty)
      BY <1>h, <2>1, <2>2, <2>4, <3>2, <3>3, <3>4
         DEF Held, Current, Publishing, Undisturbed, Derived
    <3>6. QED
      BY <1>s, <1>a, <2>1, <3>1, <3>2, <3>5, HolderStep DEF Ended
  <2>5. QED
    BY <2>3, <2>4
<1>5. CASE Fetch(w)
  <2> DEFINE a == Artifacts[wr[w].i]
             ws == [wr[w].ws EXCEPT ![a] = obj[a]]
             nx == IF wr[w].i = Fetched(w) THEN "mutate" ELSE "fetch"
  <2>1. Holding(w)
    BY <1>5 DEF Fetch, Holding, Active, Ended
  <2>2. /\ wr[w].i \in 1..Fetched(w) /\ Fetched(w) \in {2, 4} /\ a \in Fields
        /\ (a = "db" <=> wr[w].i = 1)
        /\ (a = "files" <=> wr[w].i = 2)
    <3>1. wr[w].pc = "fetch"
      BY <1>5 DEF Fetch
    <3>2. wr[w].i <= IF wr[w].mode = "reconcile" THEN 2 ELSE Len(Artifacts)
      BY <1>s, <3>1 DEF Sound, Placed
    <3>3. wr[w].i \in 1..5
      BY <1>s DEF Writer
    <3>4. Len(Artifacts) \in {2, 4}
      BY ArtifactOrder
    <3>5. Fetched(w) \in {2, 4} /\ Fetched(w) <= Len(Artifacts) /\ wr[w].i \in 1..Fetched(w)
      <4>1. CASE wr[w].mode = "reconcile"
        <5>1. Fetched(w) = 2 /\ wr[w].i <= 2
          BY <4>1, <3>2 DEF Fetched
        <5>2. 2 <= Len(Artifacts)
          BY <3>4
        <5>3. QED
          BY <5>1, <5>2, <3>3
      <4>2. CASE wr[w].mode # "reconcile"
        BY <4>2, <3>2, <3>3, <3>4 DEF Fetched
      <4>3. QED
        BY <4>1, <4>2
    <3>6. wr[w].i \in 1..Len(Artifacts)
      BY <3>4, <3>5
    <3>7. QED
      BY <3>5, <3>6, ArtifactOrder, ArtifactPlaces
  <2>3. /\ a = "db" => ws.db = obj.db
        /\ a = "files" => ws.files = obj.files
        /\ a # "db" => ws.db = wr[w].ws.db
        /\ a # "files" => ws.files = wr[w].ws.files
    BY <1>s, <2>2 DEF Objects, Fields
  <2>4. /\ wr'[w].pc = nx /\ wr'[w].mode = wr[w].mode /\ wr'[w].committed = wr[w].committed
        /\ wr'[w].i = wr[w].i + 1 /\ wr'[w].ws = ws
        /\ UNCHANGED <<obj, dirty>>
    BY <1>5, <1>s DEF Fetch, Writer
  <2>5. /\ wr[w].pc = "fetch"
        /\ wr[w].mode = "reconcile" /\ wr[w].i = 1 => obj.db.live
    BY <1>5, <2>2 DEF Fetch
  <2> HIDE DEF a, ws
  <2>6. Current(wr'[w], obj)
    BY <1>h, <2>1, <2>2, <2>3, <2>4, <2>5 DEF Held, Current, Derived
  <2>7. Held(call[w], wr'[w], obj, dirty)
    BY <1>h, <2>1, <2>4, <2>5, <2>6 DEF Held, Publishing, Undisturbed, Derived
  <2>8. QED
    BY <1>s, <1>a, <2>1, <2>4, <2>7, HolderStep DEF Ended
<1>6. CASE FetchNothing(w)
  <2>1. Holding(w) /\ Return(w, "ok") /\ obj' = obj /\ ~obj.db.live
    BY <1>6 DEF FetchNothing, Holding, Active, Ended
  <2>2. QED
    BY <1>s, <1>a, <2>1, ControlMoves, HolderStep DEF Ended
<1>7. CASE Mutate(w)
  <2> DEFINE ws == MutatedWorkspace(call[w], wr[w].ws)
  <2>1. /\ Holding(w) /\ wr[w].pc = "mutate" /\ wr[w].mode = "mutate" /\ UNCHANGED <<obj, dirty>>
        /\ call[w].kind \in {"add", "init"}
        /\ wr[w].ws.db = obj.db /\ wr[w].ws.files = obj.files /\ wr[w].etag = obj.db
    BY <1>7, <1>s, <1>h DEF Mutate, Holding, Active, Ended, Sound, Routed, Prepared, Held, Current, Mutations
  <2>2. /\ wr'[w].pc = "put" /\ wr'[w].mode = "mutate" /\ wr'[w].committed = wr[w].committed
        /\ wr'[w].ws = ws /\ wr'[w].etag = wr[w].etag
    BY <1>7, <1>s, <2>1 DEF Mutate, Writer
  <2>3. ws = Written(Effect(call[w], obj.db), MutatedFiles(call[w], obj.db, obj.files), Signed)
    BY <2>1 DEF MutatedWorkspace, NothingToRemove
  <2>4. call[w].kind = "init" => obj.db = NoDB /\ obj.files = NoFiles
    BY <1>s, <2>1 DEF Sound, Prepared, FilesInv, NoDB, NoObjects
  <2>5. ~dirty => Complete(ws)
    BY <1>s, <1>h, <2>1, <2>3, <2>4, CompleteEffect DEF Held, Undisturbed
  <2> HIDE DEF ws
  <2>6. Held(call[w], wr'[w], obj, dirty)
    BY <1>h, <2>1, <2>2, <2>5 DEF Held, Current, Publishing, Undisturbed, Derived
  <2>7. QED
    BY <1>s, <1>a, <2>1, <2>2, <2>6, HolderStep DEF Ended
<1>8. CASE MutateRefused(w) \/ (PrepareFails(w) /\ wr[w].pc # "backfill")
  <2>1. /\ Holding(w) /\ Return(w, Mark(w, wr[w].committed)) /\ obj' = obj
        /\ wr[w].pc \in {"probe", "fetch", "mutate"}
    BY <1>8 DEF MutateRefused, PrepareFails, Holding, Active, Ended
  <2>2. CASE wr[w].committed \/ wr[w].mode = "reconcile"
    <3>1. Mark(w, wr[w].committed) \in Ended /\ Mark(w, wr[w].committed) # "ok"
          /\ (wr[w].committed => Mark(w, wr[w].committed) = "committed")
      BY DEF Mark, Ended
    <3>2. QED
      BY <1>s, <1>a, <2>1, <2>2, <3>1, DirtyReturn
  <2>3. CASE ~wr[w].committed /\ wr[w].mode = "mutate"
    <3>1. Return(w, "failed") /\ dirty' = dirty /\ wr'[w].pc = "failed"
      BY <1>s, <2>1, <2>3, <1>q, ControlMoves DEF Mark, Ended
    <3>2. ~dirty /\ obj.db.live => Complete(obj)
      BY <1>h, <2>1, <2>3 DEF Held, Undisturbed
    <3>3. QED
      BY <1>s, <1>a, <2>1, <3>1, <3>2, HolderStep DEF Ended
  <2>4. QED
    BY <1>s, <2>2, <2>3
<1>9. CASE PrepareFails(w) /\ wr[w].pc = "backfill"
  <2>1. wr[w].mode = "mutate" /\ ~wr[w].committed
    BY <1>9, <1>s DEF Sound, Routed, Honest, Before
  <2>2. Return(w, "failed") /\ obj' = obj
    BY <1>9, <2>1 DEF PrepareFails, Mark
  <2>3. dirty' = dirty /\ wr'[w].pc = "failed"
    BY <1>s, <1>q, <2>1, <2>2, ControlMoves DEF Ended
  <2>4. QED
    BY <1>9, <1>s, <2>2, <2>3, OutsideStep DEF Holding, Active, Ended
<1>10. CASE Rebuild(w)
  <2> DEFINE ws == Written(wr[w].ws.db, RebuiltFiles(wr[w].ws.db, wr[w].ws.files), Signed)
  <2>1. /\ Holding(w) /\ wr[w].pc = "mutate" /\ wr[w].mode = "reconcile" /\ UNCHANGED <<obj, dirty>>
        /\ wr[w].ws.db = obj.db /\ obj.db.live
    BY <1>10, <1>h DEF Rebuild, Holding, Active, Ended, Held, Current
  <2>2. /\ wr'[w].pc = "check" /\ wr'[w].mode = "reconcile" /\ wr'[w].ws = ws /\ wr'[w].i = 2
    BY <1>10, <1>s, <2>1 DEF Rebuild, Writer
  <2>3. Complete(ws) /\ ws.db = obj.db
    BY <1>s, <2>1, CompleteRebuilt DEF Objects, Written
  <2> HIDE DEF ws
  <2>4. Held(call[w], wr'[w], obj, dirty)
    BY <2>1, <2>2, <2>3, ArtifactOrder DEF Held, Current, Publishing, Undisturbed, Derived
  <2>5. QED
    BY <1>s, <1>a, <2>1, <2>2, <2>4, HolderStep DEF Ended
<1>p. ASSUME wr[w].pc = "put"
      PROVE  /\ Holding(w) /\ wr[w].mode = "mutate" /\ wr[w].etag = obj.db
             /\ [obj EXCEPT !.db = wr[w].ws.db].db = wr[w].ws.db /\ wr[w].ws.db.live
             /\ ~dirty => /\ Complete(wr[w].ws) /\ Near(call[w], obj)
                          /\ Near(call[w], [obj EXCEPT !.db = wr[w].ws.db])
  <2>1. Holding(w)
    BY <1>p DEF Holding, Active, Ended
  <2>2. wr[w].mode = "mutate" /\ wr[w].etag = obj.db /\ wr[w].ws.db = Effect(call[w], obj.db)
        /\ call[w].kind \in {"add", "init"} /\ (call[w].kind = "init" => obj.db = NoDB)
    BY <1>p, <1>s, <1>h, <2>1 DEF Sound, Routed, Prepared, Held, Current, Mutations
  <2>3. ~dirty => Complete(wr[w].ws) /\ Near(call[w], obj)
    BY <1>p, <1>h, <2>1, <2>2 DEF Held, Publishing, Undisturbed
  <2>4. wr[w].ws.db.live
    BY <2>2 DEF Effect
  <2>5. [obj EXCEPT !.db = wr[w].ws.db].db = wr[w].ws.db
    BY <1>s DEF Objects
  <2>6. QED
    BY <1>s, <2>1, <2>2, <2>3, <2>4, <2>5, PutNear
<1>11. CASE Put(w)
  <2>1. 2 \in 2..Len(Artifacts) + 1 /\ \A k \in 2..Len(Artifacts) : ~(k < 2)
    BY ArtifactOrder
  <2>2. /\ wr[w].pc = "put" /\ obj' = [obj EXCEPT !.db = wr[w].ws.db]
        /\ NextDerived(w, 2)
    BY <1>11 DEF Put
  <2>3. QED
    BY <1>s, <1>p, <2>1, <2>2, NextDerivedFiles
<1>12. CASE PutConflict(w)
  BY <1>12, <1>p, <1>o DEF PutConflict
<1>13. CASE PutFails(w)
  <2>1. /\ wr[w].pc = "put" /\ StoreFailed(w)
        /\ obj' \in {obj, [obj EXCEPT !.db = wr[w].ws.db]}
    BY <1>13 DEF PutFails
  <2>2. ~obj'.db.live => obj' = NoObjects
    BY <1>a, <1>p, <2>1
  <2>3. ~dirty => Near(call[w], obj')
    BY <1>p, <2>1
  <2>4. QED
    BY <1>s, <1>p, <2>1, <2>2, <2>3, StoreFailedFiles
<1>c. ASSUME wr[w].pc \in Derived
      PROVE  /\ Holding(w) /\ wr[w].ws.db = obj.db /\ obj.db.live
             /\ wr[w].mode = "reconcile" => Complete(wr[w].ws)
             /\ wr[w].mode = "mutate" /\ ~dirty => Complete(wr[w].ws) /\ Near(call[w], obj)
             /\ wr[w].pc = "putderived" => wr[w].detag = obj[Artifacts[wr[w].i]]
             /\ \A k \in 2..Len(Artifacts) :
                   (wr[w].pc = "final" \/ k < wr[w].i) /\ wr[w].ws[Artifacts[k]].live =>
                       obj[Artifacts[k]] = wr[w].ws[Artifacts[k]]
  <2>1. Holding(w)
    BY <1>c DEF Holding, Active, Ended, Derived
  <2>2. QED
    BY <1>c, <1>h, <2>1 DEF Held, Current, Publishing, Undisturbed, Derived
<1>14. CASE Check(w) \/ ReadETag(w)
  <2>1. /\ wr[w].pc \in Derived /\ UNCHANGED <<obj, dirty>>
        /\ wr'[w].pc \in {"etag", "putderived"} /\ wr'[w].mode = wr[w].mode /\ wr'[w].i = wr[w].i
        /\ wr'[w].ws = wr[w].ws /\ wr[w].pc # "final"
        /\ wr'[w].pc = "putderived" => wr'[w].detag = obj[Artifacts[wr[w].i]]
    <3>1. CASE Check(w)
      BY <3>1, <1>s, <1>c DEF Check, Goto, Derived, Writer
    <3>2. CASE ReadETag(w)
      BY <3>2, <1>s DEF ReadETag, Derived, Writer
    <3>3. QED
      BY <1>14, <3>1, <3>2
  <2>2. Held(call[w], wr'[w], obj, dirty)
    BY <1>c, <2>1 DEF Held, Current, Publishing, Undisturbed, Derived
  <2>3. QED
    BY <1>s, <1>a, <1>c, <2>1, <2>2, HolderStep DEF Ended
<1>d. ASSUME wr[w].pc = "putderived",
             obj' = [obj EXCEPT ![Artifacts[wr[w].i]] = wr[w].ws[Artifacts[wr[w].i]]]
      PROVE  /\ obj'.db = obj.db
             /\ wr[w].i \in 2..Len(Artifacts)
             /\ \A k \in 2..Len(Artifacts) : obj'[Artifacts[k]] =
                   IF k = wr[w].i THEN wr[w].ws[Artifacts[k]] ELSE obj[Artifacts[k]]
             /\ wr[w].mode = "mutate" /\ ~dirty => Near(call[w], obj')
  <2>1. wr[w].i \in 2..Len(Artifacts)
    BY <1>d, <1>s DEF Sound, Placed
  <2>2. obj' \in Objects /\ obj'.db = obj.db /\ obj'.files \in {obj.files, wr[w].ws.files}
    <3>1. Artifacts[wr[w].i] \in Fields /\ Artifacts[wr[w].i] # "db"
      BY <2>1, ArtifactOrder
    <3>2. QED
      BY <1>d, <1>s, <3>1, CopyType DEF Objects, Fields
  <2>3. \A k \in 2..Len(Artifacts) : obj'[Artifacts[k]] =
                   IF k = wr[w].i THEN wr[w].ws[Artifacts[k]] ELSE obj[Artifacts[k]]
    BY <1>d, <1>s, <2>1, RepoDBAssumption DEF Artifacts, Objects
  <2>4. ASSUME wr[w].mode = "mutate", ~dirty PROVE Near(call[w], obj')
    <3>1. Complete(wr[w].ws) /\ Near(call[w], obj) /\ wr[w].ws.db = obj.db
      BY <1>c, <1>d, <2>4 DEF Derived
    <3>2. CASE obj'.files = obj.files
      BY <2>2, <3>1, <3>2 DEF Near
    <3>3. CASE obj'.files = wr[w].ws.files
      BY <1>s, <2>2, <3>1, <3>3, CompleteNear
    <3>4. QED
      BY <2>2, <3>2, <3>3
  <2>5. QED
    BY <2>1, <2>2, <2>3, <2>4
<1>15. CASE PutDerived(w)
  <2>1. /\ wr[w].pc = "putderived" /\ NextDerived(w, wr[w].i + 1) /\ wr[w].pc \in Derived
        /\ obj' = [obj EXCEPT ![Artifacts[wr[w].i]] = wr[w].ws[Artifacts[wr[w].i]]]
    BY <1>15 DEF PutDerived, Derived
  <2>2. wr[w].i + 1 \in 2..Len(Artifacts) + 1
    BY <1>d, <2>1, ArtifactOrder
  <2>3. \A k \in 2..Len(Artifacts) :
            k < wr[w].i + 1 /\ wr[w].ws[Artifacts[k]].live => obj'[Artifacts[k]] = wr[w].ws[Artifacts[k]]
    <3> SUFFICES ASSUME NEW k \in 2..Len(Artifacts), k < wr[w].i + 1, wr[w].ws[Artifacts[k]].live
                 PROVE  obj'[Artifacts[k]] = wr[w].ws[Artifacts[k]]
      OBVIOUS
    <3>1. obj'[Artifacts[k]] = IF k = wr[w].i THEN wr[w].ws[Artifacts[k]] ELSE obj[Artifacts[k]]
      BY <1>d, <2>1
    <3>2. CASE k = wr[w].i
      BY <3>1, <3>2
    <3>3. CASE k # wr[w].i
      <4>1. k < wr[w].i
        BY <1>d, <2>1, <3>3, ArtifactOrder
      <4>2. obj[Artifacts[k]] = wr[w].ws[Artifacts[k]]
        BY <1>c, <2>1, <4>1
      <4>3. QED
        BY <3>1, <3>3, <4>2
    <3>4. QED
      BY <3>2, <3>3
  <2>4. QED
    BY <1>s, <1>c, <1>d, <2>1, <2>2, <2>3, NextDerivedFiles
<1>16. CASE PutDerivedConflict(w)
  BY <1>16, <1>c, <1>o DEF PutDerivedConflict, Derived
<1>17. CASE Final(w)
  <2>1. wr[w].pc \in Derived /\ wr[w].pc = "final" /\ obj' = obj /\ Return(w, "ok")
    BY <1>17, <1>c DEF Final, Derived
  <2>2. Complete(wr[w].ws) => Complete(obj)
    BY <1>s, <1>c, <2>1, Published
  <2>3. ~dirty' => Complete(wr[w].ws)
    BY <1>s, <1>c, <2>1 DEF Return
  <2>4. QED
    BY <1>s, <1>a, <1>c, <2>1, <2>2, <2>3, ControlMoves, HolderStep DEF Ended
<1>18. CASE DerivedFails(w)
  <2>1. wr[w].pc \in Derived /\ StoreFailed(w)
    BY <1>18 DEF DerivedFails, Derived
  <2>2. CASE obj' = obj
    BY <1>s, <1>a, <1>c, <2>1, <2>2, StoreFailedFiles
  <2>3. CASE /\ wr[w].pc = "putderived"
             /\ obj' = [obj EXCEPT ![Artifacts[wr[w].i]] = wr[w].ws[Artifacts[wr[w].i]]]
    BY <1>s, <1>c, <1>d, <2>1, <2>3, StoreFailedFiles
  <2>4. QED
    BY <1>18, <2>2, <2>3 DEF DerivedFails
<1>19. QED
  BY <1>1, <1>2, <1>3, <1>4, <1>5, <1>6, <1>7, <1>8, <1>9, <1>10, <1>11, <1>12, <1>13,
     <1>14, <1>15, <1>16, <1>17, <1>18 DEF Step

\* For one server process whose calls remove nothing: whenever no call is under way
\* and none ended badly since the last reconcile, .files has exactly the packages of
\* .db with all their file lists, and both signatures match, however often the store
\* failed and the calls of dbMutation.run retried in between.
THEOREM FilesFollow == OneServer => (Spec => []FilesFollowDatabase)
<1> SUFFICES ASSUME OneServer PROVE Spec => []FilesFollowDatabase
  OBVIOUS
<1>1. ASSUME IndInv, FilesInv, [Next]_vars PROVE FilesInv'
  <2>1. ASSUME NEW p \in {Process[w] : w \in Writers}, Crash(p) PROVE FilesInv'
    <3>1. \A w \in Writers : ~Holding(w)'
      BY <2>1 DEF Crash, OneServer, Holding, Active, IdleWriter, Ended
    <3>2. dirty' /\ obj' = obj
      BY <2>1 DEF Crash
    <3>3. QED
      BY <1>1, <3>1, <3>2 DEF FilesInv
  <2>2. CASE UNCHANGED vars
    <3>1. \A w \in Writers : Holding(w)' <=> Holding(w)
      BY <2>2 DEF vars, Holding, Active
    <3>2. QED
      BY <1>1, <2>2, <3>1 DEF vars, FilesInv
  <2>3. QED
    BY <1>1, <2>1, <2>2, StepFiles DEF Next
<1>2. FilesInv => FilesFollowDatabase
  BY DEF FilesInv, FilesFollowDatabase, DerivedFollows, Complete, Holding
<1>3. QED
  BY <1>1, <1>2, InitFiles, Inductive, PTL DEF Spec
=============================================================================
