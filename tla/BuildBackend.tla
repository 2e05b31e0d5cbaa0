---------------------------- MODULE BuildBackend ----------------------------
(***************************************************************************)
(* The build backends: the throwaway container (with the container that    *)
(* only generates a .SRCINFO), the devtools chroot and bubblewrap, as one  *)
(* backend value serves several calls, and what ayaka does with a result.  *)
(*                                                                         *)
(* A file is the stamp of the write that made it, 0 when there is none.    *)
(* Images are numbers; a call runs until its context is done, which may    *)
(* happen at any moment.                                                   *)
(***************************************************************************)
EXTENDS Naturals, FiniteSets

CONSTANTS BuildCalls, BuildKinds, PkgFiles, MaxImage, MaxBuildFaults

VARIABLES bkTag,        \* what the registry's tag points to
          bkLocal,      \* what the daemon's copy of the tag points to, 0 none
          bkPin,        \* pinnedImage and digest of the backend, 0 none
          bkC,          \* call -> its container: [image, state]
          bkTemp,       \* call -> the temporary things it made on the host
          bkDir,        \* call -> file -> stamp, where the build writes
          bkOut,        \* call -> file -> stamp, the output directory
          bkSig,        \* call -> file -> stamp of the package the .sig there is for
          bkB,          \* call -> the call
          bkFaults

bkVars == <<bkTag, bkLocal, bkPin, bkC, bkTemp, bkDir, bkOut, bkSig, bkB, bkFaults>>
bkImages == <<bkTag, bkLocal, bkPin>>
bkFiles == <<bkDir, bkOut, bkSig>>

OldStamp == 1
NewStamp == 2
NoFiles == [p \in PkgFiles |-> 0]
NoContainer == [image |-> 0, state |-> "none"]
CallStart == [pc |-> "new", kind |-> "container", over |-> FALSE, ref |-> 0, pinned |-> FALSE,
              base |-> NoFiles, todo |-> {}, result |-> {}, outcome |-> "none",
              made |-> {}, code |-> 0, killed |-> FALSE, kept |-> FALSE, sign |-> FALSE,
              published |-> {}]

\* The directories may hold packages and signatures of an earlier run.
BKInit ==
  /\ bkTag = 1 /\ bkLocal = 0 /\ bkPin = 0 /\ bkFaults = 0
  /\ bkC = [b \in BuildCalls |-> NoContainer]
  /\ bkTemp = [b \in BuildCalls |-> {}]
  /\ bkDir = [b \in BuildCalls |-> [p \in PkgFiles |-> OldStamp]]
  /\ bkOut = [b \in BuildCalls |-> [p \in PkgFiles |-> OldStamp]]
  /\ bkSig = [b \in BuildCalls |-> [p \in PkgFiles |-> OldStamp]]
  /\ bkB = [b \in BuildCalls |-> CallStart]

Call(b, r) == bkB' = [bkB EXCEPT ![b] = r]
InContainer(b) == bkB[b].kind \in {"container", "metadata"}

\* Whatever ends a call runs its deferred functions.
Unwinding(r, outcome) == [r EXCEPT !.pc = "unwind", !.outcome = outcome]

TagMoves ==
  /\ bkTag < MaxImage /\ bkTag' = bkTag + 1
  /\ UNCHANGED <<bkLocal, bkPin, bkC, bkTemp, bkFiles, bkB, bkFaults>>

\* The caller cancels, or the timeout is over.
ContextDone(b) ==
  /\ bkB[b].pc \notin {"new", "returned"} /\ ~bkB[b].over
  /\ bkFaults < MaxBuildFaults /\ bkFaults' = bkFaults + 1
  /\ Call(b, [bkB[b] EXCEPT !.over = TRUE])
  /\ UNCHANGED <<bkImages, bkC, bkTemp, bkFiles>>

\* Any call of the daemon or the file system fails.
StepFails(b) ==
  /\ bkB[b].pc \in {"pull", "inspect", "stage", "create", "start", "snapshot", "prepare", "move"}
  /\ bkFaults < MaxBuildFaults /\ bkFaults' = bkFaults + 1
  /\ Call(b, Unwinding(bkB[b], "transient"))
  /\ UNCHANGED <<bkImages, bkC, bkTemp, bkFiles>>

(***************************************************************************)
(* The container backend                                                   *)
(***************************************************************************)
currentImageReference == bkPin

\* Build and GenerateSRCINFO up to the pull: a staging directory, and the image by tag or digest.
BeginContainer(b, kind) ==
  /\ bkB[b].pc = "new"
  /\ bkTemp' = [bkTemp EXCEPT ![b] = {"staging"}]
  /\ bkDir' = [bkDir EXCEPT ![b] = NoFiles]
  /\ Call(b, [bkB[b] EXCEPT !.pc = "pull", !.kind = kind, !.ref = currentImageReference])
  /\ UNCHANGED <<bkImages, bkC, bkOut, bkSig, bkFaults>>

\* drainPullStream reads the pull to its end.
ImagePull(b) ==
  /\ bkB[b].pc = "pull" /\ ~bkB[b].over
  /\ bkLocal' = IF bkB[b].ref = 0 THEN bkTag ELSE bkLocal
  /\ Call(b, [bkB[b] EXCEPT !.pc = "inspect"])
  /\ UNCHANGED <<bkTag, bkPin, bkC, bkTemp, bkFiles, bkFaults>>

\* Deviation: the last one to look pins its image.
RecordLatest(b, seen) == IF seen THEN (IF bkB[b].ref = 0 THEN bkLocal ELSE bkB[b].ref) ELSE bkPin

\* recordImageDigest: the first digest anybody sees stays; an inspect that fails, or an
\* image without a digest, records none.
recordImageDigest(b, seen) ==
  IF seen /\ bkPin = 0 THEN (IF bkB[b].ref = 0 THEN bkLocal ELSE bkB[b].ref) ELSE bkPin

InspectImage(b, seen) ==
  /\ bkB[b].pc = "inspect"
  /\ bkPin' = recordImageDigest(b, seen)
  /\ Call(b, [bkB[b] EXCEPT !.pc = "stage", !.ref = bkPin', !.pinned = bkPin' # 0])
  /\ UNCHANGED <<bkTag, bkLocal, bkC, bkTemp, bkFiles, bkFaults>>

\* The scripts and mounts are put together and the makepkg override is staged.
StageOverride(b) ==
  /\ bkB[b].pc = "stage" /\ InContainer(b)
  /\ bkTemp' = [bkTemp EXCEPT ![b] = @ \cup {"override"}]
  /\ Call(b, [bkB[b] EXCEPT !.pc = "create"])
  /\ UNCHANGED <<bkImages, bkC, bkFiles, bkFaults>>

ContainerCreate(b) ==
  /\ bkB[b].pc = "create" /\ ~bkB[b].over
  /\ bkC' = [bkC EXCEPT ![b] = [image |-> IF bkB[b].ref = 0 THEN bkLocal ELSE bkB[b].ref,
                                state |-> "created"]]
  /\ Call(b, [bkB[b] EXCEPT !.pc = "start"])
  /\ UNCHANGED <<bkImages, bkTemp, bkFiles, bkFaults>>

ContainerStart(b) ==
  /\ bkB[b].pc = "start" /\ ~bkB[b].over
  /\ bkC' = [bkC EXCEPT ![b].state = "running"]
  /\ Call(b, [bkB[b] EXCEPT !.pc = "wait"])
  /\ UNCHANGED <<bkImages, bkTemp, bkFiles, bkFaults>>

\* The select after ContainerWait: whichever is ready, the end of the context or the exit.
\* Only Build marks an exit status as the build's failure.
WaitContainer(b) ==
  /\ bkB[b].pc = "wait" /\ InContainer(b)
  /\ \/ bkB[b].over /\ Call(b, Unwinding(bkB[b], "transient"))
     \/ /\ bkC[b].state = "exited"
        /\ Call(b, IF bkB[b].code = 0 THEN [bkB[b] EXCEPT !.pc = "collect"]
                   ELSE Unwinding(bkB[b], IF bkB[b].kind = "metadata" THEN "transient" ELSE "failed"))
  /\ UNCHANGED <<bkImages, bkC, bkTemp, bkFiles, bkFaults>>

(***************************************************************************)
(* The chroot and bubblewrap backends: a prepared environment beside the   *)
(* rootfs, then the build in the source directory itself.                  *)
(***************************************************************************)
BeginOnHost(b, kind) ==
  /\ bkB[b].pc = "new"
  /\ bkTemp' = [bkTemp EXCEPT ![b] = IF kind = "bwrap" THEN {"scratch"} ELSE {"conf"}]
  /\ Call(b, [bkB[b] EXCEPT !.pc = "snapshot", !.kind = kind])
  /\ UNCHANGED <<bkImages, bkC, bkFiles, bkFaults>>

Baseline(b) ==
  /\ bkB[b].pc = "snapshot"
  /\ Call(b, [bkB[b] EXCEPT !.pc = "prepare", !.base = bkDir[b]])
  /\ UNCHANGED <<bkImages, bkC, bkTemp, bkFiles, bkFaults>>

\* mkarchroot, or the dependency phase; then the override and the build command.
PrepareHost(b) ==
  /\ bkB[b].pc = "prepare"
  /\ IF bkB[b].over THEN Call(b, Unwinding(bkB[b], "transient")) /\ UNCHANGED bkTemp
     ELSE /\ Call(b, [bkB[b] EXCEPT !.pc = "command"])
          /\ bkTemp' = [bkTemp EXCEPT ![b] = @ \cup {IF bkB[b].kind = "bwrap" THEN "override" ELSE "chroot"}]
  /\ UNCHANGED <<bkImages, bkC, bkFiles, bkFaults>>

\* Deviation: the exit status is looked at before the context.
BuildErrorByExit(r) == IF r.code # 0 THEN "failed" ELSE "transient"

\* A command that ended badly: a done context is not the build's failure.  An error that
\* is no exit status, a command that could not start, is a transient StepFails.
BuildError(r) == IF r.over THEN "transient" ELSE "failed"

\* The command is over, by itself or killed with the context.
CommandEnds(b) ==
  LET me == bkB[b]
  IN /\ me.pc = "exited"
     /\ Call(b, IF me.code # 0 THEN Unwinding(me, BuildError(me)) ELSE [me EXCEPT !.pc = "collect"])
     /\ UNCHANGED <<bkImages, bkC, bkTemp, bkFiles, bkFaults>>

(***************************************************************************)
(* makepkg                                                                 *)
(***************************************************************************)
Running(b) == bkB[b].pc = "command" \/ bkC[b].state = "running"

MakePackage(b, p) ==
  /\ Running(b) /\ p \notin bkB[b].made
  /\ bkDir' = [bkDir EXCEPT ![b][p] = NewStamp]
  /\ Call(b, [bkB[b] EXCEPT !.made = @ \cup {p}])
  /\ UNCHANGED <<bkImages, bkC, bkTemp, bkOut, bkSig, bkFaults>>

MakepkgExits(b, code) ==
  /\ Running(b)
  /\ IF InContainer(b)
     THEN bkC' = [bkC EXCEPT ![b].state = "exited"] /\ Call(b, [bkB[b] EXCEPT !.code = code])
     ELSE Call(b, [bkB[b] EXCEPT !.pc = "exited", !.code = code]) /\ UNCHANGED bkC
  /\ UNCHANGED <<bkImages, bkTemp, bkFiles, bkFaults>>

\* A command on the host is killed with its context.
MakepkgKilled(b) ==
  /\ bkB[b].pc = "command" /\ bkB[b].over
  /\ Call(b, [bkB[b] EXCEPT !.pc = "exited", !.code = 1, !.killed = TRUE])
  /\ UNCHANGED <<bkImages, bkC, bkTemp, bkFiles, bkFaults>>

(***************************************************************************)
(* The result                                                              *)
(***************************************************************************)
\* Deviation: every package file in the directory.
CollectAll(b) == {p \in PkgFiles : bkDir[b][p] # 0}

\* The package files that were not there, or not like this, before the build.
Collect(b) == {p \in PkgFiles : bkDir[b][p] # 0 /\ bkDir[b][p] # bkB[b].base[p]}

CollectToDir(b) ==
  /\ bkB[b].pc = "collect"
  /\ Call(b, IF bkB[b].kind = "metadata" THEN Unwinding(bkB[b], "ok")
             ELSE IF Collect(b) = {} THEN Unwinding(bkB[b], "failed")
             ELSE [bkB[b] EXCEPT !.pc = "move", !.todo = Collect(b)])
  /\ UNCHANGED <<bkImages, bkC, bkTemp, bkFiles, bkFaults>>

\* MoveToDir, one package: in one rename, or copied aside first.  The backends sign
\* nothing, so no signature lies beside it to be moved along, and one that is already in
\* the output directory stays until SignFiles overwrites it.
MoveToDir(b, p) ==
  LET rest == bkB[b].todo \ {p}
  IN /\ bkB[b].pc = "move" /\ p \in bkB[b].todo
     /\ bkOut' = [bkOut EXCEPT ![b][p] = bkDir[b][p]]
     /\ bkDir' = [bkDir EXCEPT ![b][p] = 0]
     /\ Call(b, IF rest = {} THEN Unwinding([bkB[b] EXCEPT !.todo = {}, !.result = @ \cup {p}], "ok")
                ELSE [bkB[b] EXCEPT !.todo = rest, !.result = @ \cup {p}])
     /\ UNCHANGED <<bkImages, bkC, bkTemp, bkSig, bkFaults>>

(***************************************************************************)
(* The deferred functions, the container before what is mounted in it      *)
(***************************************************************************)
\* Deviation: the container is removed under the context of the build.
RemovalWorksInContext(b) == ~bkB[b].over

\* Stop and remove, under a context of their own.
RemovalWorks(b) == TRUE

ContainerRemove(b, ok) ==
  /\ bkB[b].pc = "unwind" /\ bkC[b].state # "none"
  /\ ok \/ bkFaults < MaxBuildFaults
  /\ bkFaults' = IF ok THEN bkFaults ELSE bkFaults + 1
  /\ bkC' = IF ok /\ RemovalWorks(b) THEN [bkC EXCEPT ![b].state = "none"] ELSE bkC
  /\ Call(b, [bkB[b] EXCEPT !.pc = "tidy", !.kept = ~ok])
  /\ UNCHANGED <<bkImages, bkTemp, bkFiles>>

\* Deviation: the directories go first.
TidyFirst(b) == bkB[b].pc \in {"tidy", "unwind"}

\* With the container out of the way.
TidyNow(b) == bkB[b].pc = "tidy" \/ (bkB[b].pc = "unwind" /\ bkC[b].state = "none")

RemoveTemp(b) ==
  /\ TidyNow(b) /\ bkTemp[b] # {}
  /\ bkTemp' = [bkTemp EXCEPT ![b] = {}]
  /\ UNCHANGED <<bkImages, bkC, bkFiles, bkB, bkFaults>>

PackageReturns(b) ==
  /\ TidyNow(b) /\ bkTemp[b] = {}
  /\ Call(b, [bkB[b] EXCEPT !.pc = IF bkB[b].outcome = "ok" /\ bkB[b].kind # "metadata" /\ ~bkB[b].over
                                   THEN "sign" ELSE "returned"])
  /\ UNCHANGED <<bkImages, bkC, bkTemp, bkFiles, bkFaults>>

(***************************************************************************)
(* ayaka's Package: every package signed, then all of them uploaded        *)
(***************************************************************************)
\* Deviation: a signature that is there is taken for this package's.
SignMissing(b) == {p \in bkB[b].result : bkSig[b][p] = 0}

ToSign(b) == bkB[b].result

SignFiles(b, signs) ==
  /\ bkB[b].pc = "sign"
  /\ bkSig' = IF signs
              THEN [bkSig EXCEPT ![b] = [p \in PkgFiles |-> IF p \in ToSign(b) THEN bkOut[b][p] ELSE @[p]]]
              ELSE bkSig
  /\ Call(b, [bkB[b] EXCEPT !.pc = "publish", !.sign = signs])
  /\ UNCHANGED <<bkImages, bkC, bkTemp, bkDir, bkOut, bkFaults>>

Publish(b) ==
  /\ bkB[b].pc = "publish"
  /\ Call(b, [bkB[b] EXCEPT !.pc = "returned",
                            !.published = {[p |-> p, file |-> bkOut[b][p], sig |-> bkSig[b][p]] :
                                             p \in bkB[b].result}])
  /\ UNCHANGED <<bkImages, bkC, bkTemp, bkFiles, bkFaults>>

\* A signature or the upload fails, or the context is done before.
AfterBuildFails(b) ==
  /\ bkB[b].pc \in {"sign", "publish"} /\ bkFaults < MaxBuildFaults /\ bkFaults' = bkFaults + 1
  /\ Call(b, [bkB[b] EXCEPT !.pc = "returned"])
  /\ UNCHANGED <<bkImages, bkC, bkTemp, bkFiles>>

BKNext ==
  \/ TagMoves
  \/ \E b \in BuildCalls :
       \/ \E k \in BuildKinds \cap {"container", "metadata"} : BeginContainer(b, k)
       \/ \E k \in BuildKinds \ {"container", "metadata"} : BeginOnHost(b, k)
       \/ ContextDone(b) \/ StepFails(b)
       \/ ImagePull(b) \/ \E seen \in BOOLEAN : InspectImage(b, seen)
       \/ StageOverride(b) \/ ContainerCreate(b) \/ ContainerStart(b) \/ WaitContainer(b)
       \/ Baseline(b) \/ PrepareHost(b) \/ CommandEnds(b)
       \/ \E p \in PkgFiles : MakePackage(b, p) \/ MoveToDir(b, p)
       \/ \E code \in {0, 1} : MakepkgExits(b, code)
       \/ MakepkgKilled(b)
       \/ \E signs \in BOOLEAN : SignFiles(b, signs)
       \/ CollectToDir(b) \/ \E ok \in BOOLEAN : ContainerRemove(b, ok)
       \/ RemoveTemp(b) \/ PackageReturns(b) \/ Publish(b) \/ AfterBuildFails(b)

BKSpec == BKInit /\ [][BKNext]_bkVars

(***************************************************************************)
(* What a backend promises                                                 *)
(***************************************************************************)

\* A call that returned leaves nothing on the host and no container, however
\* it ended and although its own context may be done, unless the daemon
\* refused the removal.
NothingLeftBehind ==
  \A b \in BuildCalls :
    bkB[b].pc \in {"sign", "publish", "returned"} =>
      /\ bkTemp[b] = {}
      /\ bkC[b].state = "none" \/ bkB[b].kept

\* A container that still runs has its output directory and its makepkg
\* configuration under it: the call takes the container away first.
MountsOutliveContainer ==
  \A b \in BuildCalls :
    (bkC[b].state = "running" /\ ~bkB[b].kept) => {"staging", "override"} \subseteq bkTemp[b]

\* The digest the backend reports is the image that ran in every call that
\* knew a digest, although the tag moves and calls overlap.
ReportedImageRan ==
  \A b \in BuildCalls : (bkC[b].image # 0 /\ bkB[b].pinned) => bkC[b].image = bkPin

\* A result is exactly what makepkg made in this call, all of it in the output
\* directory: no leftover of an earlier run, and no rebuild mistaken for one.
ResultIsThisBuild ==
  \A b \in BuildCalls :
    (bkB[b].outcome = "ok" /\ bkB[b].kind # "metadata") =>
      /\ bkB[b].result = bkB[b].made /\ bkB[b].result # {}
      /\ \A p \in bkB[b].result : bkOut[b][p] = NewStamp

\* A build is called failed, which its caller does not retry, only when
\* makepkg itself failed or made nothing, never because it was stopped.
FailedIsDeterministic ==
  \A b \in BuildCalls :
    bkB[b].outcome = "failed" => ~bkB[b].killed /\ (bkB[b].code # 0 \/ bkB[b].made = {})

\* A signing build uploads with every package the signature of these very
\* bytes, not the one an earlier build left beside them.
SignedIsThisBuild ==
  \A b \in BuildCalls : \A u \in bkB[b].published :
    u.file = NewStamp /\ (bkB[b].sign => u.sig = u.file)

\* A backend, as a whole: results, signatures, errors and digests are those of the
\* call, and nothing of it is left.
BackendHolds ==
  /\ ResultIsThisBuild /\ SignedIsThisBuild /\ FailedIsDeterministic
  /\ ReportedImageRan /\ NothingLeftBehind /\ MountsOutliveContainer
=============================================================================
