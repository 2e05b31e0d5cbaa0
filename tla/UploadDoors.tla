---------------------------- MODULE UploadDoors ----------------------------
(***************************************************************************)
(* The three ways a package reaches ayato's publication, and what each     *)
(* lets through: the blinky form (one package), the multipart batch, and   *)
(* presigned puts followed by a commit.  Sizes are small numbers of a      *)
(* common unit; a file name is a number and 0 is no artifact name.         *)
(***************************************************************************)
EXTENDS Naturals, Sequences, SequencesExt, FiniteSets, FiniteSetsExt

CONSTANTS DefaultPackageBytes, MaxSignatureBytes, OverheadBytes,
          DefaultBatchPackages, DefaultBatchBytes,
          UploadSettings,     \* records [maxSize, maxBatch, maxPackages, requireSign, provenance, keyring]
          UploadForms         \* records [pkgs, sigs] of sequences

ASSUME DoorAssumption ==
  /\ {DefaultPackageBytes, MaxSignatureBytes, OverheadBytes, DefaultBatchPackages, DefaultBatchBytes} \subseteq Nat
  /\ OverheadBytes > 0
  /\ \A s \in UploadSettings : {s.maxSize, s.maxBatch, s.maxPackages} \subseteq Nat
  /\ \A form \in UploadForms :
       /\ form.pkgs \in Seq([file : Nat, size : Nat, trait : STRING])
       /\ form.sigs \in Seq([of : Nat, size : Nat, good : BOOLEAN])

VARIABLE doorCase             \* the settings, the form and what each door published

DoorInit == doorCase = [kind |-> "none"]

PackageBytes(configured) == IF configured > 0 THEN configured ELSE DefaultPackageBytes

MultipartBytes(configured) == PackageBytes(configured) + MaxSignatureBytes + OverheadBytes

BatchPackages(configured) == IF configured > 0 THEN configured ELSE DefaultBatchPackages

BatchBytes(configured, maxPackage) ==
  IF configured > 0 THEN configured
  ELSE Max({PackageBytes(maxPackage) + MaxSignatureBytes, DefaultBatchBytes})

Exceeds(size, configured) == size > PackageBytes(configured)

(***************************************************************************)
(* What the service asks of every package, by whichever door it came.  A   *)
(* signature is a set of at most one.                                      *)
(***************************************************************************)
validatedPackageFilename(p) == p.file # 0 /\ p.trait # "misnamed"

checkBuildinfoProvenance(s, p) == s.provenance => p.trait \notin {"foreign", "noinfo"}

checkProtectedNames(p) == p.trait # "protected"

verifySignature(s, p, sig) ==
  /\ sig = {} => ~s.requireSign
  /\ \A g \in sig : g.of = p.file /\ s.keyring /\ g.good

validate(s, p, sig) ==
  /\ ~Exceeds(p.size, s.maxSize)
  /\ p.trait # "unreadable"
  /\ validatedPackageFilename(p)
  /\ checkBuildinfoProvenance(s, p)
  /\ checkProtectedNames(p)
  /\ verifySignature(s, p, sig)

\* UploadFiles: every pair is valid and no object comes twice, or nothing is published.
UploadFiles(s, uploads) ==
  LET names == [i \in DOMAIN uploads |-> uploads[i].p.file]
  IN IF IsInjective(names) /\ \A i \in DOMAIN uploads : validate(s, uploads[i].p, uploads[i].sig)
     THEN ToSet(uploads) ELSE {}

(***************************************************************************)
(* The multipart doors                                                     *)
(***************************************************************************)
validateUploadFile(p, maxSize) == p.size > 0 /\ ~Exceeds(p.size, maxSize)

validSignatureSize(g) == g.size > 0 /\ g.size <= MaxSignatureBytes

SizesOf(files) == FoldSeq(LAMBDA f, n : n + f.size, 0, files)

\* parseUploadForm: the body is the files and one unit of framing.
FormFits(form, limit) == SizesOf(form.pkgs) + SizesOf(form.sigs) + 1 <= limit

\* The first file of a field, as FormFile returns it.
FormFile(files) == IF files = <<>> THEN {} ELSE {Head(files)}

BlinkyUpload(s, form) ==
  IF /\ FormFits(form, MultipartBytes(s.maxSize))
     /\ form.pkgs # <<>>
     /\ form.sigs = <<>> => ~s.requireSign
     /\ validateUploadFile(form.pkgs[1], s.maxSize)
     /\ \A g \in FormFile(form.sigs) : validSignatureSize(g)
  THEN UploadFiles(s, <<[p |-> form.pkgs[1], sig |-> FormFile(form.sigs)]>>)
  ELSE {}

\* The signatures of a batch: sized, named as one, one per archive.
BatchSignatures(form) ==
  /\ \A i \in DOMAIN form.sigs : validSignatureSize(form.sigs[i]) /\ form.sigs[i].of # 0
  /\ IsInjective([i \in DOMAIN form.sigs |-> form.sigs[i].of])

BatchPackageNamesLoose(form) ==
  /\ \A i \in DOMAIN form.pkgs : form.pkgs[i].file # 0
  /\ IsInjective([i \in DOMAIN form.pkgs |-> form.pkgs[i].file])

\* Its archives, and every signature has one of them.
BatchPackageNames(form) ==
  /\ \A i \in DOMAIN form.pkgs : form.pkgs[i].file # 0
  /\ IsInjective([i \in DOMAIN form.pkgs |-> form.pkgs[i].file])
  /\ \A g \in ToSet(form.sigs) : \E p \in ToSet(form.pkgs) : p.file = g.of

SignatureOf(form, p) == {g \in ToSet(form.sigs) : g.of = p.file}

\* openBatchFiles.
BatchPairs(form) ==
  [i \in DOMAIN form.pkgs |-> [p |-> form.pkgs[i], sig |-> SignatureOf(form, form.pkgs[i])]]

BatchUpload(s, form) ==
  IF /\ FormFits(form, BatchBytes(s.maxBatch, s.maxSize) + OverheadBytes)
     /\ form.pkgs # <<>> /\ Len(form.pkgs) <= BatchPackages(s.maxPackages)
     /\ Len(form.sigs) <= Len(form.pkgs)
     /\ BatchSignatures(form) /\ BatchPackageNames(form)
     /\ SizesOf(form.pkgs) + SizesOf(form.sigs) <= BatchBytes(s.maxBatch, s.maxSize)
     /\ \A p \in ToSet(form.pkgs) : validateUploadFile(p, s.maxSize)
  THEN UploadFiles(s, BatchPairs(form)) ELSE {}

(***************************************************************************)
(* The staged door: the client presigns one package with the signature     *)
(* beside it, puts both, and commits them.                                 *)
(***************************************************************************)
checkStagedSizeOfAny(s, file, isSig) == file.size <= PackageBytes(s.maxSize)

checkStagedSize(s, file, isSig) ==
  file.size <= (IF isSig THEN MaxSignatureBytes ELSE PackageBytes(s.maxSize))

\* PresignUpload's checks of one requested file, which storage then enforces.
Presignable(s, name, file, isSig) ==
  name # 0 /\ file.size > 0 /\ checkStagedSize(s, file, isSig)

StagedUploadOf(s, p, sig) ==
  IF /\ 1 + Cardinality(sig) <= BatchPackages(s.maxPackages)
     /\ Presignable(s, p.file, p, FALSE)
     /\ \A g \in sig : Presignable(s, g.of, g, TRUE)
  THEN UploadFiles(s, <<[p |-> p, sig |-> sig]>>) ELSE {}

\* uploadPackageFiles: the packages of the list, each signature with its package.
ClientPackages(form) ==
  IF \A g \in ToSet(form.sigs) : \E p \in ToSet(form.pkgs) : p.file = g.of
  THEN form.pkgs ELSE <<>>

DoorCase(s, form) ==
  /\ doorCase' =
       [kind |-> "upload", s |-> s, form |-> form,
        blinky |-> BlinkyUpload(s, form),
        batch |-> BatchUpload(s, form),
        staged |-> UNION {StagedUploadOf(s, p, SignatureOf(form, p)) :
                            p \in ToSet(ClientPackages(form))}]

DoorNext == doorCase.kind = "none" /\ \E s \in UploadSettings, form \in UploadForms : DoorCase(s, form)

\* The batch limits do not bind a lone package.  With max_batch_packages = 1
\* they do: presign counts the signature as a file of its own.
Roomy(s) ==
  /\ s.maxBatch = 0 \/ s.maxBatch >= PackageBytes(s.maxSize) + MaxSignatureBytes
  /\ BatchPackages(s.maxPackages) > 1

DoorSpec == DoorInit /\ [][DoorNext]_doorCase

\* A client tries the staged door first and falls back to the multipart one
\* when the server has no staging: for one package, with its signature or
\* without, both (and the blinky form) publish exactly the same.
DoorsAgree ==
  (/\ doorCase.kind = "upload" /\ Roomy(doorCase.s)
   /\ Len(doorCase.form.pkgs) = 1 /\ Len(doorCase.form.sigs) <= 1
   /\ \A g \in ToSet(doorCase.form.sigs) : g.of # 0 /\ g.of = doorCase.form.pkgs[1].file)
  => doorCase.batch = doorCase.staged /\ doorCase.blinky = doorCase.staged

\* A batch is published as a whole and nothing of it is dropped: one pair for
\* each package sent, under a name of its own, and every signature with the
\* package it signs.
BatchIsWhole ==
  (doorCase.kind = "upload" /\ doorCase.batch # {}) =>
    /\ {u.p : u \in doorCase.batch} = ToSet(doorCase.form.pkgs)
    /\ Cardinality(doorCase.batch) = Len(doorCase.form.pkgs)
    /\ UNION {u.sig : u \in doorCase.batch} = ToSet(doorCase.form.sigs)
    /\ \A u \in doorCase.batch : doorCase.s.requireSign => \E g \in u.sig : g.good /\ g.of = u.p.file

\* The routes, as a whole: they accept the same, and all of a batch or nothing.
DoorsHold == DoorsAgree /\ BatchIsWhole
=============================================================================
