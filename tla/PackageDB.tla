------------------------------ MODULE PackageDB ------------------------------
(***************************************************************************)
(* The data of one repository database (one repository, one architecture): *)
(* the canonical archive <repo>.db.tar.gz and the derived <repo>.files,    *)
(* and what the repository tool (internal/pacman/repo) makes of them.      *)
(*                                                                         *)
(* The native tool writes byte-stable archives, so an archive is named by  *)
(* what it contains, and an ETag (a content hash) by the archive.  A       *)
(* version stands for the whole desc entry of a package, file name         *)
(* included.                                                               *)
(***************************************************************************)
EXTENDS Integers

CONSTANTS Names, Versions

ASSUME PackageDBAssumption == Versions \subseteq Nat \ {0}

NoPkg == 0
Packages == [Names -> Versions \cup {NoPkg}]
Empty == [n \in Names |-> NoPkg]

\* The object <repo>.db.tar.gz: it may not exist.
DBObject == [live : BOOLEAN, pk : Packages]
NoDB == [live |-> FALSE, pk |-> Empty]

\* The object <repo>.files.tar.gz: its desc entries and which of them have
\* their file list.
FilesObject == [live : BOOLEAN, pk : Packages, lists : SUBSET Names]
NoFiles == [live |-> FALSE, pk |-> Empty, lists |-> {}]

(***************************************************************************)
(* One call of the repository.  pkgs are the packages to add, or the names *)
(* to remove; with check the call is conditional: every package must still *)
(* be at its expected version (NoPkg: absent), or, with idem, already be   *)
(* at the intended one.                                                    *)
(***************************************************************************)
Mutations == {"add", "remove", "init"}
Call == [kind   : Mutations \cup {"reconcile", "backfill"},
         pkgs   : Packages,
         check  : BOOLEAN,
         idem   : BOOLEAN,
         expect : Packages]

Touched(c) == {n \in Names : c.pkgs[n] # NoPkg}

\* validateAddExpectations.
AddAllowed(c, db) ==
    c.check => \A n \in Touched(c) :
                  (c.idem /\ db.pk[n] = c.pkgs[n]) \/ db.pk[n] = c.expect[n]

\* repoRemove: the database must exist; validateCurrentPackage when conditional.
RemoveAllowed(c, db) ==
    /\ db.live
    /\ c.check => \A n \in Touched(c) : db.pk[n] \in {NoPkg, c.expect[n]}

Allowed(c, db) ==
    CASE c.kind = "add" -> AddAllowed(c, db)
      [] c.kind = "remove" -> RemoveAllowed(c, db)
      [] c.kind = "init" -> ~db.live
      [] OTHER -> FALSE

\* dbBuilder.Upsert of every package of the batch, dbBuilder.Remove.
Upsert(c, pk) == [n \in Names |-> IF n \in Touched(c) THEN c.pkgs[n] ELSE pk[n]]
Without(c, pk) == [n \in Names |-> IF n \in Touched(c) THEN NoPkg ELSE pk[n]]

Effect(c, db) ==
    [live |-> TRUE,
     pk   |-> CASE c.kind = "add" -> Upsert(c, db.pk)
                [] c.kind = "remove" -> Without(c, db.pk)
                [] OTHER -> Empty]

\* ErrPackageNotFound and alreadyRemoved: the tool rewrites nothing.
NothingToRemove(c, db) ==
    c.kind = "remove" /\ \A n \in Touched(c) : db.pk[n] = NoPkg

\* dbBuilder.LoadFiles: a file list survives only if its desc entry is the one of
\* the database it is loaded beside.
KeptLists(db, files) ==
    {n \in files.lists : db.pk[n] # NoPkg /\ files.pk[n] = db.pk[n]}

\* WriteFiles after a mutation: the packages of the batch bring their lists.
MutatedFiles(c, db, files) ==
    LET pk == Effect(c, db).pk
    IN [live  |-> TRUE,
        pk    |-> pk,
        lists |-> (KeptLists(db, files) \ Touched(c))
                     \cup (IF c.kind = "add" THEN Touched(c) ELSE {})]

\* Deviation: RebuildDerived without the check for missing file lists.
RebuiltUnchecked(db, files) ==
    [live |-> TRUE, pk |-> db.pk, lists |-> KeptLists(db, files)]

\* RebuildDerived, which fetches every package whose file list is missing.
RebuiltFiles(db, files) ==
    [live |-> TRUE, pk |-> db.pk, lists |-> {n \in Names : db.pk[n] # NoPkg}]
==============================================================================
