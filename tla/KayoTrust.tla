------------------------------ MODULE KayoTrust ------------------------------
(***************************************************************************)
(* kayo's trust decisions for one package base.  Overlays, an ayato        *)
(* catalog and the AUR may each list it, under an account and at a commit  *)
(* that both move.  Command processes review and approve it, remove it,    *)
(* change the whitelist and the vouched accounts, verify a transaction and *)
(* serve; every one of them reads the trust file once, and the ones that   *)
(* change it write it back whole, with no lock.  The reviewed commit is    *)
(* served from a repository that Materialize replaces in two renames.      *)
(*                                                                         *)
(* Account 0 is no account (an orphan, or a failed lookup).                *)
(***************************************************************************)
EXTENDS Naturals, FiniteSets

CONSTANTS TrustProcs, Accounts, MaxCommit,
          MaxEvents,      \* commands started and moves of the sources
          MaxFaults       \* failures and crashes

NoAccount == 0
Sources == {"overlay", "ayato", "aur"}

VARIABLES ktList,      \* source -> {} or {[maint, commit]}
          ktVerifies,  \* the ayato source is delegated and verifies now
          ktFile,      \* the trust file: [appr, maints, white]
          ktRepo,      \* the served repository: {} or {commit}
          ktKept,      \* backups that a failed rollback left behind
          ktP,         \* process -> what it does
          ktEvents, ktFaults,    \* how many happened so far
          ktVetted,    \* <<source, account>> an approval was ever saved for
          ktWhite,     \* the base was ever whitelisted
          ktReviewed,  \* commits ever scanned for an approval
          ktPinned     \* a pin was published, and neither removed since nor
                       \* left to a crash

ktVars == <<ktList, ktVerifies, ktFile, ktRepo, ktKept, ktP, ktEvents, ktFaults, ktVetted,
            ktWhite, ktReviewed, ktPinned>>

EmptyStore == [appr |-> {}, maints |-> {}, white |-> FALSE]
NoPackage == [source |-> "none", maint |-> NoAccount, commit |-> 0, deleg |-> FALSE]
TrustIdle == [pc |-> "idle", op |-> "none", pkg |-> NoPackage, mem |-> EmptyStore, prev |-> {}]

KTInit ==
  /\ ktList = [s \in Sources |-> IF s = "aur" THEN {[maint |-> 1, commit |-> 1]} ELSE {}]
  /\ ktVerifies = FALSE
  /\ ktFile = EmptyStore /\ ktRepo = {} /\ ktKept = {}
  /\ ktP = [p \in TrustProcs |-> TrustIdle]
  /\ ktEvents = 0 /\ ktFaults = 0
  /\ ktVetted = {} /\ ktWhite = FALSE /\ ktReviewed = {} /\ ktPinned = FALSE

KTWorld == <<ktFile, ktRepo, ktKept, ktP, ktFaults, ktVetted, ktWhite, ktReviewed, ktPinned>>
KTHistory == <<ktVetted, ktWhite, ktReviewed, ktPinned>>
Event == ktEvents < MaxEvents /\ ktEvents' = ktEvents + 1
Step(p, r) == ktP' = [ktP EXCEPT ![p] = r]

(***************************************************************************)
(* The sources                                                             *)
(***************************************************************************)
\* The newest commit anyone made.
LastCommit == LET made == {e.commit : e \in UNION {ktList[s] : s \in Sources}}
              IN CHOOSE c \in made : \A d \in made : d <= c

\* A push, an adoption or an orphaning, on the AUR.
AURMoves ==
  /\ Event
  /\ \/ /\ LastCommit < MaxCommit
        /\ ktList' = [ktList EXCEPT !["aur"] = {[e EXCEPT !.commit = LastCommit + 1] : e \in @}]
     \/ \E a \in Accounts \cup {NoAccount} :
          ktList' = [ktList EXCEPT !["aur"] = {[e EXCEPT !.maint = a] : e \in @}]
  /\ UNCHANGED <<ktVerifies, KTWorld>>

\* fetchOverlay and Sync, Source.Sync: a source lists the base or stops to;
\* the overlay is owned by the configured account.
SourceMoves ==
  /\ Event
  /\ \E s \in Sources \ {"aur"} :
       ktList' = [ktList EXCEPT ![s] = IF @ # {} THEN {} ELSE {[maint |-> 1, commit |-> LastCommit]}]
  /\ UNCHANGED <<ktVerifies, KTWorld>>

\* AddDelegated: Verified turns with syncs and with time.
VerifiedMoves == /\ Event
                 /\ ktVerifies' = ~ktVerifies
                 /\ UNCHANGED <<ktList, KTWorld>>

\* Composite.add's order and Resolve: overlays before ayato, and the AUR when
\* neither has the name.
Winner == IF ktList["overlay"] # {} THEN "overlay"
          ELSE IF ktList["ayato"] # {} THEN "ayato" ELSE "aur"

Found(s) == {[source |-> s, maint |-> e.maint, commit |-> e.commit,
              deleg |-> s = "ayato" /\ ktVerifies] : e \in ktList[s]}

(***************************************************************************)
(* The trust store                                                         *)
(***************************************************************************)
Approve(st, pkg) ==
  [st EXCEPT !.appr = {[source |-> pkg.source, maint |-> pkg.maint, commit |-> pkg.commit]},
             !.maints = IF pkg.maint = NoAccount THEN @ ELSE @ \cup {<<pkg.source, pkg.maint>>}]

RemoveApproval(st) == [st EXCEPT !.appr = {}]
SetWhitelist(st, on) == [st EXCEPT !.white = on]
UntrustMaintainer(st, key) == [st EXCEPT !.maints = @ \ {key}]

\* Mutant: an approval holds for every source.
EvaluateAnySource(st, pkg) ==
  \/ pkg.source = "overlay" \/ st.white
  \/ \E a \in st.appr : a.maint = pkg.maint \/ <<pkg.source, pkg.maint>> \in st.maints

\* Trusted, by Evaluate.
Evaluate(st, pkg) ==
  \/ pkg.source = "overlay"
  \/ st.white
  \/ \E a \in st.appr :
       /\ a.source = pkg.source
       /\ \/ a.maint = pkg.maint
          \/ pkg.maint # NoAccount /\ <<pkg.source, pkg.maint>> \in st.maints

EvaluateResolved(st, pkg) == pkg.deleg \/ Evaluate(st, pkg)

(***************************************************************************)
(* Reviewing and approving                                                 *)
(***************************************************************************)
\* resolvePackageSource: the record of the winning source; never the AUR's
\* when another one lists the base.
ReviewTarget == Found(Winner)

\* Resolve: the clone has the head of now.
ReviewClone(p) ==
  /\ Event
  /\ ktP[p].pc = "idle"
  /\ \E op \in {"add", "update"}, e \in ReviewTarget :
       Step(p, [TrustIdle EXCEPT !.op = op, !.pkg = e,
                  !.pc = IF e.source = "aur" THEN "meta" ELSE "open"])
  /\ UNCHANGED <<ktList, ktVerifies, ktFile, ktRepo, ktKept, ktFaults, KTHistory>>

\* aurMeta: the account as it is after the clone, or none when the lookup
\* fails.
ReviewMeta(p) ==
  /\ ktP[p].pc = "meta"
  /\ \E a \in {NoAccount} \cup {e.maint : e \in ktList["aur"]} :
       Step(p, [ktP[p] EXCEPT !.pc = "open", !.pkg.maint = a])
  /\ UNCHANGED <<ktEvents, ktList, ktVerifies, ktFile, ktRepo, ktKept, ktFaults, KTHistory>>

\* Update: only a base that is approved already.
UpdateTracked(op) == op = "update" => ktFile.appr # {}

\* Scan, trust.Open and the refusals: findings of high severity without
\* --force, an update of a base that is not tracked.
ReviewOpen(p) ==
  /\ ktP[p].pc = "open"
  /\ \/ Step(p, TrustIdle) /\ UNCHANGED ktReviewed
     \/ /\ UpdateTracked(ktP[p].op)
        /\ Step(p, [ktP[p] EXCEPT !.pc = "publish", !.mem = ktFile])
        /\ ktReviewed' = ktReviewed \cup {ktP[p].pkg.commit}
  /\ UNCHANGED <<ktEvents, ktList, ktVerifies, ktFile, ktRepo, ktKept, ktFaults, ktVetted, ktWhite, ktPinned>>

\* Mutant: the pin is cloned from the source as it is now.
MaterializedHead(p) == {e.commit : e \in ktList[ktP[p].pkg.source]}

\* The commit a materialized repository has as its head: the pinned one, of
\* the checkout at hand.
Materialized(p) == {ktP[p].pkg.commit}

\* Materialize, first rename: the pin in place is set aside.
SetAside(p) ==
  /\ ktP[p].pc = "publish"
  /\ ktRepo' = {}
  /\ Step(p, [ktP[p] EXCEPT !.pc = "rename", !.prev = ktRepo])
  /\ UNCHANGED <<ktEvents, ktList, ktVerifies, ktFile, ktKept, ktFaults, KTHistory>>

AfterPin(p) == IF ktP[p].op = "serve" THEN "serving" ELSE "save"

\* Mutant: a failed second rename returns at once.
PublishPinNoRollback(p) ==
  /\ ktP[p].pc = "rename"
  /\ \/ /\ ktRepo = {} /\ ktRepo' = Materialized(p)
        /\ ktPinned' = TRUE
        /\ Step(p, [ktP[p] EXCEPT !.pc = AfterPin(p), !.prev = {}])
        /\ UNCHANGED <<ktKept, ktFaults>>
     \/ /\ ktRepo # {} \/ ktFaults < MaxFaults
        /\ ktFaults' = IF ktRepo # {} THEN ktFaults ELSE ktFaults + 1
        /\ Step(p, [ktP[p] EXCEPT !.pc = IF ktP[p].op = "serve" THEN "serving" ELSE "idle", !.prev = {}])
        /\ UNCHANGED <<ktRepo, ktKept, ktPinned>>
  /\ UNCHANGED <<ktEvents, ktList, ktVerifies, ktFile, ktVetted, ktWhite, ktReviewed>>

\* Materialize, second rename: it fails over a repository another process put
\* there, or on an I/O error; then the previous pin is renamed back, and kept
\* aside when that fails too.
PublishPin(p) ==
  /\ ktP[p].pc = "rename"
  /\ \/ /\ ktRepo = {} /\ ktRepo' = Materialized(p)
        /\ ktPinned' = TRUE
        /\ Step(p, [ktP[p] EXCEPT !.pc = AfterPin(p), !.prev = {}])
        /\ UNCHANGED <<ktKept, ktFaults>>
     \/ /\ ktRepo # {} \/ ktFaults < MaxFaults
        /\ ktFaults' = IF ktRepo # {} THEN ktFaults ELSE ktFaults + 1
        /\ \/ ktRepo = {} /\ ktRepo' = ktP[p].prev /\ UNCHANGED ktKept
           \/ ktKept' = ktKept \cup ktP[p].prev /\ UNCHANGED ktRepo
        /\ Step(p, [ktP[p] EXCEPT !.pc = IF ktP[p].op = "serve" THEN "serving" ELSE "idle", !.prev = {}])
        /\ UNCHANGED ktPinned
  /\ UNCHANGED <<ktEvents, ktList, ktVerifies, ktFile, ktVetted, ktWhite, ktReviewed>>

\* Approve, TrustMaintainer and Save: the whole file, from what was read.
ApproveSave(p) ==
  /\ ktP[p].pc = "save"
  /\ \/ /\ ktFile' = Approve(ktP[p].mem, ktP[p].pkg)
        /\ ktVetted' = ktVetted \cup {<<ktP[p].pkg.source, ktP[p].pkg.maint>>}
     \/ UNCHANGED <<ktFile, ktVetted>>
  /\ Step(p, TrustIdle)
  /\ UNCHANGED <<ktEvents, ktList, ktVerifies, ktRepo, ktKept, ktFaults, ktWhite, ktReviewed, ktPinned>>

(***************************************************************************)
(* The other commands                                                      *)
(***************************************************************************)
\* trust remove, trust whitelist add and remove: Open first.
EditOpen(p) ==
  /\ Event
  /\ ktP[p].pc = "idle"
  /\ \E op \in {"remove", "untrust", "whitelist", "unwhitelist"} :
       Step(p, [TrustIdle EXCEPT !.op = op, !.pc = "edit", !.mem = ktFile])
  /\ UNCHANGED <<ktList, ktVerifies, ktFile, ktRepo, ktKept, ktFaults, KTHistory>>

\* gitserve.Remove, for the removal of an approval only.
RemoveRepo(p) ==
  /\ ktP[p].pc = "edit"
  /\ IF ktP[p].op = "remove"
     THEN ktRepo' = {} /\ ktPinned' = FALSE
     ELSE UNCHANGED <<ktRepo, ktPinned>>
  /\ Step(p, [ktP[p] EXCEPT !.pc = "editsave"])
  /\ UNCHANGED <<ktEvents, ktList, ktVerifies, ktFile, ktKept, ktFaults, ktVetted, ktWhite, ktReviewed>>

\* RemoveApproval, UntrustMaintainer, AddWhitelist, RemoveWhitelist, then Save.
EditSave(p) ==
  /\ ktP[p].pc = "editsave"
  /\ LET st == ktP[p].mem
     IN \/ ktP[p].op = "remove" /\ ktFile' = RemoveApproval(st)
        \/ ktP[p].op = "untrust" /\ \E k \in st.maints : ktFile' = UntrustMaintainer(st, k)
        \/ ktP[p].op = "untrust" /\ st.maints = {} /\ ktFile' = st
        \/ ktP[p].op = "whitelist" /\ ktFile' = SetWhitelist(st, TRUE)
        \/ ktP[p].op = "unwhitelist" /\ ktFile' = SetWhitelist(st, FALSE)
  /\ ktWhite' = (ktWhite \/ ktFile'.white)
  /\ Step(p, TrustIdle)
  /\ UNCHANGED <<ktEvents, ktList, ktVerifies, ktRepo, ktKept, ktFaults, ktVetted, ktReviewed, ktPinned>>

\* verify, the install hook: Open, then Resolve through the sources or the
\* AUR, then the verdict; in warn mode everything passes.
VerifyOpen(p) ==
  /\ Event
  /\ ktP[p].pc = "idle"
  /\ Step(p, [TrustIdle EXCEPT !.op = "verify", !.pc = "resolve", !.mem = ktFile])
  /\ UNCHANGED <<ktList, ktVerifies, ktFile, ktRepo, ktKept, ktFaults, KTHistory>>

\* checkCloneDrift: an approved base also fails when the helper's own checkout
\* is at another commit.
CloneDrift(st) == {FALSE, st.appr # {}}

VerifyResolve(p) ==
  /\ ktP[p].pc = "resolve"
  /\ \E e \in Found(Winner), drifted \in CloneDrift(ktP[p].mem) :
       Step(p, [ktP[p] EXCEPT !.pkg = e,
                  !.pc = IF EvaluateResolved(ktP[p].mem, e) /\ ~drifted
                         THEN "passed" ELSE "refused"])
  /\ UNCHANGED <<ktEvents, ktList, ktVerifies, ktFile, ktRepo, ktKept, ktFaults, KTHistory>>

VerifyReturns(p) ==
  /\ ktP[p].pc \in {"passed", "refused"}
  /\ Step(p, TrustIdle)
  /\ UNCHANGED <<ktEvents, ktList, ktVerifies, ktFile, ktRepo, ktKept, ktFaults, KTHistory>>

\* MaterializePins: the approved commit, where an overlay's checkout has it.
OverlayPins == {a.commit : a \in {b \in ktFile.appr : \E e \in ktList["overlay"] : b.commit <= e.commit}}

\* Run: the store is opened once, approved overlay pins are materialized, and
\* requests are gated with that store.
Serve(p) ==
  /\ Event
  /\ ktP[p].pc = "idle"
  /\ LET up == [TrustIdle EXCEPT !.op = "serve", !.mem = ktFile]
     IN \/ OverlayPins = {} /\ Step(p, [up EXCEPT !.pc = "serving"])
        \/ \E c \in OverlayPins :
             Step(p, [up EXCEPT !.pc = "publish", !.pkg.source = "overlay", !.pkg.commit = c])
  /\ UNCHANGED <<ktList, ktVerifies, ktFile, ktRepo, ktKept, ktFaults, KTHistory>>

\* gate in enforce mode: what a listing of the daemon shows now.
GateKeeps(p, pkg) == EvaluateResolved(ktP[p].mem, pkg)

\* The process ends, wherever it is; a pin set aside stays in the staging
\* directory.
TrustCrash(p) ==
  /\ ktP[p].pc # "idle"
  /\ ktP[p].pc = "serving" \/ ktFaults < MaxFaults
  /\ ktFaults' = IF ktP[p].pc = "serving" THEN ktFaults ELSE ktFaults + 1
  /\ ktPinned' = (ktPinned /\ ktP[p].pc # "rename")
  /\ Step(p, TrustIdle)
  /\ UNCHANGED <<ktEvents, ktList, ktVerifies, ktFile, ktRepo, ktKept, ktVetted, ktWhite, ktReviewed>>

KTNext ==
  \/ AURMoves \/ SourceMoves \/ VerifiedMoves
  \/ \E p \in TrustProcs :
       \/ ReviewClone(p) \/ ReviewMeta(p) \/ ReviewOpen(p)
       \/ SetAside(p) \/ PublishPin(p) \/ ApproveSave(p)
       \/ EditOpen(p) \/ RemoveRepo(p) \/ EditSave(p)
       \/ VerifyOpen(p) \/ VerifyResolve(p) \/ VerifyReturns(p)
       \/ Serve(p) \/ TrustCrash(p)

KTSpec == KTInit /\ [][KTNext]_ktVars

(***************************************************************************)
(* Properties                                                              *)
(***************************************************************************)
\* The served repository has a commit that a review scanned, whatever the
\* sources did meanwhile ("what was audited equals what gets built").
ServedWasReviewed == ktRepo \cup ktKept \subseteq ktReviewed

\* What lets pkg pass: its source, a whitelisting or an approval of its account.
Vetted(pkg) == \/ pkg.source = "overlay" \/ pkg.deleg \/ ktWhite
               \/ <<pkg.source, pkg.maint>> \in ktVetted

\* A transaction that the hook lets pass, and a package that the daemon lists
\* in enforce mode, belong to an account that some saved approval named on
\* that very source, unless the base is an overlay's, was whitelisted or is
\* vouched for by a verified catalog.
TakeoverIsCaught ==
  \A p \in TrustProcs :
    /\ ktP[p].pc = "passed" => Vetted(ktP[p].pkg)
    /\ ktP[p].pc = "serving" => \A e \in Found(Winner) : GateKeeps(p, e) => Vetted(e)

\* A published pin is served until it is removed: a replacement that fails
\* restores it or keeps its backup, also when two processes replace it.
PinSurvives ==
  ktPinned /\ (\A p \in TrustProcs : ktP[p].pc # "rename") => ktRepo \cup ktKept # {}

\* Review, as a whole: what is served was reviewed, a new owner is noticed, and an
\* approval that was reported is there, with two processes at work.
ApprovalsHold == ServedWasReviewed /\ TakeoverIsCaught /\ PinSurvives
=============================================================================
