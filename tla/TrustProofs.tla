----------------------------- MODULE TrustProofs -----------------------------
(***************************************************************************)
(* Proofs about whom a package is taken from: kayo's trust store and pins  *)
(* (KayoTrust), kayo's signed catalogs (KayoSource), ayato's routes for CI *)
(* runs (CIAccess), and ayato's sessions and one-time credentials          *)
(* (AuthSession).                                                          *)
(***************************************************************************)
EXTENDS KayoTrust, KayoSource, CIAccess, AuthSession, FiniteSetTheorems, WellFoundedInduction, NaturalsInduction, TLAPS

(***************************************************************************)
(* kayo's trust decisions.                                                 *)
(***************************************************************************)

\* A store, on disk or read into a process, says no more than what was ever decided.
StoreBacked(st, vetted, white, reviewed) ==
  /\ \A a \in st.appr : <<a.source, a.maint>> \in vetted /\ a.commit \in reviewed
  /\ st.maints \subseteq vetted
  /\ st.white => white

\* A process works from such a store; what it is about to publish, and what it set aside, was
\* reviewed; what it let pass was vetted.
ProcessSound(r, vetted, white, reviewed) ==
  /\ StoreBacked(r.mem, vetted, white, reviewed)
  /\ r.prev \subseteq reviewed
  /\ r.pc \in {"publish", "rename", "save"} => r.pkg.commit \in reviewed
  /\ r.pc = "passed" => \/ r.pkg.source = "overlay" \/ r.pkg.deleg \/ white
                        \/ <<r.pkg.source, r.pkg.maint>> \in vetted

\* A published pin is there, or some process holds it between its two renames.
PinSomewhere ==
  ktPinned => \/ ktRepo \cup ktKept # {}
              \/ \E p \in TrustProcs : ktP[p].pc = "rename" /\ ktP[p].prev # {}

TrustAccounts == Accounts \cup {NoAccount, 1}
StoreType ==
  [appr : SUBSET [source : Sources \cup {"none"}, maint : TrustAccounts, commit : Nat],
   maints : SUBSET ((Sources \cup {"none"}) \X TrustAccounts), white : BOOLEAN]
PackageType == [source : Sources \cup {"none"}, maint : TrustAccounts, commit : Nat, deleg : BOOLEAN]
TrustType ==
  [pc : {"idle", "meta", "open", "publish", "rename", "save", "edit", "editsave", "resolve", "passed",
         "refused", "serving"},
   op : {"none", "add", "update", "remove", "untrust", "whitelist", "unwhitelist", "verify", "serve"},
   pkg : PackageType, mem : StoreType, prev : SUBSET Nat]
ListedType == [maint : TrustAccounts, commit : Nat]

\* A source lists the base at most once, the AUR always.
ListsSound ==
  /\ ktList \in [Sources -> SUBSET ListedType] /\ ktVerifies \in BOOLEAN
  /\ \A s \in Sources : \A e, f \in ktList[s] : e = f
  /\ ktList["aur"] # {}

KTTyped == ktFile \in StoreType /\ ktRepo \in SUBSET Nat /\ ktP \in [TrustProcs -> TrustType]

KTInv ==
  /\ KTTyped /\ ListsSound /\ ServedWasReviewed /\ PinSomewhere
  /\ StoreBacked(ktFile, ktVetted, ktWhite, ktReviewed)
  /\ \A p \in TrustProcs : ProcessSound(ktP[p], ktVetted, ktWhite, ktReviewed)

\* There is a newest commit.
LEMMA LastCommitType ==
  ASSUME ListsSound
  PROVE  LastCommit \in Nat
<1> DEFINE made == {e.commit : e \in UNION {ktList[s] : s \in Sources}}
<1>1. /\ ktList["aur"] \subseteq ListedType /\ ktList["ayato"] \subseteq ListedType /\ ktList["overlay"] \subseteq ListedType
      /\ \A e, f \in ktList["aur"] : e = f
      /\ \A e, f \in ktList["ayato"] : e = f
      /\ \A e, f \in ktList["overlay"] : e = f
  BY DEF ListsSound, Sources
<1>2. made = {e.commit : e \in ktList["aur"]} \cup {e.commit : e \in ktList["ayato"]} \cup {e.commit : e \in ktList["overlay"]}
  BY DEF Sources
<1>3. made \subseteq Nat
  BY <1>1, <1>2 DEF ListedType
<1>4. PICK a : ktList["aur"] = {a}
  BY <1>1 DEF ListsSound
<1>5. /\ ktList["ayato"] = {} \/ \E y : ktList["ayato"] = {y}
      /\ ktList["overlay"] = {} \/ \E o : ktList["overlay"] = {o}
  BY ZenonT(60), <1>1
<1> HIDE DEF made
<1>6. \E c \in made : \A d \in made : d <= c
  <2>1. CASE ktList["ayato"] = {} /\ ktList["overlay"] = {}
    <3>1. made = {a.commit}
      BY <1>2, <1>4, <2>1
    <3>2. QED
      BY <1>3, <3>1
  <2>2. ASSUME NEW y, ktList["ayato"] = {y}, ktList["overlay"] = {} PROVE \E c \in made : \A d \in made : d <= c
    <3>1. made = {a.commit, y.commit}
      BY <1>2, <1>4, <2>2
    <3>2. QED
      BY <1>3, <3>1
  <2>3. ASSUME NEW o, ktList["ayato"] = {}, ktList["overlay"] = {o} PROVE \E c \in made : \A d \in made : d <= c
    <3>1. made = {a.commit, o.commit}
      BY <1>2, <1>4, <2>3
    <3>2. QED
      BY <1>3, <3>1
  <2>4. ASSUME NEW y, NEW o, ktList["ayato"] = {y}, ktList["overlay"] = {o} PROVE \E c \in made : \A d \in made : d <= c
    <3>1. made = {a.commit, y.commit, o.commit}
      BY <1>2, <1>4, <2>4
    <3>2. a.commit \in Nat /\ y.commit \in Nat /\ o.commit \in Nat
      BY <1>3, <3>1
    <3>3. QED
      BY <3>1, <3>2
  <2>5. QED
    BY <1>5, <2>1, <2>2, <2>3, <2>4
<1>7. LastCommit = CHOOSE c \in made : \A d \in made : d <= c
  BY DEF LastCommit, made
<1>8. QED
  BY <1>3, <1>6, <1>7

\* What was decided only grows, so that what rests on it stays.
LEMMA DecisionsGrow ==
  ASSUME ktVetted \subseteq ktVetted', ktWhite => ktWhite', ktReviewed \subseteq ktReviewed'
  PROVE  /\ \A st : StoreBacked(st, ktVetted, ktWhite, ktReviewed) => StoreBacked(st, ktVetted', ktWhite', ktReviewed')
         /\ \A r : ProcessSound(r, ktVetted, ktWhite, ktReviewed) => ProcessSound(r, ktVetted', ktWhite', ktReviewed')
  BY DEF StoreBacked, ProcessSound

\* A process takes a step.
LEMMA KTProcess ==
  ASSUME KTInv, NEW p \in TrustProcs, NEW r \in TrustType, Step(p, r), UNCHANGED <<ktList, ktVerifies>>,
         ktVetted \subseteq ktVetted', ktWhite => ktWhite', ktReviewed \subseteq ktReviewed',
         ProcessSound(r, ktVetted', ktWhite', ktReviewed'),
         ktFile' = ktFile \/ (ktFile' \in StoreType /\ StoreBacked(ktFile', ktVetted', ktWhite', ktReviewed')),
         ktRepo' \in SUBSET Nat, ServedWasReviewed', PinSomewhere'
  PROVE  KTInv'
<1>1. ktP' = [ktP EXCEPT ![p] = r] /\ ktP \in [TrustProcs -> TrustType] /\ ktFile \in StoreType
  BY DEF Step, KTInv, KTTyped
<1>2. KTTyped'
  BY <1>1 DEF KTTyped
<1>3. ListsSound'
  BY DEF KTInv, ListsSound
<1>4. \A q \in TrustProcs : ProcessSound(ktP'[q], ktVetted', ktWhite', ktReviewed')
  BY <1>1, DecisionsGrow DEF KTInv
<1>5. StoreBacked(ktFile', ktVetted', ktWhite', ktReviewed')
  BY DecisionsGrow DEF KTInv
<1>6. QED
  BY <1>2, <1>3, <1>4, <1>5 DEF KTInv

\* The same, of a process that is not between the renames, with the pins left alone.
LEMMA KTQuiet ==
  ASSUME KTInv, NEW p \in TrustProcs, NEW r \in TrustType, Step(p, r), UNCHANGED <<ktList, ktVerifies, ktRepo, ktKept, ktPinned>>,
         ktP[p].pc # "rename",
         ktVetted \subseteq ktVetted', ktWhite => ktWhite', ktReviewed \subseteq ktReviewed',
         ProcessSound(r, ktVetted', ktWhite', ktReviewed'),
         ktFile' = ktFile \/ (ktFile' \in StoreType /\ StoreBacked(ktFile', ktVetted', ktWhite', ktReviewed'))
  PROVE  KTInv'
<1>1. ServedWasReviewed'
  BY DEF KTInv, ServedWasReviewed
<1>2. PinSomewhere'
  <2>1. \A q \in TrustProcs : ktP[q].pc = "rename" => ktP'[q] = ktP[q]
    BY DEF Step, KTInv, KTTyped
  <2>2. QED
    BY <2>1 DEF KTInv, PinSomewhere
<1>3. ktRepo' \in SUBSET Nat
  BY DEF KTInv, KTTyped
<1>4. QED
  BY <1>1, <1>2, <1>3, KTProcess

\* A process without work.
LEMMA TrustIdleSound ==
  /\ TrustIdle \in TrustType /\ TrustIdle.pc = "idle" /\ TrustIdle.op = "none" /\ TrustIdle.pkg = NoPackage
  /\ TrustIdle.mem = EmptyStore /\ TrustIdle.prev = {}
  /\ EmptyStore \in StoreType /\ NoPackage \in PackageType
  /\ \A v, w, c : ProcessSound(TrustIdle, v, w, c) /\ StoreBacked(EmptyStore, v, w, c)
<1>1. EmptyStore \in StoreType /\ EmptyStore.appr = {} /\ EmptyStore.maints = {} /\ EmptyStore.white = FALSE
  BY DEF EmptyStore, StoreType
<1>2. NoPackage \in PackageType
  BY DEF NoPackage, PackageType, NoAccount, TrustAccounts
<1>3. /\ TrustIdle \in TrustType /\ TrustIdle.pc = "idle" /\ TrustIdle.op = "none" /\ TrustIdle.pkg = NoPackage
      /\ TrustIdle.mem = EmptyStore /\ TrustIdle.prev = {}
  BY <1>1, <1>2 DEF TrustIdle, TrustType
<1>4. \A v, w, c : StoreBacked(EmptyStore, v, w, c)
  BY <1>1 DEF StoreBacked
<1>5. \A v, w, c : ProcessSound(TrustIdle, v, w, c)
  BY <1>3, <1>4 DEF ProcessSound
<1>6. QED
  BY <1>1, <1>2, <1>3, <1>4, <1>5

\* What a source lists, as a package.
LEMMA FoundType ==
  ASSUME ListsSound, NEW s \in Sources
  PROVE  \A e \in Found(s) : e \in PackageType /\ e.source = s
<1> DEFINE d == s = "ayato" /\ ktVerifies
<1>1. ktList[s] \subseteq ListedType
  BY DEF ListsSound
<1>2. d \in BOOLEAN
  OBVIOUS
<1>3. Found(s) = {[source |-> s, maint |-> e.maint, commit |-> e.commit, deleg |-> d] : e \in ktList[s]}
  BY DEF Found
<1> HIDE DEF d
<1>4. ASSUME NEW e \in ktList[s]
      PROVE  LET f == [source |-> s, maint |-> e.maint, commit |-> e.commit, deleg |-> d] IN f \in PackageType /\ f.source = s
  <2>1. e.maint \in TrustAccounts /\ e.commit \in Nat
    BY <1>1 DEF ListedType
  <2>2. QED
    BY <1>2, <2>1 DEF PackageType
<1>5. QED
  BY <1>3, <1>4

\* The sources move, and no decision does.
LEMMA KTSources ==
  ASSUME KTInv, AURMoves \/ SourceMoves \/ VerifiedMoves
  PROVE  KTInv'
<1>1. UNCHANGED KTWorld
  BY DEF AURMoves, SourceMoves, VerifiedMoves
<1>2. /\ ktList \in [Sources -> SUBSET ListedType] /\ ktVerifies \in BOOLEAN /\ ktList["aur"] # {}
      /\ \A s \in Sources : \A e, f \in ktList[s] : e = f
      /\ LastCommit \in Nat /\ LastCommit + 1 \in Nat
  BY LastCommitType DEF KTInv, ListsSound
<1>k. ASSUME NEW s \in Sources, NEW L \in SUBSET ListedType, ktList' = [ktList EXCEPT ![s] = L],
             \A e, f \in L : e = f, s = "aur" => L # {}, UNCHANGED ktVerifies
      PROVE  ListsSound'
  <2>1. \A t \in Sources : ktList'[t] = IF t = s THEN L ELSE ktList[t]
    BY <1>2, <1>k
  <2>2. ktList'["aur"] # {}
    BY <1>2, <1>k, <2>1 DEF Sources
  <2>3. QED
    BY <1>2, <1>k, <2>1, <2>2 DEF ListsSound
<1>a. "aur" \in Sources /\ ktList["aur"] \in SUBSET ListedType
  BY <1>2 DEF Sources
<1>b. PICK u \in ListedType : ktList["aur"] = {u}
  BY <1>2, <1>a
<1>3. ListsSound'
  <2>1. CASE AURMoves
    <3> DEFINE push == {[e EXCEPT !.commit = LastCommit + 1] : e \in ktList["aur"]}
               adopt(a) == {[e EXCEPT !.maint = a] : e \in ktList["aur"]}
    <3>1. CASE ktList' = [ktList EXCEPT !["aur"] = push]
      <4>1. push \in SUBSET ListedType /\ push # {} /\ \A e, f \in push : e = f
        <5>1. push = {[u EXCEPT !.commit = LastCommit + 1]} /\ [u EXCEPT !.commit = LastCommit + 1] \in ListedType
          BY <1>2, <1>b DEF ListedType
        <5>2. QED
          BY <5>1
      <4>2. QED
        BY <1>a, <1>k, <2>1, <3>1, <4>1 DEF AURMoves
    <3>2. ASSUME NEW a \in Accounts \cup {NoAccount}, ktList' = [ktList EXCEPT !["aur"] = adopt(a)]
          PROVE  ListsSound'
      <4>1. adopt(a) \in SUBSET ListedType /\ adopt(a) # {} /\ \A e, f \in adopt(a) : e = f
        <5>1. adopt(a) = {[u EXCEPT !.maint = a]} /\ [u EXCEPT !.maint = a] \in ListedType
          BY <1>b DEF ListedType, TrustAccounts
        <5>2. QED
          BY <5>1
      <4>2. QED
        BY <1>a, <1>k, <2>1, <3>2, <4>1 DEF AURMoves
    <3>3. QED
      BY <2>1, <3>1, <3>2 DEF AURMoves
  <2>2. CASE SourceMoves
    <3> DEFINE other(s) == IF ktList[s] # {} THEN {} ELSE {[maint |-> 1, commit |-> LastCommit]}
    <3>1. PICK s \in Sources \ {"aur"} : ktList' = [ktList EXCEPT ![s] = other(s)]
      BY <2>2 DEF SourceMoves
    <3>2. other(s) \in SUBSET ListedType /\ \A e, f \in other(s) : e = f
      BY <1>2 DEF ListedType, TrustAccounts
    <3>3. QED
      BY <1>k, <2>2, <3>1, <3>2 DEF SourceMoves
  <2>3. CASE VerifiedMoves
    BY <1>2, <2>3 DEF VerifiedMoves, ListsSound
  <2>4. QED
    BY <2>1, <2>2, <2>3
<1>4. KTTyped' /\ ServedWasReviewed' /\ PinSomewhere'
  BY <1>1 DEF KTInv, KTTyped, KTWorld, ServedWasReviewed, PinSomewhere
<1>5. QED
  BY <1>1, <1>3, <1>4 DEF KTInv, KTWorld

\* Reviewing, up to the pin.
LEMMA KTReview ==
  ASSUME KTInv, NEW p \in TrustProcs, ReviewClone(p) \/ ReviewMeta(p) \/ ReviewOpen(p)
  PROVE  KTInv'
<1>t. /\ ktP[p] \in TrustType /\ ProcessSound(ktP[p], ktVetted, ktWhite, ktReviewed) /\ ListsSound
      /\ ktFile \in StoreType /\ StoreBacked(ktFile, ktVetted, ktWhite, ktReviewed)
  BY DEF KTInv, KTTyped
<1>1. ASSUME ReviewClone(p) PROVE KTInv'
  <2>1. PICK op \in {"add", "update"}, e \in ReviewTarget :
          Step(p, [TrustIdle EXCEPT !.op = op, !.pkg = e, !.pc = IF e.source = "aur" THEN "meta" ELSE "open"])
    BY <1>1 DEF ReviewClone
  <2> DEFINE r == [TrustIdle EXCEPT !.op = op, !.pkg = e, !.pc = IF e.source = "aur" THEN "meta" ELSE "open"]
  <2>2. e \in PackageType
    BY <1>t, FoundType DEF ReviewTarget, Winner, Sources
  <2>3. r \in TrustType /\ r.mem = EmptyStore /\ r.prev = {} /\ r.pc \in {"meta", "open"}
    BY <2>2, TrustIdleSound DEF TrustType
  <2> HIDE DEF r
  <2>4. ProcessSound(r, ktVetted, ktWhite, ktReviewed)
    BY <2>3, TrustIdleSound DEF ProcessSound
  <2>5. Step(p, r) /\ ktP[p].pc = "idle" /\ UNCHANGED <<ktList, ktVerifies, ktFile, ktRepo, ktKept, KTHistory>>
    BY <1>1, <2>1 DEF ReviewClone, r
  <2>6. QED
    BY <2>3, <2>4, <2>5, KTQuiet DEF KTHistory
<1>2. ASSUME ReviewMeta(p) PROVE KTInv'
  <2>1. PICK a \in {NoAccount} \cup {e.maint : e \in ktList["aur"]} :
          Step(p, [ktP[p] EXCEPT !.pc = "open", !.pkg.maint = a])
    BY <1>2 DEF ReviewMeta
  <2> DEFINE r == [ktP[p] EXCEPT !.pc = "open", !.pkg = [ktP[p].pkg EXCEPT !.maint = a]]
  <2>2. a \in TrustAccounts
    <3>1. ktList["aur"] \subseteq ListedType
      BY <1>t DEF ListsSound, Sources
    <3>2. QED
      BY <3>1 DEF ListedType, TrustAccounts
  <2>3. [ktP[p].pkg EXCEPT !.maint = a] \in PackageType
    BY <1>t, <2>2 DEF TrustType, PackageType
  <2>4. r \in TrustType /\ r.mem = ktP[p].mem /\ r.prev = ktP[p].prev /\ r.pc = "open"
    BY <1>t, <2>3 DEF TrustType
  <2>5. Step(p, r)
    BY <1>t, <2>1 DEF TrustType
  <2> HIDE DEF r
  <2>6. ProcessSound(r, ktVetted, ktWhite, ktReviewed)
    BY <1>t, <2>4 DEF ProcessSound
  <2>7. ktP[p].pc = "meta" /\ UNCHANGED <<ktList, ktVerifies, ktFile, ktRepo, ktKept, KTHistory>>
    BY <1>2 DEF ReviewMeta
  <2>8. QED
    BY <2>4, <2>5, <2>6, <2>7, KTQuiet DEF KTHistory
<1>3. ASSUME ReviewOpen(p) PROVE KTInv'
  <2>0. ktP[p].pc = "open" /\ UNCHANGED <<ktList, ktVerifies, ktFile, ktRepo, ktKept, ktVetted, ktWhite, ktPinned>>
    BY <1>3 DEF ReviewOpen
  <2>1. CASE Step(p, TrustIdle) /\ UNCHANGED ktReviewed
    BY <2>0, <2>1, TrustIdleSound, KTQuiet
  <2>2. CASE ~(Step(p, TrustIdle) /\ UNCHANGED ktReviewed)
    <3> DEFINE r == [ktP[p] EXCEPT !.pc = "publish", !.mem = ktFile]
    <3>1. Step(p, r) /\ ktReviewed' = ktReviewed \cup {ktP[p].pkg.commit}
      BY <1>3, <2>2 DEF ReviewOpen
    <3>2. r \in TrustType /\ r.mem = ktFile /\ r.prev = ktP[p].prev /\ r.pc = "publish" /\ r.pkg = ktP[p].pkg
      BY <1>t DEF TrustType
    <3> HIDE DEF r
    <3>3. ProcessSound(r, ktVetted', ktWhite', ktReviewed')
      BY <1>t, <2>0, <3>1, <3>2, DecisionsGrow DEF ProcessSound
    <3>4. QED
      BY <2>0, <3>1, <3>2, <3>3, KTQuiet
  <2>3. QED
    BY <2>1, <2>2
<1>4. QED
  BY <1>1, <1>2, <1>3

\* Materialize: the two renames.
LEMMA KTPin ==
  ASSUME KTInv, NEW p \in TrustProcs, SetAside(p) \/ PublishPin(p)
  PROVE  KTInv'
<1>t. /\ ktP[p] \in TrustType /\ ProcessSound(ktP[p], ktVetted, ktWhite, ktReviewed)
      /\ ktP \in [TrustProcs -> TrustType] /\ ktRepo \in SUBSET Nat /\ ServedWasReviewed /\ PinSomewhere
  BY DEF KTInv, KTTyped
<1>n. ktP[p].pkg.commit \in Nat
  BY <1>t DEF TrustType, PackageType
<1>1. ASSUME SetAside(p) PROVE KTInv'
  <2> DEFINE r == [ktP[p] EXCEPT !.pc = "rename", !.prev = ktRepo]
  <2>1. /\ ktP[p].pc = "publish" /\ ktRepo' = {} /\ Step(p, r)
        /\ UNCHANGED <<ktList, ktVerifies, ktFile, ktKept, ktVetted, ktWhite, ktReviewed, ktPinned>>
    BY <1>1 DEF SetAside, KTHistory
  <2>2. r \in TrustType /\ r.pc = "rename" /\ r.prev = ktRepo /\ r.mem = ktP[p].mem /\ r.pkg = ktP[p].pkg
    BY <1>t DEF TrustType
  <2> HIDE DEF r
  <2>3. ProcessSound(r, ktVetted', ktWhite', ktReviewed')
    BY <1>t, <2>1, <2>2 DEF ProcessSound, ServedWasReviewed
  <2>4. ServedWasReviewed' /\ ktRepo' \in SUBSET Nat
    BY <1>t, <2>1 DEF ServedWasReviewed
  <2>5. PinSomewhere'
    <3>1. ktP'[p] = r /\ \A q \in TrustProcs : ktP[q].pc = "rename" => ktP'[q] = ktP[q]
      BY <1>t, <2>1 DEF Step
    <3>2. QED
      BY <1>t, <2>1, <2>2, <3>1 DEF PinSomewhere
  <2>6. QED
    BY <2>1, <2>2, <2>3, <2>4, <2>5, KTProcess
<1>2. ASSUME PublishPin(p) PROVE KTInv'
  <2>0. /\ ktP[p].pc = "rename" /\ ktP[p].pkg.commit \in ktReviewed /\ ktP[p].prev \subseteq ktReviewed /\ ktP[p].prev \in SUBSET Nat
        /\ UNCHANGED <<ktList, ktVerifies, ktFile, ktVetted, ktWhite, ktReviewed>>
    BY <1>2, <1>t DEF PublishPin, ProcessSound, TrustType
  <2>k. ASSUME NEW pc \in {"save", "serving", "idle"}, Step(p, [ktP[p] EXCEPT !.pc = pc, !.prev = {}]),
               ktRepo' \in SUBSET Nat, ServedWasReviewed',
               \/ ktRepo' \cup ktKept' # {}
               \/ /\ ktP[p].prev = {} /\ ktRepo \cup ktKept \subseteq ktRepo' \cup ktKept'
                  /\ ktPinned' = ktPinned
        PROVE  KTInv'
    <3> DEFINE r == [ktP[p] EXCEPT !.pc = pc, !.prev = {}]
    <3>1. r \in TrustType /\ r.pc = pc /\ r.prev = {} /\ r.mem = ktP[p].mem /\ r.pkg = ktP[p].pkg
      BY <1>t DEF TrustType
    <3>2. Step(p, r)
      BY <2>k
    <3> HIDE DEF r
    <3>3. ProcessSound(r, ktVetted', ktWhite', ktReviewed')
      BY <1>t, <2>0, <2>k, <3>1 DEF ProcessSound
    <3>4. PinSomewhere'
      <4>1. \A q \in TrustProcs : q # p => ktP'[q] = ktP[q]
        BY <1>t, <3>2 DEF Step
      <4>2. QED
        BY <1>t, <2>k, <4>1 DEF PinSomewhere
    <3>5. QED
      BY <2>0, <2>k, <3>1, <3>2, <3>3, <3>4, KTProcess
  <2>1. CASE ktRepo = {} /\ ktRepo' = Materialized(p) /\ Step(p, [ktP[p] EXCEPT !.pc = AfterPin(p), !.prev = {}]) /\ UNCHANGED ktKept
    <3>1. ktRepo' = {ktP[p].pkg.commit} /\ AfterPin(p) \in {"save", "serving", "idle"}
      BY <2>1 DEF Materialized, AfterPin
    <3>2. ServedWasReviewed' /\ ktRepo' \in SUBSET Nat /\ ktRepo' \cup ktKept' # {}
      BY <1>t, <1>n, <2>0, <2>1, <3>1 DEF ServedWasReviewed
    <3> DEFINE pc == AfterPin(p)
    <3> HIDE DEF pc
    <3>3. pc \in {"save", "serving", "idle"} /\ Step(p, [ktP[p] EXCEPT !.pc = pc, !.prev = {}])
      BY <2>1, <3>1 DEF pc
    <3>4. QED
      BY <2>k, <3>2, <3>3
  <2>2. ASSUME ~(ktRepo = {} /\ ktRepo' = Materialized(p) /\ Step(p, [ktP[p] EXCEPT !.pc = AfterPin(p), !.prev = {}]) /\ UNCHANGED ktKept)
        PROVE  KTInv'
    <3> DEFINE pc == IF ktP[p].op = "serve" THEN "serving" ELSE "idle"
    <3>1. /\ pc \in {"save", "serving", "idle"} /\ Step(p, [ktP[p] EXCEPT !.pc = pc, !.prev = {}]) /\ UNCHANGED ktPinned
          /\ \/ ktRepo = {} /\ ktRepo' = ktP[p].prev /\ UNCHANGED ktKept
             \/ ktKept' = ktKept \cup ktP[p].prev /\ UNCHANGED ktRepo
      BY <1>2, <2>2 DEF PublishPin
    <3> HIDE DEF pc
    <3>2. ServedWasReviewed' /\ ktRepo' \in SUBSET Nat
      BY <1>t, <2>0, <3>1 DEF ServedWasReviewed
    <3>3. ktP[p].prev # {} => ktRepo' \cup ktKept' # {}
      BY <3>1
    <3>4. ktP[p].prev = {} => ktRepo \cup ktKept \subseteq ktRepo' \cup ktKept'
      BY <3>1
    <3>5. QED
      BY <2>k, <3>1, <3>2, <3>3, <3>4
  <2>3. QED
    BY <2>1, <2>2
<1>3. QED
  BY <1>1, <1>2

\* A process ends, or the removal of an approval takes the repository along.
LEMMA KTRemoveOrCrash ==
  ASSUME KTInv, NEW p \in TrustProcs, RemoveRepo(p) \/ TrustCrash(p)
  PROVE  KTInv'
<1>t. /\ ktP[p] \in TrustType /\ ProcessSound(ktP[p], ktVetted, ktWhite, ktReviewed)
      /\ ktP \in [TrustProcs -> TrustType] /\ ktRepo \in SUBSET Nat /\ ServedWasReviewed /\ PinSomewhere
  BY DEF KTInv, KTTyped
<1>1. ASSUME RemoveRepo(p) PROVE KTInv'
  <2> DEFINE r == [ktP[p] EXCEPT !.pc = "editsave"]
  <2>1. /\ ktP[p].pc = "edit" /\ Step(p, r) /\ UNCHANGED <<ktList, ktVerifies, ktFile, ktKept, ktVetted, ktWhite, ktReviewed>>
        /\ \/ ktRepo' = {} /\ ktPinned' = FALSE
           \/ UNCHANGED <<ktRepo, ktPinned>>
    BY <1>1 DEF RemoveRepo
  <2>2. r \in TrustType /\ r.pc = "editsave" /\ r.prev = ktP[p].prev /\ r.mem = ktP[p].mem
    BY <1>t DEF TrustType
  <2> HIDE DEF r
  <2>3. ProcessSound(r, ktVetted', ktWhite', ktReviewed')
    BY <1>t, <2>1, <2>2 DEF ProcessSound
  <2>4. ServedWasReviewed' /\ ktRepo' \in SUBSET Nat
    BY <1>t, <2>1 DEF ServedWasReviewed
  <2>5. PinSomewhere'
    <3>1. \A q \in TrustProcs : ktP[q].pc = "rename" => ktP'[q] = ktP[q]
      BY <1>t, <2>1 DEF Step
    <3>2. QED
      BY <1>t, <2>1, <3>1 DEF PinSomewhere
  <2>6. QED
    BY <2>1, <2>2, <2>3, <2>4, <2>5, KTProcess
<1>2. ASSUME TrustCrash(p) PROVE KTInv'
  <2>1. /\ Step(p, TrustIdle) /\ ktPinned' = (ktPinned /\ ktP[p].pc # "rename")
        /\ UNCHANGED <<ktList, ktVerifies, ktFile, ktRepo, ktKept, ktVetted, ktWhite, ktReviewed>>
    BY <1>2 DEF TrustCrash
  <2>2. TrustIdle \in TrustType /\ ProcessSound(TrustIdle, ktVetted', ktWhite', ktReviewed')
    BY TrustIdleSound
  <2>3. ServedWasReviewed' /\ ktRepo' \in SUBSET Nat
    BY <1>t, <2>1 DEF ServedWasReviewed
  <2>4. PinSomewhere'
    <3>1. \A q \in TrustProcs : q # p => ktP'[q] = ktP[q]
      BY <1>t, <2>1 DEF Step
    <3>2. QED
      BY <1>t, <2>1, <3>1 DEF PinSomewhere
  <2>5. QED
    BY <2>1, <2>2, <2>3, <2>4, KTProcess
<1>3. QED
  BY <1>1, <1>2

\* Approve and Save: the store written is the one read, with an account that is vetted from now on.
LEMMA KTApprove ==
  ASSUME KTInv, NEW p \in TrustProcs, ApproveSave(p)
  PROVE  KTInv'
<1> DEFINE pkg == ktP[p].pkg
           st == ktP[p].mem
           a == [source |-> pkg.source, maint |-> pkg.maint, commit |-> pkg.commit]
<1>t. /\ ktP[p].pc = "save" /\ st \in StoreType /\ pkg \in PackageType
      /\ StoreBacked(st, ktVetted, ktWhite, ktReviewed) /\ pkg.commit \in ktReviewed
      /\ Step(p, TrustIdle) /\ UNCHANGED <<ktList, ktVerifies, ktRepo, ktKept, ktWhite, ktReviewed, ktPinned>>
  BY DEF KTInv, KTTyped, ProcessSound, ApproveSave, TrustType
<1>i. TrustIdle \in TrustType /\ ProcessSound(TrustIdle, ktVetted', ktWhite', ktReviewed')
  BY TrustIdleSound
<1>1. CASE UNCHANGED <<ktFile, ktVetted>>
  BY <1>t, <1>i, <1>1, KTQuiet
<1>2. CASE ~UNCHANGED <<ktFile, ktVetted>>
  <2> DEFINE new == Approve(st, pkg)
  <2>1. ktFile' = new /\ ktVetted' = ktVetted \cup {<<pkg.source, pkg.maint>>}
    BY <1>2 DEF ApproveSave
  <2>2. /\ a \in [source : Sources \cup {"none"}, maint : TrustAccounts, commit : Nat]
        /\ a.source = pkg.source /\ a.maint = pkg.maint /\ a.commit = pkg.commit
        /\ <<pkg.source, pkg.maint>> \in (Sources \cup {"none"}) \X TrustAccounts
    BY <1>t DEF PackageType
  <2>3. /\ new \in StoreType /\ new.appr = {a} /\ new.maints \subseteq st.maints \cup {<<pkg.source, pkg.maint>>}
        /\ new.white = st.white
    BY <1>t, <2>2 DEF Approve, StoreType
  <2> HIDE DEF new
  <2>4. new.white => st.white
    BY <2>3, Zenon
  <2>5. StoreBacked(new, ktVetted', ktWhite', ktReviewed')
    BY <1>t, <2>1, <2>2, <2>3, <2>4 DEF StoreBacked
  <2>6. QED
    BY <1>t, <1>i, <2>1, <2>3, <2>5, KTQuiet
<1>3. QED
  BY <1>1, <1>2

\* The other commands that change the store.
LEMMA KTEdit ==
  ASSUME KTInv, NEW p \in TrustProcs, EditOpen(p) \/ EditSave(p)
  PROVE  KTInv'
<1>t. /\ ktP[p] \in TrustType /\ ktFile \in StoreType /\ StoreBacked(ktFile, ktVetted, ktWhite, ktReviewed)
      /\ StoreBacked(ktP[p].mem, ktVetted, ktWhite, ktReviewed) /\ ktP[p].mem \in StoreType
  BY DEF KTInv, KTTyped, ProcessSound, TrustType
<1>1. ASSUME EditOpen(p) PROVE KTInv'
  <2>1. PICK op \in {"remove", "untrust", "whitelist", "unwhitelist"} :
          Step(p, [TrustIdle EXCEPT !.op = op, !.pc = "edit", !.mem = ktFile])
    BY <1>1 DEF EditOpen
  <2> DEFINE r == [TrustIdle EXCEPT !.op = op, !.pc = "edit", !.mem = ktFile]
  <2>2. r \in TrustType /\ r.pc = "edit" /\ r.prev = {} /\ r.mem = ktFile
    BY <1>t, TrustIdleSound DEF TrustType
  <2>3. Step(p, r)
    BY <2>1
  <2> HIDE DEF r
  <2>4. ProcessSound(r, ktVetted, ktWhite, ktReviewed)
    BY <1>t, <2>2 DEF ProcessSound
  <2>5. ktP[p].pc = "idle" /\ UNCHANGED <<ktList, ktVerifies, ktFile, ktRepo, ktKept, KTHistory>>
    BY <1>1 DEF EditOpen
  <2>6. QED
    BY <2>2, <2>3, <2>4, <2>5, KTQuiet DEF KTHistory
<1>2. ASSUME EditSave(p) PROVE KTInv'
  <2> DEFINE st == ktP[p].mem
  <2>1. /\ ktP[p].pc = "editsave" /\ Step(p, TrustIdle) /\ ktWhite' = (ktWhite \/ ktFile'.white)
        /\ UNCHANGED <<ktList, ktVerifies, ktRepo, ktKept, ktVetted, ktReviewed, ktPinned>>
    BY <1>2 DEF EditSave
  <2>2. \/ ktFile' = RemoveApproval(st) \/ ktFile' = st \/ ktFile' = SetWhitelist(st, TRUE) \/ ktFile' = SetWhitelist(st, FALSE)
        \/ \E k \in st.maints : ktFile' = UntrustMaintainer(st, k)
    BY <1>2 DEF EditSave
  <2>3. ktFile' \in StoreType /\ ktFile'.appr \subseteq st.appr /\ ktFile'.maints \subseteq st.maints
    BY ZenonT(60), <1>t, <2>2 DEF RemoveApproval, SetWhitelist, UntrustMaintainer, StoreType
  <2>4. StoreBacked(ktFile', ktVetted', ktWhite', ktReviewed')
    <3>1. ktFile'.white => ktWhite'
      BY <2>1
    <3>2. QED
      BY <1>t, <2>1, <2>3, <3>1 DEF StoreBacked
  <2>5. ktWhite => ktWhite'
    BY <2>1
  <2>6. QED
    BY <2>1, <2>3, <2>4, <2>5, TrustIdleSound, KTQuiet
<1>3. QED
  BY <1>1, <1>2

\* Who passes the gate of a sound store was vetted.
LEMMA GateIsVetted ==
  ASSUME NEW st, StoreBacked(st, ktVetted, ktWhite, ktReviewed), NEW e, EvaluateResolved(st, e)
  PROVE  Vetted(e)
<1>1. CASE e.deleg \/ e.source = "overlay" \/ st.white
  BY <1>1 DEF Vetted, StoreBacked
<1>2. CASE \E a \in st.appr : /\ a.source = e.source
                              /\ a.maint = e.maint \/ (e.maint # NoAccount /\ <<e.source, e.maint>> \in st.maints)
  BY <1>2 DEF Vetted, StoreBacked
<1>3. QED
  BY <1>1, <1>2 DEF EvaluateResolved, Evaluate

\* verify, and the start of the daemon.
LEMMA KTVerifyServe ==
  ASSUME KTInv, NEW p \in TrustProcs, VerifyOpen(p) \/ VerifyResolve(p) \/ VerifyReturns(p) \/ Serve(p)
  PROVE  KTInv'
<1>t. /\ ktP[p] \in TrustType /\ ktFile \in StoreType /\ StoreBacked(ktFile, ktVetted, ktWhite, ktReviewed)
      /\ ProcessSound(ktP[p], ktVetted, ktWhite, ktReviewed) /\ ListsSound
  BY DEF KTInv, KTTyped
<1>1. ASSUME VerifyOpen(p) PROVE KTInv'
  <2> DEFINE r == [TrustIdle EXCEPT !.op = "verify", !.pc = "resolve", !.mem = ktFile]
  <2>1. Step(p, r) /\ ktP[p].pc = "idle" /\ UNCHANGED <<ktList, ktVerifies, ktFile, ktRepo, ktKept, KTHistory>>
    BY <1>1 DEF VerifyOpen
  <2>2. r \in TrustType /\ r.pc = "resolve" /\ r.prev = {} /\ r.mem = ktFile
    BY <1>t, TrustIdleSound DEF TrustType
  <2> HIDE DEF r
  <2>3. ProcessSound(r, ktVetted, ktWhite, ktReviewed)
    BY <1>t, <2>2 DEF ProcessSound
  <2>4. QED
    BY <2>1, <2>2, <2>3, KTQuiet DEF KTHistory
<1>2. ASSUME VerifyResolve(p) PROVE KTInv'
  <2>0. ktP[p].pc = "resolve" /\ UNCHANGED <<ktList, ktVerifies, ktFile, ktRepo, ktKept, KTHistory>>
    BY <1>2 DEF VerifyResolve
  <2>1. PICK e \in Found(Winner), drifted \in CloneDrift(ktP[p].mem) :
          Step(p, [ktP[p] EXCEPT !.pkg = e, !.pc = IF EvaluateResolved(ktP[p].mem, e) /\ ~drifted THEN "passed" ELSE "refused"])
    BY <1>2 DEF VerifyResolve
  <2> DEFINE pc == IF EvaluateResolved(ktP[p].mem, e) /\ ~drifted THEN "passed" ELSE "refused"
             r == [ktP[p] EXCEPT !.pkg = e, !.pc = pc]
  <2>2. e \in PackageType
    BY <1>t, FoundType DEF Winner, Sources
  <2>3. pc \in {"passed", "refused"} /\ (pc = "passed" => EvaluateResolved(ktP[p].mem, e))
    OBVIOUS
  <2>4. Step(p, r)
    BY <2>1
  <2> HIDE DEF pc
  <2>5. r \in TrustType /\ r.pc = pc /\ r.pkg = e /\ r.mem = ktP[p].mem /\ r.prev = ktP[p].prev
    BY <1>t, <2>2, <2>3 DEF TrustType
  <2> HIDE DEF r
  <2>6. pc = "passed" => Vetted(e)
    BY <1>t, <2>3, GateIsVetted DEF ProcessSound
  <2>7. ProcessSound(r, ktVetted, ktWhite, ktReviewed)
    BY <1>t, <2>3, <2>5, <2>6 DEF ProcessSound, Vetted
  <2>8. QED
    BY <2>0, <2>4, <2>5, <2>7, KTQuiet DEF KTHistory
<1>3. ASSUME VerifyReturns(p) PROVE KTInv'
  BY <1>3, TrustIdleSound, KTQuiet DEF VerifyReturns, KTHistory
<1>4. ASSUME Serve(p) PROVE KTInv'
  <2> DEFINE up == [TrustIdle EXCEPT !.op = "serve", !.mem = ktFile]
  <2>0. ktP[p].pc = "idle" /\ UNCHANGED <<ktList, ktVerifies, ktFile, ktRepo, ktKept, KTHistory>>
    BY <1>4 DEF Serve
  <2>1. up \in TrustType /\ up.prev = {} /\ up.mem = ktFile /\ up.pkg = NoPackage
    BY <1>t, TrustIdleSound DEF TrustType
  <2>2. \/ Step(p, [up EXCEPT !.pc = "serving"])
        \/ \E c \in OverlayPins : Step(p, [up EXCEPT !.pc = "publish", !.pkg.source = "overlay", !.pkg.commit = c])
    BY <1>4 DEF Serve
  <2> HIDE DEF up
  <2>3. CASE Step(p, [up EXCEPT !.pc = "serving"])
    <3> DEFINE r == [up EXCEPT !.pc = "serving"]
    <3>1. r \in TrustType /\ r.pc = "serving" /\ r.prev = {} /\ r.mem = ktFile
      BY <2>1 DEF TrustType
    <3>2. Step(p, r)
      BY <2>3
    <3> HIDE DEF r
    <3>3. ProcessSound(r, ktVetted, ktWhite, ktReviewed)
      BY <1>t, <3>1 DEF ProcessSound
    <3>4. QED
      BY <2>0, <3>1, <3>2, <3>3, KTQuiet DEF KTHistory
  <2>4. ASSUME NEW c \in OverlayPins, Step(p, [up EXCEPT !.pc = "publish", !.pkg.source = "overlay", !.pkg.commit = c])
        PROVE  KTInv'
    <3> DEFINE pkg == [NoPackage EXCEPT !.source = "overlay", !.commit = c]
               r == [up EXCEPT !.pc = "publish", !.pkg = pkg]
    <3>1. c \in ktReviewed /\ c \in Nat
      BY <1>t DEF OverlayPins, StoreBacked, StoreType
    <3>2. pkg \in PackageType /\ pkg.commit = c
      BY <3>1, TrustIdleSound DEF PackageType, Sources
    <3>3. Step(p, r)
      BY <2>1, <2>4, TrustIdleSound DEF TrustType, PackageType
    <3> HIDE DEF pkg
    <3>4. r \in TrustType /\ r.pc = "publish" /\ r.prev = {} /\ r.mem = ktFile /\ r.pkg = pkg
      BY <2>1, <3>2 DEF TrustType
    <3> HIDE DEF r
    <3>5. ProcessSound(r, ktVetted, ktWhite, ktReviewed)
      BY <1>t, <3>1, <3>2, <3>4 DEF ProcessSound
    <3>6. QED
      BY <2>0, <3>3, <3>4, <3>5, KTQuiet DEF KTHistory
  <2>5. QED
    BY <2>2, <2>3, <2>4
<1>5. QED
  BY <1>1, <1>2, <1>3, <1>4

\* kayo's trust decisions are sound for any number of processes, accounts, commits and faults,
\* although every process writes back the whole trust file it read earlier: what is served was
\* reviewed, what passes belongs to an account that was vetted, and a pin that was published
\* and not removed is served or kept.
THEOREM ApprovalsCorrect == KTSpec => []ApprovalsHold
<1>1. ASSUME KTInit PROVE KTInv
  <2>1. ktFile = EmptyStore /\ ktRepo = {} /\ ktKept = {} /\ ktPinned = FALSE /\ \A p \in TrustProcs : ktP[p] = TrustIdle
    BY <1>1 DEF KTInit
  <2>2. KTTyped
    BY <1>1, TrustIdleSound DEF KTInit, KTTyped
  <2>3. ListsSound
    <3>1. [maint |-> 1, commit |-> 1] \in ListedType
      BY DEF ListedType, TrustAccounts
    <3>2. QED
      BY <1>1, <3>1 DEF KTInit, ListsSound, Sources
  <2>4. ServedWasReviewed /\ PinSomewhere
    BY <2>1 DEF ServedWasReviewed, PinSomewhere
  <2>5. QED
    BY <2>1, <2>2, <2>3, <2>4, TrustIdleSound DEF KTInv
<1>2. ASSUME KTInv, [KTNext]_ktVars PROVE KTInv'
  <2>1. CASE UNCHANGED ktVars
    BY <1>2, <2>1 DEF ktVars, KTInv, KTTyped, ListsSound, ServedWasReviewed, PinSomewhere
  <2>2. QED
    BY <1>2, <2>1, KTSources, KTReview, KTPin, KTRemoveOrCrash, KTApprove, KTEdit, KTVerifyServe DEF KTNext
<1>3. KTInv => ApprovalsHold
  <2>1. ASSUME KTInv PROVE ServedWasReviewed /\ PinSurvives
    BY <2>1 DEF KTInv, PinSomewhere, PinSurvives
  <2>2. ASSUME KTInv PROVE TakeoverIsCaught
    <3>1. ASSUME NEW p \in TrustProcs
          PROVE  /\ ktP[p].pc = "passed" => Vetted(ktP[p].pkg)
                 /\ ktP[p].pc = "serving" => \A e \in Found(Winner) : GateKeeps(p, e) => Vetted(e)
      <4>1. ProcessSound(ktP[p], ktVetted, ktWhite, ktReviewed)
        BY <2>2 DEF KTInv
      <4>2. ktP[p].pc = "passed" => Vetted(ktP[p].pkg)
        BY <4>1 DEF ProcessSound, Vetted
      <4>3. \A e : GateKeeps(p, e) => Vetted(e)
        BY <4>1, GateIsVetted DEF ProcessSound, GateKeeps
      <4>4. QED
        BY <4>2, <4>3
    <3>2. QED
      BY <3>1 DEF TakeoverIsCaught
  <2>3. QED
    BY <2>1, <2>2 DEF ApprovalsHold
<1>4. QED
  BY <1>1, <1>2, <1>3, PTL DEF KTSpec

(***************************************************************************)
(* kayo's catalogs.                                                        *)
(***************************************************************************)
CatalogType == [issued : Nat, since : Nat, exp : Nat, key : CatalogKeys \cup {NoKey}, pkgs : SUBSET AurNames]
BuildType == [since : Nat, todo : SUBSET AurNames, pkgs : SUBSET AurNames]
PinType == [key : CatalogKeys \cup {NoKey}, issued : Nat]
KayoType ==
  [pc : {"down", "idle", "resolve", "verify", "persist", "swap", "mark"}, pins : PinType, body : CatalogType,
   last : Nat, verified : BOOLEAN, exp : Nat, served : CatalogType]

KSTyped ==
  /\ kNow \in Nat \ {0} /\ aurPkgs \in SUBSET AurNames /\ aurBase \in SUBSET (SUBSET AurNames)
  /\ aurTodo \in [op : {"none", "register", "remove"}, names : SUBSET AurNames]
  /\ aurKey \in CatalogKeys \cup {NoKey} /\ aurGone \in [AurNames -> Nat]
  /\ aurBuild \in [CatalogCalls -> BuildType] /\ aurCache \in Nat
  /\ kMode \in {"none", "pinned", "tofu", "insecure"} /\ kPins \in PinType /\ kProc \in [KayoProcs -> KayoType]

\* What was read and the registry does not list was deleted since the reading began.
ReadSound(r) == r.since <= kNow /\ \A n \in r.pkgs \ aurPkgs : r.since <= aurGone[n]

\* A catalog is from the past, and was read before it was issued.
CatalogSound(c) ==
  /\ c \in CatalogType /\ 0 < c.issued /\ c.issued <= kNow /\ c.since <= c.issued /\ ReadSound(c)

\* A process holds catalogs that were issued; once verified, they are newer than the watermark and,
\* with a configured key, signed by it.
KayoSound(r, mode, issued) ==
  /\ r.served \in issued \cup {NoCatalog}
  /\ r.pc \notin {"down", "idle"} => r.body \in issued
  /\ r.pc = "mark" => r.served = r.body
  /\ r.verified => r.served # NoCatalog
  /\ mode # "insecure" =>
       /\ r.pc \in {"persist", "swap"} => r.last < r.body.issued
       /\ r.served # NoCatalog => r.last <= r.served.issued
  /\ mode = "pinned" =>
       /\ r.pc \in {"persist", "swap", "mark"} => r.body.key = ConfiguredKey
       /\ r.served # NoCatalog => r.served.key = ConfiguredKey

KSInv ==
  /\ KSTyped /\ \A c \in aurIssued : CatalogSound(c)
  /\ \A b \in CatalogCalls : ReadSound(aurBuild[b])
  /\ kMode = "none" => \A p \in KayoProcs : kProc[p] = Down
  /\ \A p \in KayoProcs : KayoSound(kProc[p], kMode, aurIssued)

\* One process has the pin file for itself: its memory is the file, no accepted catalog is newer than
\* the watermark, and all of them have the pinned key.
OneKayo == \A p, q \in KayoProcs : p = q

PinSound(r, mode, pins, high) ==
  /\ r.pc # "down" => r.pins = pins
  /\ r.pc \notin {"down", "mark"} => high <= r.last
  /\ r.pc = "mark" => high <= r.last \/ high <= r.body.issued
  /\ mode = "tofu" /\ r.pc \in {"persist", "swap", "mark"} => r.body.key = pins.key /\ pins.key # NoKey
  /\ mode # "insecure" /\ r.pc \in {"swap", "mark"} => r.body.issued <= pins.issued
  /\ mode = "insecure" => high = 0

KSPins ==
  /\ kKeysUsed \subseteq {kPins.key} \ {NoKey} /\ kHigh \in Nat /\ kHigh <= kPins.issued
  /\ kMode \in {"none", "insecure"} => kHigh = 0
  /\ \A p \in KayoProcs : PinSound(kProc[p], kMode, kPins, kHigh)

\* A process that is not running.
LEMMA KayoDownSound ==
  /\ Down \in KayoType /\ Down.pc = "down" /\ Down.pins = NoPin /\ Down.body = NoCatalog /\ Down.served = NoCatalog
  /\ Down.verified = FALSE /\ NoCatalog \in CatalogType /\ NoPin \in PinType /\ NoPin.key = NoKey /\ NoPin.issued = 0
  /\ NoCatalog.issued = 0 /\ NoCatalog.pkgs = {}
  /\ \A m, i : KayoSound(Down, m, i)
<1>1. /\ NoCatalog \in CatalogType /\ NoPin \in PinType /\ NoPin.key = NoKey /\ NoPin.issued = 0
      /\ NoCatalog.issued = 0 /\ NoCatalog.pkgs = {}
  BY DEF NoCatalog, NoPin, CatalogType, PinType
<1>2. /\ Down \in KayoType /\ Down.pc = "down" /\ Down.pins = NoPin /\ Down.body = NoCatalog /\ Down.served = NoCatalog
      /\ Down.verified = FALSE
  BY <1>1 DEF Down, KayoType
<1>3. \A m, i : KayoSound(Down, m, i)
  BY <1>2 DEF KayoSound
<1>4. QED
  BY <1>1, <1>2, <1>3

\* A process takes a step; ayato does nothing.
LEMMA KSProcess ==
  ASSUME KSInv, NEW p \in KayoProcs, NEW r \in KayoType, Proc(p, r), UNCHANGED <<kNow, aurVars, kMode>>, kMode # "none",
         KayoSound(r, kMode, aurIssued), kPins' \in PinType
  PROVE  KSInv'
<1>1. kProc' = [kProc EXCEPT ![p] = r] /\ kProc \in [KayoProcs -> KayoType]
  BY DEF Proc, KSInv, KSTyped
<1>2. KSTyped'
  BY <1>1 DEF KSInv, KSTyped, aurVars, catVars
<1>3. (\A c \in aurIssued : CatalogSound(c)') /\ \A b \in CatalogCalls : ReadSound(aurBuild[b])'
  BY DEF KSInv, CatalogSound, ReadSound, aurVars, catVars
<1>4. \A q \in KayoProcs : KayoSound(kProc'[q], kMode, aurIssued)
  BY <1>1 DEF KSInv
<1>5. QED
  BY <1>2, <1>3, <1>4 DEF KSInv, aurVars, catVars

\* The clock, the registry and the catalogs it issues.
LEMMA KSServer ==
  ASSUME KSInv,
         \/ Tick \/ (\E S \in (SUBSET AurNames) \ {{}} : RegisterStart(S)) \/ Ingest
         \/ RemoveStart \/ RemoveStep \/ RotateKey
         \/ \E b \in CatalogCalls : EnvelopeStart(b) \/ Catalog(b) \/ Envelope(b)
  PROVE  KSInv' /\ UNCHANGED kayoVars
<1>1. KSTyped /\ kNow \in Nat
  BY DEF KSInv, KSTyped
<1>u. UNCHANGED kayoVars
  BY DEF Tick, RegisterStart, Ingest, RemoveStart, RemoveStep, RotateKey, EnvelopeStart, Catalog, Envelope
<1>b. NoBuild \in BuildType /\ ReadSound(NoBuild) /\ ReadSound(NoBuild)'
  <2>1. kNow' \in {kNow, kNow + 1}
    BY DEF Tick, RegisterStart, Ingest, RemoveStart, RemoveStep, RotateKey, EnvelopeStart, Catalog, Envelope
  <2>2. QED
    BY <1>1, <2>1 DEF NoBuild, BuildType, ReadSound
<1>k. ASSUME KSTyped', \A c \in aurIssued' : CatalogSound(c)', \A b \in CatalogCalls : ReadSound(aurBuild[b])',
             aurIssued \subseteq aurIssued'
      PROVE  KSInv'
  <2>1. \A r : KayoSound(r, kMode, aurIssued) => KayoSound(r, kMode, aurIssued')
    BY <1>k DEF KayoSound
  <2>2. QED
    BY <1>k, <1>u, <2>1 DEF KSInv, kayoVars
<1>c. ASSUME KSTyped', UNCHANGED catVars, UNCHANGED kNow,
             \A r \in CatalogType \cup BuildType : ReadSound(r) => ReadSound(r)'
      PROVE  KSInv'
  <2>1. \A c \in aurIssued' : CatalogSound(c)'
    BY <1>c DEF KSInv, CatalogSound, catVars
  <2>2. \A b \in CatalogCalls : aurBuild'[b] = aurBuild[b] /\ aurBuild[b] \in BuildType
    BY <1>1, <1>c DEF KSTyped, catVars
  <2>3. \A b \in CatalogCalls : ReadSound(aurBuild[b])'
    BY <1>c, <2>2 DEF KSInv, ReadSound
  <2>4. QED
    BY <1>c, <1>k, <2>1, <2>3 DEF catVars
<1>2. CASE Tick
  <2>1. kNow' = kNow + 1 /\ UNCHANGED aurVars
    BY <1>2 DEF Tick
  <2>2. KSTyped'
    BY <1>1, <1>u, <2>1 DEF KSTyped, aurVars, catVars, kayoVars
  <2>3. \A c \in aurIssued : CatalogSound(c)'
    BY <1>1, <2>1 DEF KSInv, CatalogSound, ReadSound, CatalogType, aurVars, catVars
  <2>4. \A b \in CatalogCalls : ReadSound(aurBuild[b])'
    BY <1>1, <2>1 DEF KSInv, KSTyped, ReadSound, BuildType, aurVars, catVars
  <2>5. QED
    BY <1>k, <1>u, <2>1, <2>2, <2>3, <2>4 DEF aurVars, catVars
<1>3. CASE (\E S \in (SUBSET AurNames) \ {{}} : RegisterStart(S)) \/ RemoveStart
  <2>1. UNCHANGED <<kNow, aurPkgs, aurBase, aurKey, catVars, aurGone>>
    BY <1>3 DEF RegisterStart, RemoveStart
  <2>2. aurTodo' \in [op : {"none", "register", "remove"}, names : SUBSET AurNames]
    <3>1. UNION aurBase \in SUBSET AurNames
      BY <1>1 DEF KSTyped
    <3>2. QED
      BY <1>3, <3>1 DEF RegisterStart, RemoveStart
  <2>3. KSTyped'
    BY <1>1, <1>u, <2>1, <2>2 DEF KSTyped, catVars, kayoVars
  <2>4. \A r \in CatalogType \cup BuildType : ReadSound(r) => ReadSound(r)'
    BY <2>1 DEF ReadSound
  <2>5. UNCHANGED catVars /\ UNCHANGED kNow
    BY <2>1
  <2>6. QED
    BY <1>c, <1>u, <2>3, <2>4, <2>5
<1>4. CASE Ingest
  <2>1. UNCHANGED <<kNow, aurKey, catVars, aurGone>> /\ aurPkgs \subseteq aurPkgs'
    BY <1>4 DEF Ingest
  <2>2. aurTodo.names \in SUBSET AurNames /\ NoOp \in [op : {"none", "register", "remove"}, names : SUBSET AurNames]
    BY <1>1 DEF KSTyped, NoOp
  <2>3. /\ aurPkgs' \in SUBSET AurNames /\ aurBase' \in SUBSET (SUBSET AurNames)
        /\ aurTodo' \in [op : {"none", "register", "remove"}, names : SUBSET AurNames]
    BY <1>1, <1>4, <2>2 DEF KSTyped, Ingest
  <2>4. KSTyped'
    BY <1>1, <1>u, <2>1, <2>3 DEF KSTyped, catVars, kayoVars
  <2>5. \A r \in CatalogType \cup BuildType : ReadSound(r) => ReadSound(r)'
    BY <2>1 DEF ReadSound
  <2>6. UNCHANGED catVars /\ UNCHANGED kNow
    BY <2>1
  <2>7. QED
    BY <1>c, <1>u, <2>4, <2>5, <2>6
<1>5. CASE RemoveStep
  <2>1. UNCHANGED <<kNow, aurKey, catVars>>
    BY <1>5 DEF RemoveStep
  <2>2. \/ \E n \in aurPkgs : aurPkgs' = aurPkgs \ {n} /\ aurGone' = [aurGone EXCEPT ![n] = kNow] /\ UNCHANGED <<aurBase, aurTodo>>
        \/ UNCHANGED <<aurPkgs, aurGone>> /\ aurBase' \in {{}, aurBase} /\ aurTodo' = NoOp
    BY <1>5 DEF RemoveStep
  <2>3. NoOp \in [op : {"none", "register", "remove"}, names : SUBSET AurNames]
    BY DEF NoOp
  <2>4. KSTyped'
    BY <1>1, <1>u, <2>1, <2>2, <2>3 DEF KSTyped, catVars, kayoVars
  <2>5. ASSUME NEW r \in CatalogType \cup BuildType, ReadSound(r) PROVE ReadSound(r)'
    <3>1. CASE UNCHANGED <<aurPkgs, aurGone>>
      BY <2>1, <2>5, <3>1 DEF ReadSound
    <3>2. ASSUME NEW n \in aurPkgs, aurPkgs' = aurPkgs \ {n}, aurGone' = [aurGone EXCEPT ![n] = kNow]
          PROVE  ReadSound(r)'
      <4>1. \A m \in AurNames : aurGone'[m] = IF m = n THEN kNow ELSE aurGone[m]
        BY <1>1, <3>2 DEF KSTyped
      <4>2. r.pkgs \subseteq AurNames
        BY DEF CatalogType, BuildType
      <4>3. \A m \in r.pkgs \ aurPkgs' : r.since <= aurGone'[m]
        BY <2>5, <3>2, <4>1, <4>2 DEF ReadSound
      <4>4. QED
        BY <2>1, <2>5, <4>3 DEF ReadSound
    <3>3. QED
      BY <2>2, <3>1, <3>2
  <2>6. UNCHANGED catVars /\ UNCHANGED kNow
    BY <2>1
  <2>7. QED
    BY <1>c, <1>u, <2>4, <2>5, <2>6
<1>6. CASE RotateKey
  <2>1. /\ UNCHANGED <<kNow, aurPkgs, aurBase, aurIssued, aurGone>> /\ aurKey' \in CatalogKeys /\ aurTodo' = NoOp
        /\ aurBuild' = [b \in CatalogCalls |-> NoBuild] /\ aurCache' = 0
    BY <1>6 DEF RotateKey
  <2>2. KSTyped'
    BY <1>1, <1>b, <1>u, <2>1 DEF KSTyped, NoOp, kayoVars
  <2>3. \A c \in aurIssued : CatalogSound(c)'
    BY <2>1 DEF KSInv, CatalogSound, ReadSound
  <2>4. \A b \in CatalogCalls : ReadSound(aurBuild[b])'
    BY <1>1, <2>1 DEF ReadSound, NoBuild
  <2>5. UNCHANGED aurIssued
    BY <2>1
  <2>6. QED
    BY <1>k, <1>u, <2>2, <2>3, <2>4, <2>5
<1>7. ASSUME NEW b \in CatalogCalls, EnvelopeStart(b) \/ Catalog(b) PROVE KSInv'
  <2>1. UNCHANGED <<kNow, aurPkgs, aurBase, aurTodo, aurKey, aurGone, aurCache, aurIssued>>
    BY <1>7 DEF EnvelopeStart, Catalog
  <2>2. aurBuild[b] \in BuildType /\ ReadSound(aurBuild[b])
    BY <1>1 DEF KSInv, KSTyped
  <2>3. PICK r \in BuildType : Build(b, r) /\ ReadSound(r)
    <3>1. ASSUME EnvelopeStart(b) PROVE \E r \in BuildType : Build(b, r) /\ ReadSound(r)
      <4> DEFINE r == [since |-> kNow, todo |-> AurNames, pkgs |-> {}]
      <4>1. r \in BuildType /\ ReadSound(r)
        BY <1>1 DEF BuildType, ReadSound
      <4>2. QED
        BY <3>1, <4>1 DEF EnvelopeStart
    <3>2. ASSUME NEW n \in aurBuild[b].todo,
                 Build(b, [aurBuild[b] EXCEPT !.todo = @ \ {n}, !.pkgs = @ \cup ({n} \cap aurPkgs)])
          PROVE  \E r \in BuildType : Build(b, r) /\ ReadSound(r)
      <4> DEFINE r == [aurBuild[b] EXCEPT !.todo = @ \ {n}, !.pkgs = @ \cup ({n} \cap aurPkgs)]
      <4>1. n \in AurNames
        BY <2>2 DEF BuildType
      <4>2. r \in BuildType /\ r.since = aurBuild[b].since /\ r.pkgs \ aurPkgs = aurBuild[b].pkgs \ aurPkgs
        BY <2>2, <4>1 DEF BuildType
      <4> HIDE DEF r
      <4>3. ReadSound(r)
        BY <2>2, <4>2 DEF ReadSound
      <4>4. QED
        BY <3>2, <4>2, <4>3 DEF r
    <3>3. QED
      BY <1>7, <1>b, <3>1, <3>2 DEF Catalog
  <2>4. aurBuild' = [aurBuild EXCEPT ![b] = r]
    BY <2>3 DEF Build
  <2>5. KSTyped'
    BY <1>1, <1>u, <2>1, <2>3, <2>4 DEF KSTyped, kayoVars
  <2>6. \A c \in aurIssued : CatalogSound(c)'
    BY <2>1 DEF KSInv, CatalogSound, ReadSound
  <2>7. \A q \in CatalogCalls : ReadSound(aurBuild'[q])
    BY <1>1, <2>3, <2>4 DEF KSInv, KSTyped
  <2>8. \A q \in CatalogCalls : ReadSound(aurBuild[q])'
    BY <2>1, <2>7 DEF ReadSound
  <2>9. QED
    BY <1>k, <2>1, <2>5, <2>6, <2>8
<1>8. ASSUME NEW b \in CatalogCalls, Envelope(b) PROVE KSInv'
  <2> DEFINE r == aurBuild[b]
             c == Sign(r)
  <2>1. /\ UNCHANGED <<kNow, aurPkgs, aurBase, aurTodo, aurKey, aurGone>> /\ aurIssued' = aurIssued \cup {c}
        /\ aurCache' = kNow + CacheTTL /\ aurBuild' = [aurBuild EXCEPT ![b] = NoBuild]
    BY <1>8 DEF Envelope, Build
  <2>2. r \in BuildType /\ ReadSound(r) /\ aurKey \in CatalogKeys \cup {NoKey} /\ kNow \in Nat \ {0}
    BY <1>1 DEF KSInv, KSTyped
  <2>3. c \in CatalogType /\ c.issued = kNow /\ c.pkgs = r.pkgs /\ c.since = r.since
    BY <2>2, KayoSourceAssumption DEF Sign, BuildType, CatalogType
  <2> HIDE DEF r, c
  <2>4. CatalogSound(c)
    BY <2>2, <2>3 DEF CatalogSound, ReadSound
  <2>5. KSTyped'
    BY <1>1, <1>b, <1>u, <2>1, KayoSourceAssumption DEF KSTyped, kayoVars
  <2>6. \A d \in aurIssued' : CatalogSound(d)'
    BY <2>1, <2>4 DEF KSInv, CatalogSound, ReadSound
  <2>7. \A q \in CatalogCalls : ReadSound(aurBuild'[q])
    BY <1>1, <1>b, <2>1 DEF KSInv, KSTyped
  <2>8. \A q \in CatalogCalls : ReadSound(aurBuild[q])'
    BY <2>1, <2>7 DEF ReadSound
  <2>9. QED
    BY <1>k, <2>1, <2>5, <2>6, <2>8
<1>9. QED
  BY <1>u, <1>2, <1>3, <1>4, <1>5, <1>6, <1>7, <1>8

\* What a step of one process has to show.
KSKept == KSInv' /\ (OneKayo /\ KSPins => KSPins' /\ NoCatalogRollback)

\* A step that serves nothing new.
LEMMA KSKeeps ==
  ASSUME KSInv, NEW p \in KayoProcs, NEW r \in KayoType, Proc(p, r), UNCHANGED <<kNow, aurVars, kMode>>, kMode # "none",
         KayoSound(r, kMode, aurIssued), kPins' \in PinType,
         r.served \in {kProc[p].served, NoCatalog}, UNCHANGED <<kKeysUsed, kHigh>>,
         KSPins /\ PinSound(kProc[p], kMode, kPins, kHigh) =>
           /\ PinSound(r, kMode, kPins', kHigh)
           /\ kPins'.key = kPins.key \/ kPins.key = NoKey
           /\ kPins.issued <= kPins'.issued
  PROVE  KSKept
<1>1. KSInv'
  BY KSProcess
<1>2. kProc' = [kProc EXCEPT ![p] = r] /\ kProc \in [KayoProcs -> KayoType] /\ kPins \in PinType
  BY DEF Proc, KSInv, KSTyped
<1>3. ASSUME OneKayo, KSPins PROVE KSPins' /\ NoCatalogRollback
  <2>1. PinSound(kProc[p], kMode, kPins, kHigh)
    BY <1>3 DEF KSPins
  <2>2. kHigh <= kPins'.issued
    BY <1>2, <1>3, <2>1 DEF KSPins, PinType
  <2>3. \A q \in KayoProcs : PinSound(kProc'[q], kMode, kPins', kHigh)
    BY <1>2, <1>3, <2>1 DEF OneKayo
  <2>4. kKeysUsed \subseteq {kPins'.key} \ {NoKey}
    BY <1>3, <2>1 DEF KSPins
  <2>5. KSPins'
    BY <1>3, <2>2, <2>3, <2>4 DEF KSPins
  <2>6. NoCatalogRollback
    BY <1>2, <1>3 DEF NoCatalogRollback, OneKayo
  <2>7. QED
    BY <2>5, <2>6
<1>4. QED
  BY <1>1, <1>3 DEF KSKept

\* Starting and stopping.
LEMMA KSStartStop ==
  ASSUME KSInv, NEW p \in KayoProcs, StartKayo(p) \/ StopKayo(p)
  PROVE  KSKept
<1>t. kProc[p] \in KayoType /\ KayoSound(kProc[p], kMode, aurIssued) /\ kPins \in PinType /\ kPins.issued \in Nat
  BY DEF KSInv, KSTyped, PinType
<1>1. ASSUME StartKayo(p) PROVE KSKept
  <2> DEFINE r == [Down EXCEPT !.pc = "idle", !.pins = kPins, !.last = kPins.issued]
  <2>1. /\ Proc(p, r) /\ kMode # "none" /\ UNCHANGED <<kNow, aurVars, kMode, kPins, kKeysUsed, kHigh>>
    BY <1>1 DEF StartKayo
  <2>2. /\ r \in KayoType /\ r.pc = "idle" /\ r.pins = kPins /\ r.last = kPins.issued /\ r.served = NoCatalog /\ r.verified = FALSE
    BY <1>t, KayoDownSound DEF KayoType
  <2> HIDE DEF r
  <2>3. KayoSound(r, kMode, aurIssued)
    BY <2>2 DEF KayoSound
  <2>4. KSPins /\ PinSound(kProc[p], kMode, kPins, kHigh) => PinSound(r, kMode, kPins, kHigh)
    BY <2>2 DEF PinSound, KSPins
  <2>5. QED
    BY <1>t, <2>1, <2>2, <2>3, <2>4, KSKeeps
<1>2. ASSUME StopKayo(p) PROVE KSKept
  <2>1. Proc(p, Down) /\ kProc[p].pc # "down" /\ UNCHANGED <<kNow, aurVars, kMode, kPins, kKeysUsed, kHigh>>
    BY <1>2 DEF StopKayo
  <2>2. kMode # "none"
    BY <2>1, KayoDownSound DEF KSInv
  <2>3. KSPins /\ PinSound(kProc[p], kMode, kPins, kHigh) => PinSound(Down, kMode, kPins, kHigh)
    BY KayoDownSound DEF PinSound, KSPins
  <2>4. QED
    BY <1>t, <2>1, <2>2, <2>3, KayoDownSound, KSKeeps
<1>3. QED
  BY <1>1, <1>2

\* A sync that ends with an error, before anything was swapped.
LEMMA KSFails ==
  ASSUME KSInv, NEW p \in KayoProcs, SyncFails(p), kProc[p].pc \in {"resolve", "verify", "persist"},
         UNCHANGED <<kNow, aurVars, kMode, kPins, kKeysUsed, kHigh>>
  PROVE  KSKept
<1> DEFINE r == [kProc[p] EXCEPT !.pc = "idle", !.body = NoCatalog]
<1>t. kProc[p] \in KayoType /\ KayoSound(kProc[p], kMode, aurIssued) /\ kPins \in PinType /\ kPins.issued \in Nat
  BY DEF KSInv, KSTyped, PinType
<1>1. /\ r \in KayoType /\ r.pc = "idle" /\ r.pins = kProc[p].pins /\ r.last = kProc[p].last /\ r.served = kProc[p].served
      /\ r.verified = kProc[p].verified
  BY <1>t, KayoDownSound DEF KayoType
<1>2. Proc(p, r) /\ kMode # "none"
  BY KayoDownSound DEF SyncFails, KSInv
<1> HIDE DEF r
<1>3. KayoSound(r, kMode, aurIssued)
  <2>1. r.verified => kProc[p].verified
    BY <1>1, Zenon
  <2>2. QED
    BY <1>t, <1>1, <2>1 DEF KayoSound
<1>4. KSPins /\ PinSound(kProc[p], kMode, kPins, kHigh) => PinSound(r, kMode, kPins, kHigh)
  BY <1>1 DEF PinSound
<1>5. QED
  BY <1>t, <1>1, <1>2, <1>3, <1>4, KSKeeps

\* A process moves on with its catalog and its pins.
LEMMA KSMoves ==
  ASSUME KSInv, NEW p \in KayoProcs, NEW pc \in {"verify", "persist", "swap"}, NEW pins \in PinType,
         Proc(p, [kProc[p] EXCEPT !.pc = pc, !.pins = pins]),
         kProc[p].pc \in {"resolve", "verify", "persist"},
         kMode # "insecure" /\ pc \in {"persist", "swap"} => kProc[p].last < kProc[p].body.issued,
         kMode = "pinned" /\ pc \in {"persist", "swap"} => kProc[p].body.key = ConfiguredKey,
         kMode # "none", kPins' \in PinType,
         KSPins /\ PinSound(kProc[p], kMode, kPins, kHigh) =>
           /\ pins = kPins'
           /\ kPins'.key = kPins.key \/ kPins.key = NoKey
           /\ kPins.issued <= kPins'.issued
           /\ kMode = "tofu" /\ pc \in {"persist", "swap"} => kProc[p].body.key = kPins'.key /\ kPins'.key # NoKey
           /\ kMode # "insecure" /\ pc = "swap" => kProc[p].body.issued <= kPins'.issued,
         UNCHANGED <<kNow, aurVars, kMode, kKeysUsed, kHigh>>
  PROVE  KSKept
<1> DEFINE r == [kProc[p] EXCEPT !.pc = pc, !.pins = pins]
<1>t. kProc[p] \in KayoType /\ KayoSound(kProc[p], kMode, aurIssued) /\ kPins \in PinType
  BY DEF KSInv, KSTyped
<1>1. /\ r \in KayoType /\ r.pc = pc /\ r.pins = pins /\ r.last = kProc[p].last /\ r.served = kProc[p].served
      /\ r.verified = kProc[p].verified /\ r.body = kProc[p].body
  BY <1>t DEF KayoType
<1>2. Proc(p, r)
  OBVIOUS
<1> HIDE DEF r
<1>3. KayoSound(r, kMode, aurIssued)
  <2>1. r.verified => kProc[p].verified
    BY <1>1, Zenon
  <2>2. QED
    BY <1>t, <1>1, <2>1 DEF KayoSound
<1>4. ASSUME KSPins, PinSound(kProc[p], kMode, kPins, kHigh) PROVE PinSound(r, kMode, kPins', kHigh)
  BY <1>1, <1>4 DEF PinSound
<1>5. QED
  BY <1>t, <1>1, <1>2, <1>3, <1>4, KSKeeps

\* Sync, from the fetch to the watermark on disk.
LEMMA KSSync ==
  ASSUME KSInv, NEW p \in KayoProcs, SyncFetch(p) \/ ResolveVerifier(p) \/ SyncVerify(p) \/ SyncPersist(p)
  PROVE  KSKept
<1> DEFINE me == kProc[p]
<1>t. /\ me \in KayoType /\ KayoSound(me, kMode, aurIssued) /\ kPins \in PinType /\ me.pins \in PinType
      /\ kPins.issued \in Nat /\ me.pins.issued \in Nat /\ me.last \in Nat
      /\ me.pc # "down" => kMode # "none"
  BY KayoDownSound DEF KSInv, KSTyped, PinType, KayoType
<1>1. ASSUME SyncFetch(p) PROVE KSKept
  <2>1. PICK c \in aurIssued : Proc(p, [me EXCEPT !.body = c, !.pc = IF kMode = "insecure" THEN "swap" ELSE "resolve"])
    BY <1>1 DEF SyncFetch
  <2> DEFINE pc == IF kMode = "insecure" THEN "swap" ELSE "resolve"
             r == [me EXCEPT !.body = c, !.pc = pc]
  <2>2. me.pc = "idle" /\ Proc(p, r) /\ UNCHANGED <<kNow, aurVars, kMode, kPins, kKeysUsed, kHigh>>
    BY <1>1, <2>1 DEF SyncFetch
  <2>3. pc \in {"swap", "resolve"} /\ (kMode # "insecure" => pc = "resolve") /\ c \in CatalogType
    BY DEF KSInv, CatalogSound
  <2> HIDE DEF pc
  <2>4. /\ r \in KayoType /\ r.pc = pc /\ r.pins = me.pins /\ r.last = me.last /\ r.served = me.served
        /\ r.verified = me.verified /\ r.body = c
    BY <1>t, <2>3 DEF KayoType
  <2> HIDE DEF r
  <2>5. KayoSound(r, kMode, aurIssued)
    <3>1. r.verified => me.verified
      BY <2>4, Zenon
    <3>2. QED
      BY <1>t, <2>3, <2>4, <3>1 DEF KayoSound
  <2>6. KSPins /\ PinSound(me, kMode, kPins, kHigh) => PinSound(r, kMode, kPins, kHigh)
    BY <2>2, <2>3, <2>4 DEF PinSound
  <2>7. QED
    BY <1>t, <2>2, <2>4, <2>5, <2>6, KSKeeps
<1>2. ASSUME ResolveVerifier(p) PROVE KSKept
  <2>0. me.pc = "resolve" /\ UNCHANGED <<kNow, aurVars, kMode, kKeysUsed, kHigh>>
    BY <1>2 DEF ResolveVerifier
  <2>1. CASE Proc(p, [me EXCEPT !.pc = "verify"]) /\ UNCHANGED kPins
    <3>1. Proc(p, [me EXCEPT !.pc = "verify", !.pins = me.pins])
      BY <1>t, <2>1 DEF KayoType, Proc
    <3>2. KSPins /\ PinSound(me, kMode, kPins, kHigh) => me.pins = kPins' /\ kPins'.key = kPins.key /\ kPins.issued <= kPins'.issued
      BY <1>t, <2>0, <2>1 DEF PinSound
    <3>3. QED
      BY <1>t, <2>0, <2>1, <3>1, <3>2, KSMoves
  <2>2. CASE kMode = "tofu" /\ me.pins.key = NoKey /\ aurKey # NoKey /\ PinPut(p, aurKey)
    <3> DEFINE pin == [key |-> aurKey, issued |-> me.pins.issued]
    <3>1. kPins' = pin /\ Proc(p, [me EXCEPT !.pc = "verify", !.pins = pin])
      BY <2>2 DEF PinPut
    <3>2. pin \in PinType /\ pin.issued = me.pins.issued
      BY <1>t DEF KSInv, KSTyped, PinType
    <3> HIDE DEF pin
    <3>3. KSPins /\ PinSound(me, kMode, kPins, kHigh) => kPins.key = NoKey /\ kPins.issued <= pin.issued
      BY <1>t, <2>0, <2>2, <3>2 DEF PinSound
    <3>4. QED
      BY <1>t, <2>0, <3>1, <3>2, <3>3, KSMoves
  <2>3. CASE SyncFails(p) /\ UNCHANGED kPins
    BY <2>0, <2>3, KSFails
  <2>4. QED
    BY <1>2, <2>1, <2>2, <2>3 DEF ResolveVerifier
<1>3. ASSUME SyncVerify(p) PROVE KSKept
  <2>0. me.pc = "verify" /\ UNCHANGED <<kNow, aurVars, kMode, kPins, kKeysUsed, kHigh>>
    BY <1>3 DEF SyncVerify
  <2>1. CASE SyncFails(p)
    BY <2>0, <2>1, KSFails
  <2>2. CASE ~SyncFails(p)
    <3>1. /\ me.body.key # NoKey /\ me.body.key = VerifierKey(p) /\ CheckFreshness(me.body, me.last)
          /\ Proc(p, [me EXCEPT !.pc = "persist"])
      BY <1>3, <2>2 DEF SyncVerify
    <3>2. Proc(p, [me EXCEPT !.pc = "persist", !.pins = me.pins])
      BY <1>t, <3>1 DEF KayoType, Proc
    <3>3. me.body \in aurIssued /\ me.body.issued \in Nat /\ 0 < me.body.issued
      BY <1>t, <2>0 DEF KayoSound, KSInv, CatalogSound, CatalogType
    <3>4. me.last < me.body.issued
      BY <1>t, <3>1, <3>3 DEF CheckFreshness
    <3>5. kMode = "pinned" => me.body.key = ConfiguredKey
      BY <3>1 DEF VerifierKey
    <3>6. KSPins /\ PinSound(me, kMode, kPins, kHigh) =>
            /\ me.pins = kPins' /\ kPins'.key = kPins.key /\ kPins.issued <= kPins'.issued
            /\ kMode = "tofu" => me.body.key = kPins'.key /\ kPins'.key # NoKey
      BY <1>t, <2>0, <3>1 DEF PinSound, VerifierKey
    <3>7. QED
      BY <1>t, <2>0, <3>1, <3>2, <3>4, <3>5, <3>6, KSMoves
  <2>3. QED
    BY <2>1, <2>2
<1>4. ASSUME SyncPersist(p) PROVE KSKept
  <2>0. me.pc = "persist" /\ UNCHANGED <<kNow, aurVars, kMode, kKeysUsed, kHigh>>
    BY <1>4 DEF SyncPersist
  <2>1. me.body.issued \in Nat
    BY <1>t DEF KayoType, CatalogType
  <2>2. /\ kMode # "insecure" => me.last < me.body.issued
        /\ kMode = "pinned" => me.body.key = ConfiguredKey
    BY <1>t, <2>0 DEF KayoSound
  <2>3. KSPins /\ PinSound(me, kMode, kPins, kHigh) => me.pins = kPins /\ (kMode = "tofu" => me.body.key = kPins.key /\ kPins.key # NoKey)
    BY <2>0 DEF PinSound
  <2> DEFINE pin == [me.pins EXCEPT !.issued = me.body.issued]
  <2>4. pin \in PinType /\ pin.issued = me.body.issued /\ pin.key = me.pins.key
    BY <1>t, <2>1 DEF PinType
  <2>5. CASE me.body.issued > me.pins.issued /\ kPins' = pin /\ Proc(p, [me EXCEPT !.pc = "swap", !.pins = pin])
    <3> HIDE DEF pin
    <3>1. KSPins /\ PinSound(me, kMode, kPins, kHigh) =>
            /\ kPins'.key = kPins.key /\ kPins.issued <= kPins'.issued /\ me.body.issued <= kPins'.issued
            /\ kMode = "tofu" => me.body.key = kPins'.key /\ kPins'.key # NoKey
      BY <1>t, <2>1, <2>3, <2>4, <2>5
    <3>2. QED
      BY <1>t, <2>0, <2>2, <2>4, <2>5, <3>1, KSMoves
  <2>6. CASE me.body.issued <= me.pins.issued /\ Proc(p, [me EXCEPT !.pc = "swap"]) /\ UNCHANGED kPins
    <3>1. Proc(p, [me EXCEPT !.pc = "swap", !.pins = me.pins])
      BY <1>t, <2>6 DEF KayoType, Proc
    <3>2. KSPins /\ PinSound(me, kMode, kPins, kHigh) =>
            /\ me.pins = kPins' /\ kPins'.key = kPins.key /\ kPins.issued <= kPins'.issued /\ me.body.issued <= kPins'.issued
            /\ kMode = "tofu" => me.body.key = kPins'.key /\ kPins'.key # NoKey
      BY <1>t, <2>3, <2>6
    <3>3. QED
      BY <1>t, <2>0, <2>2, <2>3, <2>6, <3>1, <3>2, KSMoves
  <2>7. CASE SyncFails(p) /\ UNCHANGED kPins
    BY <2>0, <2>7, KSFails
  <2>8. QED
    BY <1>4, <2>5, <2>6, <2>7 DEF SyncPersist
<1>5. QED
  BY <1>1, <1>2, <1>3, <1>4

\* The swap serves what is newer than everything before, and its bookkeeping raises the watermark.
LEMMA KSSwapMark ==
  ASSUME KSInv, NEW p \in KayoProcs, SyncSwap(p) \/ SyncMark(p)
  PROVE  KSKept
<1> DEFINE me == kProc[p]
           c == kProc[p].body
<1>t. /\ me \in KayoType /\ KayoSound(me, kMode, aurIssued) /\ kPins \in PinType /\ me.pins \in PinType
      /\ me.last \in Nat /\ c \in CatalogType /\ c.issued \in Nat /\ c.exp \in Nat /\ kPins.issued \in Nat
      /\ me.pc # "down" => kMode # "none"
      /\ kProc \in [KayoProcs -> KayoType]
  BY KayoDownSound DEF KSInv, KSTyped, PinType, KayoType, CatalogType
<1>c. me.pc \in {"swap", "mark"} => c \in aurIssued /\ 0 < c.issued /\ c # NoCatalog
  BY <1>t, KayoDownSound DEF KayoSound, KSInv, CatalogSound
<1>1. ASSUME SyncSwap(p) PROVE KSKept
  <2> DEFINE r == [me EXCEPT !.pc = "mark", !.served = c]
  <2>0. /\ me.pc = "swap" /\ Proc(p, r) /\ UNCHANGED <<kNow, aurVars, kMode, kPins>>
        /\ kKeysUsed' = IF kMode = "tofu" THEN kKeysUsed \cup {c.key} ELSE kKeysUsed
        /\ kHigh' = IF kMode # "insecure" /\ c.issued > kHigh THEN c.issued ELSE kHigh
    BY <1>1 DEF SyncSwap
  <2>1. /\ r \in KayoType /\ r.pc = "mark" /\ r.pins = me.pins /\ r.last = me.last /\ r.served = c
        /\ r.verified = me.verified /\ r.body = c
    BY <1>t DEF KayoType
  <2> HIDE DEF r
  <2>2. KayoSound(r, kMode, aurIssued)
    BY <1>t, <1>c, <2>0, <2>1 DEF KayoSound
  <2>3. KSInv'
    BY <1>t, <2>0, <2>1, <2>2, KSProcess
  <2>4. ASSUME OneKayo, KSPins PROVE KSPins' /\ NoCatalogRollback
    <3>1. PinSound(me, kMode, kPins, kHigh) /\ kHigh \in Nat /\ kHigh <= kPins.issued
      BY <2>4 DEF KSPins
    <3>2. kMode # "insecure" => kHigh < c.issued /\ c.issued <= kPins.issued
      BY <1>t, <2>0, <3>1 DEF PinSound, KayoSound
    <3>3. kHigh' \in Nat /\ kHigh' <= kPins.issued /\ (kMode \in {"none", "insecure"} => kHigh' = 0)
      BY <1>t, <2>0, <2>4, <3>1, <3>2 DEF KSPins
    <3>4. kKeysUsed' \subseteq {kPins.key} \ {NoKey}
      BY <2>0, <2>4, <3>1 DEF KSPins, PinSound
    <3>5. PinSound(r, kMode, kPins, kHigh')
      BY <1>t, <2>0, <2>1, <3>1, <3>2, <3>3 DEF PinSound
    <3>6. kProc' = [kProc EXCEPT ![p] = r]
      BY <2>0 DEF Proc
    <3>7. KSPins'
      BY <1>t, <2>0, <2>4, <3>3, <3>4, <3>5, <3>6 DEF KSPins, OneKayo
    <3>8. NoCatalogRollback
      BY <1>t, <2>1, <2>4, <3>2, <3>6 DEF NoCatalogRollback, OneKayo
    <3>9. QED
      BY <3>7, <3>8
  <2>5. QED
    BY <2>3, <2>4 DEF KSKept
<1>2. ASSUME SyncMark(p) PROVE KSKept
  <2> DEFINE ok == kMode # "insecure"
             last == IF ok /\ c.issued > me.last THEN c.issued ELSE me.last
             r == [me EXCEPT !.pc = "idle", !.body = NoCatalog, !.verified = ok, !.exp = c.exp, !.last = last]
  <2>0. me.pc = "mark" /\ Proc(p, r) /\ UNCHANGED <<kNow, aurVars, kMode, kPins, kKeysUsed, kHigh>>
    BY <1>2 DEF SyncMark
  <2>1. /\ ok \in BOOLEAN /\ last \in Nat /\ me.last <= last /\ (kMode = "insecure" => last = me.last)
        /\ kMode # "insecure" => c.issued <= last /\ last \in {me.last, c.issued}
    BY <1>t
  <2> HIDE DEF ok, last
  <2>2. r \in KayoType /\ r.pc = "idle" /\ r.pins = me.pins /\ r.last = last /\ r.served = me.served
    BY <1>t, <2>1, KayoDownSound DEF KayoType
  <2> HIDE DEF r
  <2>3. me.served = c /\ c # NoCatalog /\ c \in aurIssued
    BY <1>t, <1>c, <2>0 DEF KayoSound
  <2>4. KayoSound(r, kMode, aurIssued)
    <3>1. kMode # "insecure" => last <= c.issued
      BY <1>t, <2>1, <2>3 DEF KayoSound
    <3>2. QED
      BY <1>t, <2>0, <2>2, <2>3, <3>1 DEF KayoSound
  <2>5. ASSUME KSPins, PinSound(me, kMode, kPins, kHigh) PROVE PinSound(r, kMode, kPins, kHigh)
    <3>1. kHigh \in Nat /\ kHigh <= last
      BY <1>t, <2>0, <2>1, <2>5 DEF PinSound, KSPins
    <3>2. QED
      BY <2>0, <2>2, <2>5, <3>1 DEF PinSound
  <2>6. QED
    BY <1>t, <2>0, <2>2, <2>4, <2>5, KSKeeps
<1>3. QED
  BY <1>1, <1>2

\* Every step keeps the invariant, and, with one process, the pins.
LEMMA KSStep ==
  ASSUME KSInv, [KSNext]_ksVars
  PROVE  KSKept
<1>1. CASE UNCHANGED ksVars
  <2>1. KSInv'
    BY <1>1 DEF ksVars, aurVars, catVars, kayoVars, KSInv, KSTyped, CatalogSound, ReadSound
  <2>2. KSPins => KSPins' /\ NoCatalogRollback
    BY <1>1 DEF ksVars, kayoVars, KSPins, NoCatalogRollback
  <2>3. QED
    BY <2>1, <2>2 DEF KSKept
<1>2. CASE \/ Tick \/ (\E S \in (SUBSET AurNames) \ {{}} : RegisterStart(S)) \/ Ingest
           \/ RemoveStart \/ RemoveStep \/ RotateKey
           \/ \E b \in CatalogCalls : EnvelopeStart(b) \/ Catalog(b) \/ Envelope(b)
  <2>1. KSInv' /\ UNCHANGED kayoVars
    BY <1>2, KSServer
  <2>2. KSPins => KSPins' /\ NoCatalogRollback
    BY <2>1 DEF kayoVars, KSPins, NoCatalogRollback
  <2>3. QED
    BY <2>1, <2>2 DEF KSKept
<1>3. CASE KayoConfigure
  <2>1. kMode = "none" /\ kMode' \in {"pinned", "tofu", "insecure"} /\ UNCHANGED <<kNow, aurVars, kPins, kProc, kKeysUsed, kHigh>>
    BY <1>3, KayoSourceAssumption DEF KayoConfigure
  <2>2. \A p \in KayoProcs : kProc[p] = Down
    BY <2>1 DEF KSInv
  <2>3. KSTyped'
    BY <2>1 DEF KSInv, KSTyped, aurVars, catVars
  <2>4. (\A c \in aurIssued : CatalogSound(c)') /\ \A b \in CatalogCalls : ReadSound(aurBuild[b])'
    BY <2>1 DEF KSInv, CatalogSound, ReadSound, aurVars, catVars
  <2>5. KSInv'
    BY <2>1, <2>2, <2>3, <2>4, KayoDownSound DEF KSInv, aurVars, catVars
  <2>6. ASSUME KSPins PROVE KSPins' /\ NoCatalogRollback
    <3>1. kHigh = 0
      BY <2>1, <2>6 DEF KSPins
    <3>2. \A p \in KayoProcs : PinSound(kProc[p], kMode', kPins, kHigh)
      BY <2>2, <3>1, KayoDownSound DEF PinSound
    <3>3. QED
      BY <2>1, <2>6, <3>1, <3>2 DEF KSPins, NoCatalogRollback
  <2>7. QED
    BY <2>5, <2>6 DEF KSKept
<1>4. QED
  BY <1>1, <1>2, <1>3, KSStartStop, KSSync, KSSwapMark DEF KSNext

\* The first state.
LEMMA KSStart ==
  ASSUME KSInit
  PROVE  KSInv /\ KSPins
<1>1. KSTyped
  <2>1. NoBuild \in BuildType
    BY DEF NoBuild, BuildType
  <2>2. QED
    BY <2>1, KayoDownSound DEF KSInit, KSTyped
<1>2. KSInv
  BY <1>1, KayoDownSound DEF KSInit, KSInv, ReadSound, NoBuild
<1>3. \A p \in KayoProcs : kProc[p] = Down
  BY DEF KSInit
<1>4. \A p \in KayoProcs : PinSound(kProc[p], "none", NoPin, 0)
  BY <1>3, KayoDownSound DEF PinSound
<1>5. KSPins
  BY <1>4, KayoDownSound DEF KSInit, KSPins
<1>6. QED
  BY <1>2, <1>5

\* What the invariant says of a catalog that vouches.
LEMMA VouchesInv ==
  ASSUME KSInv
  PROVE  RevocationReaches /\ VouchedIsSigned
<1>1. ASSUME NEW p \in KayoProcs, DelegatedVerified(p)
      PROVE  /\ kProc[p].served.key = ConfiguredKey
             /\ \A n \in kProc[p].served.pkgs \ aurPkgs :
                  kNow - aurGone[n] <= MaxAge + (kProc[p].served.issued - kProc[p].served.since)
  <2> DEFINE c == kProc[p].served
  <2>1. kMode = "pinned" /\ kProc[p].verified /\ kNow - kProc[p].last <= MaxAge
    BY <1>1 DEF DelegatedVerified, Verified
  <2>2. c \in aurIssued /\ c.key = ConfiguredKey /\ kProc[p].last <= c.issued
    BY <2>1 DEF KSInv, KayoSound
  <2>3. kProc[p].last \in Nat /\ c \in CatalogType /\ c.issued \in Nat /\ c.since \in Nat /\ c.pkgs \subseteq AurNames /\ kNow \in Nat
    BY DEF KSInv, KSTyped, KayoType, CatalogType
  <2>4. ASSUME NEW n \in c.pkgs \ aurPkgs PROVE kNow - aurGone[n] <= MaxAge + (c.issued - c.since)
    <3>1. c.since <= aurGone[n] /\ aurGone[n] \in Nat
      BY <2>2, <2>3 DEF KSInv, CatalogSound, ReadSound, KSTyped
    <3>2. MaxAge \in Nat
      BY KayoSourceAssumption
    <3> HIDE DEF c
    <3>3. QED
      BY <3>2, <2>1, <2>2, <2>3, <3>1, KayoSourceAssumption
  <2>5. QED
    BY <2>2, <2>4
<1>2. QED
  BY <1>1 DEF RevocationReaches, VouchedIsSigned

\* What a delegated catalog vouches for is signed with the configured key, and a package removed on
\* ayato is vouched for no longer than MaxAge and the time the catalog took to read and sign, for any
\* number of kayo processes on one pin file, of requests that build a catalog at the same time, and
\* whatever catalogs the network answers with.
THEOREM VouchingCorrect == KSSpec => [](RevocationReaches /\ VouchedIsSigned)
<1>1. KSInv /\ [KSNext]_ksVars => KSInv'
  BY KSStep DEF KSKept
<1>2. QED
  BY <1>1, KSStart, VouchesInv, PTL DEF KSSpec

\* One kayo process with its pin file never goes back to an older catalog, through any number of
\* restarts, and on trust-on-first-use accepts the key of the first catalog only.
THEOREM CatalogCorrect == OneKayo => (KSSpec => CatalogHolds)
<1> SUFFICES ASSUME OneKayo PROVE KSSpec => CatalogHolds
  OBVIOUS
<1>1. KSInv /\ KSPins /\ [KSNext]_ksVars => KSInv' /\ KSPins' /\ NoCatalogRollback
  BY KSStep DEF KSKept
<1>2. KSInv /\ KSPins => CatalogIsTrusted
  <2>1. KSPins => OneKeyOnFirstUse
    <3>1. ASSUME KSPins PROVE Cardinality(kKeysUsed) <= 1
      <4>1. kKeysUsed = {} \/ kKeysUsed = {kPins.key}
        BY <3>1 DEF KSPins
      <4>2. Cardinality({}) = 0 /\ Cardinality({kPins.key}) = 1
        BY FS_EmptySet, FS_Singleton, Zenon
      <4>3. QED
        BY <4>1, <4>2
    <3>2. QED
      BY <3>1 DEF OneKeyOnFirstUse
  <2>2. QED
    BY <2>1, VouchesInv DEF CatalogIsTrusted
<1>3. KSInv' /\ KSPins' => CatalogIsTrusted'
  BY <1>2, PTL
<1>4. QED
  BY <1>1, <1>3, KSStart, PTL DEF KSSpec, CatalogHolds

(***************************************************************************)
(* Access of CI runs.                                                      *)
(***************************************************************************)

\* A nonempty set of indices has a last one.
LEMMA LastIndex ==
  ASSUME NEW n \in Nat, NEW S \in SUBSET (1..n), S # {}
  PROVE  \E i \in S : \A k \in S : k <= i
<1> DEFINE T == {n - i : i \in S}
<1>1. T \subseteq Nat /\ T # {}
  <2>1. \A i \in S : n - i \in Nat
    OBVIOUS
  <2>2. QED
    BY <2>1
<1>2. \E m \in T : \A k \in T : <<k, m>> \notin OpToRel(<, Nat)
  <2> HIDE DEF T
  <2>1. QED
    BY <1>1, NatLessThanWellFounded, WFMin
<1>3. PICK m \in T : \A k \in T : ~(k < m)
  BY <1>1, <1>2 DEF OpToRel
<1>4. PICK i \in S : m = n - i
  BY <1>3
<1>5. \A k \in S : k <= i
  BY <1>3, <1>4
<1>6. QED
  BY <1>5

\* match finds an entry with the key that was presented.
LEMMA MatchIsAnEntry ==
  ASSUME NEW s \in CISettings, NEW presented, NEW e \in MatchKey(s.keys, presented)
  PROVE  \E i \in DOMAIN s.keys : s.keys[i].key = presented /\ e = s.keys[i]
<1> DEFINE at == {i \in DOMAIN s.keys : s.keys[i].key = presented}
<1>1. at # {} /\ e = s.keys[CHOOSE i \in at : \A k \in at : k <= i]
  BY DEF MatchKey
<1>2. DOMAIN s.keys = 1..Len(s.keys) /\ Len(s.keys) \in Nat
  BY CIAccessAssumption
<1>3. \E i \in at : \A k \in at : k <= i
  <2>1. at \in SUBSET (1..Len(s.keys))
    BY <1>2
  <2> HIDE DEF at
  <2>2. QED
    BY <1>1, <1>2, <2>1, LastIndex
<1>4. (CHOOSE i \in at : \A k \in at : k <= i) \in at
  <2> HIDE DEF at
  <2>1. QED
    BY <1>3
<1>5. QED
  BY <1>1, <1>4

\* A request was decided by its route.
CIAInv ==
  ciCase.kind # "none" =>
    /\ ciCase.kind \in {"publish", "register"} /\ ciCase.s \in CISettings /\ ciCase.r \in CIRequests
    /\ ciCase.kind = "register" => ciCase.target = "signer:register"
    /\ ciCase.ok = Route(ciCase.kind, ciCase.s, ciCase.r, ciCase.target)

\* Which requests an API key or a CI token opens, by route.
LEMMA KeyDecides ==
  ASSUME NEW s, CIEnabled(s), NEW r, NEW target
  PROVE  /\ r.apiKey # "" => (RequireCI(s, r, target) <=> AuthorizeGrant(s.keys, r.apiKey, target, "repository"))
         /\ r.apiKey # "" => (RequireSignerRegistration(s, r) <=> AuthorizeGrant(s.keys, r.apiKey, "signer:register", "service"))
         /\ r.apiKey = "" /\ r.bearer.shape = "jwt" =>
              (RequireCI(s, r, target) <=> s.oidc /\ r.bearer.genuine /\ AuthorizeClaims(s.publishers, r.bearer.claims, target))
  BY DEF RequireCI, RequireSignerRegistration, RequireServiceScope, AfterCI, Authorize, AuthorizeScope

\* An API key or a CI token decides a request alone, whatever else the request carries, and opens
\* no more than what was configured for it, for every list of keys and publishers and every request.
THEOREM AccessCorrect == CIASpec => []AccessHolds
<1>1. CIAInit => CIAInv
  BY DEF CIAInit, CIAInv
<1>2. ASSUME CIAInv, [CIANext]_ciCase PROVE CIAInv'
  <2>1. CASE UNCHANGED ciCase
    BY <1>2, <2>1 DEF CIAInv
  <2>2. ASSUME NEW s \in CISettings, NEW r \in CIRequests, RegisterCase(s, r) PROVE CIAInv'
    BY <2>2 DEF RegisterCase, CIAInv, Route
  <2>3. ASSUME NEW s \in CISettings, NEW r \in CIRequests, NEW repo \in CITargets, PublishCase(s, r, repo) PROVE CIAInv'
    BY <2>3 DEF PublishCase, CIAInv, Route
  <2>4. QED
    BY <1>2, <2>1, <2>2, <2>3 DEF CIANext
<1>3. ASSUME CIAInv PROVE AccessHolds
  <2> DEFINE c == ciCase
  <2> SUFFICES ASSUME c.kind # "none", CIEnabled(c.s) PROVE AccessHolds
    BY DEF AccessHolds, CredentialDecides, TokenIsPinned
  <2>0. /\ c.kind \in {"publish", "register"} /\ c.s \in CISettings /\ c.r \in CIRequests
        /\ c.kind = "register" => c.target = "signer:register"
        /\ c.ok = Route(c.kind, c.s, c.r, c.target)
    BY <1>3 DEF CIAInv
  <2>1. ASSUME NEW o \in CIRequests, c.r.apiKey # "" \/ (c.kind = "publish" /\ c.r.bearer.shape = "jwt"),
               o.apiKey = c.r.apiKey, c.r.apiKey # "" \/ o.bearer = c.r.bearer
        PROVE  Route(c.kind, c.s, o, c.target) = c.ok
    <3>1. Route(c.kind, c.s, o, c.target) <=> Route(c.kind, c.s, c.r, c.target)
      BY <2>0, <2>1, KeyDecides DEF Route
    <3>2. Route(c.kind, c.s, o, c.target) \in BOOLEAN /\ Route(c.kind, c.s, c.r, c.target) \in BOOLEAN
      BY DEF Route, RequireCI, RequireSignerRegistration, RequireServiceScope, RequireAdmin, AfterCI
    <3>3. QED
      BY <2>0, <3>1, <3>2
  <2>2. ASSUME c.r.apiKey # "", c.ok
        PROVE  \E i \in {i \in DOMAIN c.s.keys : c.s.keys[i].key = c.r.apiKey} :
                 {c.target, AnyTarget} \cap (IF c.kind = "publish" THEN c.s.keys[i].repos ELSE c.s.keys[i].scopes) # {}
    <3>1. AuthorizeGrant(c.s.keys, c.r.apiKey, c.target, IF c.kind = "publish" THEN "repository" ELSE "service")
      BY <2>0, <2>2, KeyDecides DEF Route
    <3>2. PICK e \in MatchKey(c.s.keys, c.r.apiKey) : Granted(IF c.kind = "publish" THEN e.repos ELSE e.scopes, c.target)
      BY <3>1 DEF AuthorizeGrant
    <3>3. PICK i \in DOMAIN c.s.keys : c.s.keys[i].key = c.r.apiKey /\ e = c.s.keys[i]
      BY <2>0, <3>2, MatchIsAnEntry
    <3>4. QED
      BY <3>2, <3>3 DEF Granted
  <2>3. CredentialDecides
    BY <2>1, <2>2 DEF CredentialDecides
  <2>4. TokenIsPinned
    <3> SUFFICES ASSUME c.kind = "publish", c.ok, c.r.apiKey = "", c.r.bearer.shape = "jwt" PROVE TokenIsPinned
      BY DEF TokenIsPinned
    <3>1. c.r.bearer.genuine /\ AuthorizeClaims(c.s.publishers, c.r.bearer.claims, c.target)
      BY <2>0, KeyDecides DEF Route
    <3>2. QED
      BY <3>1 DEF TokenIsPinned, AuthorizeClaims, PublisherMatches, Granted
  <2>5. QED
    BY <2>3, <2>4 DEF AccessHolds
<1>4. QED
  BY <1>1, <1>2, <1>3, PTL DEF CIASpec

(***************************************************************************)
(* Signing in.                                                             *)
(***************************************************************************)
Users == AuthUsers \cup {0}
Token == [typ : TokenTypes, id : 1 .. MaxTokens, fam : 0 .. MaxTokens, user : Users, exp : Nat]
DeviceType == [status : {"none", "pending", "approved", "denied"}, user : Users, exp : Nat]

\* What a request carries, by where it is; T is the set of tokens that are out.
RestCall == [pc : {"idle", "granted", "slowed"}]
RefreshCall(T) == [pc : {"refresh_session", "refresh_admin"}, tok : T, late : BOOLEAN]
RotateCall(T) == [pc : {"refresh_consume", "refresh_again"}, tok : T, late : BOOLEAN, access : Nat]
RevokeCall(T) == [pc : {"revoke_tokens"}, claims : SUBSET T, of : SUBSET T,
                  families : SUBSET [fam : 1 .. MaxTokens, ttl : Nat]]
TokenCall(T) == [pc : {"logout_token", "logout_session", "exchange"}, tok : T]
AccessCall(T) == [pc : {"access_token", "access_session", "access_admin"}, tok : T, late : BOOLEAN]
DeviceCall == [pc : {"device_index", "device_callback", "poll_read"}, dev : AuthDevices]
ReadCall == [pc : {"device_read"}, dev : AuthDevices, user : Users, status : {"approved", "denied"}]
PutCall == [pc : {"device_put"}, dev : AuthDevices, rec : DeviceType]
PollCall == [pc : {"poll_admin"}, dev : AuthDevices, user : Users]
SpendCall == [pc : {"poll_spend", "poll_unindex", "poll_answer"}, dev : AuthDevices, user : Users, exp : Nat, made : Nat]
LogCall == [pc : {"log_spend", "log_delete"}, job : AuthJobs, exp : Nat]
RemoveCall == [pc : {"remove"}, user : Users]

CallType(T) ==
  RestCall \cup RefreshCall(T) \cup RotateCall(T) \cup RevokeCall(T) \cup TokenCall(T) \cup AccessCall(T)
  \cup DeviceCall \cup ReadCall \cup PutCall \cup PollCall \cup SpendCall \cup LogCall \cup RemoveCall

AuthTyped ==
  /\ authNow \in Nat \ {0} /\ authScene \in AuthScenes
  /\ marks \in [MarkKeys -> Nat]
  /\ device \in [AuthDevices -> DeviceType] /\ logTokens \in [AuthJobs -> Nat] /\ lastPoll \in [AuthDevices -> Nat]
  /\ tokens \subseteq Token
  /\ calls \in [AuthCalls -> CallType(tokens)] /\ began \in [AuthCalls -> Nat]
  /\ redeemed \in [OneTime \X (1 .. MaxTokens) -> Nat]

\* A token has an id of its own below the number of tokens that are out.  One of a session
\* expires no later than a session that begins now.
TokenSound(t, T, now) ==
  /\ t.id <= Cardinality(T) /\ t.fam <= Cardinality(T)
  /\ t.fam # 0 <=> t.typ \in {"cli", "refresh"}
  /\ t.fam # 0 => t.exp <= now + RefreshTTL
  /\ \A u \in T : t.id = u.id => t = u

TokensSound(T, now) ==
  /\ IsFiniteSet(T) /\ Cardinality(T) <= authScene.most
  /\ \A t \in T : TokenSound(t, T, now)

\* A request that is being served began in this tick or in the last one.
Recent(C, B, now) ==
  \A c \in AuthCalls : C[c].pc # "idle" => B[c] <= now /\ now <= B[c] + 1

\* What a request knows of the token it carries, and of the expiries.
Dated(r, now) ==
  /\ r.pc \in {"refresh_session", "refresh_admin", "refresh_consume", "refresh_again"} => r.tok.typ = "refresh"
  /\ r.pc = "revoke_tokens" => /\ \A t \in r.claims : t.typ \in {"cli", "refresh"}
                               /\ \A f, g \in r.families : f.fam = g.fam => f = g
  /\ r.pc \in {"refresh_consume", "refresh_again"} => r.access <= now + RefreshTTL
  /\ r.pc \in {"poll_spend", "poll_unindex", "poll_answer"} => r.made <= now

(* One-time credentials. *)

MarkerOf(kind) == CASE kind = "refresh" -> "deny" [] kind = "code" -> "replay"
                    [] kind = "device" -> "devicespent" [] kind = "log" -> "logtokenspent"

\* The request has spent the credential and will answer with success.
Spends(r, kind, i) ==
  \/ kind = "refresh" /\ r.pc = "refresh_again" /\ r.tok.id = i
  \/ kind = "device" /\ r.pc \in {"poll_unindex", "poll_answer"} /\ r.dev = i
  \/ kind = "log" /\ r.pc = "log_delete" /\ r.job = i

\* The call r is spending the credential i of that kind and no other.
OnlySpends(r, kind, i) ==
  \A other \in OneTime, j \in 1 .. MaxTokens : Spends(r, other, j) => other = kind /\ j = i

SpentOnce(kind, i, M, R, C) ==
  /\ R[<<kind, i>>] <= 1
  /\ R[<<kind, i>>] # 0 => M[<<MarkerOf(kind), i>>] # NoRow
  /\ \A c \in AuthCalls : Spends(C[c], kind, i) =>
       /\ M[<<MarkerOf(kind), i>>] # NoRow /\ R[<<kind, i>>] = 0
       /\ \A e \in AuthCalls : Spends(C[e], kind, i) => e = c

AllSpentOnce(M, R, C) == \A kind \in OneTime, i \in 1 .. MaxTokens : SpentOnce(kind, i, M, R, C)

(* Signing out. *)

\* The marker of a session outlives its tokens, which are of a session that is known.
FamilyMarked(M, T) ==
  \A f \in 1 .. MaxTokens : M[<<"deny-session", f>>] # NoRow =>
    f <= Cardinality(T) /\ \A t \in T : t.fam = f => t.exp <= M[<<"deny-session", f>>]

\* What was signed out has a marker as long as a token of it is valid.
OutMarked(t, M, now, out) ==
  TokenId(t) \in out =>
    /\ t.typ # "session"
    /\ t.fam # 0 => Session(t) \in out
    /\ t.fam = 0 => t.exp < now \/ t.exp <= M[<<"deny", t.id>>]

SignedOutSound(M, T, now, out) ==
  /\ out \subseteq {"jti", "session"} \X (1 .. Cardinality(T))
  /\ \A f \in 1 .. MaxTokens : <<"session", f>> \in out => M[<<"deny-session", f>>] # NoRow
  /\ \A t \in T : OutMarked(t, M, now, out)

\* A refresh or an access whose token was signed out before it began is going to be refused: the
\* marker was there when it began and outlives the request, or the token has run out.
RefusedYet(r, at, M, now, out) ==
  /\ r.pc # "granted"
  /\ r.pc \in {"refresh_session", "refresh_admin", "refresh_consume", "refresh_again"} =>
       r.tok.typ = "refresh" /\ (r.late => Session(r.tok) \in out)
  /\ r.pc = "refresh_admin" =>
       \/ M[<<"deny-session", r.tok.fam>>] = NoRow \/ r.tok.exp < now
       \/ at + RefreshTTL <= M[<<"deny-session", r.tok.fam>>]
  /\ r.pc \in {"refresh_consume", "refresh_again"} =>
       \/ M[<<"deny-session", r.tok.fam>>] = NoRow
       \/ at + RefreshTTL <= M[<<"deny-session", r.tok.fam>>]
  /\ r.pc = "access_token" => r.tok.typ # "session" /\ (r.late => TokenId(r.tok) \in out \/ (r.tok.fam # 0 /\ Session(r.tok) \in out))
  /\ r.pc = "access_session" => r.tok.fam # 0 /\ (r.late => Session(r.tok) \in out)
  /\ r.pc = "access_admin" => (r.late => r.tok.exp < now)

\* A revocation has marked, or has noted, the session of every token it is done with.
RevokesAll(r, M) ==
  /\ r.pc = "revoke_tokens" =>
       /\ r.claims \subseteq r.of /\ \A t \in r.of : t.typ \in {"cli", "refresh"}
       /\ \A f \in r.families : RefreshTTL <= f.ttl /\ \E t \in r.of : t.fam = f.fam
       /\ \A t \in r.of \ r.claims :
            M[<<"deny-session", t.fam>>] # NoRow \/ \E f \in r.families : f.fam = t.fam
  /\ r.pc = "logout_token" => r.tok.typ \in {"bearer", "cli"}
  /\ r.pc = "logout_session" => r.tok.typ = "cli"

SignOutSound(M, T, now, out, C, B) ==
  /\ FamilyMarked(M, T) /\ SignedOutSound(M, T, now, out)
  /\ \A c \in AuthCalls : RefusedYet(C[c], B[c], M, now, out) /\ RevokesAll(C[c], M)

(* Polls and administrators. *)

\* A poll marker in badger has run out when a patient client comes back.
PollsPaced(M, last, C, now) ==
  /\ \A d \in AuthDevices : last[d] <= now /\ M[<<"devpoll", d>>] <= last[d] + DeviceInterval
  /\ \A c \in AuthCalls : C[c].pc # "slowed"

\* Who is about to remove an administrator has the mutex since it saw another one.
AdminKept(A, mu, C) ==
  /\ A # {} /\ A \subseteq AuthUsers
  /\ \A c \in AuthCalls : C[c].pc = "remove" => mu = {c} /\ A # {C[c].user}

AuthInv ==
  /\ AuthTyped /\ TokensSound(tokens, authNow) /\ Recent(calls, began, authNow)
  /\ \A c \in AuthCalls : Dated(calls[c], authNow)
  /\ authScene.store = "sql" => /\ AllSpentOnce(marks, redeemed, calls)
                                /\ SignOutSound(marks, tokens, authNow, signedOut, calls, began)
  /\ authScene.store = "badger" => PollsPaced(marks, lastPoll, calls, authNow)
  /\ AdminKept(admins, adminMu, calls)

(* What a request carries. *)

LEMMA CallShapes ==
  ASSUME NEW T, NEW r \in CallType(T)
  PROVE  /\ r.pc \in {"idle", "granted", "slowed"} => r \in RestCall
         /\ r.pc \in {"refresh_session", "refresh_admin"} => r \in RefreshCall(T)
         /\ r.pc \in {"refresh_consume", "refresh_again"} => r \in RotateCall(T)
         /\ r.pc = "revoke_tokens" => r \in RevokeCall(T)
         /\ r.pc \in {"logout_token", "logout_session", "exchange"} => r \in TokenCall(T)
         /\ r.pc \in {"access_token", "access_session", "access_admin"} => r \in AccessCall(T)
         /\ r.pc \in {"device_index", "device_callback", "poll_read"} => r \in DeviceCall
         /\ r.pc = "device_read" => r \in ReadCall
         /\ r.pc = "device_put" => r \in PutCall
         /\ r.pc = "poll_admin" => r \in PollCall
         /\ r.pc \in {"poll_spend", "poll_unindex", "poll_answer"} => r \in SpendCall
         /\ r.pc \in {"log_spend", "log_delete"} => r \in LogCall
         /\ r.pc = "remove" => r \in RemoveCall
<1>1. r \in RestCall => r.pc \in {"idle", "granted", "slowed"}
  BY DEF RestCall
<1>2. r \in RefreshCall(T) => r.pc \in {"refresh_session", "refresh_admin"}
  BY DEF RefreshCall
<1>3. r \in RotateCall(T) => r.pc \in {"refresh_consume", "refresh_again"}
  BY DEF RotateCall
<1>4. r \in RevokeCall(T) => r.pc = "revoke_tokens"
  BY DEF RevokeCall
<1>5. r \in TokenCall(T) => r.pc \in {"logout_token", "logout_session", "exchange"}
  BY DEF TokenCall
<1>6. r \in AccessCall(T) => r.pc \in {"access_token", "access_session", "access_admin"}
  BY DEF AccessCall
<1>7. r \in DeviceCall => r.pc \in {"device_index", "device_callback", "poll_read"}
  BY DEF DeviceCall
<1>8. (r \in ReadCall => r.pc = "device_read") /\ (r \in PutCall => r.pc = "device_put")
  BY DEF ReadCall, PutCall
<1>9. (r \in PollCall => r.pc = "poll_admin") /\ (r \in RemoveCall => r.pc = "remove")
  BY DEF PollCall, RemoveCall
<1>10. r \in SpendCall => r.pc \in {"poll_spend", "poll_unindex", "poll_answer"}
  BY DEF SpendCall
<1>11. r \in LogCall => r.pc \in {"log_spend", "log_delete"}
  BY DEF LogCall
<1>12. QED
  BY <1>1, <1>2, <1>3, <1>4, <1>5, <1>6, <1>7, <1>8, <1>9, <1>10, <1>11 DEF CallType

\* More tokens leave every request what it is.
LEMMA CallTypeGrows ==
  ASSUME NEW T, NEW U, T \subseteq U
  PROVE  CallType(T) \subseteq CallType(U)
<1>1. RefreshCall(T) \subseteq RefreshCall(U) /\ RotateCall(T) \subseteq RotateCall(U)
  BY DEF RefreshCall, RotateCall
<1>2. TokenCall(T) \subseteq TokenCall(U) /\ AccessCall(T) \subseteq AccessCall(U)
  BY DEF TokenCall, AccessCall
<1>3. RevokeCall(T) \subseteq RevokeCall(U)
  BY DEF RevokeCall
<1>4. QED
  BY <1>1, <1>2, <1>3 DEF CallType

\* A request between two steps.
LEMMA IdleIsCall ==
  ASSUME NEW T
  PROVE  /\ IdleCall \in CallType(T) /\ IdleCall.pc = "idle"
         /\ \A kind, i : ~Spends(IdleCall, kind, i)
         /\ \A now : Dated(IdleCall, now)
         /\ \A at, M, now, out : RefusedYet(IdleCall, at, M, now, out)
         /\ \A M : RevokesAll(IdleCall, M)
<1>1. IdleCall.pc = "idle" /\ IdleCall \in RestCall
  BY DEF IdleCall, RestCall
<1>2. \A now : Dated(IdleCall, now)
  BY <1>1 DEF Dated
<1>3. \A at, M, now, out : RefusedYet(IdleCall, at, M, now, out)
  BY <1>1 DEF RefusedYet
<1>4. \A M : RevokesAll(IdleCall, M)
  BY <1>1 DEF RevokesAll
<1>5. \A kind, i : ~Spends(IdleCall, kind, i)
  BY <1>1 DEF Spends
<1>6. QED
  BY <1>1, <1>2, <1>3, <1>4, <1>5 DEF CallType

LEMMA SceneTyped ==
  ASSUME AuthTyped
  PROVE  authScene.store \in {"sql", "badger"} /\ authScene.most \in 0 .. MaxTokens
BY AuthAssumption DEF AuthTyped

LEMMA TimesTyped ==
  /\ AccessTTL \in Nat \ {0} /\ RefreshTTL \in Nat \ {0} /\ SessionTTL \in Nat /\ CodeTTL \in Nat /\ DeviceTTL \in Nat
  /\ DeviceInterval \in Nat \ {0} /\ LogTokenTTL \in Nat \ {0} /\ AccessTTL <= RefreshTTL /\ MaxTokens \in Nat
BY AuthAssumption

\* One request moves on, the others stay.
LEMMA GotoMoves ==
  ASSUME AuthInv, NEW c \in AuthCalls, NEW r, Goto(c, r), tokens \subseteq tokens', r \in CallType(tokens'),
         authNow' = authNow, Dated(r, authNow)
  PROVE  /\ calls' \in [AuthCalls -> CallType(tokens')] /\ began' \in [AuthCalls -> Nat]
         /\ calls' = [calls EXCEPT ![c] = r] /\ calls'[c] = r
         /\ \A e \in AuthCalls : e # c => calls'[e] = calls[e] /\ began'[e] = began[e]
         /\ calls[c].pc # "idle" /\ r.pc # "idle" => began'[c] = began[c]
         /\ Recent(calls', began', authNow')
         /\ \A e \in AuthCalls : Dated(calls'[e], authNow')
<1>1. /\ calls' = [calls EXCEPT ![c] = r]
      /\ began' = [began EXCEPT ![c] = IF r.pc = "idle" THEN 0 ELSE IF calls[c].pc = "idle" THEN authNow ELSE began[c]]
  BY DEF Goto
<1>2. AuthTyped /\ Recent(calls, began, authNow) /\ \A e \in AuthCalls : Dated(calls[e], authNow)
  BY DEF AuthInv
<1>3. authNow \in Nat /\ calls \in [AuthCalls -> CallType(tokens)] /\ began \in [AuthCalls -> Nat]
  BY <1>2 DEF AuthTyped
<1>4. calls \in [AuthCalls -> CallType(tokens')]
  <2> HIDE DEF CallType
  <2>1. CallType(tokens) \subseteq CallType(tokens')
    BY CallTypeGrows
  <2>2. QED
    BY <1>3, <2>1
<1>5. calls' \in [AuthCalls -> CallType(tokens')] /\ calls'[c] = r /\ \A e \in AuthCalls : e # c => calls'[e] = calls[e]
  BY <1>1, <1>4
<1>6. /\ began' \in [AuthCalls -> Nat] /\ \A e \in AuthCalls : e # c => began'[e] = began[e]
      /\ began'[c] = IF r.pc = "idle" THEN 0 ELSE IF calls[c].pc = "idle" THEN authNow ELSE began[c]
  BY <1>1, <1>3
<1>7. Recent(calls', began', authNow')
  <2> SUFFICES ASSUME NEW e \in AuthCalls, calls'[e].pc # "idle"
               PROVE  began'[e] <= authNow /\ authNow <= began'[e] + 1
    BY DEF Recent
  <2>1. CASE e # c
    BY <1>2, <1>5, <1>6, <2>1 DEF Recent
  <2>2. CASE e = c /\ calls[c].pc = "idle"
    BY <1>3, <1>5, <1>6, <2>2
  <2>3. CASE e = c /\ calls[c].pc # "idle"
    BY <1>2, <1>5, <1>6, <2>3 DEF Recent
  <2>4. QED
    BY <2>1, <2>2, <2>3
<1>8. \A e \in AuthCalls : Dated(calls'[e], authNow')
  BY <1>2, <1>5
<1>9. QED
  BY <1>1, <1>5, <1>6, <1>7, <1>8

(* One-time credentials: a marker, once written, stays, so a credential is spent by one request. *)

LEMMA MarkerIsKey ==
  ASSUME NEW kind \in OneTime, NEW i \in 1 .. MaxTokens
  PROVE  /\ <<MarkerOf(kind), i>> \in MarkKeys /\ <<kind, i>> \in OneTime \X (1 .. MaxTokens)
         /\ \A other \in OneTime : MarkerOf(other) = MarkerOf(kind) => other = kind
BY DEF MarkerOf, OneTime, MarkKeys, MarkNamespaces

\* A step that spends nothing more.
LEMMA SpentKeeps ==
  ASSUME AuthTyped, AllSpentOnce(marks, redeemed, calls), NEW c \in AuthCalls, NEW r,
         calls'[c] = r, \A e \in AuthCalls : e # c => calls'[e] = calls[e],
         \A kind \in OneTime, i \in 1 .. MaxTokens : Spends(r, kind, i) => Spends(calls[c], kind, i),
         \A k \in MarkKeys : marks[k] # NoRow => marks'[k] # NoRow,
         redeemed' = redeemed
  PROVE  AllSpentOnce(marks', redeemed', calls')
<1> SUFFICES ASSUME NEW kind \in OneTime, NEW i \in 1 .. MaxTokens PROVE SpentOnce(kind, i, marks', redeemed', calls')
  BY DEF AllSpentOnce
<1>1. SpentOnce(kind, i, marks, redeemed, calls) /\ <<MarkerOf(kind), i>> \in MarkKeys
  BY MarkerIsKey DEF AllSpentOnce
<1>2. \A e \in AuthCalls : Spends(calls'[e], kind, i) => Spends(calls[e], kind, i)
  BY Zenon
<1>3. marks[<<MarkerOf(kind), i>>] # NoRow => marks'[<<MarkerOf(kind), i>>] # NoRow
  BY <1>1
<1>4. QED
  BY <1>1, <1>2, <1>3 DEF SpentOnce

\* A request writes the marker that was not there.
LEMMA SpentBegins ==
  ASSUME AuthTyped, AllSpentOnce(marks, redeemed, calls), NEW c \in AuthCalls,
         NEW kind \in OneTime, NEW i \in 1 .. MaxTokens, NEW x \in Nat \ {0},
         marks[<<MarkerOf(kind), i>>] = NoRow, marks' = [marks EXCEPT ![<<MarkerOf(kind), i>>] = x],
         \A e \in AuthCalls : e # c => calls'[e] = calls[e],
         OnlySpends(calls'[c], kind, i),
         redeemed' = redeemed
  PROVE  AllSpentOnce(marks', redeemed', calls')
<1> SUFFICES ASSUME NEW other \in OneTime, NEW j \in 1 .. MaxTokens PROVE SpentOnce(other, j, marks', redeemed', calls')
  BY DEF AllSpentOnce
<1> DEFINE m == MarkerOf(other)  n == MarkerOf(kind)
<1>1. SpentOnce(other, j, marks, redeemed, calls) /\ <<m, j>> \in MarkKeys /\ <<other, j>> \in OneTime \X (1 .. MaxTokens)
  BY MarkerIsKey DEF AllSpentOnce
<1>2. marks \in [MarkKeys -> Nat] /\ redeemed[<<other, j>>] \in Nat /\ <<n, i>> \in MarkKeys
  BY <1>1, MarkerIsKey DEF AuthTyped
<1>3. <<m, j>> = <<n, i>> => other = kind /\ j = i
  BY MarkerIsKey
<1> HIDE DEF m, n
<1>4. CASE other = kind /\ j = i
  <2>1. marks'[<<m, j>>] = x /\ x # NoRow /\ marks[<<m, j>>] = NoRow
    BY <1>2, <1>4 DEF NoRow, m, n
  <2>2. redeemed[<<other, j>>] = 0 /\ \A e \in AuthCalls : ~Spends(calls[e], other, j)
    BY <1>1, <1>2, <2>1 DEF SpentOnce, m
  <2>3. \A e \in AuthCalls : Spends(calls'[e], other, j) => e = c
    BY <2>2
  <2>4. QED
    BY <2>1, <2>2, <2>3 DEF SpentOnce, m
<1>5. CASE ~(other = kind /\ j = i)
  <2>1. marks'[<<m, j>>] = marks[<<m, j>>]
    BY <1>1, <1>2, <1>3, <1>5 DEF n, m
  <2>2. \A e \in AuthCalls : Spends(calls'[e], other, j) => Spends(calls[e], other, j)
    BY <1>5 DEF OnlySpends
  <2>3. QED
    BY <1>1, <2>1, <2>2 DEF SpentOnce, m
<1>6. QED
  BY <1>4, <1>5

\* The request that spent it answers with success.
LEMMA SpentEnds ==
  ASSUME AuthTyped, AllSpentOnce(marks, redeemed, calls), NEW c \in AuthCalls, NEW r,
         NEW kind \in OneTime, NEW i \in 1 .. MaxTokens, Spends(calls[c], kind, i),
         marks' = marks, redeemed' = [redeemed EXCEPT ![<<kind, i>>] = @ + 1],
         calls'[c] = r, \A e \in AuthCalls : e # c => calls'[e] = calls[e],
         \A other \in OneTime, j \in 1 .. MaxTokens : ~Spends(r, other, j)
  PROVE  AllSpentOnce(marks', redeemed', calls')
<1> SUFFICES ASSUME NEW other \in OneTime, NEW j \in 1 .. MaxTokens PROVE SpentOnce(other, j, marks', redeemed', calls')
  BY DEF AllSpentOnce
<1>1. SpentOnce(other, j, marks, redeemed, calls) /\ <<other, j>> \in OneTime \X (1 .. MaxTokens)
  BY MarkerIsKey DEF AllSpentOnce
<1>2. redeemed \in [OneTime \X (1 .. MaxTokens) -> Nat] /\ <<kind, i>> \in OneTime \X (1 .. MaxTokens)
  BY MarkerIsKey DEF AuthTyped
<1>3. SpentOnce(kind, i, marks, redeemed, calls)
  BY DEF AllSpentOnce
<1>4. CASE other = kind /\ j = i
  <2>1. marks'[<<MarkerOf(kind), i>>] # NoRow /\ redeemed[<<kind, i>>] = 0
    BY <1>3 DEF SpentOnce
  <2>2. redeemed'[<<kind, i>>] = 1
    BY <1>2, <2>1
  <2>3. \A e \in AuthCalls : e # c => ~Spends(calls[e], kind, i)
    BY <1>3 DEF SpentOnce
  <2>4. \A e \in AuthCalls : ~Spends(calls'[e], kind, i)
    BY <2>3
  <2>5. QED
    BY <1>4, <2>1, <2>2, <2>4 DEF SpentOnce
<1>5. CASE ~(other = kind /\ j = i)
  <2>1. <<other, j>> # <<kind, i>>
    BY <1>5
  <2>2. redeemed'[<<other, j>>] = redeemed[<<other, j>>]
    BY <1>1, <1>2, <2>1
  <2>3. \A e \in AuthCalls : Spends(calls'[e], other, j) => Spends(calls[e], other, j)
    OBVIOUS
  <2>4. QED
    BY <1>1, <2>2, <2>3 DEF SpentOnce
<1>6. QED
  BY <1>4, <1>5

\* A one-time code is spent and answered in one step.
LEMMA SpentAtOnce ==
  ASSUME AuthTyped, AllSpentOnce(marks, redeemed, calls), NEW c \in AuthCalls,
         NEW i \in 1 .. MaxTokens, NEW x \in Nat \ {0},
         marks[<<"replay", i>>] = NoRow, marks' = [marks EXCEPT ![<<"replay", i>>] = x],
         redeemed' = [redeemed EXCEPT ![<<"code", i>>] = @ + 1],
         calls'[c] = IdleCall, \A e \in AuthCalls : e # c => calls'[e] = calls[e]
  PROVE  AllSpentOnce(marks', redeemed', calls')
<1> SUFFICES ASSUME NEW other \in OneTime, NEW j \in 1 .. MaxTokens PROVE SpentOnce(other, j, marks', redeemed', calls')
  BY DEF AllSpentOnce
<1>1. SpentOnce(other, j, marks, redeemed, calls) /\ <<other, j>> \in OneTime \X (1 .. MaxTokens) /\ <<MarkerOf(other), j>> \in MarkKeys
  BY MarkerIsKey DEF AllSpentOnce
<1>2. MarkerOf("code") = "replay" /\ "code" \in OneTime
  BY DEF MarkerOf, OneTime
<1>3. /\ redeemed \in [OneTime \X (1 .. MaxTokens) -> Nat] /\ <<"code", i>> \in OneTime \X (1 .. MaxTokens)
      /\ marks \in [MarkKeys -> Nat] /\ <<"replay", i>> \in MarkKeys
  BY <1>2, MarkerIsKey DEF AuthTyped
<1>4. \A e \in AuthCalls : Spends(calls'[e], other, j) => Spends(calls[e], other, j)
  BY IdleIsCall
<1>5. CASE other = "code" /\ j = i
  <2>1. redeemed[<<"code", i>>] = 0
    BY <1>1, <1>2, <1>3, <1>5 DEF SpentOnce
  <2>2. redeemed'[<<"code", i>>] = 1 /\ marks'[<<"replay", i>>] # NoRow
    BY <1>3, <2>1 DEF NoRow
  <2>3. \A e \in AuthCalls : ~Spends(calls'[e], "code", i)
    BY DEF Spends
  <2>4. QED
    BY <1>2, <1>5, <2>2, <2>3 DEF SpentOnce
<1>6. CASE ~(other = "code" /\ j = i)
  <2>1. redeemed'[<<other, j>>] = redeemed[<<other, j>>]
    BY <1>1, <1>3, <1>6
  <2>2. MarkerOf(other) = "replay" => other = "code"
    BY <1>2, MarkerIsKey
  <2>3. marks'[<<MarkerOf(other), j>>] = marks[<<MarkerOf(other), j>>]
    BY <1>1, <1>3, <1>6, <2>2
  <2>4. QED
    BY <1>1, <1>4, <2>1, <2>3 DEF SpentOnce
<1>7. QED
  BY <1>5, <1>6

(* Signing out. *)

LEMMA TokenKeys ==
  ASSUME AuthTyped, TokensSound(tokens, authNow), NEW t \in tokens
  PROVE  /\ t.id \in 1 .. MaxTokens /\ t.fam \in 0 .. MaxTokens /\ t.exp \in Nat /\ t.typ \in TokenTypes /\ t.user \in Users
         /\ t.fam # 0 <=> t.typ \in {"cli", "refresh"}
         /\ t.fam # 0 => t.fam \in 1 .. MaxTokens /\ t.exp <= authNow + RefreshTTL
         /\ t.id \in 1 .. Cardinality(tokens) /\ t.fam \in 0 .. Cardinality(tokens) /\ Cardinality(tokens) \in 0 .. MaxTokens
         /\ \A u \in tokens : u.id = t.id => u = t
<1>1. t \in Token
  BY DEF AuthTyped
<1>2. t.id \in 1 .. MaxTokens /\ t.fam \in 0 .. MaxTokens /\ t.exp \in Nat /\ t.typ \in TokenTypes /\ t.user \in Users
  BY <1>1 DEF Token
<1>3. TokenSound(t, tokens, authNow)
  BY DEF TokensSound
<1>4. Cardinality(tokens) \in Nat
  BY FS_CardinalityType DEF TokensSound
<1>5. Cardinality(tokens) <= MaxTokens
  BY <1>4, SceneTyped, TimesTyped DEF TokensSound
<1>6. \A u \in tokens : u.id = t.id => u = t
  BY <1>3 DEF TokenSound
<1>7. QED
  BY <1>2, <1>3, <1>4, <1>5, <1>6, TimesTyped DEF TokenSound

\* What a refresh or an access knows stands when time passes, more is signed out and sessions are marked.
LEMMA RefusedStays ==
  ASSUME AuthTyped, TokensSound(tokens, authNow), NEW r \in CallType(tokens), NEW at, NEW M, NEW N, NEW later \in Nat,
         NEW out, NEW out2, authNow <= later, out \subseteq out2, RefusedYet(r, at, M, authNow, out),
         r.pc # "idle" => \A f \in 1 .. MaxTokens : \/ N[<<"deny-session", f>>] = M[<<"deny-session", f>>]
                                                    \/ at + RefreshTTL <= N[<<"deny-session", f>>]
  PROVE  RefusedYet(r, at, N, later, out2)
<1> DEFINE refresh == {"refresh_session", "refresh_admin", "refresh_consume", "refresh_again"}
           access == {"access_token", "access_session", "access_admin"}
<1>1. authNow \in Nat
  BY DEF AuthTyped
<1>2. r.pc # "granted"
  BY DEF RefusedYet
<1>3. CASE r.pc \in refresh
  <2>1. r \in RefreshCall(tokens) \/ r \in RotateCall(tokens)
    BY <1>3, CallShapes, Zenon
  <2>2. r.tok \in tokens
    BY <2>1 DEF RefreshCall, RotateCall
  <2>3. r.tok.typ = "refresh"
    BY <1>3 DEF RefusedYet
  <2>4. r.tok.fam \in 1 .. MaxTokens /\ r.tok.exp \in Nat
    BY <2>2, <2>3, TokenKeys
  <2>5. \/ N[<<"deny-session", r.tok.fam>>] = M[<<"deny-session", r.tok.fam>>]
        \/ at + RefreshTTL <= N[<<"deny-session", r.tok.fam>>]
    BY <1>3, <2>4
  <2>6. r.tok.exp < authNow => r.tok.exp < later
    BY <1>1, <2>4
  <2>7. r.late => Session(r.tok) \in out2
    BY <1>3 DEF RefusedYet
  <2> DEFINE n == N[<<"deny-session", r.tok.fam>>]  m == M[<<"deny-session", r.tok.fam>>]
  <2>8. r.pc = "refresh_admin" => n = NoRow \/ r.tok.exp < later \/ at + RefreshTTL <= n
    BY <2>5, <2>6 DEF RefusedYet
  <2>9. r.pc \in {"refresh_consume", "refresh_again"} => n = NoRow \/ at + RefreshTTL <= n
    BY <2>5 DEF RefusedYet
  <2>10. QED
    BY <1>3, <2>3, <2>7, <2>8, <2>9 DEF RefusedYet
<1>4. CASE r.pc \in access
  <2>1. r \in AccessCall(tokens)
    BY <1>4, CallShapes, Zenon
  <2>2. r.tok \in tokens
    BY <2>1 DEF AccessCall
  <2>3. r.tok.exp \in Nat
    BY <2>2, TokenKeys
  <2>4. r.tok.exp < authNow => r.tok.exp < later
    BY <1>1, <2>3
  <2>5. r.pc = "access_token" =>
          r.tok.typ # "session" /\ (r.late => TokenId(r.tok) \in out2 \/ (r.tok.fam # 0 /\ Session(r.tok) \in out2))
    BY DEF RefusedYet
  <2>6. r.pc = "access_session" => r.tok.fam # 0 /\ (r.late => Session(r.tok) \in out2)
    BY DEF RefusedYet
  <2>7. r.pc = "access_admin" => (r.late => r.tok.exp < later)
    BY <2>4 DEF RefusedYet
  <2>8. QED
    BY <1>4, <2>5, <2>6, <2>7 DEF RefusedYet
<1>5. CASE r.pc \notin refresh \cup access
  BY <1>2, <1>5 DEF RefusedYet
<1>6. QED
  BY <1>3, <1>4, <1>5

LEMMA RevokesStays ==
  ASSUME AuthTyped, TokensSound(tokens, authNow), NEW r \in CallType(tokens), NEW M, NEW N, RevokesAll(r, M),
         \A f \in 1 .. MaxTokens : M[<<"deny-session", f>>] # NoRow => N[<<"deny-session", f>>] # NoRow
  PROVE  RevokesAll(r, N)
<1>1. CASE r.pc # "revoke_tokens"
  BY <1>1 DEF RevokesAll
<1>2. CASE r.pc = "revoke_tokens"
  <2>1. r \in RevokeCall(tokens)
    BY <1>2, CallShapes, Zenon
  <2>2. r.of \subseteq tokens
    BY <2>1 DEF RevokeCall
  <2>3. \A t \in r.of : t.typ \in {"cli", "refresh"}
    BY <1>2 DEF RevokesAll
  <2>4. \A t \in r.of : t.fam \in 1 .. MaxTokens
    BY <2>2, <2>3, TokenKeys
  <2>5. \A t \in r.of \ r.claims : N[<<"deny-session", t.fam>>] # NoRow \/ \E f \in r.families : f.fam = t.fam
    BY <1>2, <2>4 DEF RevokesAll
  <2>6. QED
    BY <1>2, <2>5 DEF RevokesAll
<1>3. QED
  BY <1>1, <1>2

\* One request moves on: the markers, the tokens and what was signed out fit together again.
LEMMA OutSteps ==
  ASSUME AuthTyped, TokensSound(tokens, authNow), Recent(calls, began, authNow),
         SignOutSound(marks, tokens, authNow, signedOut, calls, began),
         NEW c \in AuthCalls, NEW r, calls'[c] = r,
         \A e \in AuthCalls : e # c => calls'[e] = calls[e] /\ began'[e] = began[e],
         authNow' = authNow, signedOut \subseteq signedOut',
         \A f \in 1 .. MaxTokens : \/ marks'[<<"deny-session", f>>] = marks[<<"deny-session", f>>]
                                   \/ authNow + RefreshTTL <= marks'[<<"deny-session", f>>],
         marks' \in [MarkKeys -> Nat],
         FamilyMarked(marks', tokens'), SignedOutSound(marks', tokens', authNow', signedOut'),
         RefusedYet(r, began'[c], marks', authNow', signedOut'), RevokesAll(r, marks')
  PROVE  SignOutSound(marks', tokens', authNow', signedOut', calls', began')
<1>1. authNow \in Nat /\ calls \in [AuthCalls -> CallType(tokens)] /\ began \in [AuthCalls -> Nat] /\ marks \in [MarkKeys -> Nat]
  BY DEF AuthTyped
<1>2. \A f \in 1 .. MaxTokens : <<"deny-session", f>> \in MarkKeys
  BY DEF MarkKeys, MarkNamespaces
<1>3. \A f \in 1 .. MaxTokens : marks[<<"deny-session", f>>] # NoRow => marks'[<<"deny-session", f>>] # NoRow
  BY <1>1, TimesTyped DEF NoRow
<1>4. ASSUME NEW e \in AuthCalls, e # c
      PROVE  RefusedYet(calls'[e], began'[e], marks', authNow', signedOut') /\ RevokesAll(calls'[e], marks')
  <2> HIDE DEF CallType
  <2>1. calls[e] \in CallType(tokens) /\ began[e] \in Nat
    BY <1>1
  <2>2. RefusedYet(calls[e], began[e], marks, authNow, signedOut) /\ RevokesAll(calls[e], marks)
    BY DEF SignOutSound
  <2>3. calls[e].pc # "idle" => began[e] <= authNow
    BY DEF Recent
  <2>4. calls[e].pc # "idle" => \A f \in 1 .. MaxTokens : \/ marks'[<<"deny-session", f>>] = marks[<<"deny-session", f>>]
                                                         \/ began[e] + RefreshTTL <= marks'[<<"deny-session", f>>]
    <3> SUFFICES ASSUME calls[e].pc # "idle", NEW f \in 1 .. MaxTokens, marks'[<<"deny-session", f>>] # marks[<<"deny-session", f>>]
                 PROVE  began[e] + RefreshTTL <= marks'[<<"deny-session", f>>]
      OBVIOUS
    <3>1. authNow + RefreshTTL <= marks'[<<"deny-session", f>>] /\ marks'[<<"deny-session", f>>] \in Nat
      BY <1>2
    <3>2. QED
      BY <1>1, <2>1, <2>3, <3>1, TimesTyped
  <2>5. RefusedYet(calls[e], began[e], marks', authNow, signedOut')
    <3>1. authNow <= authNow
      BY <1>1
    <3>2. QED
      BY <1>1, <2>1, <2>2, <2>4, <3>1, RefusedStays, Zenon
  <2>6. RevokesAll(calls[e], marks')
    BY <1>3, <2>1, <2>2, RevokesStays
  <2>7. QED
    BY <1>4, <2>5, <2>6
<1>5. QED
  BY <1>4 DEF SignOutSound

\* The markers of sessions are as they were, and no token's marker is cut short.
LEMMA OutSame ==
  ASSUME AuthTyped, TokensSound(tokens, authNow), NEW M, NEW out,
         FamilyMarked(marks, tokens), SignedOutSound(marks, tokens, authNow, out),
         \A f \in 1 .. MaxTokens : M[<<"deny-session", f>>] = marks[<<"deny-session", f>>],
         \A t \in tokens : t.exp <= marks[<<"deny", t.id>>] => t.exp <= M[<<"deny", t.id>>]
  PROVE  FamilyMarked(M, tokens) /\ SignedOutSound(M, tokens, authNow, out)
<1>1. FamilyMarked(M, tokens)
  BY DEF FamilyMarked
<1>2. \A t \in tokens : OutMarked(t, M, authNow, out)
  BY DEF SignedOutSound, OutMarked
<1>3. QED
  BY <1>1, <1>2 DEF SignedOutSound

\* The marker of a session is written, for as long as a whole session.
LEMMA OutMarks ==
  ASSUME AuthTyped, TokensSound(tokens, authNow), FamilyMarked(marks, tokens),
         SignedOutSound(marks, tokens, authNow, signedOut),
         NEW t \in tokens, t.typ \in {"cli", "refresh"}, NEW ttl \in Nat, RefreshTTL <= ttl,
         marks' = [marks EXCEPT ![<<"deny-session", t.fam>>] = authNow + ttl]
  PROVE  /\ FamilyMarked(marks', tokens) /\ SignedOutSound(marks', tokens, authNow, signedOut)
         /\ marks' \in [MarkKeys -> Nat] /\ marks'[<<"deny-session", t.fam>>] # NoRow
         /\ \A k \in MarkKeys : marks[k] # NoRow => marks'[k] # NoRow
         /\ \A k \in MarkKeys : k # <<"deny-session", t.fam>> => marks'[k] = marks[k]
         /\ \A f \in 1 .. MaxTokens : \/ marks'[<<"deny-session", f>>] = marks[<<"deny-session", f>>]
                                      \/ authNow + RefreshTTL <= marks'[<<"deny-session", f>>]
<1>1. authNow \in Nat \ {0} /\ marks \in [MarkKeys -> Nat] /\ t.fam \in 1 .. MaxTokens /\ t.fam <= Cardinality(tokens)
  BY TokenKeys DEF AuthTyped
<1>2. \A f \in 1 .. MaxTokens : <<"deny-session", f>> \in MarkKeys
  BY DEF MarkKeys, MarkNamespaces
<1>3. authNow + ttl \in Nat \ {0} /\ authNow + RefreshTTL <= authNow + ttl
  BY <1>1, TimesTyped
<1>4. /\ marks' \in [MarkKeys -> Nat] /\ marks'[<<"deny-session", t.fam>>] = authNow + ttl
      /\ \A k \in MarkKeys : k # <<"deny-session", t.fam>> => marks'[k] = marks[k]
  BY <1>1, <1>2, <1>3
<1>5. \A f \in 1 .. MaxTokens : f # t.fam => marks'[<<"deny-session", f>>] = marks[<<"deny-session", f>>]
  BY <1>2, <1>4
<1>6. \A k \in MarkKeys : marks[k] # NoRow => marks'[k] # NoRow
  BY <1>3, <1>4 DEF NoRow
<1>7. \A u \in tokens : u.fam = t.fam => u.exp <= authNow + ttl
  <2> SUFFICES ASSUME NEW u \in tokens, u.fam = t.fam PROVE u.exp <= authNow + ttl
    OBVIOUS
  <2>1. u.fam # 0 /\ u.exp \in Nat /\ u.exp <= authNow + RefreshTTL
    BY <1>1, TokenKeys
  <2>2. QED
    BY <1>1, <1>3, <2>1, TimesTyped
<1>8. FamilyMarked(marks', tokens)
  <2> SUFFICES ASSUME NEW f \in 1 .. MaxTokens, marks'[<<"deny-session", f>>] # NoRow
               PROVE  f <= Cardinality(tokens) /\ \A u \in tokens : u.fam = f => u.exp <= marks'[<<"deny-session", f>>]
    BY DEF FamilyMarked
  <2>1. CASE f = t.fam
    BY <1>1, <1>4, <1>7, <2>1
  <2>2. CASE f # t.fam
    BY <1>5, <2>2 DEF FamilyMarked
  <2>3. QED
    BY <2>1, <2>2
<1>9. \A i \in 1 .. MaxTokens : marks'[<<"deny", i>>] = marks[<<"deny", i>>]
  BY <1>4 DEF MarkKeys, MarkNamespaces
<1>10. SignedOutSound(marks', tokens, authNow, signedOut)
  <2>1. \A f \in 1 .. MaxTokens : <<"session", f>> \in signedOut => marks'[<<"deny-session", f>>] # NoRow
    BY <1>2, <1>6 DEF SignedOutSound
  <2>2. ASSUME NEW u \in tokens PROVE OutMarked(u, marks', authNow, signedOut)
    <3>1. u.id \in 1 .. MaxTokens
      BY TokenKeys
    <3>2. OutMarked(u, marks, authNow, signedOut)
      BY DEF SignedOutSound
    <3>3. QED
      BY <1>9, <3>1, <3>2 DEF OutMarked
  <2>3. QED
    BY <2>1, <2>2 DEF SignedOutSound
<1>11. QED
  BY <1>3, <1>4, <1>5, <1>6, <1>8, <1>10 DEF NoRow

\* The marker of a token is written for as long as it lives.
LEMMA OutDenies ==
  ASSUME AuthTyped, TokensSound(tokens, authNow), NEW t \in tokens, DenyToken(t)
  PROVE  /\ marks' \in [MarkKeys -> Nat]
         /\ \A k \in MarkKeys : marks[k] # NoRow => marks'[k] # NoRow
         /\ \A k \in MarkKeys : k # <<"deny", t.id>> => marks'[k] = marks[k]
         /\ \A u \in tokens : u.exp <= marks[<<"deny", u.id>>] => u.exp <= marks'[<<"deny", u.id>>]
         /\ t.exp < authNow \/ t.exp <= marks'[<<"deny", t.id>>]
<1>1. /\ authNow \in Nat \ {0} /\ marks \in [MarkKeys -> Nat] /\ t.id \in 1 .. MaxTokens /\ t.exp \in Nat
      /\ <<"deny", t.id>> \in MarkKeys
  BY TokenKeys DEF AuthTyped, MarkKeys, MarkNamespaces
<1>2. CASE ~Valid(t)
  <2>1. marks' = marks /\ t.exp < authNow
    BY <1>1, <1>2 DEF DenyToken, Valid
  <2>2. QED
    BY <1>1, <2>1
<1>3. CASE Valid(t)
  <2>1. marks' = [marks EXCEPT ![<<"deny", t.id>>] = t.exp] /\ t.exp # NoRow
    BY <1>1, <1>3 DEF DenyToken, Valid, PutMark, NoRow
  <2>2. marks' \in [MarkKeys -> Nat] /\ marks'[<<"deny", t.id>>] = t.exp /\ \A k \in MarkKeys : k # <<"deny", t.id>> => marks'[k] = marks[k]
    BY <1>1, <2>1
  <2>3. ASSUME NEW u \in tokens, u.exp <= marks[<<"deny", u.id>>] PROVE u.exp <= marks'[<<"deny", u.id>>]
    <3>1. u.id \in 1 .. MaxTokens /\ (u.id = t.id => u = t)
      BY TokenKeys
    <3>2. CASE u.id = t.id
      BY <1>1, <2>2, <3>1, <3>2
    <3>3. CASE u.id # t.id
      <4>1. <<"deny", u.id>> \in MarkKeys /\ <<"deny", u.id>> # <<"deny", t.id>>
        BY <3>1, <3>3 DEF MarkKeys, MarkNamespaces
      <4>2. QED
        BY <2>2, <2>3, <4>1
    <3>4. QED
      BY <3>2, <3>3
  <2>4. QED
    BY <1>1, <2>1, <2>2, <2>3
<1>4. QED
  BY <1>2, <1>3

\* New tokens have new ids; those of a session come out only while it has no marker.
LEMMA TokensGrow ==
  ASSUME AuthTyped, TokensSound(tokens, authNow), NEW new, new # {}, IsFiniteSet(new), new \subseteq Token,
         Cardinality(tokens) + Cardinality(new) <= authScene.most,
         \A t \in new : /\ t.id \in (Cardinality(tokens) + 1) .. (Cardinality(tokens) + Cardinality(new))
                        /\ t.fam \in 0 .. (Cardinality(tokens) + 1)
                        /\ t.fam # 0 <=> t.typ \in {"cli", "refresh"}
                        /\ t.fam # 0 => t.exp <= authNow + RefreshTTL
                        /\ \A u \in new : t.id = u.id => t = u,
         tokens' = tokens \cup new
  PROVE  /\ tokens' \subseteq Token /\ TokensSound(tokens', authNow) /\ authScene.most \in Nat
         /\ Cardinality(tokens') = Cardinality(tokens) + Cardinality(new) /\ Cardinality(tokens) \in Nat
         /\ Cardinality(tokens) + 1 <= Cardinality(tokens')
<1>1. IsFiniteSet(tokens) /\ Cardinality(tokens) \in Nat /\ Cardinality(new) \in Nat /\ Cardinality(new) # 0
  BY FS_CardinalityType, FS_EmptySet DEF TokensSound
<1>2. \A t \in tokens : t.id \in 1 .. Cardinality(tokens) /\ t.fam \in 0 .. Cardinality(tokens)
  BY TokenKeys
<1>3. tokens \cap new = {}
  BY <1>1, <1>2
<1>4. IsFiniteSet(tokens') /\ Cardinality(tokens') = Cardinality(tokens) + Cardinality(new) - Cardinality(tokens \cap new)
  BY <1>1, FS_Union
<1>5. Cardinality(tokens') = Cardinality(tokens) + Cardinality(new)
  <2>1. Cardinality(tokens \cap new) = 0
    BY <1>3, FS_EmptySet
  <2>2. QED
    BY <1>1, <1>4, <2>1
<1>6. Cardinality(tokens) + 1 <= Cardinality(tokens') /\ Cardinality(tokens') \in Nat
  BY <1>1, <1>5
<1>7. ASSUME NEW t \in tokens PROVE TokenSound(t, tokens', authNow)
  <2>1. t.id <= Cardinality(tokens') /\ t.fam <= Cardinality(tokens')
    <3>1. t.id \in 1 .. Cardinality(tokens) /\ t.fam \in 0 .. Cardinality(tokens)
      BY <1>2
    <3> HIDE DEF TokensSound
    <3>2. QED
      BY <1>1, <1>6, <3>1
  <2>2. \A u \in tokens' : t.id = u.id => t = u
    BY <1>1, <1>2, TokenKeys
  <2>3. QED
    BY <2>1, <2>2 DEF TokensSound, TokenSound
<1>8. ASSUME NEW t \in new PROVE TokenSound(t, tokens', authNow)
  <2>1. t.id <= Cardinality(tokens') /\ t.fam <= Cardinality(tokens')
    BY <1>1, <1>5, <1>6
  <2>2. \A u \in tokens' : t.id = u.id => t = u
    BY <1>1, <1>2
  <2>3. QED
    BY <2>1, <2>2 DEF TokenSound
<1>9. tokens' \subseteq Token
  BY DEF AuthTyped
<1>10. authScene.most \in Nat
  BY SceneTyped, TimesTyped
<1>11. QED
  BY <1>1, <1>4, <1>5, <1>6, <1>7, <1>8, <1>9, <1>10 DEF TokensSound

\* Nothing is known of new tokens.
LEMMA OutGrows ==
  ASSUME AuthTyped, TokensSound(tokens, authNow), NEW M, FamilyMarked(M, tokens),
         SignedOutSound(M, tokens, authNow, signedOut), NEW new, tokens' = tokens \cup new,
         Cardinality(tokens) \in Nat, Cardinality(tokens') \in Nat, Cardinality(tokens) + 1 <= Cardinality(tokens'),
         \A t \in new : t.id > Cardinality(tokens) /\ t.id \in Nat,
         \A t \in new : t.fam \in 1 .. MaxTokens => M[<<"deny-session", t.fam>>] = NoRow
  PROVE  FamilyMarked(M, tokens') /\ SignedOutSound(M, tokens', authNow, signedOut)
<1>1. FamilyMarked(M, tokens')
  <2> SUFFICES ASSUME NEW f \in 1 .. MaxTokens, M[<<"deny-session", f>>] # NoRow
               PROVE  f <= Cardinality(tokens') /\ \A t \in tokens' : t.fam = f => t.exp <= M[<<"deny-session", f>>]
    BY DEF FamilyMarked
  <2>1. f <= Cardinality(tokens) /\ \A t \in tokens : t.fam = f => t.exp <= M[<<"deny-session", f>>]
    BY DEF FamilyMarked
  <2>2. \A t \in new : t.fam # f
    OBVIOUS
  <2>3. QED
    BY <2>1, <2>2, TimesTyped
<1>2. signedOut \subseteq {"jti", "session"} \X (1 .. Cardinality(tokens'))
  BY DEF SignedOutSound
<1>3. \A t \in new : TokenId(t) \notin signedOut
  BY DEF SignedOutSound, TokenId
<1>4. \A t \in tokens' : OutMarked(t, M, authNow, signedOut)
  BY <1>3 DEF SignedOutSound, OutMarked
<1>5. QED
  BY <1>1, <1>2, <1>4 DEF SignedOutSound

(* Polls, administrators, and the parts together. *)

LEMMA PollsKeep ==
  ASSUME PollsPaced(marks, lastPoll, calls, authNow), NEW c \in AuthCalls, NEW r, calls'[c] = r,
         \A e \in AuthCalls : e # c => calls'[e] = calls[e], r.pc # "slowed",
         \A d \in AuthDevices : marks'[<<"devpoll", d>>] = marks[<<"devpoll", d>>],
         lastPoll' = lastPoll, authNow' = authNow
  PROVE  PollsPaced(marks', lastPoll', calls', authNow')
BY DEF PollsPaced

LEMMA AdminKeeps ==
  ASSUME AdminKept(admins, adminMu, calls), NEW c \in AuthCalls, NEW r, calls'[c] = r,
         \A e \in AuthCalls : e # c => calls'[e] = calls[e], r.pc # "remove",
         admins' = admins, adminMu' = adminMu \/ adminMu' = adminMu \ {c}
  PROVE  AdminKept(admins', adminMu', calls')
<1>1. ASSUME NEW e \in AuthCalls, calls'[e].pc = "remove" PROVE adminMu' = {e} /\ admins' # {calls'[e].user}
  <2>1. e # c /\ calls'[e] = calls[e]
    BY <1>1
  <2>2. adminMu = {e} /\ admins # {calls[e].user}
    BY <1>1, <2>1 DEF AdminKept
  <2>3. adminMu' = {e}
    BY <2>1, <2>2
  <2>4. QED
    BY <2>1, <2>2, <2>3
<1>2. QED
  BY <1>1 DEF AdminKept

LEMMA DeviceKeys ==
  ASSUME NEW d \in AuthDevices \cup AuthJobs
  PROVE  d \in 1 .. MaxTokens /\ \A n \in MarkNamespaces : <<n, d>> \in MarkKeys
BY AuthAssumption DEF MarkKeys

\* The invariant after a step of one request, from its parts.
LEMMA AuthStepKeeps ==
  ASSUME AuthInv, NEW c \in AuthCalls, NEW r, Goto(c, r), authNow' = authNow, authScene' = authScene,
         tokens \subseteq tokens', tokens' \subseteq Token, TokensSound(tokens', authNow),
         marks' \in [MarkKeys -> Nat], redeemed' \in [OneTime \X (1 .. MaxTokens) -> Nat],
         device' \in [AuthDevices -> DeviceType], logTokens' \in [AuthJobs -> Nat], lastPoll' \in [AuthDevices -> Nat],
         r \in CallType(tokens'), Dated(r, authNow),
         authScene.store = "sql" => /\ AllSpentOnce(marks', redeemed', calls')
                                    /\ SignOutSound(marks', tokens', authNow', signedOut', calls', began'),
         authScene.store = "badger" => PollsPaced(marks', lastPoll', calls', authNow'),
         AdminKept(admins', adminMu', calls')
  PROVE  AuthInv'
<1>1. /\ calls' \in [AuthCalls -> CallType(tokens')] /\ began' \in [AuthCalls -> Nat]
      /\ Recent(calls', began', authNow') /\ \A e \in AuthCalls : Dated(calls'[e], authNow')
  BY GotoMoves, Zenon
<1>2. authNow' \in Nat \ {0} /\ authScene' \in AuthScenes
  BY DEF AuthInv, AuthTyped
<1>3. AuthTyped'
  BY <1>1, <1>2 DEF AuthTyped, CallType, RefreshCall, RotateCall, RevokeCall, TokenCall, AccessCall
<1>4. TokensSound(tokens, authNow)'
  BY DEF TokensSound, TokenSound
<1>5. QED
  BY <1>1, <1>3, <1>4 DEF AuthInv, Recent, Dated, AllSpentOnce, SpentOnce, Spends, SignOutSound, FamilyMarked, SignedOutSound, OutMarked, RefusedYet, RevokesAll, PollsPaced, AdminKept, TokenId, Session

\* What every step of a request may use.
LEMMA AuthFacts ==
  ASSUME AuthInv
  PROVE  /\ AuthTyped /\ TokensSound(tokens, authNow) /\ Recent(calls, began, authNow)
         /\ authNow \in Nat \ {0} /\ tokens \subseteq Token /\ marks \in [MarkKeys -> Nat]
         /\ device \in [AuthDevices -> DeviceType] /\ logTokens \in [AuthJobs -> Nat] /\ lastPoll \in [AuthDevices -> Nat]
         /\ calls \in [AuthCalls -> CallType(tokens)] /\ redeemed \in [OneTime \X (1 .. MaxTokens) -> Nat]
         /\ \A c \in AuthCalls : Dated(calls[c], authNow)
         /\ authScene.store = "sql" => /\ AllSpentOnce(marks, redeemed, calls)
                                       /\ SignOutSound(marks, tokens, authNow, signedOut, calls, began)
         /\ authScene.store = "badger" => PollsPaced(marks, lastPoll, calls, authNow)
         /\ AdminKept(admins, adminMu, calls)
BY DEF AuthInv, AuthTyped

\* A request moves on and leaves markers, tokens and what was answered alone.
LEMMA AuthQuiet ==
  ASSUME AuthInv, NEW c \in AuthCalls, NEW r, Goto(c, r), authNow' = authNow, authScene' = authScene,
         marks' = marks, tokens' = tokens, redeemed' = redeemed, signedOut' = signedOut, lastPoll' = lastPoll,
         admins' = admins, adminMu' = adminMu \/ adminMu' = adminMu \ {c},
         device' \in [AuthDevices -> DeviceType], logTokens' \in [AuthJobs -> Nat],
         r \in CallType(tokens), Dated(r, authNow), r.pc \notin {"remove", "slowed"},
         \A kind \in OneTime, i \in 1 .. MaxTokens : Spends(r, kind, i) => Spends(calls[c], kind, i),
         authScene.store = "sql" => RefusedYet(r, began'[c], marks, authNow, signedOut) /\ RevokesAll(r, marks)
  PROVE  AuthInv'
<1> USE AuthFacts
<1>1. calls'[c] = r /\ \A e \in AuthCalls : e # c => calls'[e] = calls[e] /\ began'[e] = began[e]
  <2>1. tokens \subseteq tokens' /\ r \in CallType(tokens')
    BY Zenon
  <2>2. QED
    BY <2>1, GotoMoves, Zenon
<1>2. authScene.store = "sql" => AllSpentOnce(marks', redeemed', calls')
  BY <1>1, SpentKeeps
<1>3. ASSUME authScene.store = "sql" PROVE SignOutSound(marks', tokens', authNow', signedOut', calls', began')
  <2>1. SignOutSound(marks, tokens, authNow, signedOut, calls, began)
    BY <1>3
  <2>2. FamilyMarked(marks', tokens') /\ SignedOutSound(marks', tokens', authNow', signedOut')
    BY <2>1 DEF SignOutSound
  <2>3. RefusedYet(r, began'[c], marks', authNow', signedOut') /\ RevokesAll(r, marks')
    BY <1>3
  <2>4. \A f \in 1 .. MaxTokens : \/ marks'[<<"deny-session", f>>] = marks[<<"deny-session", f>>]
                                  \/ authNow + RefreshTTL <= marks'[<<"deny-session", f>>]
    OBVIOUS
  <2>5. signedOut \subseteq signedOut' /\ marks' \in [MarkKeys -> Nat]
    OBVIOUS
  <2>6. QED
    BY <1>1, <2>1, <2>2, <2>3, <2>4, <2>5, OutSteps, Zenon
<1>4. authScene.store = "badger" => PollsPaced(marks', lastPoll', calls', authNow')
  BY <1>1, PollsKeep
<1>5. AdminKept(admins', adminMu', calls')
  BY <1>1, AdminKeeps, Zenon
<1>6. tokens \subseteq tokens' /\ tokens' \subseteq Token /\ TokensSound(tokens', authNow) /\ r \in CallType(tokens')
  BY Zenon
<1>7. marks' \in [MarkKeys -> Nat] /\ redeemed' \in [OneTime \X (1 .. MaxTokens) -> Nat] /\ lastPoll' \in [AuthDevices -> Nat]
  BY Zenon
<1>8. QED
  BY <1>2, <1>3, <1>4, <1>5, <1>6, <1>7, AuthStepKeeps, Zenon

\* A request is answered, and that is all.
LEMMA AuthAnswers ==
  ASSUME AuthInv, NEW c \in AuthCalls, Respond(c), authNow' = authNow, authScene' = authScene,
         marks' = marks, tokens' = tokens, redeemed' = redeemed, signedOut' = signedOut, lastPoll' = lastPoll,
         admins' = admins, adminMu' = adminMu \/ adminMu' = adminMu \ {c},
         device' \in [AuthDevices -> DeviceType], logTokens' \in [AuthJobs -> Nat]
  PROVE  AuthInv'
<1>1. Goto(c, IdleCall)
  BY DEF Respond
<1>2. /\ IdleCall \in CallType(tokens) /\ Dated(IdleCall, authNow) /\ IdleCall.pc \notin {"remove", "slowed"}
      /\ \A kind, i : ~Spends(IdleCall, kind, i)
      /\ RefusedYet(IdleCall, began'[c], marks, authNow, signedOut) /\ RevokesAll(IdleCall, marks)
  <2>1. IdleCall.pc = "idle"
    BY IdleIsCall
  <2>2. QED
    BY <2>1, IdleIsCall, Zenon
<1>3. QED
  BY <1>1, <1>2, AuthQuiet, Zenon

\* What tells a request apart: only these steps carry obligations.
LEMMA PlainCall ==
  ASSUME NEW r, NEW now,
         r.pc \in {"device_index", "device_callback", "poll_read", "device_read", "device_put", "poll_admin", "log_spend", "exchange", "poll_spend"},
         r.pc = "poll_spend" => r.made <= now
  PROVE  /\ Dated(r, now) /\ r.pc \notin {"remove", "slowed"} /\ \A kind, i : ~Spends(r, kind, i)
         /\ \A at, M, out : RefusedYet(r, at, M, now, out)
         /\ \A M : RevokesAll(r, M)
<1>1. Dated(r, now)
  BY DEF Dated
<1>2. \A kind, i : ~Spends(r, kind, i)
  BY DEF Spends
<1>3. \A at, M, out : RefusedYet(r, at, M, now, out)
  BY DEF RefusedYet
<1>4. \A M : RevokesAll(r, M)
  BY DEF RevokesAll
<1>5. QED
  BY <1>1, <1>2, <1>3, <1>4

LEMMA AuthPlain ==
  ASSUME AuthInv, NEW c \in AuthCalls, NEW r, Goto(c, r), authNow' = authNow, authScene' = authScene,
         marks' = marks, tokens' = tokens, redeemed' = redeemed, signedOut' = signedOut, lastPoll' = lastPoll,
         admins' = admins, adminMu' = adminMu,
         device' \in [AuthDevices -> DeviceType], logTokens' \in [AuthJobs -> Nat], r \in CallType(tokens),
         r.pc \in {"device_index", "device_callback", "poll_read", "device_read", "device_put", "poll_admin", "log_spend", "exchange", "poll_spend"},
         r.pc = "poll_spend" => r.made <= authNow
  PROVE  AuthInv'
<1>1. /\ Dated(r, authNow) /\ r.pc \notin {"remove", "slowed"} /\ \A kind, i : ~Spends(r, kind, i)
      /\ \A at, M, out : RefusedYet(r, at, M, authNow, out)
      /\ \A M : RevokesAll(r, M)
  BY PlainCall
<1>2. QED
  BY <1>1, AuthQuiet, Zenon

(* Requests that read: what they find decides where they go. *)

\* The signed tokens' handlers leave the rest alone.
LEMMA OthersStay ==
  ASSUME AuthInv, UNCHANGED Others
  PROVE  /\ authNow' = authNow /\ authScene' = authScene /\ admins' = admins /\ adminMu' = adminMu /\ lastPoll' = lastPoll
         /\ device' \in [AuthDevices -> DeviceType] /\ logTokens' \in [AuthJobs -> Nat]
BY AuthFacts DEF Others

LEMMA SqlFacts ==
  ASSUME AuthInv, authScene.store = "sql"
  PROVE  /\ FamilyMarked(marks, tokens) /\ SignedOutSound(marks, tokens, authNow, signedOut)
         /\ AllSpentOnce(marks, redeemed, calls)
         /\ \A c \in AuthCalls : RefusedYet(calls[c], began[c], marks, authNow, signedOut) /\ RevokesAll(calls[c], marks)
BY AuthFacts DEF SignOutSound

\* A request that has begun keeps the tick it began in.
LEMMA StaysBegun ==
  ASSUME AuthInv, NEW c \in AuthCalls, NEW r, Goto(c, r), calls[c].pc # "idle", r.pc # "idle"
  PROVE  began'[c] = began[c] /\ began[c] \in Nat /\ began[c] <= authNow /\ authNow <= began[c] + 1
<1>1. began \in [AuthCalls -> Nat] /\ Recent(calls, began, authNow)
  BY DEF AuthInv, AuthTyped
<1>2. QED
  BY <1>1 DEF Goto, Recent

\* In SQL the marker of a session that is not live has outlived its tokens.
LEMMA DeadMarkOutlived ==
  ASSUME AuthInv, authScene.store = "sql", NEW t \in tokens, t.typ \in {"cli", "refresh"},
         ~LiveMark(<<"deny-session", t.fam>>)
  PROVE  marks[<<"deny-session", t.fam>>] = NoRow \/ t.exp < authNow
<1>1. AuthTyped /\ TokensSound(tokens, authNow) /\ authNow \in Nat \ {0} /\ marks \in [MarkKeys -> Nat]
  BY AuthFacts
<1>2. t.fam \in 1 .. MaxTokens /\ t.exp \in Nat
  BY <1>1, TokenKeys
<1>3. marks[<<"deny-session", t.fam>>] \in Nat
  BY <1>1, <1>2 DEF MarkKeys, MarkNamespaces
<1>4. marks[<<"deny-session", t.fam>>] = NoRow \/ marks[<<"deny-session", t.fam>>] < authNow
  BY <1>1, <1>3 DEF LiveMark
<1>5. marks[<<"deny-session", t.fam>>] # NoRow => t.exp <= marks[<<"deny-session", t.fam>>]
  BY <1>2, SqlFacts DEF FamilyMarked
<1>6. QED
  BY <1>1, <1>2, <1>3, <1>4, <1>5

LEMMA RefreshStartKeeps ==
  ASSUME AuthInv, NEW c \in AuthCalls, RefreshStart(c)
  PROVE  AuthInv'
<1> DEFINE r(t) == [pc |-> "refresh_session", tok |-> t, late |-> SignedOut(t)]
<1>1. PICK t \in tokens : t.typ = "refresh" /\ Goto(c, r(t))
  BY DEF RefreshStart
<1>2. /\ authNow' = authNow /\ authScene' = authScene /\ admins' = admins /\ adminMu' = adminMu /\ lastPoll' = lastPoll
      /\ device' \in [AuthDevices -> DeviceType] /\ logTokens' \in [AuthJobs -> Nat]
      /\ marks' = marks /\ tokens' = tokens /\ redeemed' = redeemed /\ signedOut' = signedOut
  BY OthersStay DEF RefreshStart
<1>3. r(t).pc = "refresh_session" /\ r(t).tok = t /\ r(t).late = SignedOut(t) /\ SignedOut(t) \in BOOLEAN
  BY DEF SignedOut
<1>4. r(t) \in CallType(tokens)
  <2>1. r(t) \in RefreshCall(tokens)
    BY <1>3, Zenon DEF RefreshCall
  <2>2. QED
    BY <2>1 DEF CallType
<1> HIDE DEF r
<1>5. Dated(r(t), authNow) /\ r(t).pc \notin {"remove", "slowed"} /\ \A kind, i : ~Spends(r(t), kind, i)
  BY <1>1, <1>3 DEF Dated, Spends
<1>6. RevokesAll(r(t), marks)
  BY <1>3 DEF RevokesAll
<1>7. ASSUME authScene.store = "sql" PROVE RefusedYet(r(t), began'[c], marks, authNow, signedOut)
  <2>1. OutMarked(t, marks, authNow, signedOut)
    BY <1>7, SqlFacts DEF SignedOutSound
  <2>2. t.fam # 0
    BY <1>1, AuthFacts, TokenKeys
  <2>3. SignedOut(t) => Session(t) \in signedOut
    BY <2>1, <2>2 DEF SignedOut, OutMarked
  <2>4. QED
    BY <1>1, <1>3, <2>3 DEF RefusedYet
<1>8. QED
  BY <1>1, <1>2, <1>4, <1>5, <1>6, <1>7, AuthQuiet, Zenon

LEMMA RefreshSessionKeeps ==
  ASSUME AuthInv, NEW c \in AuthCalls, RefreshSession(c)
  PROVE  AuthInv'
<1> DEFINE x == calls[c]  r == [calls[c] EXCEPT !.pc = "refresh_admin"]
<1>1. /\ authNow' = authNow /\ authScene' = authScene /\ admins' = admins /\ adminMu' = adminMu /\ lastPoll' = lastPoll
      /\ device' \in [AuthDevices -> DeviceType] /\ logTokens' \in [AuthJobs -> Nat]
      /\ marks' = marks /\ tokens' = tokens /\ redeemed' = redeemed /\ signedOut' = signedOut
  BY OthersStay DEF RefreshSession
<1>2. CASE Respond(c)
  BY <1>1, <1>2, AuthAnswers, Zenon
<1>3. CASE ~LiveMark(<<"deny-session", x.tok.fam>>) /\ Goto(c, r)
  <2>1. x.pc = "refresh_session" /\ x \in CallType(tokens) /\ Dated(x, authNow)
    BY AuthFacts DEF RefreshSession, Running
  <2>2. x \in RefreshCall(tokens)
    BY <2>1, CallShapes, Zenon
  <2>3. r \in RefreshCall(tokens) /\ r.pc = "refresh_admin" /\ r.tok = x.tok /\ r.late = x.late /\ r.tok \in tokens
    BY <2>2, Zenon DEF RefreshCall
  <2>4. r \in CallType(tokens)
    BY <2>3 DEF CallType
  <2> HIDE DEF r
  <2>5. Dated(r, authNow) /\ r.pc \notin {"remove", "slowed"} /\ \A kind, i : ~Spends(r, kind, i)
    BY <2>1, <2>3 DEF Dated, Spends
  <2>6. RevokesAll(r, marks)
    BY <2>3 DEF RevokesAll
  <2>7. ASSUME authScene.store = "sql" PROVE RefusedYet(r, began'[c], marks, authNow, signedOut)
    <3>1. x.tok.typ = "refresh" /\ (x.late => Session(x.tok) \in signedOut)
      BY <2>1, <2>7, SqlFacts DEF RefusedYet
    <3>2. marks[<<"deny-session", x.tok.fam>>] = NoRow \/ x.tok.exp < authNow
      BY <1>3, <2>3, <2>7, <3>1, DeadMarkOutlived
    <3>3. QED
      BY <2>3, <3>1, <3>2 DEF RefusedYet
  <2>8. QED
    BY <1>1, <1>3, <2>4, <2>5, <2>6, <2>7, AuthQuiet, Zenon
<1>4. QED
  BY <1>2, <1>3 DEF RefreshSession, AtStep

LEMMA RefreshAdminKeeps ==
  ASSUME AuthInv, NEW c \in AuthCalls, RefreshAdmin(c)
  PROVE  AuthInv'
<1> DEFINE x == calls[c]
           r == [pc |-> "refresh_consume", tok |-> calls[c].tok, late |-> calls[c].late, access |-> authNow + AccessTTL]
<1>1. /\ authNow' = authNow /\ authScene' = authScene /\ admins' = admins /\ adminMu' = adminMu /\ lastPoll' = lastPoll
      /\ device' \in [AuthDevices -> DeviceType] /\ logTokens' \in [AuthJobs -> Nat]
      /\ marks' = marks /\ tokens' = tokens /\ redeemed' = redeemed /\ signedOut' = signedOut
  BY OthersStay DEF RefreshAdmin
<1>2. CASE Respond(c)
  BY <1>1, <1>2, AuthAnswers, Zenon
<1>3. CASE Valid(x.tok) /\ Goto(c, r)
  <2>1. x.pc = "refresh_admin" /\ x \in CallType(tokens) /\ Dated(x, authNow) /\ authNow \in Nat
    BY AuthFacts DEF RefreshAdmin, Running
  <2>2. x \in RefreshCall(tokens)
    BY <2>1, CallShapes, Zenon
  <2>3. x.tok \in tokens /\ x.late \in BOOLEAN
    BY <2>2, Zenon DEF RefreshCall
  <2>4. authNow + AccessTTL \in Nat /\ authNow + AccessTTL <= authNow + RefreshTTL
    BY <2>1, TimesTyped
  <2>5. r.pc = "refresh_consume" /\ r.tok = x.tok /\ r.late = x.late /\ r.access = authNow + AccessTTL
    BY Zenon
  <2>6. r \in RotateCall(tokens)
    BY <2>3, <2>4, Zenon DEF RotateCall
  <2>7. r \in CallType(tokens)
    BY <2>6 DEF CallType
  <2> HIDE DEF r
  <2>8. Dated(r, authNow) /\ r.pc \notin {"remove", "slowed"} /\ \A kind, i : ~Spends(r, kind, i)
    BY <2>1, <2>4, <2>5 DEF Dated, Spends
  <2>9. RevokesAll(r, marks)
    BY <2>5 DEF RevokesAll
  <2>10. ASSUME authScene.store = "sql" PROVE RefusedYet(r, began'[c], marks, authNow, signedOut)
    <3>1. /\ x.tok.typ = "refresh" /\ (x.late => Session(x.tok) \in signedOut)
          /\ \/ marks[<<"deny-session", x.tok.fam>>] = NoRow \/ x.tok.exp < authNow
             \/ began[c] + RefreshTTL <= marks[<<"deny-session", x.tok.fam>>]
      BY <2>1, <2>10, SqlFacts DEF RefusedYet
    <3>2. ~(x.tok.exp < authNow)
      <4>1. x.tok.exp \in Nat
        BY <2>3, AuthFacts, TokenKeys
      <4>2. QED
        BY <1>3, <2>1, <4>1 DEF Valid
    <3>3. began'[c] = began[c]
      BY <1>3, <2>1, <2>5, StaysBegun
    <3>4. QED
      BY <2>5, <3>1, <3>2, <3>3 DEF RefusedYet
  <2>11. QED
    BY <1>1, <1>3, <2>7, <2>8, <2>9, <2>10, AuthQuiet, Zenon
<1>4. QED
  BY <1>2, <1>3 DEF RefreshAdmin

LEMMA RevokeStartKeeps ==
  ASSUME AuthInv, NEW c \in AuthCalls, RevokeStart(c)
  PROVE  AuthInv'
<1> DEFINE r(S) == [pc |-> "revoke_tokens", claims |-> S, of |-> S, families |-> {}]
<1>1. PICK S \in SUBSET {t \in tokens : t.typ \in {"cli", "refresh"} /\ Valid(t)} : Goto(c, r(S))
  BY DEF RevokeStart
<1>2. /\ authNow' = authNow /\ authScene' = authScene /\ admins' = admins /\ adminMu' = adminMu /\ lastPoll' = lastPoll
      /\ device' \in [AuthDevices -> DeviceType] /\ logTokens' \in [AuthJobs -> Nat]
      /\ marks' = marks /\ tokens' = tokens /\ redeemed' = redeemed /\ signedOut' = signedOut
  BY OthersStay DEF RevokeStart
<1>3. r(S).pc = "revoke_tokens" /\ r(S).claims = S /\ r(S).of = S /\ r(S).families = {}
  BY Zenon
<1>4. S \subseteq tokens /\ \A t \in S : t.typ \in {"cli", "refresh"}
  BY <1>1
<1>5. r(S) \in RevokeCall(tokens)
  BY <1>4 DEF RevokeCall
<1>6. r(S) \in CallType(tokens)
  BY <1>5 DEF CallType
<1> HIDE DEF r
<1>7. Dated(r(S), authNow) /\ r(S).pc \notin {"remove", "slowed"} /\ \A kind, i : ~Spends(r(S), kind, i)
  BY <1>3, <1>4 DEF Dated, Spends
<1>8. RevokesAll(r(S), marks)
  BY <1>3, <1>4 DEF RevokesAll
<1>9. RefusedYet(r(S), began'[c], marks, authNow, signedOut)
  BY <1>3 DEF RefusedYet
<1>10. QED
  BY <1>1, <1>2, <1>6, <1>7, <1>8, <1>9, AuthQuiet, Zenon

LEMMA LogoutStartKeeps ==
  ASSUME AuthInv, NEW c \in AuthCalls, LogoutStart(c)
  PROVE  AuthInv'
<1> DEFINE r(t) == [pc |-> "logout_token", tok |-> t]
<1>1. PICK t \in tokens : t.typ \in {"bearer", "cli"} /\ Goto(c, r(t))
  BY DEF LogoutStart
<1>2. /\ authNow' = authNow /\ authScene' = authScene /\ admins' = admins /\ adminMu' = adminMu /\ lastPoll' = lastPoll
      /\ device' \in [AuthDevices -> DeviceType] /\ logTokens' \in [AuthJobs -> Nat]
      /\ marks' = marks /\ tokens' = tokens /\ redeemed' = redeemed /\ signedOut' = signedOut
  BY OthersStay DEF LogoutStart
<1>3. r(t).pc = "logout_token" /\ r(t).tok = t /\ r(t) \in TokenCall(tokens)
  BY DEF TokenCall
<1>4. r(t) \in CallType(tokens)
  BY <1>3 DEF CallType
<1> HIDE DEF r
<1>5. Dated(r(t), authNow) /\ r(t).pc \notin {"remove", "slowed"} /\ \A kind, i : ~Spends(r(t), kind, i)
  BY <1>3 DEF Dated, Spends
<1>6. RevokesAll(r(t), marks) /\ RefusedYet(r(t), began'[c], marks, authNow, signedOut)
  BY <1>1, <1>3 DEF RevokesAll, RefusedYet
<1>7. QED
  BY <1>1, <1>2, <1>4, <1>5, <1>6, AuthQuiet, Zenon

LEMMA AccessStartKeeps ==
  ASSUME AuthInv, NEW c \in AuthCalls, AccessStart(c)
  PROVE  AuthInv'
<1> DEFINE p(t) == IF t.typ = "session" THEN "access_admin" ELSE "access_token"
           r(t) == [pc |-> p(t), tok |-> t, late |-> SignedOut(t)]
<1>1. PICK t \in tokens : Goto(c, r(t))
  BY DEF AccessStart
<1>2. /\ authNow' = authNow /\ authScene' = authScene /\ admins' = admins /\ adminMu' = adminMu /\ lastPoll' = lastPoll
      /\ device' \in [AuthDevices -> DeviceType] /\ logTokens' \in [AuthJobs -> Nat]
      /\ marks' = marks /\ tokens' = tokens /\ redeemed' = redeemed /\ signedOut' = signedOut
  BY OthersStay DEF AccessStart
<1>3. /\ r(t).pc = p(t) /\ r(t).tok = t /\ r(t).late = SignedOut(t) /\ SignedOut(t) \in BOOLEAN
      /\ p(t) \in {"access_admin", "access_token"} /\ (p(t) = "access_admin" <=> t.typ = "session")
  BY DEF SignedOut
<1> HIDE DEF p
<1>4. r(t) \in CallType(tokens)
  <2>1. r(t) \in AccessCall(tokens)
    <3>1. p(t) \in {"access_token", "access_session", "access_admin"}
      BY <1>3
    <3>2. QED
      BY <1>3, <3>1, Zenon DEF AccessCall
  <2>2. QED
    BY <2>1 DEF CallType
<1> HIDE DEF r
<1>5. Dated(r(t), authNow) /\ r(t).pc \notin {"remove", "slowed"} /\ \A kind, i : ~Spends(r(t), kind, i)
  BY <1>3 DEF Dated, Spends
<1>6. RevokesAll(r(t), marks)
  BY <1>3 DEF RevokesAll
<1>7. ASSUME authScene.store = "sql" PROVE RefusedYet(r(t), began'[c], marks, authNow, signedOut)
  <2>1. OutMarked(t, marks, authNow, signedOut)
    BY <1>7, SqlFacts DEF SignedOutSound
  <2>2. t.typ = "session" => t.fam = 0
    BY AuthFacts, TokenKeys
  <2>3. t.typ = "session" => ~SignedOut(t)
    BY <2>1, <2>2 DEF SignedOut, OutMarked
  <2>4. QED
    BY <1>3, <2>3 DEF RefusedYet, SignedOut
<1>8. QED
  BY <1>1, <1>2, <1>4, <1>5, <1>6, <1>7, AuthQuiet, Zenon

LEMMA AccessTokenKeeps ==
  ASSUME AuthInv, NEW c \in AuthCalls, AccessToken(c)
  PROVE  AuthInv'
<1> DEFINE x == calls[c]
           p == IF x.tok.fam # 0 THEN "access_session" ELSE "access_admin"
           r == [calls[c] EXCEPT !.pc = p]
<1>1. /\ authNow' = authNow /\ authScene' = authScene /\ admins' = admins /\ adminMu' = adminMu /\ lastPoll' = lastPoll
      /\ device' \in [AuthDevices -> DeviceType] /\ logTokens' \in [AuthJobs -> Nat]
      /\ marks' = marks /\ tokens' = tokens /\ redeemed' = redeemed /\ signedOut' = signedOut
  BY OthersStay DEF AccessToken
<1>2. CASE Respond(c)
  BY <1>1, <1>2, AuthAnswers, Zenon
<1>3. CASE ~LiveMark(<<"deny", x.tok.id>>) /\ Goto(c, r)
  <2>1. x.pc = "access_token" /\ x \in CallType(tokens)
    BY AuthFacts DEF AccessToken, Running
  <2>2. x \in AccessCall(tokens)
    BY <2>1, CallShapes, Zenon
  <2>3. p \in {"access_token", "access_session", "access_admin"} /\ (x.tok.fam # 0 => p = "access_session") /\ (x.tok.fam = 0 => p = "access_admin")
    OBVIOUS
  <2> HIDE DEF p
  <2>4. r \in AccessCall(tokens) /\ r.pc = p /\ r.tok = x.tok /\ r.late = x.late /\ r.tok \in tokens
    BY <2>2, <2>3, Zenon DEF AccessCall
  <2>5. r \in CallType(tokens)
    BY <2>4 DEF CallType
  <2> HIDE DEF r
  <2>6. Dated(r, authNow) /\ r.pc \notin {"remove", "slowed"} /\ \A kind, i : ~Spends(r, kind, i)
    BY <2>3, <2>4 DEF Dated, Spends
  <2>7. RevokesAll(r, marks)
    BY <2>3, <2>4 DEF RevokesAll
  <2>8. ASSUME authScene.store = "sql" PROVE RefusedYet(r, began'[c], marks, authNow, signedOut)
    <3> DEFINE t == x.tok
    <3>1. x.late => TokenId(t) \in signedOut \/ (t.fam # 0 /\ Session(t) \in signedOut)
      BY <2>1, <2>8, SqlFacts DEF RefusedYet
    <3>2. t \in tokens
      BY <2>4
    <3> HIDE DEF t
    <3>3. OutMarked(t, marks, authNow, signedOut)
      BY <2>8, <3>2, SqlFacts DEF SignedOutSound
    <3>4. CASE t.fam # 0
      <4>1. x.late => Session(t) \in signedOut
        BY <3>1, <3>3, <3>4 DEF OutMarked
      <4>2. QED
        BY <2>3, <2>4, <3>4, <4>1 DEF RefusedYet, t
    <3>5. CASE t.fam = 0
      <4>1. authNow \in Nat \ {0} /\ t.exp \in Nat /\ marks[<<"deny", t.id>>] \in Nat
        <5>1. t.exp \in Nat /\ <<"deny", t.id>> \in MarkKeys
          BY <3>2, AuthFacts, TokenKeys DEF MarkKeys, MarkNamespaces
        <5>2. QED
          BY <5>1, AuthFacts
      <4>2. marks[<<"deny", t.id>>] = 0 \/ marks[<<"deny", t.id>>] < authNow
        BY <1>3, <2>8, <4>1 DEF LiveMark, NoRow, t
      <4>3. x.late => t.exp < authNow \/ t.exp <= marks[<<"deny", t.id>>]
        BY <3>1, <3>3, <3>5 DEF OutMarked
      <4>4. x.late => t.exp < authNow
        BY <4>1, <4>2, <4>3
      <4>5. QED
        BY <2>3, <2>4, <3>5, <4>4 DEF RefusedYet, t
    <3>6. QED
      BY <3>4, <3>5
  <2>9. QED
    BY <1>1, <1>3, <2>5, <2>6, <2>7, <2>8, AuthQuiet, Zenon
<1>4. QED
  BY <1>2, <1>3 DEF AccessToken, AtStep

LEMMA AccessSessionKeeps ==
  ASSUME AuthInv, NEW c \in AuthCalls, AccessSession(c)
  PROVE  AuthInv'
<1> DEFINE x == calls[c]  r == [calls[c] EXCEPT !.pc = "access_admin"]
<1>1. /\ authNow' = authNow /\ authScene' = authScene /\ admins' = admins /\ adminMu' = adminMu /\ lastPoll' = lastPoll
      /\ device' \in [AuthDevices -> DeviceType] /\ logTokens' \in [AuthJobs -> Nat]
      /\ marks' = marks /\ tokens' = tokens /\ redeemed' = redeemed /\ signedOut' = signedOut
  BY OthersStay DEF AccessSession
<1>2. CASE Respond(c)
  BY <1>1, <1>2, AuthAnswers, Zenon
<1>3. CASE ~LiveMark(<<"deny-session", x.tok.fam>>) /\ Goto(c, r)
  <2>1. x.pc = "access_session" /\ x \in CallType(tokens)
    BY AuthFacts DEF AccessSession, Running
  <2>2. x \in AccessCall(tokens)
    BY <2>1, CallShapes, Zenon
  <2>3. r \in AccessCall(tokens) /\ r.pc = "access_admin" /\ r.tok = x.tok /\ r.late = x.late /\ r.tok \in tokens
    BY <2>2, Zenon DEF AccessCall
  <2>4. r \in CallType(tokens)
    BY <2>3 DEF CallType
  <2> HIDE DEF r
  <2>5. Dated(r, authNow) /\ r.pc \notin {"remove", "slowed"} /\ \A kind, i : ~Spends(r, kind, i)
    BY <2>3 DEF Dated, Spends
  <2>6. RevokesAll(r, marks)
    BY <2>3 DEF RevokesAll
  <2>7. ASSUME authScene.store = "sql" PROVE RefusedYet(r, began'[c], marks, authNow, signedOut)
    <3>1. x.tok.fam # 0 /\ (x.late => Session(x.tok) \in signedOut)
      BY <2>1, <2>7, SqlFacts DEF RefusedYet
    <3>2. x.tok.typ \in {"cli", "refresh"} /\ x.tok.fam \in 1 .. MaxTokens
      BY <2>3, <3>1, AuthFacts, TokenKeys
    <3>3. marks[<<"deny-session", x.tok.fam>>] = NoRow \/ x.tok.exp < authNow
      BY <1>3, <2>3, <2>7, <3>2, DeadMarkOutlived
    <3>4. x.late => marks[<<"deny-session", x.tok.fam>>] # NoRow
      BY <2>7, <3>1, <3>2, SqlFacts DEF SignedOutSound, Session
    <3>5. QED
      BY <2>3, <3>3, <3>4 DEF RefusedYet
  <2>8. QED
    BY <1>1, <1>3, <2>4, <2>5, <2>6, <2>7, AuthQuiet, Zenon
<1>4. QED
  BY <1>2, <1>3 DEF AccessSession, AtStep

LEMMA AccessAdminKeeps ==
  ASSUME AuthInv, NEW c \in AuthCalls, AccessAdmin(c)
  PROVE  AuthInv'
<1> DEFINE x == calls[c]  r == [pc |-> "granted"]
<1>1. /\ authNow' = authNow /\ authScene' = authScene /\ admins' = admins /\ adminMu' = adminMu /\ lastPoll' = lastPoll
      /\ device' \in [AuthDevices -> DeviceType] /\ logTokens' \in [AuthJobs -> Nat]
      /\ marks' = marks /\ tokens' = tokens /\ redeemed' = redeemed /\ signedOut' = signedOut
  BY OthersStay DEF AccessAdmin
<1>2. CASE Respond(c)
  BY <1>1, <1>2, AuthAnswers, Zenon
<1>3. CASE x.late /\ Valid(x.tok) /\ Goto(c, r)
  <2>1. x.pc = "access_admin" /\ x \in CallType(tokens) /\ authNow \in Nat
    BY AuthFacts DEF AccessAdmin, Running
  <2>2. x \in AccessCall(tokens)
    BY <2>1, CallShapes, Zenon
  <2>3. x.tok \in tokens
    BY <2>2 DEF AccessCall
  <2>4. x.tok.exp \in Nat
    BY <2>3, AuthFacts, TokenKeys
  <2>5. authScene.store # "sql"
    <3>1. authScene.store = "sql" => x.tok.exp < authNow
      BY <1>3, <2>1, SqlFacts DEF RefusedYet
    <3>2. QED
      BY <1>3, <2>1, <2>4, <3>1 DEF Valid
  <2>6. r.pc = "granted" /\ r \in RestCall
    BY DEF RestCall
  <2>7. r \in CallType(tokens)
    BY <2>6 DEF CallType
  <2> HIDE DEF r
  <2>8. Dated(r, authNow) /\ r.pc \notin {"remove", "slowed"} /\ \A kind, i : ~Spends(r, kind, i)
    BY <2>6 DEF Dated, Spends
  <2>9. QED
    BY <1>1, <1>3, <2>5, <2>7, <2>8, AuthQuiet, Zenon
<1>4. QED
  BY <1>2, <1>3 DEF AccessAdmin, Grant, Respond

(* Devices, log tokens and the allowlist. *)

LEMMA SignedStay ==
  ASSUME AuthInv, UNCHANGED Signed
  PROVE  authNow' = authNow /\ authScene' = authScene /\ signedOut' = signedOut
BY DEF Signed

LEMMA ExchangeStartKeeps ==
  ASSUME AuthInv, NEW c \in AuthCalls, ExchangeStart(c)
  PROVE  AuthInv'
<1> DEFINE r(t) == [pc |-> "exchange", tok |-> t]
<1>1. PICK t \in tokens : Goto(c, r(t))
  BY DEF ExchangeStart
<1>2. /\ authNow' = authNow /\ authScene' = authScene /\ admins' = admins /\ adminMu' = adminMu /\ lastPoll' = lastPoll
      /\ device' \in [AuthDevices -> DeviceType] /\ logTokens' \in [AuthJobs -> Nat]
      /\ marks' = marks /\ tokens' = tokens /\ redeemed' = redeemed /\ signedOut' = signedOut
  BY OthersStay DEF ExchangeStart
<1>3. r(t).pc = "exchange" /\ r(t) \in TokenCall(tokens)
  BY DEF TokenCall
<1>4. r(t) \in CallType(tokens)
  BY <1>3 DEF CallType
<1> HIDE DEF r
<1>5. QED
  BY <1>1, <1>2, <1>3, <1>4, AuthPlain

LEMMA DeviceCodeKeeps ==
  ASSUME AuthInv, NEW c \in AuthCalls, DeviceCode(c)
  PROVE  AuthInv'
<1> DEFINE r(d) == [pc |-> "device_index", dev |-> d]
           fresh == [status |-> "pending", user |-> 0, exp |-> authNow + DeviceTTL]
<1>1. PICK d \in AuthDevices : device' = [device EXCEPT ![d] = fresh] /\ Goto(c, r(d))
  BY DEF DeviceCode
<1>2. /\ authNow' = authNow /\ authScene' = authScene /\ admins' = admins /\ adminMu' = adminMu /\ lastPoll' = lastPoll
      /\ logTokens' \in [AuthJobs -> Nat]
      /\ marks' = marks /\ tokens' = tokens /\ redeemed' = redeemed /\ signedOut' = signedOut
  BY AuthFacts, SignedStay DEF DeviceCode
<1>3. device' \in [AuthDevices -> DeviceType]
  <2>1. authNow + DeviceTTL \in Nat
    BY AuthFacts, TimesTyped
  <2>2. fresh \in DeviceType
    BY <2>1 DEF DeviceType, Users
  <2> HIDE DEF fresh
  <2>3. QED
    BY <1>1, <2>2, AuthFacts
<1>4. r(d).pc = "device_index" /\ r(d) \in DeviceCall
  BY DEF DeviceCall
<1>5. r(d) \in CallType(tokens)
  BY <1>4 DEF CallType
<1> HIDE DEF r
<1>6. QED
  BY <1>1, <1>2, <1>3, <1>4, <1>5, AuthPlain

LEMMA DeviceIndexKeeps ==
  ASSUME AuthInv, NEW c \in AuthCalls, DeviceIndex(c)
  PROVE  AuthInv'
<1>1. /\ authNow' = authNow /\ authScene' = authScene /\ admins' = admins /\ adminMu' = adminMu /\ lastPoll' = lastPoll
      /\ device' \in [AuthDevices -> DeviceType] /\ logTokens' \in [AuthJobs -> Nat]
      /\ marks' = marks /\ tokens' = tokens /\ redeemed' = redeemed /\ signedOut' = signedOut /\ Respond(c)
  BY AuthFacts, SignedStay DEF DeviceIndex
<1>2. QED
  BY <1>1, AuthAnswers, Zenon

LEMMA ApproveStartKeeps ==
  ASSUME AuthInv, NEW c \in AuthCalls, ApproveStart(c)
  PROVE  AuthInv'
<1> DEFINE r(d) == [pc |-> "device_callback", dev |-> d]
<1>1. PICK d \in AuthDevices : Goto(c, r(d))
  BY DEF ApproveStart
<1>2. /\ authNow' = authNow /\ authScene' = authScene /\ admins' = admins /\ adminMu' = adminMu /\ lastPoll' = lastPoll
      /\ device' \in [AuthDevices -> DeviceType] /\ logTokens' \in [AuthJobs -> Nat]
      /\ marks' = marks /\ tokens' = tokens /\ redeemed' = redeemed /\ signedOut' = signedOut
  BY AuthFacts, SignedStay DEF ApproveStart
<1>3. r(d).pc = "device_callback" /\ r(d) \in DeviceCall
  BY DEF DeviceCall
<1>4. r(d) \in CallType(tokens)
  BY <1>3 DEF CallType
<1> HIDE DEF r
<1>5. QED
  BY <1>1, <1>2, <1>3, <1>4, AuthPlain

LEMMA DeviceCallbackKeeps ==
  ASSUME AuthInv, NEW c \in AuthCalls, DeviceCallback(c)
  PROVE  AuthInv'
<1> DEFINE s(u) == IF u \in admins THEN "approved" ELSE "denied"
           r(u) == [pc |-> "device_read", dev |-> calls[c].dev, user |-> u, status |-> s(u)]
<1>1. PICK u \in AuthUsers : Goto(c, r(u))
  BY DEF DeviceCallback
<1>2. /\ authNow' = authNow /\ authScene' = authScene /\ admins' = admins /\ adminMu' = adminMu /\ lastPoll' = lastPoll
      /\ device' \in [AuthDevices -> DeviceType] /\ logTokens' \in [AuthJobs -> Nat]
      /\ marks' = marks /\ tokens' = tokens /\ redeemed' = redeemed /\ signedOut' = signedOut
  BY AuthFacts, SignedStay DEF DeviceCallback
<1>3. calls[c].pc = "device_callback" /\ calls[c] \in CallType(tokens)
  BY AuthFacts DEF DeviceCallback, Running
<1>4. calls[c] \in DeviceCall
  BY <1>3, CallShapes, Zenon
<1>5. calls[c].dev \in AuthDevices /\ s(u) \in {"approved", "denied"} /\ u \in Users
  BY <1>4 DEF DeviceCall, Users
<1> HIDE DEF s
<1>6. r(u).pc = "device_read" /\ r(u) \in ReadCall
  BY <1>5 DEF ReadCall
<1>7. r(u) \in CallType(tokens)
  BY <1>6 DEF CallType
<1> HIDE DEF r
<1>8. QED
  BY <1>1, <1>2, <1>6, <1>7, AuthPlain

LEMMA TransitionReadKeeps ==
  ASSUME AuthInv, NEW c \in AuthCalls, TransitionRead(c)
  PROVE  AuthInv'
<1> DEFINE d == calls[c].dev
           w == IF calls[c].status = "approved" THEN calls[c].user ELSE device[d].user
           rec == [status |-> calls[c].status, user |-> w, exp |-> device[d].exp]
           r == [pc |-> "device_put", dev |-> d, rec |-> rec]
<1>1. /\ authNow' = authNow /\ authScene' = authScene /\ admins' = admins /\ adminMu' = adminMu /\ lastPoll' = lastPoll
      /\ device' \in [AuthDevices -> DeviceType] /\ logTokens' \in [AuthJobs -> Nat]
      /\ marks' = marks /\ tokens' = tokens /\ redeemed' = redeemed /\ signedOut' = signedOut
  BY AuthFacts, SignedStay DEF TransitionRead
<1>2. CASE Respond(c)
  BY <1>1, <1>2, AuthAnswers, Zenon
<1>3. CASE Goto(c, r)
  <2>1. calls[c].pc = "device_read" /\ calls[c] \in CallType(tokens)
    BY AuthFacts DEF TransitionRead, Running
  <2>2. calls[c] \in ReadCall
    BY <2>1, CallShapes, Zenon
  <2>3. d \in AuthDevices /\ calls[c].user \in Users /\ calls[c].status \in {"approved", "denied"}
    BY <2>2 DEF ReadCall
  <2>4. device[d].user \in Users /\ device[d].exp \in Nat
    <3>1. device[d] \in DeviceType
      BY <2>3, AuthFacts
    <3>2. QED
      BY <3>1 DEF DeviceType
  <2>5. w \in Users
    BY <2>3, <2>4
  <2> HIDE DEF w
  <2>6. rec \in DeviceType
    BY <2>3, <2>4, <2>5 DEF DeviceType
  <2> HIDE DEF rec
  <2>7. r.pc = "device_put" /\ r \in PutCall
    BY <2>3, <2>6 DEF PutCall
  <2>8. r \in CallType(tokens)
    BY <2>7 DEF CallType
  <2> HIDE DEF r
  <2>9. QED
    BY <1>1, <1>3, <2>7, <2>8, AuthPlain
<1>4. QED
  BY <1>2, <1>3 DEF TransitionRead

LEMMA TransitionPutKeeps ==
  ASSUME AuthInv, NEW c \in AuthCalls, TransitionPut(c)
  PROVE  AuthInv'
<1>1. calls[c].pc = "device_put" /\ calls[c] \in CallType(tokens)
  BY AuthFacts DEF TransitionPut, Running
<1>2. calls[c] \in PutCall
  BY <1>1, CallShapes, Zenon
<1>3. calls[c].rec \in DeviceType
  BY <1>2 DEF PutCall
<1>4. device' = [device EXCEPT ![calls[c].dev] = calls[c].rec]
  BY DEF TransitionPut
<1>5. device' \in [AuthDevices -> DeviceType]
  BY <1>3, <1>4, AuthFacts
<1>6. /\ authNow' = authNow /\ authScene' = authScene /\ admins' = admins /\ adminMu' = adminMu /\ lastPoll' = lastPoll
      /\ logTokens' \in [AuthJobs -> Nat]
      /\ marks' = marks /\ tokens' = tokens /\ redeemed' = redeemed /\ signedOut' = signedOut /\ Respond(c)
  BY AuthFacts, SignedStay DEF TransitionPut
<1>7. QED
  BY <1>5, <1>6, AuthAnswers, Zenon

LEMMA PollReadKeeps ==
  ASSUME AuthInv, NEW c \in AuthCalls, PollRead(c)
  PROVE  AuthInv'
<1> DEFINE d == calls[c].dev  r == [pc |-> "poll_admin", dev |-> d, user |-> device[d].user]
<1>1. /\ authNow' = authNow /\ authScene' = authScene /\ admins' = admins /\ adminMu' = adminMu /\ lastPoll' = lastPoll
      /\ device' \in [AuthDevices -> DeviceType] /\ logTokens' \in [AuthJobs -> Nat]
      /\ marks' = marks /\ tokens' = tokens /\ redeemed' = redeemed /\ signedOut' = signedOut
  BY AuthFacts, SignedStay DEF PollRead
<1>2. CASE Respond(c)
  BY <1>1, <1>2, AuthAnswers, Zenon
<1>3. CASE Goto(c, r)
  <2>1. calls[c].pc = "poll_read" /\ calls[c] \in CallType(tokens)
    BY AuthFacts DEF PollRead, Running
  <2>2. calls[c] \in DeviceCall
    BY <2>1, CallShapes, Zenon
  <2>3. d \in AuthDevices
    BY <2>2 DEF DeviceCall
  <2>4. device[d] \in DeviceType
    BY <2>3, AuthFacts
  <2>5. device[d].user \in Users
    BY <2>4 DEF DeviceType
  <2>6. r.pc = "poll_admin" /\ r \in PollCall
    BY <2>3, <2>5 DEF PollCall
  <2>7. r \in CallType(tokens)
    BY <2>6 DEF CallType
  <2> HIDE DEF r
  <2>8. QED
    BY <1>1, <1>3, <2>6, <2>7, AuthPlain
<1>4. QED
  BY <1>2, <1>3 DEF PollRead

LEMMA PollAdminKeeps ==
  ASSUME AuthInv, NEW c \in AuthCalls, PollAdmin(c)
  PROVE  AuthInv'
<1> DEFINE d == calls[c].dev
           r == [pc |-> "poll_spend", dev |-> d, user |-> calls[c].user, exp |-> device[d].exp, made |-> authNow]
<1>1. /\ authNow' = authNow /\ authScene' = authScene /\ admins' = admins /\ adminMu' = adminMu /\ lastPoll' = lastPoll
      /\ device' \in [AuthDevices -> DeviceType] /\ logTokens' \in [AuthJobs -> Nat]
      /\ marks' = marks /\ tokens' = tokens /\ redeemed' = redeemed /\ signedOut' = signedOut
  BY AuthFacts, SignedStay DEF PollAdmin
<1>2. CASE Respond(c)
  BY <1>1, <1>2, AuthAnswers, Zenon
<1>3. CASE Goto(c, r)
  <2>1. calls[c].pc = "poll_admin" /\ calls[c] \in CallType(tokens) /\ authNow \in Nat
    BY AuthFacts DEF PollAdmin, Running
  <2>2. calls[c] \in PollCall
    BY <2>1, CallShapes, Zenon
  <2>3. d \in AuthDevices /\ calls[c].user \in Users
    BY <2>2 DEF PollCall
  <2>4. device[d] \in DeviceType
    BY <2>3, AuthFacts
  <2>5. device[d].exp \in Nat
    BY <2>4 DEF DeviceType
  <2>6. r.pc = "poll_spend" /\ r \in SpendCall /\ r.made <= authNow
    BY <2>1, <2>3, <2>5 DEF SpendCall
  <2>7. r \in CallType(tokens)
    BY <2>6 DEF CallType
  <2> HIDE DEF r
  <2>8. QED
    BY <1>1, <1>3, <2>6, <2>7, AuthPlain
<1>4. QED
  BY <1>2, <1>3 DEF PollAdmin

LEMMA PollUnindexKeeps ==
  ASSUME AuthInv, NEW c \in AuthCalls, PollUnindex(c)
  PROVE  AuthInv'
<1> DEFINE x == calls[c]  r == [calls[c] EXCEPT !.pc = "poll_answer"]
<1>1. /\ authNow' = authNow /\ authScene' = authScene /\ admins' = admins /\ adminMu' = adminMu /\ lastPoll' = lastPoll
      /\ device' \in [AuthDevices -> DeviceType] /\ logTokens' \in [AuthJobs -> Nat]
      /\ marks' = marks /\ tokens' = tokens /\ redeemed' = redeemed /\ signedOut' = signedOut
  BY AuthFacts, SignedStay DEF PollUnindex
<1>2. Goto(c, r) /\ x.pc = "poll_unindex" /\ x \in CallType(tokens) /\ Dated(x, authNow)
  BY AuthFacts DEF PollUnindex, AtStep, Running
<1>3. x \in SpendCall
  BY <1>2, CallShapes, Zenon
<1>4. r \in SpendCall /\ r.pc = "poll_answer" /\ r.dev = x.dev /\ r.made = x.made
  BY <1>3 DEF SpendCall
<1>5. r \in CallType(tokens)
  BY <1>4 DEF CallType
<1> HIDE DEF r
<1>6. Dated(r, authNow) /\ r.pc \notin {"remove", "slowed"}
  BY <1>2, <1>4 DEF Dated
<1>7. \A kind, i : Spends(r, kind, i) => Spends(x, kind, i)
  BY <1>2, <1>4 DEF Spends
<1>8. RefusedYet(r, began'[c], marks, authNow, signedOut) /\ RevokesAll(r, marks)
  BY <1>4 DEF RefusedYet, RevokesAll
<1>9. QED
  BY <1>1, <1>2, <1>5, <1>6, <1>7, <1>8, AuthQuiet, Zenon

LEMMA LogTokenReadKeeps ==
  ASSUME AuthInv, NEW c \in AuthCalls, LogTokenRead(c)
  PROVE  AuthInv'
<1> DEFINE r(j) == [pc |-> "log_spend", job |-> j, exp |-> logTokens[j]]
<1>1. PICK j \in AuthJobs : Goto(c, r(j))
  BY DEF LogTokenRead
<1>2. /\ authNow' = authNow /\ authScene' = authScene /\ admins' = admins /\ adminMu' = adminMu /\ lastPoll' = lastPoll
      /\ device' \in [AuthDevices -> DeviceType] /\ logTokens' \in [AuthJobs -> Nat]
      /\ marks' = marks /\ tokens' = tokens /\ redeemed' = redeemed /\ signedOut' = signedOut
  BY AuthFacts, SignedStay DEF LogTokenRead
<1>3. logTokens[j] \in Nat
  BY AuthFacts
<1>4. r(j).pc = "log_spend" /\ r(j) \in LogCall
  BY <1>3 DEF LogCall
<1>5. r(j) \in CallType(tokens)
  BY <1>4 DEF CallType
<1> HIDE DEF r
<1>6. QED
  BY <1>1, <1>2, <1>4, <1>5, AuthPlain

LEMMA StoreFailsKeeps ==
  ASSUME AuthInv, NEW c \in AuthCalls, StoreFails(c)
  PROVE  AuthInv'
<1>1. /\ authNow' = authNow /\ authScene' = authScene /\ admins' = admins /\ adminMu' = adminMu \ {c} /\ lastPoll' = lastPoll
      /\ device' \in [AuthDevices -> DeviceType] /\ logTokens' \in [AuthJobs -> Nat]
      /\ marks' = marks /\ tokens' = tokens /\ redeemed' = redeemed /\ signedOut' = signedOut /\ Respond(c)
  BY AuthFacts DEF StoreFails
<1>2. QED
  BY <1>1, AuthAnswers, Zenon

(* Requests that write markers or hand out tokens. *)

LEMMA AuthWrites ==
  ASSUME AuthInv, NEW c \in AuthCalls, NEW r, Goto(c, r), authNow' = authNow, authScene' = authScene,
         tokens \subseteq tokens', tokens' \subseteq Token, TokensSound(tokens', authNow),
         marks' \in [MarkKeys -> Nat], redeemed' \in [OneTime \X (1 .. MaxTokens) -> Nat],
         device' \in [AuthDevices -> DeviceType], logTokens' \in [AuthJobs -> Nat],
         lastPoll' = lastPoll, admins' = admins, adminMu' = adminMu, signedOut \subseteq signedOut',
         r \in CallType(tokens'), Dated(r, authNow), r.pc \notin {"remove", "slowed"},
         \A d \in AuthDevices : marks'[<<"devpoll", d>>] = marks[<<"devpoll", d>>],
         authScene.store = "sql" =>
           /\ AllSpentOnce(marks', redeemed', calls')
           /\ FamilyMarked(marks', tokens') /\ SignedOutSound(marks', tokens', authNow, signedOut')
           /\ \A f \in 1 .. MaxTokens : \/ marks'[<<"deny-session", f>>] = marks[<<"deny-session", f>>]
                                        \/ authNow + RefreshTTL <= marks'[<<"deny-session", f>>]
           /\ RefusedYet(r, began'[c], marks', authNow, signedOut') /\ RevokesAll(r, marks')
  PROVE  AuthInv'
<1> USE AuthFacts
<1>1. calls'[c] = r /\ \A e \in AuthCalls : e # c => calls'[e] = calls[e] /\ began'[e] = began[e]
  BY GotoMoves, Zenon
<1>2. ASSUME authScene.store = "sql" PROVE SignOutSound(marks', tokens', authNow', signedOut', calls', began')
  <2>1. SignOutSound(marks, tokens, authNow, signedOut, calls, began)
    BY <1>2
  <2>2. SignedOutSound(marks', tokens', authNow', signedOut') /\ RefusedYet(r, began'[c], marks', authNow', signedOut')
    BY <1>2, Zenon
  <2>3. QED
    BY <1>1, <1>2, <2>1, <2>2, OutSteps, Zenon
<1>3. authScene.store = "badger" => PollsPaced(marks', lastPoll', calls', authNow')
  BY <1>1, PollsKeep
<1>4. AdminKept(admins', adminMu', calls')
  BY <1>1, AdminKeeps, Zenon
<1>5. lastPoll' \in [AuthDevices -> Nat]
  BY Zenon
<1>6. QED
  BY <1>2, <1>3, <1>4, <1>5, AuthStepKeeps, Zenon

\* The marker of a token or of a credential, as long as it names no session and no poll.
LEMMA WritesMark ==
  ASSUME AuthInv, NEW n \in MarkNamespaces \ {"deny-session", "devpoll"}, NEW i \in 1 .. MaxTokens, NEW x \in Nat \ {0},
         marks' = [marks EXCEPT ![<<n, i>>] = x]
  PROVE  /\ marks' \in [MarkKeys -> Nat]
         /\ \A k \in MarkKeys : marks[k] # NoRow => marks'[k] # NoRow
         /\ \A k \in MarkKeys : k # <<n, i>> => marks'[k] = marks[k]
         /\ \A f \in 1 .. MaxTokens : marks'[<<"deny-session", f>>] = marks[<<"deny-session", f>>]
         /\ \A d \in AuthDevices : marks'[<<"devpoll", d>>] = marks[<<"devpoll", d>>]
<1>1. marks \in [MarkKeys -> Nat] /\ <<n, i>> \in MarkKeys
  BY AuthFacts DEF MarkKeys
<1>2. marks' \in [MarkKeys -> Nat] /\ marks'[<<n, i>>] = x /\ \A k \in MarkKeys : k # <<n, i>> => marks'[k] = marks[k]
  BY <1>1
<1>3. \A f \in 1 .. MaxTokens : <<"deny-session", f>> \in MarkKeys /\ <<"deny-session", f>> # <<n, i>>
  BY DEF MarkKeys, MarkNamespaces
<1>4. \A d \in AuthDevices : <<"devpoll", d>> \in MarkKeys /\ <<"devpoll", d>> # <<n, i>>
  BY DeviceKeys DEF MarkKeys, MarkNamespaces
<1>5. QED
  BY <1>2, <1>3, <1>4 DEF NoRow

LEMMA RefreshConsumeKeeps ==
  ASSUME AuthInv, NEW c \in AuthCalls, RefreshConsume(c)
  PROVE  AuthInv'
<1> DEFINE x == calls[c]  t == calls[c].tok  r == [calls[c] EXCEPT !.pc = "refresh_again"]
<1>1. /\ authNow' = authNow /\ authScene' = authScene /\ admins' = admins /\ adminMu' = adminMu /\ lastPoll' = lastPoll
      /\ device' \in [AuthDevices -> DeviceType] /\ logTokens' \in [AuthJobs -> Nat]
      /\ tokens' = tokens /\ redeemed' = redeemed /\ signedOut' = signedOut
  BY OthersStay DEF RefreshConsume
<1>2. CASE Respond(c) /\ marks' = marks
  BY <1>1, <1>2, AuthAnswers, Zenon
<1>3. CASE Valid(t) /\ AddCreates(<<"deny", t.id>>) /\ PutMark(<<"deny", t.id>>, t.exp) /\ Goto(c, r)
  <2>1. x.pc = "refresh_consume" /\ x \in CallType(tokens) /\ authNow \in Nat \ {0} /\ Dated(x, authNow)
    BY AuthFacts DEF RefreshConsume, Running
  <2>2. x \in RotateCall(tokens)
    BY <2>1, CallShapes, Zenon
  <2>3. r \in RotateCall(tokens) /\ r.pc = "refresh_again" /\ r.tok = t /\ r.late = x.late /\ r.access = x.access /\ t \in tokens
    BY <2>2, Zenon DEF RotateCall
  <2>4. r \in CallType(tokens)
    BY <2>3 DEF CallType
  <2> HIDE DEF r
  <2>5. Dated(r, authNow) /\ r.pc \notin {"remove", "slowed"}
    BY <2>1, <2>3 DEF Dated
  <2>6. t.id \in 1 .. MaxTokens /\ t.exp \in Nat /\ t.exp # 0
    <3>1. t.id \in 1 .. MaxTokens /\ t.exp \in Nat
      BY <2>3, AuthFacts, TokenKeys
    <3>2. QED
      BY <1>3, <2>1, <3>1 DEF Valid
  <2>7. marks' = [marks EXCEPT ![<<"deny", t.id>>] = t.exp]
    BY <1>3 DEF PutMark
  <2>8. /\ marks' \in [MarkKeys -> Nat]
        /\ \A f \in 1 .. MaxTokens : marks'[<<"deny-session", f>>] = marks[<<"deny-session", f>>]
        /\ \A d \in AuthDevices : marks'[<<"devpoll", d>>] = marks[<<"devpoll", d>>]
    <3>1. "deny" \in MarkNamespaces \ {"deny-session", "devpoll"}
      BY DEF MarkNamespaces
    <3>2. QED
      BY <2>6, <2>7, <3>1, WritesMark
  <2>9. calls'[c] = r /\ (\A e \in AuthCalls : e # c => calls'[e] = calls[e]) /\ began'[c] = began[c]
    BY <1>3, <2>1, <2>3, StaysBegun, AuthFacts DEF Goto
  <2>10. ASSUME authScene.store = "sql" PROVE AllSpentOnce(marks', redeemed', calls')
    <3>1. marks[<<"deny", t.id>>] = NoRow
      BY <1>3, <2>10 DEF AddCreates
    <3>2. MarkerOf("refresh") = "deny" /\ "refresh" \in OneTime
      BY DEF MarkerOf, OneTime
    <3>3. OnlySpends(calls'[c], "refresh", t.id)
      BY <2>3, <2>9 DEF OnlySpends, Spends
    <3>4. marks[<<MarkerOf("refresh"), t.id>>] = NoRow /\ marks' = [marks EXCEPT ![<<MarkerOf("refresh"), t.id>>] = t.exp]
      BY <2>7, <3>1, <3>2
    <3>5. AuthTyped /\ AllSpentOnce(marks, redeemed, calls) /\ t.exp \in Nat \ {0}
      BY <2>6, <2>10, AuthFacts
    <3>6. QED
      BY <1>1, <2>6, <2>9, <3>2, <3>3, <3>4, <3>5, SpentBegins, Zenon
  <2>11. ASSUME authScene.store = "sql"
         PROVE  FamilyMarked(marks', tokens') /\ SignedOutSound(marks', tokens', authNow, signedOut')
    <3>1. DenyToken(t)
      BY <1>3 DEF DenyToken
    <3>2. \A u \in tokens : u.exp <= marks[<<"deny", u.id>>] => u.exp <= marks'[<<"deny", u.id>>]
      BY <2>3, <3>1, AuthFacts, OutDenies
    <3>3. FamilyMarked(marks, tokens) /\ SignedOutSound(marks, tokens, authNow, signedOut)
      BY <2>11, SqlFacts
    <3>4. FamilyMarked(marks', tokens) /\ SignedOutSound(marks', tokens, authNow, signedOut)
      BY <2>8, <3>2, <3>3, AuthFacts, OutSame, Zenon
    <3>5. QED
      BY <1>1, <3>4
  <2>12. ASSUME authScene.store = "sql" PROVE RefusedYet(r, began'[c], marks', authNow, signedOut')
    <3>1. /\ t.typ = "refresh" /\ (x.late => Session(t) \in signedOut)
          /\ marks[<<"deny-session", t.fam>>] = NoRow \/ began[c] + RefreshTTL <= marks[<<"deny-session", t.fam>>]
      BY <2>1, <2>12, SqlFacts DEF RefusedYet
    <3>2. t.fam \in 1 .. MaxTokens
      BY <2>3, <3>1, AuthFacts, TokenKeys
    <3>3. marks'[<<"deny-session", t.fam>>] = marks[<<"deny-session", t.fam>>]
      BY <2>8, <3>2
    <3>4. QED
      BY <1>1, <2>3, <2>9, <3>1, <3>3 DEF RefusedYet
  <2>13. RevokesAll(r, marks')
    BY <2>3 DEF RevokesAll
  <2>14. TokensSound(tokens', authNow) /\ tokens' \subseteq Token /\ redeemed' \in [OneTime \X (1 .. MaxTokens) -> Nat] /\ r \in CallType(tokens')
    BY <1>1, <2>4, AuthFacts, Zenon
  <2>15. tokens \subseteq tokens' /\ signedOut \subseteq signedOut'
    BY <1>1
  <2>16. QED
    BY <1>1, <1>3, <2>5, <2>8, <2>10, <2>11, <2>12, <2>13, <2>14, <2>15, AuthWrites, Zenon
<1>4. QED
  BY <1>2, <1>3 DEF RefreshConsume, AtStep

\* A pair of tokens of a session goes out.
LEMMA PairGoesOut ==
  ASSUME AuthInv, NEW user \in Users, NEW fam \in 0 .. Cardinality(tokens), NEW a \in Nat, NEW e \in Nat,
         a <= authNow + RefreshTTL, e <= authNow + RefreshTTL, HandPair(user, fam, a, e)
  PROVE  /\ tokens \subseteq tokens' /\ tokens' \subseteq Token /\ TokensSound(tokens', authNow)
         /\ \A M : /\ FamilyMarked(M, tokens) /\ SignedOutSound(M, tokens, authNow, signedOut)
                   /\ fam # 0 => M[<<"deny-session", fam>>] = NoRow
                   => FamilyMarked(M, tokens') /\ SignedOutSound(M, tokens', authNow, signedOut)
<1> DEFINE n == Cardinality(tokens)
           f == IF fam = 0 THEN n + 1 ELSE fam
           access == [typ |-> "cli", id |-> n + 1, fam |-> f, user |-> user, exp |-> a]
           refresh == [typ |-> "refresh", id |-> n + 1 + 1, fam |-> f, user |-> user, exp |-> e]
           new == {access, refresh}
<1>1. tokens' = tokens \cup new /\ n + 2 <= authScene.most
  BY DEF HandPair, NextId
<1>2. n \in Nat /\ authScene.most \in Nat /\ authScene.most <= MaxTokens /\ MaxTokens \in Nat
  BY AuthFacts, FS_CardinalityType, SceneTyped, TimesTyped DEF TokensSound
<1> HIDE DEF n
<1>3. f \in 1 .. (n + 1) /\ (f = n + 1 \/ (f = fam /\ fam # 0))
  BY <1>2 DEF n
<1> HIDE DEF f
<1>4. access \in Token /\ refresh \in Token
  <2>1. n + 1 \in 1 .. MaxTokens /\ n + 1 + 1 \in 1 .. MaxTokens /\ f \in 0 .. MaxTokens
    BY <1>1, <1>2, <1>3
  <2>2. {"cli", "refresh"} \subseteq TokenTypes
    BY DEF TokenTypes
  <2>3. QED
    BY <2>1, <2>2 DEF Token
<1>5. /\ access.typ = "cli" /\ access.id = n + 1 /\ access.fam = f /\ access.exp = a
      /\ refresh.typ = "refresh" /\ refresh.id = n + 1 + 1 /\ refresh.fam = f /\ refresh.exp = e
  OBVIOUS
<1> HIDE DEF access, refresh
<1>6. access # refresh
  BY <1>2, <1>5
<1>7. IsFiniteSet(new) /\ Cardinality(new) = 2 /\ new # {} /\ new \subseteq Token
  <2>1. IsFiniteSet({access}) /\ Cardinality({access}) = 1
    BY FS_Singleton
  <2>2. new = {access} \cup {refresh} /\ refresh \notin {access}
    BY <1>6
  <2>3. IsFiniteSet(new) /\ Cardinality(new) = 1 + 1
    BY <2>1, <2>2, FS_AddElement
  <2>4. QED
    BY <1>4, <2>3
<1>8. \A t \in new : /\ t.id \in (n + 1) .. (n + 2) /\ t.fam = f /\ t.typ \in {"cli", "refresh"} /\ t.exp <= authNow + RefreshTTL
                     /\ \A u \in new : t.id = u.id => t = u
  BY <1>2, <1>5
<1> HIDE DEF new
<1>9. \A t \in new : /\ t.id \in (Cardinality(tokens) + 1) .. (Cardinality(tokens) + Cardinality(new))
                     /\ t.fam \in 0 .. (Cardinality(tokens) + 1)
                     /\ t.fam # 0 <=> t.typ \in {"cli", "refresh"}
                     /\ t.fam # 0 => t.exp <= authNow + RefreshTTL
                     /\ \A u \in new : t.id = u.id => t = u
  BY <1>2, <1>3, <1>7, <1>8 DEF n
<1>10. AuthTyped /\ TokensSound(tokens, authNow) /\ Cardinality(tokens) + Cardinality(new) <= authScene.most
  BY <1>1, <1>7, AuthFacts DEF n
<1>11. /\ tokens' \subseteq Token /\ TokensSound(tokens', authNow)
       /\ Cardinality(tokens') = Cardinality(tokens) + Cardinality(new) /\ Cardinality(tokens) \in Nat
       /\ Cardinality(tokens) + 1 <= Cardinality(tokens')
  BY <1>1, <1>7, <1>9, <1>10, TokensGrow
<1>12. ASSUME NEW M, FamilyMarked(M, tokens), SignedOutSound(M, tokens, authNow, signedOut),
              fam # 0 => M[<<"deny-session", fam>>] = NoRow
       PROVE  FamilyMarked(M, tokens') /\ SignedOutSound(M, tokens', authNow, signedOut)
  <2>1. \A t \in new : t.fam \in 1 .. MaxTokens => M[<<"deny-session", t.fam>>] = NoRow
    <3>1. f \in 1 .. MaxTokens => M[<<"deny-session", f>>] = NoRow
      <4>1. CASE f = fam /\ fam # 0
        BY <1>12, <4>1
      <4>2. CASE f = n + 1
        <5>1. ~(f <= Cardinality(tokens))
          BY <1>2, <4>2 DEF n
        <5>2. QED
          BY <1>12, <5>1 DEF FamilyMarked
      <4>3. QED
        BY <1>3, <4>1, <4>2
    <3>2. QED
      BY <1>8, <3>1
  <2>2. \A t \in new : t.id > Cardinality(tokens) /\ t.id \in Nat
    BY <1>2, <1>8 DEF n
  <2>3. Cardinality(tokens') \in Nat
    BY <1>7, <1>11
  <2>4. QED
    BY <1>1, <1>10, <1>11, <1>12, <2>1, <2>2, <2>3, OutGrows, Zenon
<1>13. QED
  BY <1>1, <1>11, <1>12

\* A token without a session goes out.
LEMMA TokenGoesOut ==
  ASSUME AuthInv, NEW typ \in TokenTypes \ {"cli", "refresh"}, NEW user \in Users, NEW ttl \in Nat, HandToken(typ, user, ttl)
  PROVE  /\ tokens \subseteq tokens' /\ tokens' \subseteq Token /\ TokensSound(tokens', authNow)
         /\ \A M : FamilyMarked(M, tokens) /\ SignedOutSound(M, tokens, authNow, signedOut)
                   => FamilyMarked(M, tokens') /\ SignedOutSound(M, tokens', authNow, signedOut)
<1> DEFINE n == Cardinality(tokens)
           token == [typ |-> typ, id |-> n + 1, fam |-> 0, user |-> user, exp |-> authNow + ttl]
           new == {token}
<1>1. tokens' = tokens \cup new /\ n + 1 <= authScene.most
  BY DEF HandToken, NextId
<1>2. n \in Nat /\ authScene.most \in Nat /\ authScene.most <= MaxTokens /\ MaxTokens \in Nat /\ authNow \in Nat
  BY AuthFacts, FS_CardinalityType, SceneTyped, TimesTyped DEF TokensSound
<1> HIDE DEF n
<1>3. token \in Token
  <2>1. n + 1 \in 1 .. MaxTokens /\ 0 \in 0 .. MaxTokens /\ authNow + ttl \in Nat
    BY <1>1, <1>2
  <2>2. QED
    BY <2>1 DEF Token
<1>4. token.typ = typ /\ token.id = n + 1 /\ token.fam = 0
  OBVIOUS
<1> HIDE DEF token
<1>5. IsFiniteSet(new) /\ Cardinality(new) = 1 /\ new # {} /\ new \subseteq Token
  BY <1>3, FS_Singleton
<1>6. \A t \in new : /\ t.id \in (Cardinality(tokens) + 1) .. (Cardinality(tokens) + Cardinality(new))
                     /\ t.fam \in 0 .. (Cardinality(tokens) + 1)
                     /\ t.fam # 0 <=> t.typ \in {"cli", "refresh"}
                     /\ t.fam # 0 => t.exp <= authNow + RefreshTTL
                     /\ \A u \in new : t.id = u.id => t = u
  BY <1>2, <1>4, <1>5 DEF n
<1>7. \A t \in new : t.id > Cardinality(tokens) /\ t.id \in Nat /\ t.fam = 0
  BY <1>2, <1>4 DEF n
<1> HIDE DEF new
<1>8. AuthTyped /\ TokensSound(tokens, authNow) /\ Cardinality(tokens) + Cardinality(new) <= authScene.most
  BY <1>1, <1>5, AuthFacts DEF n
<1>9. /\ tokens' \subseteq Token /\ TokensSound(tokens', authNow)
      /\ Cardinality(tokens') = Cardinality(tokens) + Cardinality(new) /\ Cardinality(tokens) \in Nat
      /\ Cardinality(tokens) + 1 <= Cardinality(tokens')
  BY <1>1, <1>5, <1>6, <1>8, TokensGrow
<1>10. ASSUME NEW M, FamilyMarked(M, tokens), SignedOutSound(M, tokens, authNow, signedOut)
       PROVE  FamilyMarked(M, tokens') /\ SignedOutSound(M, tokens', authNow, signedOut)
  <2>1. \A t \in new : t.fam \in 1 .. MaxTokens => M[<<"deny-session", t.fam>>] = NoRow
    BY <1>7
  <2>2. Cardinality(tokens') \in Nat
    BY <1>5, <1>9
  <2>3. QED
    BY <1>1, <1>7, <1>8, <1>9, <1>10, <2>1, <2>2, OutGrows, Zenon
<1>11. QED
  BY <1>1, <1>9, <1>10

LEMMA RedeemsOne ==
  ASSUME AuthInv, NEW kind \in OneTime, NEW i \in 1 .. MaxTokens, Redeem(kind, i)
  PROVE  /\ redeemed' = [redeemed EXCEPT ![<<kind, i>>] = @ + 1]
         /\ redeemed' \in [OneTime \X (1 .. MaxTokens) -> Nat]
<1>1. redeemed' = [redeemed EXCEPT ![<<kind, i>>] = @ + 1]
  BY DEF Redeem
<1>2. redeemed \in [OneTime \X (1 .. MaxTokens) -> Nat] /\ <<kind, i>> \in OneTime \X (1 .. MaxTokens)
  BY AuthFacts
<1>3. redeemed[<<kind, i>>] + 1 \in Nat
  BY <1>2
<1>4. QED
  BY <1>1, <1>2, <1>3

LEMMA RefreshAgainKeeps ==
  ASSUME AuthInv, NEW c \in AuthCalls, RefreshAgain(c)
  PROVE  AuthInv'
<1> DEFINE x == calls[c]  t == calls[c].tok
           r == IF x.late THEN [pc |-> "granted"] ELSE IdleCall
<1>1. /\ authNow' = authNow /\ authScene' = authScene /\ admins' = admins /\ adminMu' = adminMu /\ lastPoll' = lastPoll
      /\ device' \in [AuthDevices -> DeviceType] /\ logTokens' \in [AuthJobs -> Nat]
      /\ marks' = marks /\ signedOut' = signedOut
  BY OthersStay DEF RefreshAgain
<1>2. CASE Respond(c) /\ tokens' = tokens /\ redeemed' = redeemed
  BY <1>1, <1>2, AuthAnswers, Zenon
<1>3. CASE ~LiveMark(<<"deny-session", t.fam>>) /\ HandPair(t.user, t.fam, x.access, t.exp) /\ Redeem("refresh", t.id) /\ Goto(c, r)
  <2>1. x.pc = "refresh_again" /\ x \in CallType(tokens) /\ authNow \in Nat \ {0} /\ Dated(x, authNow)
    BY AuthFacts DEF RefreshAgain, Running
  <2>2. x \in RotateCall(tokens)
    BY <2>1, CallShapes, Zenon
  <2>3. t \in tokens /\ x.access \in Nat
    BY <2>2 DEF RotateCall
  <2>4. t.typ = "refresh" /\ x.access <= authNow + RefreshTTL
    BY <2>1 DEF Dated
  <2>5. /\ t.user \in Users /\ t.fam \in 1 .. MaxTokens /\ t.fam \in 0 .. Cardinality(tokens) /\ t.exp \in Nat
        /\ t.exp <= authNow + RefreshTTL /\ t.id \in 1 .. MaxTokens
    BY <2>3, <2>4, AuthFacts, TokenKeys
  <2>6. ASSUME authScene.store = "sql" PROVE marks[<<"deny-session", t.fam>>] = NoRow
    <3>1. marks[<<"deny-session", t.fam>>] = NoRow \/ began[c] + RefreshTTL <= marks[<<"deny-session", t.fam>>]
      BY <2>1, <2>6, SqlFacts DEF RefusedYet
    <3>2. began[c] \in Nat /\ authNow <= began[c] + 1
      BY <2>1, AuthFacts DEF Recent, AuthTyped
    <3>3. marks[<<"deny-session", t.fam>>] \in Nat
      BY <2>5, AuthFacts DEF MarkKeys, MarkNamespaces
    <3>4. marks[<<"deny-session", t.fam>>] = NoRow \/ ~(authNow <= marks[<<"deny-session", t.fam>>])
      BY <1>3, <2>6 DEF LiveMark
    <3>5. QED
      BY <2>1, <3>1, <3>2, <3>3, <3>4, TimesTyped
  <2>7. /\ tokens \subseteq tokens' /\ tokens' \subseteq Token /\ TokensSound(tokens', authNow)
        /\ \A M : /\ FamilyMarked(M, tokens) /\ SignedOutSound(M, tokens, authNow, signedOut)
                  /\ t.fam # 0 => M[<<"deny-session", t.fam>>] = NoRow
                  => FamilyMarked(M, tokens') /\ SignedOutSound(M, tokens', authNow, signedOut)
    BY <1>3, <2>3, <2>4, <2>5, PairGoesOut
  <2>8. authScene.store = "sql" => FamilyMarked(marks', tokens') /\ SignedOutSound(marks', tokens', authNow, signedOut')
    BY <1>1, <2>6, <2>7, SqlFacts
  <2>9. "refresh" \in OneTime
    BY DEF OneTime
  <2>10. redeemed' = [redeemed EXCEPT ![<<"refresh", t.id>>] = @ + 1] /\ redeemed' \in [OneTime \X (1 .. MaxTokens) -> Nat]
    BY <1>3, <2>5, <2>9, RedeemsOne
  <2>11. r.pc \in {"idle", "granted"} /\ (r.pc = "granted" => x.late) /\ r \in RestCall
    BY DEF IdleCall, RestCall
  <2>12. r \in CallType(tokens')
    BY <2>11 DEF CallType
  <2> HIDE DEF r
  <2>13. Dated(r, authNow) /\ r.pc \notin {"remove", "slowed"} /\ \A other, j : ~Spends(r, other, j)
    BY <2>11 DEF Dated, Spends
  <2>14. calls'[c] = r /\ (\A e \in AuthCalls : e # c => calls'[e] = calls[e])
    BY <1>3, AuthFacts DEF Goto
  <2>15. ASSUME authScene.store = "sql" PROVE AllSpentOnce(marks', redeemed', calls')
    <3>1. Spends(x, "refresh", t.id) /\ "refresh" \in OneTime
      BY <2>1 DEF Spends, OneTime
    <3>2. AuthTyped /\ AllSpentOnce(marks, redeemed, calls)
      BY <2>15, AuthFacts
    <3>3. QED
      BY <1>1, <2>5, <2>10, <2>13, <2>14, <3>1, <3>2, SpentEnds
  <2>16. ASSUME authScene.store = "sql" PROVE RefusedYet(r, began'[c], marks', authNow, signedOut')
    <3>1. x.late => Session(t) \in signedOut
      BY <2>1, <2>16, SqlFacts DEF RefusedYet
    <3>2. Session(t) \in signedOut => marks[<<"deny-session", t.fam>>] # NoRow
      BY <2>5, <2>16, SqlFacts DEF SignedOutSound, Session
    <3>3. ~x.late
      BY <2>6, <2>16, <3>1, <3>2
    <3>4. QED
      BY <2>11, <3>3 DEF RefusedYet
  <2>17. RevokesAll(r, marks')
    BY <2>11 DEF RevokesAll
  <2>18. marks' \in [MarkKeys -> Nat] /\ signedOut \subseteq signedOut' /\ \A d \in AuthDevices : marks'[<<"devpoll", d>>] = marks[<<"devpoll", d>>]
    BY <1>1, AuthFacts
  <2>19. \A f \in 1 .. MaxTokens : marks'[<<"deny-session", f>>] = marks[<<"deny-session", f>>]
    BY <1>1
  <2>20. QED
    BY <1>1, <1>3, <2>7, <2>8, <2>10, <2>12, <2>13, <2>15, <2>16, <2>17, <2>18, <2>19, AuthWrites, Zenon
<1>4. QED
  BY <1>2, <1>3 DEF RefreshAgain, Grant

(* Revocation and logout. *)

\* Tokens of sessions that have their markers are signed out.
LEMMA OutAcks ==
  ASSUME AuthTyped, TokensSound(tokens, authNow), NEW M, SignedOutSound(M, tokens, authNow, signedOut), NEW D \in SUBSET tokens,
         \A u \in D : u.typ \in {"cli", "refresh"} /\ M[<<"deny-session", u.fam>>] # NoRow
  PROVE  SignedOutSound(M, tokens, authNow, signedOut \cup {TokenId(t) : t \in D} \cup {Session(t) : t \in D})
<1> DEFINE out == signedOut \cup {TokenId(t) : t \in D} \cup {Session(t) : t \in D}
<1>1. \A u \in D : u.id \in 1 .. Cardinality(tokens) /\ u.fam \in 1 .. Cardinality(tokens) /\ u.fam # 0
  <2> SUFFICES ASSUME NEW u \in D PROVE u.id \in 1 .. Cardinality(tokens) /\ u.fam \in 1 .. Cardinality(tokens) /\ u.fam # 0
    OBVIOUS
  <2>1. u.id \in 1 .. Cardinality(tokens) /\ u.fam \in 0 .. Cardinality(tokens) /\ u.fam # 0
    BY TokenKeys
  <2>2. QED
    BY <2>1
<1>2. out \subseteq {"jti", "session"} \X (1 .. Cardinality(tokens))
  BY <1>1 DEF SignedOutSound, TokenId, Session
<1>3. \A f \in 1 .. MaxTokens : <<"session", f>> \in out => M[<<"deny-session", f>>] # NoRow
  <2> SUFFICES ASSUME NEW f \in 1 .. MaxTokens, <<"session", f>> \in out PROVE M[<<"deny-session", f>>] # NoRow
    OBVIOUS
  <2>1. CASE <<"session", f>> \in signedOut
    BY <2>1 DEF SignedOutSound
  <2>2. CASE \E u \in D : <<"session", f>> = Session(u)
    BY <2>2 DEF Session
  <2>3. ~ \E u \in D : <<"session", f>> = TokenId(u)
    BY DEF TokenId
  <2>4. QED
    BY <2>1, <2>2, <2>3
<1>4. ASSUME NEW v \in tokens PROVE OutMarked(v, M, authNow, out)
  <2>1. CASE TokenId(v) \notin out
    BY <2>1 DEF OutMarked
  <2>2. CASE TokenId(v) \in signedOut
    BY <2>2 DEF SignedOutSound, OutMarked
  <2>3. CASE \E u \in D : TokenId(v) = TokenId(u)
    <3>1. PICK u \in D : TokenId(v) = TokenId(u)
      BY <2>3
    <3>2. v.id = u.id
      BY <3>1 DEF TokenId
    <3>3. v = u
      BY <3>2, TokenKeys
    <3>4. Session(v) \in out /\ v.fam # 0 /\ v.typ # "session"
      BY <1>1, <3>3
    <3>5. QED
      BY <3>4 DEF OutMarked
  <2>4. ~ \E u \in D : TokenId(v) = Session(u)
    BY DEF TokenId, Session
  <2>5. QED
    BY <2>1, <2>2, <2>3, <2>4
<1>5. QED
  BY <1>2, <1>3, <1>4 DEF SignedOutSound

\* The longer of two times.
LEMMA MaxOfTwo ==
  ASSUME NEW a \in Int, NEW b \in Int
  PROVE  Max({a, b}) \in {a, b} /\ a <= Max({a, b}) /\ b <= Max({a, b})
<1>1. \E z \in {a, b} : \A y \in {a, b} : z >= y
  <2>1. CASE a >= b
    BY <2>1
  <2>2. CASE ~(a >= b)
    BY <2>2
  <2>3. QED
    BY <2>1, <2>2
<1>2. Max({a, b}) \in {a, b} /\ \A y \in {a, b} : Max({a, b}) >= y
  BY <1>1, Zenon DEF Max
<1>3. QED
  BY <1>2

LEMMA RevokeTokenKeeps ==
  ASSUME AuthInv, NEW c \in AuthCalls, RevokeToken(c)
  PROVE  AuthInv'
<1> DEFINE x == calls[c]
           left == calls[c].claims
           t == CHOOSE u \in left : u.typ = "cli" \/ \A v \in left : v.typ # "cli"
           ttl == Max({RefreshTTL, t.exp - authNow})
           same == {f \in calls[c].families : f.fam = t.fam}
           longest == Max({ttl} \cup {f.ttl : f \in same})
           g == [fam |-> t.fam, ttl |-> longest]
           fams == (x.families \ same) \cup {g}
           r == [calls[c] EXCEPT !.claims = left \ {t}, !.families = (@ \ same) \cup {g}]
<1>1. /\ authNow' = authNow /\ authScene' = authScene /\ admins' = admins /\ adminMu' = adminMu /\ lastPoll' = lastPoll
      /\ device' \in [AuthDevices -> DeviceType] /\ logTokens' \in [AuthJobs -> Nat]
      /\ tokens' = tokens /\ redeemed' = redeemed /\ signedOut' = signedOut
  BY OthersStay DEF RevokeToken
<1>2. x.pc = "revoke_tokens" /\ x \in CallType(tokens) /\ authNow \in Nat \ {0} /\ Dated(x, authNow) /\ left # {}
  BY AuthFacts DEF RevokeToken, Running
<1>3. x \in RevokeCall(tokens)
  BY <1>2, CallShapes, Zenon
<1>4. left \subseteq tokens /\ x.of \subseteq tokens /\ x.families \subseteq [fam : 1 .. MaxTokens, ttl : Nat]
  BY <1>3 DEF RevokeCall
<1>5. t \in left
  <2>1. \E u \in left : u.typ = "cli" \/ \A v \in left : v.typ # "cli"
    BY <1>2
  <2>2. QED
    BY <2>1
<1>6. DenyToken(t) /\ Goto(c, r)
  BY DEF RevokeToken
<1> HIDE DEF t
<1>7. t \in tokens /\ t.typ \in {"cli", "refresh"}
  BY <1>2, <1>4, <1>5 DEF Dated
<1>8. t.fam \in 1 .. MaxTokens /\ t.exp \in Nat /\ t.id \in 1 .. MaxTokens
  BY <1>7, AuthFacts, TokenKeys
<1>9. ttl \in Nat /\ RefreshTTL <= ttl
  <2>1. RefreshTTL \in Int /\ t.exp - authNow \in Int /\ RefreshTTL \in Nat
    BY <1>2, <1>8, TimesTyped
  <2> DEFINE e == t.exp - authNow
  <2> HIDE DEF e
  <2>2. Max({RefreshTTL, e}) \in {RefreshTTL, e} /\ RefreshTTL <= Max({RefreshTTL, e})
    BY <2>1, MaxOfTwo DEF e
  <2>3. Max({RefreshTTL, e}) \in Nat
    BY <2>1, <2>2 DEF e
  <2>4. QED
    BY <2>2, <2>3 DEF e
<1> HIDE DEF ttl
<1>10. longest \in Nat /\ ttl <= longest
  <2>1. CASE same = {}
    <3>1. {ttl} \cup {f.ttl : f \in same} = {ttl, ttl}
      BY <2>1
    <3>2. Max({ttl, ttl}) \in {ttl, ttl} /\ ttl <= Max({ttl, ttl})
      BY <1>9, MaxOfTwo
    <3>3. QED
      BY <1>9, <3>1, <3>2
  <2>2. CASE same # {}
    <3>1. PICK f \in same : TRUE
      BY <2>2
    <3>2. \A h \in same : h = f
      BY <1>2, <3>1 DEF Dated
    <3>3. f.ttl \in Nat
      BY <1>4, <3>1
    <3>4. {ttl} \cup {h.ttl : h \in same} = {ttl, f.ttl}
      BY <3>1, <3>2
    <3>5. Max({ttl, f.ttl}) \in {ttl, f.ttl} /\ ttl <= Max({ttl, f.ttl})
      <4>1. ttl \in Int /\ f.ttl \in Int
        BY <1>9, <3>3
      <4>2. QED
        BY <4>1, MaxOfTwo, Zenon
    <3>6. QED
      BY <1>9, <3>3, <3>4, <3>5
  <2>3. QED
    BY <2>1, <2>2
<1> HIDE DEF longest
<1>11. RefreshTTL <= longest
  BY <1>9, <1>10, TimesTyped
<1>12. g \in [fam : 1 .. MaxTokens, ttl : Nat] /\ g.fam = t.fam /\ g.ttl = longest
  BY <1>8, <1>10
<1> HIDE DEF g
<1>13. fams \subseteq [fam : 1 .. MaxTokens, ttl : Nat]
  BY <1>4, <1>12
<1>14. r = [x EXCEPT !.claims = left \ {t}, !.families = fams]
  BY <1>3, Zenon DEF RevokeCall
<1>15. \A f \in fams : f = g \/ (f \in x.families /\ f.fam # t.fam)
  OBVIOUS
<1>16. \A f \in x.families : f \in fams \/ f.fam = t.fam
  OBVIOUS
<1>17. g \in fams
  OBVIOUS
<1> HIDE DEF fams, same, r
<1>18. r \in RevokeCall(tokens) /\ r.pc = "revoke_tokens" /\ r.claims = left \ {t} /\ r.of = x.of /\ r.families = fams
  <2>1. left \ {t} \in SUBSET tokens /\ fams \in SUBSET [fam : 1 .. MaxTokens, ttl : Nat]
    BY <1>4, <1>13
  <2>2. QED
    BY <1>2, <1>3, <1>14, <2>1, Zenon DEF RevokeCall
<1>19. r \in CallType(tokens)
  BY <1>18 DEF CallType
<1>20. Dated(r, authNow) /\ r.pc \notin {"remove", "slowed"} /\ \A kind, i : ~Spends(r, kind, i)
  <2>1. \A u \in r.claims : u.typ \in {"cli", "refresh"}
    BY <1>2, <1>18 DEF Dated
  <2>2. \A f, h \in r.families : f.fam = h.fam => f = h
    BY <1>2, <1>12, <1>15, <1>18 DEF Dated
  <2>3. QED
    BY <1>18, <2>1, <2>2 DEF Dated, Spends
<1>21. /\ marks' \in [MarkKeys -> Nat]
       /\ \A k \in MarkKeys : marks[k] # NoRow => marks'[k] # NoRow
       /\ \A k \in MarkKeys : k # <<"deny", t.id>> => marks'[k] = marks[k]
       /\ \A u \in tokens : u.exp <= marks[<<"deny", u.id>>] => u.exp <= marks'[<<"deny", u.id>>]
  BY <1>6, <1>7, AuthFacts, OutDenies
<1>22. /\ \A f \in 1 .. MaxTokens : marks'[<<"deny-session", f>>] = marks[<<"deny-session", f>>]
       /\ \A d \in AuthDevices : marks'[<<"devpoll", d>>] = marks[<<"devpoll", d>>]
  <2>1. \A f \in 1 .. MaxTokens : <<"deny-session", f>> \in MarkKeys /\ <<"deny-session", f>> # <<"deny", t.id>>
    BY DEF MarkKeys, MarkNamespaces
  <2>2. \A d \in AuthDevices : <<"devpoll", d>> \in MarkKeys /\ <<"devpoll", d>> # <<"deny", t.id>>
    BY DeviceKeys DEF MarkNamespaces
  <2>3. QED
    BY <1>21, <2>1, <2>2
<1>23. calls'[c] = r /\ (\A e \in AuthCalls : e # c => calls'[e] = calls[e])
  BY <1>6, AuthFacts DEF Goto
<1>24. ASSUME authScene.store = "sql"
       PROVE  /\ AllSpentOnce(marks', redeemed', calls') /\ FamilyMarked(marks', tokens')
              /\ SignedOutSound(marks', tokens', authNow, signedOut') /\ RevokesAll(r, marks')
  <2>1. AllSpentOnce(marks', redeemed', calls')
    BY <1>1, <1>20, <1>21, <1>23, <1>24, AuthFacts, SpentKeeps, Zenon
  <2>2. FamilyMarked(marks', tokens) /\ SignedOutSound(marks', tokens, authNow, signedOut)
    BY <1>21, <1>22, <1>24, AuthFacts, SqlFacts, OutSame, Zenon
  <2>3. RevokesAll(x, marks)
    BY <1>24, SqlFacts
  <2>4. RevokesAll(x, marks')
    BY <1>2, <1>22, <2>3, AuthFacts, RevokesStays, Zenon
  <2>5. /\ left \subseteq x.of /\ \A u \in x.of : u.typ \in {"cli", "refresh"}
        /\ \A f \in x.families : RefreshTTL <= f.ttl /\ \E u \in x.of : u.fam = f.fam
        /\ \A u \in x.of \ left : marks'[<<"deny-session", u.fam>>] # NoRow \/ \E f \in x.families : f.fam = u.fam
    BY <1>2, <2>4 DEF RevokesAll
  <2>6. \A f \in fams : RefreshTTL <= f.ttl /\ \E u \in x.of : u.fam = f.fam
    BY <1>5, <1>11, <1>12, <1>15, <2>5
  <2>7. ASSUME NEW u \in x.of \ (left \ {t})
        PROVE  marks'[<<"deny-session", u.fam>>] # NoRow \/ \E f \in fams : f.fam = u.fam
    <3>1. CASE u.fam = t.fam
      BY <1>12, <1>17, <3>1
    <3>2. CASE u.fam # t.fam
      BY <1>16, <2>5, <3>2
    <3>3. QED
      BY <3>1, <3>2
  <2>8. RevokesAll(r, marks')
    BY <1>18, <2>5, <2>6, <2>7 DEF RevokesAll
  <2>9. QED
    BY <1>1, <2>1, <2>2, <2>8, Zenon
<1>25. RefusedYet(r, began'[c], marks', authNow, signedOut')
  BY <1>18 DEF RefusedYet
<1>26. TokensSound(tokens', authNow) /\ tokens' \subseteq Token /\ redeemed' \in [OneTime \X (1 .. MaxTokens) -> Nat] /\ r \in CallType(tokens')
  BY <1>1, <1>19, AuthFacts, Zenon
<1>27. tokens \subseteq tokens' /\ signedOut \subseteq signedOut'
  BY <1>1
<1>28. QED
  BY <1>1, <1>6, <1>20, <1>21, <1>22, <1>24, <1>25, <1>26, <1>27, AuthWrites, Zenon

LEMMA RevokeFamilyKeeps ==
  ASSUME AuthInv, NEW c \in AuthCalls, RevokeFamily(c)
  PROVE  AuthInv'
<1> DEFINE x == calls[c]
           acked == signedOut \cup {TokenId(t) : t \in x.of} \cup {Session(t) : t \in x.of}
           r(f) == [calls[c] EXCEPT !.families = @ \ {f}]
<1>1. /\ authNow' = authNow /\ authScene' = authScene /\ admins' = admins /\ adminMu' = adminMu /\ lastPoll' = lastPoll
      /\ device' \in [AuthDevices -> DeviceType] /\ logTokens' \in [AuthJobs -> Nat]
      /\ tokens' = tokens /\ redeemed' = redeemed
  BY OthersStay DEF RevokeFamily
<1>2. x.pc = "revoke_tokens" /\ x \in CallType(tokens) /\ authNow \in Nat \ {0} /\ Dated(x, authNow) /\ x.claims = {}
  BY AuthFacts DEF RevokeFamily, Running
<1>3. PICK f \in x.families :
        /\ IF f.ttl > 0 THEN PutMark(<<"deny-session", f.fam>>, authNow + f.ttl) ELSE UNCHANGED marks
        /\ \/ x.families = {f} /\ Respond(c) /\ signedOut' = acked
           \/ x.families # {f} /\ Goto(c, r(f)) /\ signedOut' = signedOut
  BY DEF RevokeFamily
<1>4. x \in RevokeCall(tokens)
  BY <1>2, CallShapes, Zenon
<1>5. x.of \subseteq tokens /\ x.families \subseteq [fam : 1 .. MaxTokens, ttl : Nat] /\ f.fam \in 1 .. MaxTokens /\ f.ttl \in Nat
  BY <1>4 DEF RevokeCall
<1>6. authNow + f.ttl \in Nat
  BY <1>2, <1>5
<1>7. \/ marks' = marks
      \/ marks' = [marks EXCEPT ![<<"deny-session", f.fam>>] = authNow + f.ttl]
  BY <1>3 DEF PutMark
<1>8. marks' \in [MarkKeys -> Nat] /\ \A k \in MarkKeys : k # <<"deny-session", f.fam>> => marks'[k] = marks[k]
  BY <1>6, <1>7, AuthFacts
<1>9. \A d \in AuthDevices : marks'[<<"devpoll", d>>] = marks[<<"devpoll", d>>]
  <2>1. \A d \in AuthDevices : <<"devpoll", d>> \in MarkKeys /\ <<"devpoll", d>> # <<"deny-session", f.fam>>
    BY DeviceKeys DEF MarkNamespaces
  <2>2. QED
    BY <1>8, <2>1
\* What holds of the markers in SQL.
<1>10. ASSUME authScene.store = "sql"
       PROVE  /\ FamilyMarked(marks', tokens) /\ SignedOutSound(marks', tokens, authNow, signedOut)
              /\ marks'[<<"deny-session", f.fam>>] # NoRow
              /\ \A k \in MarkKeys : marks[k] # NoRow => marks'[k] # NoRow
              /\ \A g \in 1 .. MaxTokens : \/ marks'[<<"deny-session", g>>] = marks[<<"deny-session", g>>]
                                           \/ authNow + RefreshTTL <= marks'[<<"deny-session", g>>]
  <2>1. RevokesAll(x, marks)
    BY <1>10, SqlFacts
  <2>2. RefreshTTL <= f.ttl /\ \E t \in x.of : t.fam = f.fam
    BY <1>2, <1>3, <2>1 DEF RevokesAll
  <2>3. PICK t \in x.of : t.fam = f.fam
    BY <2>2
  <2>4. t \in tokens /\ t.typ \in {"cli", "refresh"}
    BY <1>2, <1>5, <2>1 DEF RevokesAll
  <2>5. f.ttl > 0
    BY <1>5, <2>2, TimesTyped
  <2>6. marks' = [marks EXCEPT ![<<"deny-session", t.fam>>] = authNow + f.ttl]
    BY <1>3, <2>3, <2>5 DEF PutMark
  <2>7. /\ FamilyMarked(marks', tokens) /\ SignedOutSound(marks', tokens, authNow, signedOut)
        /\ marks'[<<"deny-session", t.fam>>] # NoRow
        /\ \A k \in MarkKeys : marks[k] # NoRow => marks'[k] # NoRow
        /\ \A g \in 1 .. MaxTokens : \/ marks'[<<"deny-session", g>>] = marks[<<"deny-session", g>>]
                                     \/ authNow + RefreshTTL <= marks'[<<"deny-session", g>>]
    BY <1>5, <1>10, <2>2, <2>4, <2>6, AuthFacts, SqlFacts, OutMarks
  <2>8. QED
    BY <2>3, <2>7
\* Every session of the request but those still to be marked has its marker.
<1>11. ASSUME authScene.store = "sql"
       PROVE  \A t \in x.of : /\ t.typ \in {"cli", "refresh"}
                              /\ \/ marks'[<<"deny-session", t.fam>>] # NoRow
                                 \/ \E g \in x.families \ {f} : g.fam = t.fam
  <2> SUFFICES ASSUME NEW t \in x.of
               PROVE  /\ t.typ \in {"cli", "refresh"}
                      /\ \/ marks'[<<"deny-session", t.fam>>] # NoRow
                         \/ \E g \in x.families \ {f} : g.fam = t.fam
    OBVIOUS
  <2>1. t.typ \in {"cli", "refresh"} /\ (marks[<<"deny-session", t.fam>>] # NoRow \/ \E g \in x.families : g.fam = t.fam)
    BY <1>2, <1>11, SqlFacts DEF RevokesAll
  <2>2. <<"deny-session", t.fam>> \in MarkKeys
    BY <1>5, <2>1, AuthFacts, TokenKeys DEF MarkKeys, MarkNamespaces
  <2>3. QED
    BY <1>10, <1>11, <2>1, <2>2
<1>12. TokensSound(tokens', authNow) /\ tokens' \subseteq Token /\ redeemed' \in [OneTime \X (1 .. MaxTokens) -> Nat] /\ tokens \subseteq tokens'
  BY <1>1, AuthFacts, Zenon
<1>13. CASE x.families = {f} /\ Respond(c) /\ signedOut' = acked
  <2>1. Goto(c, IdleCall) /\ IdleCall.pc \notin {"remove", "slowed"}
    BY <1>13, IdleIsCall DEF Respond
  <2>2. /\ IdleCall \in CallType(tokens') /\ Dated(IdleCall, authNow) /\ \A kind, i : ~Spends(IdleCall, kind, i)
        /\ RefusedYet(IdleCall, began'[c], marks', authNow, signedOut') /\ RevokesAll(IdleCall, marks')
    BY IdleIsCall, Zenon
  <2>3. calls'[c] = IdleCall /\ (\A e \in AuthCalls : e # c => calls'[e] = calls[e])
    BY <2>1, AuthFacts DEF Goto
  <2>4. ASSUME authScene.store = "sql"
        PROVE  AllSpentOnce(marks', redeemed', calls') /\ FamilyMarked(marks', tokens') /\ SignedOutSound(marks', tokens', authNow, signedOut')
    <3>1. AllSpentOnce(marks', redeemed', calls')
      BY <1>1, <1>10, <2>2, <2>3, <2>4, AuthFacts, SpentKeeps, Zenon
    <3>2. \A t \in x.of : t.typ \in {"cli", "refresh"} /\ marks'[<<"deny-session", t.fam>>] # NoRow
      BY <1>11, <1>13, <2>4
    <3>3. SignedOutSound(marks', tokens, authNow, acked)
      BY <1>5, <1>10, <2>4, <3>2, AuthFacts, OutAcks
    <3>4. QED
      BY <1>1, <1>10, <1>13, <2>4, <3>1, <3>3
  <2>5. signedOut \subseteq signedOut'
    BY <1>13
  <2>6. QED
    BY <1>1, <1>8, <1>9, <1>10, <1>12, <2>1, <2>2, <2>4, <2>5, AuthWrites, Zenon
<1>14. CASE x.families # {f} /\ Goto(c, r(f)) /\ signedOut' = signedOut
  <2>1. r(f) \in RevokeCall(tokens) /\ r(f).pc = "revoke_tokens" /\ r(f).claims = {} /\ r(f).of = x.of /\ r(f).families = x.families \ {f}
    <3>1. x.families \ {f} \in SUBSET [fam : 1 .. MaxTokens, ttl : Nat]
      BY <1>5
    <3>2. QED
      BY <1>2, <1>4, <3>1, Zenon DEF RevokeCall
  <2>2. r(f) \in CallType(tokens')
    BY <1>1, <2>1 DEF CallType
  <2> HIDE DEF r
  <2>3. Dated(r(f), authNow) /\ r(f).pc \notin {"remove", "slowed"} /\ \A kind, i : ~Spends(r(f), kind, i)
    BY <1>2, <2>1 DEF Dated, Spends
  <2>4. calls'[c] = r(f) /\ (\A e \in AuthCalls : e # c => calls'[e] = calls[e])
    BY <1>14, AuthFacts DEF Goto
  <2>5. ASSUME authScene.store = "sql"
        PROVE  /\ AllSpentOnce(marks', redeemed', calls') /\ FamilyMarked(marks', tokens')
               /\ SignedOutSound(marks', tokens', authNow, signedOut') /\ RevokesAll(r(f), marks')
    <3>1. AllSpentOnce(marks', redeemed', calls')
      BY <1>1, <1>10, <2>3, <2>4, <2>5, AuthFacts, SpentKeeps, Zenon
    <3>2. \A g \in x.families : RefreshTTL <= g.ttl /\ \E t \in x.of : t.fam = g.fam
      BY <1>2, <2>5, SqlFacts DEF RevokesAll
    <3>3. RevokesAll(r(f), marks')
      BY <1>11, <2>1, <2>5, <3>2 DEF RevokesAll
    <3>4. QED
      BY <1>1, <1>10, <1>14, <2>5, <3>1, <3>3
  <2>6. RefusedYet(r(f), began'[c], marks', authNow, signedOut')
    BY <2>1 DEF RefusedYet
  <2>7. signedOut \subseteq signedOut'
    BY <1>14
  <2>8. QED
    BY <1>1, <1>8, <1>9, <1>10, <1>12, <1>14, <2>2, <2>3, <2>5, <2>6, <2>7, AuthWrites, Zenon
<1>15. QED
  BY <1>3, <1>13, <1>14

LEMMA LogoutTokenKeeps ==
  ASSUME AuthInv, NEW c \in AuthCalls, LogoutToken(c)
  PROVE  AuthInv'
<1> DEFINE x == calls[c]  t == calls[c].tok  r == [calls[c] EXCEPT !.pc = "logout_session"]
           acked == signedOut \cup {TokenId(t)}
<1>1. /\ authNow' = authNow /\ authScene' = authScene /\ admins' = admins /\ adminMu' = adminMu /\ lastPoll' = lastPoll
      /\ device' \in [AuthDevices -> DeviceType] /\ logTokens' \in [AuthJobs -> Nat]
      /\ tokens' = tokens /\ redeemed' = redeemed
  BY OthersStay DEF LogoutToken
<1>2. /\ x.pc = "logout_token" /\ x \in CallType(tokens) /\ authNow \in Nat \ {0} /\ DenyToken(t)
      /\ \/ t.typ = "cli" /\ Goto(c, r) /\ signedOut' = signedOut
         \/ t.typ # "cli" /\ Respond(c) /\ signedOut' = acked
  BY AuthFacts DEF LogoutToken, Running, AtStep
<1>3. x \in TokenCall(tokens)
  BY <1>2, CallShapes, Zenon
<1>4. r \in TokenCall(tokens) /\ r.pc = "logout_session" /\ r.tok = t /\ t \in tokens
  BY <1>3 DEF TokenCall
<1> HIDE DEF r
<1>5. t.id \in 1 .. MaxTokens /\ t.exp \in Nat /\ t.id \in 1 .. Cardinality(tokens)
  BY <1>4, AuthFacts, TokenKeys
<1>6. /\ marks' \in [MarkKeys -> Nat]
      /\ \A k \in MarkKeys : marks[k] # NoRow => marks'[k] # NoRow
      /\ \A k \in MarkKeys : k # <<"deny", t.id>> => marks'[k] = marks[k]
      /\ \A u \in tokens : u.exp <= marks[<<"deny", u.id>>] => u.exp <= marks'[<<"deny", u.id>>]
      /\ t.exp < authNow \/ t.exp <= marks'[<<"deny", t.id>>]
  BY <1>2, <1>4, AuthFacts, OutDenies
<1>7. /\ \A f \in 1 .. MaxTokens : marks'[<<"deny-session", f>>] = marks[<<"deny-session", f>>]
      /\ \A d \in AuthDevices : marks'[<<"devpoll", d>>] = marks[<<"devpoll", d>>]
  <2>1. \A f \in 1 .. MaxTokens : <<"deny-session", f>> \in MarkKeys /\ <<"deny-session", f>> # <<"deny", t.id>>
    BY DEF MarkKeys, MarkNamespaces
  <2>2. \A d \in AuthDevices : <<"devpoll", d>> \in MarkKeys /\ <<"devpoll", d>> # <<"deny", t.id>>
    BY DeviceKeys DEF MarkNamespaces
  <2>3. QED
    BY <1>6, <2>1, <2>2
<1>8. authScene.store = "sql" => FamilyMarked(marks', tokens) /\ SignedOutSound(marks', tokens, authNow, signedOut)
  BY <1>6, <1>7, AuthFacts, SqlFacts, OutSame, Zenon
<1>9. TokensSound(tokens', authNow) /\ tokens' \subseteq Token /\ redeemed' \in [OneTime \X (1 .. MaxTokens) -> Nat] /\ tokens \subseteq tokens'
  BY <1>1, AuthFacts, Zenon
<1>10. CASE t.typ = "cli" /\ Goto(c, r) /\ signedOut' = signedOut
  <2>1. r \in CallType(tokens')
    BY <1>1, <1>4 DEF CallType
  <2>2. Dated(r, authNow) /\ r.pc \notin {"remove", "slowed"} /\ \A kind, i : ~Spends(r, kind, i)
    BY <1>4 DEF Dated, Spends
  <2>3. calls'[c] = r /\ (\A e \in AuthCalls : e # c => calls'[e] = calls[e])
    BY <1>10, AuthFacts DEF Goto
  <2>4. authScene.store = "sql" => AllSpentOnce(marks', redeemed', calls')
    BY <1>1, <1>6, <2>2, <2>3, AuthFacts, SpentKeeps, Zenon
  <2>5. RefusedYet(r, began'[c], marks', authNow, signedOut') /\ RevokesAll(r, marks')
    BY <1>4, <1>10 DEF RefusedYet, RevokesAll
  <2>6. signedOut \subseteq signedOut' /\ (authScene.store = "sql" => FamilyMarked(marks', tokens') /\ SignedOutSound(marks', tokens', authNow, signedOut'))
    BY <1>1, <1>8, <1>10
  <2>7. QED
    BY <1>1, <1>6, <1>7, <1>9, <1>10, <2>1, <2>2, <2>4, <2>5, <2>6, AuthWrites, Zenon
<1>11. CASE t.typ # "cli" /\ Respond(c) /\ signedOut' = acked
  <2>1. Goto(c, IdleCall) /\ IdleCall.pc \notin {"remove", "slowed"}
    BY <1>11, IdleIsCall DEF Respond
  <2>2. /\ IdleCall \in CallType(tokens') /\ Dated(IdleCall, authNow) /\ \A kind, i : ~Spends(IdleCall, kind, i)
        /\ RefusedYet(IdleCall, began'[c], marks', authNow, signedOut') /\ RevokesAll(IdleCall, marks')
    BY IdleIsCall, Zenon
  <2>3. calls'[c] = IdleCall /\ (\A e \in AuthCalls : e # c => calls'[e] = calls[e])
    BY <2>1, AuthFacts DEF Goto
  <2>4. authScene.store = "sql" => AllSpentOnce(marks', redeemed', calls')
    BY <1>1, <1>6, <2>2, <2>3, AuthFacts, SpentKeeps, Zenon
  <2>5. ASSUME authScene.store = "sql" PROVE SignedOutSound(marks', tokens, authNow, acked)
    <3>1. t.typ = "bearer"
      BY <1>2, <1>11, <2>5, SqlFacts DEF RevokesAll
    <3>2. t.fam = 0
      BY <1>4, <3>1, AuthFacts, TokenKeys
    <3>3. acked \subseteq {"jti", "session"} \X (1 .. Cardinality(tokens))
      BY <1>5, <1>8, <2>5 DEF SignedOutSound, TokenId
    <3>4. \A f \in 1 .. MaxTokens : <<"session", f>> \in acked => marks'[<<"deny-session", f>>] # NoRow
      BY <1>8, <2>5 DEF SignedOutSound, TokenId
    <3>5. ASSUME NEW v \in tokens PROVE OutMarked(v, marks', authNow, acked)
      <4>1. CASE TokenId(v) = TokenId(t)
        <5>1. v.id = t.id
          BY <4>1 DEF TokenId
        <5>2. v = t
          BY <1>4, <5>1, AuthFacts, TokenKeys
        <5>3. QED
          BY <1>6, <3>1, <3>2, <5>2 DEF OutMarked
      <4>2. CASE TokenId(v) # TokenId(t)
        BY <1>8, <2>5, <4>2 DEF SignedOutSound, OutMarked
      <4>3. QED
        BY <4>1, <4>2
    <3>6. QED
      BY <3>3, <3>4, <3>5 DEF SignedOutSound
  <2>6. signedOut \subseteq signedOut' /\ (authScene.store = "sql" => FamilyMarked(marks', tokens') /\ SignedOutSound(marks', tokens', authNow, signedOut'))
    BY <1>1, <1>8, <1>11, <2>5
  <2>7. QED
    BY <1>1, <1>6, <1>7, <1>9, <2>1, <2>2, <2>4, <2>6, AuthWrites, Zenon
<1>12. QED
  BY <1>2, <1>10, <1>11

LEMMA LogoutSessionKeeps ==
  ASSUME AuthInv, NEW c \in AuthCalls, LogoutSession(c)
  PROVE  AuthInv'
<1> DEFINE x == calls[c]  t == calls[c].tok
           acked == signedOut \cup {TokenId(t), Session(t)}
<1>1. /\ authNow' = authNow /\ authScene' = authScene /\ admins' = admins /\ adminMu' = adminMu /\ lastPoll' = lastPoll
      /\ device' \in [AuthDevices -> DeviceType] /\ logTokens' \in [AuthJobs -> Nat]
      /\ tokens' = tokens /\ redeemed' = redeemed /\ signedOut' = acked /\ Goto(c, IdleCall)
  BY OthersStay DEF LogoutSession, Respond
<1>2. /\ x.pc = "logout_session" /\ x \in CallType(tokens) /\ authNow \in Nat \ {0}
      /\ marks' = [marks EXCEPT ![<<"deny-session", t.fam>>] = authNow + RefreshTTL]
  BY AuthFacts DEF LogoutSession, Running, PutMark
<1>3. x \in TokenCall(tokens)
  BY <1>2, CallShapes, Zenon
<1>4. t \in tokens
  BY <1>3 DEF TokenCall
<1>5. authNow + RefreshTTL \in Nat /\ RefreshTTL \in Nat /\ RefreshTTL <= RefreshTTL
  BY <1>2, TimesTyped
<1>6. marks' \in [MarkKeys -> Nat] /\ \A k \in MarkKeys : k # <<"deny-session", t.fam>> => marks'[k] = marks[k]
  BY <1>2, <1>5, AuthFacts
<1>7. \A d \in AuthDevices : marks'[<<"devpoll", d>>] = marks[<<"devpoll", d>>]
  <2>1. \A d \in AuthDevices : <<"devpoll", d>> \in MarkKeys /\ <<"devpoll", d>> # <<"deny-session", t.fam>>
    BY DeviceKeys DEF MarkNamespaces
  <2>2. QED
    BY <1>6, <2>1
<1>8. /\ IdleCall \in CallType(tokens') /\ Dated(IdleCall, authNow) /\ IdleCall.pc = "idle" /\ \A kind, i : ~Spends(IdleCall, kind, i)
      /\ RefusedYet(IdleCall, began'[c], marks', authNow, signedOut') /\ RevokesAll(IdleCall, marks')
  BY IdleIsCall, Zenon
<1>9. calls'[c] = IdleCall /\ (\A e \in AuthCalls : e # c => calls'[e] = calls[e])
  BY <1>1, AuthFacts DEF Goto
<1>10. ASSUME authScene.store = "sql"
       PROVE  /\ AllSpentOnce(marks', redeemed', calls')
              /\ FamilyMarked(marks', tokens') /\ SignedOutSound(marks', tokens', authNow, signedOut')
              /\ \A g \in 1 .. MaxTokens : \/ marks'[<<"deny-session", g>>] = marks[<<"deny-session", g>>]
                                           \/ authNow + RefreshTTL <= marks'[<<"deny-session", g>>]
  <2>1. t.typ = "cli"
    BY <1>2, <1>10, SqlFacts DEF RevokesAll
  <2>2. /\ FamilyMarked(marks', tokens) /\ SignedOutSound(marks', tokens, authNow, signedOut)
        /\ marks'[<<"deny-session", t.fam>>] # NoRow
        /\ \A k \in MarkKeys : marks[k] # NoRow => marks'[k] # NoRow
        /\ \A g \in 1 .. MaxTokens : \/ marks'[<<"deny-session", g>>] = marks[<<"deny-session", g>>]
                                     \/ authNow + RefreshTTL <= marks'[<<"deny-session", g>>]
    <3>1. t.typ \in {"cli", "refresh"}
      BY <2>1
    <3>2. QED
      BY <1>2, <1>4, <1>5, <1>10, <3>1, AuthFacts, SqlFacts, OutMarks
  <2>3. AllSpentOnce(marks', redeemed', calls')
    BY <1>1, <1>8, <1>9, <1>10, <2>2, AuthFacts, SpentKeeps, Zenon
  <2>4. SignedOutSound(marks', tokens, authNow, signedOut \cup {TokenId(u) : u \in {t}} \cup {Session(u) : u \in {t}})
    <3>1. \A u \in {t} : u.typ \in {"cli", "refresh"} /\ marks'[<<"deny-session", u.fam>>] # NoRow
      BY <2>1, <2>2
    <3>2. {t} \in SUBSET tokens
      BY <1>4
    <3>3. QED
      BY <2>2, <3>1, <3>2, AuthFacts, OutAcks, Zenon
  <2>5. acked = signedOut \cup {TokenId(u) : u \in {t}} \cup {Session(u) : u \in {t}}
    OBVIOUS
  <2>6. QED
    BY <1>1, <2>2, <2>3, <2>4, <2>5
<1>11. TokensSound(tokens', authNow) /\ tokens' \subseteq Token /\ redeemed' \in [OneTime \X (1 .. MaxTokens) -> Nat] /\ tokens \subseteq tokens'
  BY <1>1, AuthFacts, Zenon
<1>12. signedOut \subseteq signedOut' /\ IdleCall.pc \notin {"remove", "slowed"}
  BY <1>1, <1>8
<1>13. QED
  BY <1>1, <1>6, <1>7, <1>8, <1>10, <1>11, <1>12, AuthWrites, Zenon

(* Polls, codes, log tokens, the allowlist, and the clock. *)

LEMMA AuthWritesAll ==
  ASSUME AuthInv, NEW c \in AuthCalls, NEW r, Goto(c, r), authNow' = authNow, authScene' = authScene,
         tokens' = tokens, redeemed' = redeemed, signedOut' = signedOut, marks' \in [MarkKeys -> Nat],
         device' \in [AuthDevices -> DeviceType], logTokens' \in [AuthJobs -> Nat], lastPoll' \in [AuthDevices -> Nat],
         r \in CallType(tokens), Dated(r, authNow), \A kind, i : ~Spends(r, kind, i),
         \A k \in MarkKeys : marks[k] # NoRow => marks'[k] # NoRow,
         \A i \in 1 .. MaxTokens : marks'[<<"deny-session", i>>] = marks[<<"deny-session", i>>] /\ marks'[<<"deny", i>>] = marks[<<"deny", i>>],
         \A at, M, out : RefusedYet(r, at, M, authNow, out), \A M : RevokesAll(r, M),
         authScene.store = "badger" => PollsPaced(marks', lastPoll', calls', authNow'),
         AdminKept(admins', adminMu', calls')
  PROVE  AuthInv'
<1> USE AuthFacts
<1>1. TokensSound(tokens', authNow) /\ tokens' \subseteq Token /\ redeemed' \in [OneTime \X (1 .. MaxTokens) -> Nat] /\ tokens \subseteq tokens' /\ r \in CallType(tokens')
  BY Zenon
<1>2. calls'[c] = r /\ \A e \in AuthCalls : e # c => calls'[e] = calls[e] /\ began'[e] = began[e]
  BY <1>1, GotoMoves, Zenon
<1>3. authScene.store = "sql" => AllSpentOnce(marks', redeemed', calls')
  BY <1>2, SpentKeeps, Zenon
<1>4. ASSUME authScene.store = "sql" PROVE SignOutSound(marks', tokens', authNow', signedOut', calls', began')
  <2>1. SignOutSound(marks, tokens, authNow, signedOut, calls, began) /\ FamilyMarked(marks, tokens) /\ SignedOutSound(marks, tokens, authNow, signedOut)
    BY <1>4 DEF SignOutSound
  <2>2. \A t \in tokens : t.exp <= marks[<<"deny", t.id>>] => t.exp <= marks'[<<"deny", t.id>>]
    BY TokenKeys
  <2>3. FamilyMarked(marks', tokens) /\ SignedOutSound(marks', tokens, authNow, signedOut)
    BY <2>1, <2>2, OutSame
  <2>4. FamilyMarked(marks', tokens') /\ SignedOutSound(marks', tokens', authNow', signedOut')
    BY <2>3, Zenon
  <2>5. RefusedYet(r, began'[c], marks', authNow', signedOut') /\ RevokesAll(r, marks') /\ signedOut \subseteq signedOut'
    OBVIOUS
  <2>6. QED
    BY <1>2, <2>1, <2>4, <2>5, OutSteps, Zenon
<1>5. QED
  BY <1>1, <1>3, <1>4, AuthStepKeeps, Zenon

\* Nobody moves.
LEMMA AuthStill ==
  ASSUME AuthInv, calls' = calls, began' = began, marks' = marks, redeemed' = redeemed, signedOut' = signedOut,
         authNow' = authNow, authScene' = authScene, device' = device, logTokens' \in [AuthJobs -> Nat],
         tokens \subseteq tokens', tokens' \subseteq Token, TokensSound(tokens', authNow),
         lastPoll' \in [AuthDevices -> Nat],
         authScene.store = "sql" => FamilyMarked(marks, tokens') /\ SignedOutSound(marks, tokens', authNow, signedOut),
         authScene.store = "badger" => PollsPaced(marks, lastPoll', calls, authNow),
         AdminKept(admins', adminMu', calls)
  PROVE  AuthInv'
<1> USE AuthFacts
<1>1. calls' \in [AuthCalls -> CallType(tokens')]
  <2>1. CallType(tokens) \subseteq CallType(tokens')
    BY CallTypeGrows
  <2> HIDE DEF CallType
  <2>2. calls \in [AuthCalls -> CallType(tokens')]
    BY <2>1
  <2>3. QED
    BY <2>2
<1>2. began' \in [AuthCalls -> Nat] /\ authNow' \in Nat \ {0} /\ authScene' \in AuthScenes
  BY DEF AuthTyped
<1>3. AuthTyped'
  BY <1>1, <1>2 DEF AuthTyped, CallType, RefreshCall, RotateCall, RevokeCall, TokenCall, AccessCall
<1>4. TokensSound(tokens, authNow)'
  BY DEF TokensSound, TokenSound
<1>5. authScene.store = "sql" => AllSpentOnce(marks', redeemed', calls') /\ SignOutSound(marks', tokens', authNow', signedOut', calls', began')
  <2>1. ASSUME authScene.store = "sql" PROVE SignOutSound(marks, tokens', authNow, signedOut, calls, began)
    BY <2>1, SqlFacts DEF SignOutSound
  <2>2. QED
    BY <2>1, Zenon
<1>6. Recent(calls', began', authNow') /\ \A e \in AuthCalls : Dated(calls'[e], authNow')
  BY Zenon
<1>7. PollsPaced(marks, lastPoll', calls, authNow) => PollsPaced(marks', lastPoll', calls', authNow')
  BY Zenon
<1>8. AdminKept(admins', adminMu', calls')
  BY Zenon
<1>9. QED
  BY <1>3, <1>4, <1>5, <1>6, <1>7, <1>8 DEF AuthInv, Recent, Dated, AllSpentOnce, SpentOnce, Spends, SignOutSound, FamilyMarked, SignedOutSound, OutMarked, RefusedYet, RevokesAll, PollsPaced, AdminKept, TokenId, Session

LEMMA CallbackKeeps ==
  ASSUME AuthInv, NEW c \in AuthCalls, Callback(c)
  PROVE  AuthInv'
<1>1. PICK u \in admins, typ \in {"code_cli", "code_web", "session"} :
        HandToken(typ, u, IF typ = "session" THEN SessionTTL ELSE CodeTTL)
  BY DEF Callback
<1> DEFINE ttl == IF typ = "session" THEN SessionTTL ELSE CodeTTL
<1>2. ttl \in Nat /\ typ \in TokenTypes \ {"cli", "refresh"} /\ u \in Users /\ HandToken(typ, u, ttl)
  BY <1>1, TimesTyped, AuthFacts DEF TokenTypes, Users, AdminKept
<1> HIDE DEF ttl
<1>3. /\ tokens \subseteq tokens' /\ tokens' \subseteq Token /\ TokensSound(tokens', authNow)
      /\ \A M : FamilyMarked(M, tokens) /\ SignedOutSound(M, tokens, authNow, signedOut)
                => FamilyMarked(M, tokens') /\ SignedOutSound(M, tokens', authNow, signedOut)
  BY <1>2, TokenGoesOut
<1>4. /\ authNow' = authNow /\ authScene' = authScene /\ admins' = admins /\ adminMu' = adminMu /\ lastPoll' = lastPoll
      /\ device' = device /\ logTokens' \in [AuthJobs -> Nat] /\ calls' = calls /\ began' = began
      /\ marks' = marks /\ redeemed' = redeemed /\ signedOut' = signedOut /\ lastPoll' \in [AuthDevices -> Nat]
  BY AuthFacts DEF Callback, Others
<1>5. authScene.store = "sql" => FamilyMarked(marks, tokens') /\ SignedOutSound(marks, tokens', authNow, signedOut)
  BY <1>3, SqlFacts
<1>6. (authScene.store = "badger" => PollsPaced(marks, lastPoll', calls, authNow)) /\ AdminKept(admins', adminMu', calls)
  BY <1>4, AuthFacts
<1>7. QED
  BY <1>3, <1>4, <1>5, <1>6, AuthStill, Zenon

LEMMA ExchangeKeeps ==
  ASSUME AuthInv, NEW c \in AuthCalls, Exchange(c)
  PROVE  AuthInv'
<1> DEFINE x == calls[c]  t == calls[c].tok  k == <<"replay", t.id>>
<1>1. /\ authNow' = authNow /\ authScene' = authScene /\ admins' = admins /\ adminMu' = adminMu /\ lastPoll' = lastPoll
      /\ device' \in [AuthDevices -> DeviceType] /\ logTokens' \in [AuthJobs -> Nat] /\ signedOut' = signedOut
      /\ Respond(c)
  BY OthersStay DEF Exchange
<1>2. CASE marks' = marks /\ tokens' = tokens /\ redeemed' = redeemed
  BY <1>1, <1>2, AuthAnswers, Zenon
<1>3. CASE /\ Valid(t) /\ AddCreates(k) /\ PutMark(k, t.exp) /\ Redeem("code", t.id)
           /\ \/ HandPair(t.user, 0, authNow + AccessTTL, authNow + RefreshTTL)
              \/ HandToken("bearer", t.user, SessionTTL)
  <2>1. x.pc = "exchange" /\ x \in CallType(tokens) /\ authNow \in Nat \ {0}
    BY AuthFacts DEF Exchange, Running
  <2>2. x \in TokenCall(tokens)
    BY <2>1, CallShapes, Zenon
  <2>3. t \in tokens
    BY <2>2 DEF TokenCall
  <2>4. t.id \in 1 .. MaxTokens /\ t.exp \in Nat /\ t.user \in Users
    BY <2>3, AuthFacts, TokenKeys
  <2>5. t.exp \in Nat \ {0}
    BY <1>3, <2>1, <2>4 DEF Valid
  <2>6. marks' = [marks EXCEPT ![<<"replay", t.id>>] = t.exp] /\ "replay" \in MarkNamespaces \ {"deny-session", "devpoll"}
    BY <1>3 DEF PutMark, MarkNamespaces
  <2>7. /\ marks' \in [MarkKeys -> Nat]
        /\ \A m \in MarkKeys : m # <<"replay", t.id>> => marks'[m] = marks[m]
        /\ \A f \in 1 .. MaxTokens : marks'[<<"deny-session", f>>] = marks[<<"deny-session", f>>]
        /\ \A d \in AuthDevices : marks'[<<"devpoll", d>>] = marks[<<"devpoll", d>>]
    BY <2>4, <2>5, <2>6, WritesMark
  <2>8. "code" \in OneTime
    BY DEF OneTime
  <2>9. redeemed' = [redeemed EXCEPT ![<<"code", t.id>>] = @ + 1] /\ redeemed' \in [OneTime \X (1 .. MaxTokens) -> Nat]
    BY <1>3, <2>4, <2>8, RedeemsOne
  <2>10. /\ tokens \subseteq tokens' /\ tokens' \subseteq Token /\ TokensSound(tokens', authNow)
         /\ \A M : FamilyMarked(M, tokens) /\ SignedOutSound(M, tokens, authNow, signedOut)
                   => FamilyMarked(M, tokens') /\ SignedOutSound(M, tokens', authNow, signedOut)
    <3>1. CASE HandToken("bearer", t.user, SessionTTL)
      <4>1. "bearer" \in TokenTypes \ {"cli", "refresh"} /\ SessionTTL \in Nat
        BY TimesTyped DEF TokenTypes
      <4>2. QED
        BY <2>4, <3>1, <4>1, TokenGoesOut
    <3>2. CASE HandPair(t.user, 0, authNow + AccessTTL, authNow + RefreshTTL)
      <4>1. /\ authNow + AccessTTL \in Nat /\ authNow + RefreshTTL \in Nat /\ authNow + AccessTTL <= authNow + RefreshTTL
            /\ authNow + RefreshTTL <= authNow + RefreshTTL
        BY <2>1, TimesTyped
      <4>2. 0 \in 0 .. Cardinality(tokens)
        BY AuthFacts, FS_CardinalityType DEF TokensSound
      <4> DEFINE a == authNow + AccessTTL  e == authNow + RefreshTTL
      <4> HIDE DEF a, e
      <4>3. a \in Nat /\ e \in Nat /\ a <= authNow + RefreshTTL /\ e <= authNow + RefreshTTL /\ HandPair(t.user, 0, a, e)
        BY <3>2, <4>1 DEF a, e
      <4>4. QED
        BY <2>4, <4>2, <4>3, PairGoesOut
    <3>3. QED
      BY <1>3, <3>1, <3>2
  <2>11. Goto(c, IdleCall) /\ IdleCall.pc \notin {"remove", "slowed"}
    BY <1>1, IdleIsCall DEF Respond
  <2>12. /\ IdleCall \in CallType(tokens') /\ Dated(IdleCall, authNow)
         /\ RefusedYet(IdleCall, began'[c], marks', authNow, signedOut') /\ RevokesAll(IdleCall, marks')
    BY IdleIsCall, Zenon
  <2>13. calls'[c] = IdleCall /\ (\A e \in AuthCalls : e # c => calls'[e] = calls[e])
    BY <2>11, AuthFacts DEF Goto
  <2>14. ASSUME authScene.store = "sql"
         PROVE  AllSpentOnce(marks', redeemed', calls') /\ FamilyMarked(marks', tokens') /\ SignedOutSound(marks', tokens', authNow, signedOut')
    <3>1. marks[<<"replay", t.id>>] = NoRow
      BY <1>3, <2>14 DEF AddCreates
    <3>2. AllSpentOnce(marks', redeemed', calls')
      BY <2>4, <2>5, <2>6, <2>9, <2>13, <2>14, <3>1, AuthFacts, SpentAtOnce
    <3>3. \A i \in 1 .. MaxTokens : marks'[<<"deny", i>>] = marks[<<"deny", i>>]
      <4>1. \A i \in 1 .. MaxTokens : <<"deny", i>> \in MarkKeys /\ <<"deny", i>> # <<"replay", t.id>>
        BY DEF MarkKeys, MarkNamespaces
      <4>2. QED
        BY <2>7, <4>1
    <3>4. \A u \in tokens : u.exp <= marks[<<"deny", u.id>>] => u.exp <= marks'[<<"deny", u.id>>]
      BY <3>3, AuthFacts, TokenKeys
    <3>5. FamilyMarked(marks', tokens) /\ SignedOutSound(marks', tokens, authNow, signedOut)
      BY <2>7, <2>14, <3>4, AuthFacts, SqlFacts, OutSame, Zenon
    <3>6. QED
      BY <1>1, <2>10, <3>2, <3>5
  <2>15. signedOut \subseteq signedOut'
    BY <1>1
  <2>16. QED
    BY <1>1, <2>7, <2>9, <2>10, <2>11, <2>12, <2>14, <2>15, AuthWrites, Zenon
<1>4. QED
  BY <1>2, <1>3 DEF Exchange

\* Requests with nothing to keep: the steps of a poll before it spends, and the refusal.
LEMMA IdleCalls ==
  ASSUME NEW r, r.pc \in {"poll_read", "slowed", "remove"}
  PROVE  /\ \A now : Dated(r, now) /\ \A at, M, out : RefusedYet(r, at, M, now, out)
         /\ \A M : RevokesAll(r, M)
         /\ \A kind, i : ~Spends(r, kind, i)
<1>1. \A now : Dated(r, now)
  BY DEF Dated
<1>2. \A now, at, M, out : RefusedYet(r, at, M, now, out)
  BY DEF RefusedYet
<1>3. \A M : RevokesAll(r, M)
  BY DEF RevokesAll
<1>4. \A kind, i : ~Spends(r, kind, i)
  BY DEF Spends
<1>5. QED
  BY <1>1, <1>2, <1>3, <1>4

\* A poll writes the pacing marker, or finds it.
LEMMA PollMoves ==
  ASSUME AuthInv, NEW c \in AuthCalls, NEW r, Goto(c, r), authNow' = authNow, authScene' = authScene,
         tokens' = tokens, redeemed' = redeemed, signedOut' = signedOut, admins' = admins, adminMu' = adminMu,
         device' = device, logTokens' = logTokens, NEW d \in AuthDevices, lastPoll' = [lastPoll EXCEPT ![d] = authNow],
         \/ marks' = marks
         \/ marks' = [marks EXCEPT ![<<"devpoll", d>>] = authNow + DeviceInterval],
         r.pc \in {"poll_read", "slowed"}, r \in CallType(tokens), authScene.store = "badger" => r.pc # "slowed"
  PROVE  AuthInv'
<1> USE AuthFacts
<1>1. \A n \in MarkNamespaces : <<n, d>> \in MarkKeys
  BY DeviceKeys
<1>2. authNow + DeviceInterval \in Nat \ {0} /\ <<"devpoll", d>> \in MarkKeys
  BY <1>1, TimesTyped DEF MarkNamespaces
<1>3. /\ marks' \in [MarkKeys -> Nat] /\ \A k \in MarkKeys : k # <<"devpoll", d>> => marks'[k] = marks[k]
      /\ marks'[<<"devpoll", d>>] = marks[<<"devpoll", d>>] \/ marks'[<<"devpoll", d>>] = authNow + DeviceInterval
  BY <1>2
<1>4. \A k \in MarkKeys : marks[k] # NoRow => marks'[k] # NoRow
  BY <1>2, <1>3 DEF NoRow
<1>5. \A i \in 1 .. MaxTokens : marks'[<<"deny-session", i>>] = marks[<<"deny-session", i>>] /\ marks'[<<"deny", i>>] = marks[<<"deny", i>>]
  <2>1. \A i \in 1 .. MaxTokens : /\ <<"deny-session", i>> \in MarkKeys /\ <<"deny-session", i>> # <<"devpoll", d>>
                                  /\ <<"deny", i>> \in MarkKeys /\ <<"deny", i>> # <<"devpoll", d>>
    BY DEF MarkKeys, MarkNamespaces
  <2>2. QED
    BY <1>3, <2>1
<1>6. lastPoll' \in [AuthDevices -> Nat] /\ lastPoll'[d] = authNow /\ \A e \in AuthDevices : e # d => lastPoll'[e] = lastPoll[e]
  OBVIOUS
<1>7. r.pc \in {"poll_read", "slowed", "remove"}
  OBVIOUS
<1>8. /\ Dated(r, authNow) /\ \A at, M, out : RefusedYet(r, at, M, authNow, out)
      /\ \A M : RevokesAll(r, M)
      /\ \A kind, i : ~Spends(r, kind, i)
  BY <1>7, IdleCalls
<1>9. calls'[c] = r /\ \A e \in AuthCalls : e # c => calls'[e] = calls[e]
  BY DEF Goto
<1>10. ASSUME authScene.store = "badger" PROVE PollsPaced(marks', lastPoll', calls', authNow')
  <2>1. PollsPaced(marks, lastPoll, calls, authNow)
    BY <1>10
  <2>2. \A e \in AuthCalls : calls'[e].pc # "slowed"
    BY <1>9, <1>10, <2>1 DEF PollsPaced
  <2>3. ASSUME NEW e \in AuthDevices PROVE lastPoll'[e] <= authNow /\ marks'[<<"devpoll", e>>] <= lastPoll'[e] + DeviceInterval
    <3>1. lastPoll[e] <= authNow /\ marks[<<"devpoll", e>>] <= lastPoll[e] + DeviceInterval /\ lastPoll[e] \in Nat
      BY <2>1 DEF PollsPaced
    <3>2. <<"devpoll", e>> \in MarkKeys
      BY DeviceKeys DEF MarkNamespaces
    <3>3. marks[<<"devpoll", e>>] \in Nat
      BY <3>2
    <3>4. CASE e = d
      BY <1>3, <1>6, <3>1, <3>3, <3>4, TimesTyped
    <3>5. CASE e # d
      <4>1. <<"devpoll", e>> # <<"devpoll", d>>
        BY <3>5
      <4>2. QED
        BY <1>3, <1>6, <3>1, <3>2, <3>5, <4>1
    <3>6. QED
      BY <3>4, <3>5
  <2>4. QED
    BY <2>2, <2>3 DEF PollsPaced
<1>11. r.pc # "remove"
  OBVIOUS
<1>12. AdminKept(admins', adminMu', calls')
  BY <1>9, <1>11, AdminKeeps, Zenon
<1>13. device' \in [AuthDevices -> DeviceType] /\ logTokens' \in [AuthJobs -> Nat]
  BY Zenon
<1>14. QED
  BY <1>3, <1>4, <1>5, <1>6, <1>8, <1>10, <1>12, <1>13, AuthWritesAll, Zenon

LEMMA PollCalls ==
  ASSUME NEW d \in AuthDevices, NEW T
  PROVE  /\ [pc |-> "poll_read", dev |-> d] \in CallType(T) /\ [pc |-> "poll_read", dev |-> d].pc = "poll_read"
         /\ [pc |-> "slowed"] \in CallType(T) /\ [pc |-> "slowed"].pc = "slowed"
<1>1. [pc |-> "poll_read", dev |-> d] \in DeviceCall /\ [pc |-> "slowed"] \in RestCall
  BY DEF DeviceCall, RestCall
<1>2. QED
  BY <1>1 DEF CallType

LEMMA PollStartKeeps ==
  ASSUME AuthInv, NEW c \in AuthCalls, PollStart(c)
  PROVE  AuthInv'
<1> DEFINE k(d) == <<"devpoll", d>>
           rested(d) == authNow >= lastPoll[d] + DeviceInterval
           reads(d) == [pc |-> "poll_read", dev |-> d]
           slowed == [pc |-> "slowed"]
<1>1. /\ authNow' = authNow /\ authScene' = authScene /\ admins' = admins /\ adminMu' = adminMu
      /\ device' = device /\ logTokens' = logTokens
      /\ tokens' = tokens /\ redeemed' = redeemed /\ signedOut' = signedOut
  BY SignedStay DEF PollStart
<1>2. PICK d \in AuthDevices :
        /\ lastPoll' = [lastPoll EXCEPT ![d] = authNow]
        /\ \/ AddCreates(k(d)) /\ PutMark(k(d), authNow + DeviceInterval) /\ Goto(c, reads(d))
           \/ ~AddCreates(k(d)) /\ marks' = marks /\ rested(d) /\ Goto(c, slowed)
           \/ ~AddCreates(k(d)) /\ marks' = marks /\ calls' = calls /\ began' = began
  BY DEF PollStart
<1>3. authNow \in Nat \ {0} /\ lastPoll \in [AuthDevices -> Nat] /\ lastPoll[d] \in Nat /\ DeviceInterval \in Nat
  BY AuthFacts, TimesTyped
<1>4. CASE PutMark(k(d), authNow + DeviceInterval) /\ Goto(c, reads(d))
  <2>1. marks' = [marks EXCEPT ![<<"devpoll", d>>] = authNow + DeviceInterval]
    BY <1>4 DEF PutMark
  <2>2. reads(d).pc = "poll_read" /\ reads(d) \in CallType(tokens)
    BY PollCalls
  <2> HIDE DEF reads
  <2>3. reads(d).pc \in {"poll_read", "slowed"} /\ reads(d).pc # "slowed"
    BY <2>2
  <2>4. QED
    BY <1>1, <1>2, <1>4, <2>1, <2>2, <2>3, PollMoves, Zenon
<1>5. CASE ~AddCreates(k(d)) /\ marks' = marks /\ rested(d) /\ Goto(c, slowed)
  <2>1. authScene.store # "badger"
    <3> SUFFICES ASSUME authScene.store = "badger" PROVE FALSE
      OBVIOUS
    <3>1. authNow < marks[<<"devpoll", d>>]
      BY <1>5 DEF AddCreates, LiveMark
    <3>2. marks[<<"devpoll", d>>] <= lastPoll[d] + DeviceInterval
      BY AuthFacts DEF PollsPaced
    <3>3. marks[<<"devpoll", d>>] \in Nat
      <4>1. <<"devpoll", d>> \in MarkKeys
        BY DeviceKeys DEF MarkNamespaces
      <4>2. QED
        BY <4>1, AuthFacts
    <3>4. QED
      BY <1>3, <1>5, <3>1, <3>2, <3>3
  <2>2. slowed.pc \in {"poll_read", "slowed"} /\ slowed \in CallType(tokens)
    BY PollCalls
  <2> HIDE DEF slowed
  <2>3. QED
    BY <1>1, <1>2, <1>5, <2>1, <2>2, PollMoves, Zenon
<1>6. CASE marks' = marks /\ calls' = calls /\ began' = began
  <2>1. lastPoll' \in [AuthDevices -> Nat] /\ \A e \in AuthDevices : lastPoll'[e] = authNow \/ lastPoll'[e] = lastPoll[e]
    BY <1>2, <1>3
  <2>2. ASSUME authScene.store = "badger" PROVE PollsPaced(marks, lastPoll', calls, authNow)
    <3>1. PollsPaced(marks, lastPoll, calls, authNow)
      BY <2>2, AuthFacts
    <3>2. ASSUME NEW e \in AuthDevices PROVE lastPoll'[e] <= authNow /\ marks[<<"devpoll", e>>] <= lastPoll'[e] + DeviceInterval
      <4>1. lastPoll[e] <= authNow /\ marks[<<"devpoll", e>>] <= lastPoll[e] + DeviceInterval /\ lastPoll[e] \in Nat
        BY <1>3, <3>1 DEF PollsPaced
      <4>2. <<"devpoll", e>> \in MarkKeys
        BY DeviceKeys DEF MarkNamespaces
      <4>3. marks[<<"devpoll", e>>] \in Nat
        BY <4>2, AuthFacts
      <4>4. QED
        BY <1>3, <2>1, <4>1, <4>3
    <3>3. QED
      BY <3>1, <3>2 DEF PollsPaced
  <2>3. tokens \subseteq tokens' /\ tokens' \subseteq Token /\ TokensSound(tokens', authNow) /\ logTokens' \in [AuthJobs -> Nat]
    BY <1>1, AuthFacts
  <2>4. authScene.store = "sql" => FamilyMarked(marks, tokens') /\ SignedOutSound(marks, tokens', authNow, signedOut)
    BY <1>1, SqlFacts
  <2>5. AdminKept(admins', adminMu', calls)
    BY <1>1, AuthFacts
  <2>6. QED
    BY <1>1, <1>6, <2>1, <2>2, <2>3, <2>4, <2>5, AuthStill, Zenon
<1>7. QED
  BY <1>2, <1>4, <1>5, <1>6

LEMMA PollUnpacedKeeps ==
  ASSUME AuthInv, NEW c \in AuthCalls, PollUnpaced(c)
  PROVE  AuthInv'
<1> DEFINE reads(d) == [pc |-> "poll_read", dev |-> d]
<1>1. /\ authNow' = authNow /\ authScene' = authScene /\ admins' = admins /\ adminMu' = adminMu
      /\ device' = device /\ logTokens' = logTokens /\ marks' = marks
      /\ tokens' = tokens /\ redeemed' = redeemed /\ signedOut' = signedOut
  BY DEF PollUnpaced
<1>2. PICK d \in AuthDevices : lastPoll' = [lastPoll EXCEPT ![d] = authNow] /\ Goto(c, reads(d))
  BY DEF PollUnpaced
<1>3. reads(d).pc = "poll_read" /\ reads(d) \in CallType(tokens)
  BY PollCalls
<1> HIDE DEF reads
<1>4. reads(d).pc \in {"poll_read", "slowed"} /\ reads(d).pc # "slowed"
  BY <1>3
<1>5. QED
  BY <1>1, <1>2, <1>3, <1>4, PollMoves, Zenon

\* A device or a log token is spent: its marker is written where there was none.
LEMMA SpendMoves ==
  ASSUME AuthInv, NEW c \in AuthCalls, NEW r, Goto(c, r), authNow' = authNow, authScene' = authScene,
         tokens' = tokens, redeemed' = redeemed, signedOut' = signedOut, admins' = admins, adminMu' = adminMu,
         device' = device, logTokens' = logTokens, lastPoll' = lastPoll,
         NEW kind \in {"device", "log"}, NEW i \in 1 .. MaxTokens, NEW exp \in Nat \ {0},
         authScene.store = "sql" => AllSpentOnce(marks', redeemed', calls'), marks' = [marks EXCEPT ![<<MarkerOf(kind), i>>] = exp],
         r.pc \in {"poll_unindex", "log_delete"}, r \in CallType(tokens), Dated(r, authNow)
  PROVE  AuthInv'
<1>1. kind \in OneTime /\ MarkerOf(kind) \in MarkNamespaces \ {"deny-session", "devpoll"} /\ MarkerOf(kind) # "deny"
  BY DEF OneTime, MarkerOf, MarkNamespaces
<1>2. /\ marks' \in [MarkKeys -> Nat]
      /\ \A k \in MarkKeys : k # <<MarkerOf(kind), i>> => marks'[k] = marks[k]
      /\ \A f \in 1 .. MaxTokens : marks'[<<"deny-session", f>>] = marks[<<"deny-session", f>>]
      /\ \A d \in AuthDevices : marks'[<<"devpoll", d>>] = marks[<<"devpoll", d>>]
  BY <1>1, WritesMark
<1>3. ASSUME authScene.store = "sql"
      PROVE  AllSpentOnce(marks', redeemed', calls') /\ FamilyMarked(marks', tokens') /\ SignedOutSound(marks', tokens', authNow, signedOut')
  <2>1. \A j \in 1 .. MaxTokens : marks'[<<"deny", j>>] = marks[<<"deny", j>>]
    <3>1. \A j \in 1 .. MaxTokens : <<"deny", j>> \in MarkKeys /\ <<"deny", j>> # <<MarkerOf(kind), i>>
      BY <1>1 DEF MarkKeys, MarkNamespaces
    <3>2. QED
      BY <1>2, <3>1
  <2>2. \A u \in tokens : u.exp <= marks[<<"deny", u.id>>] => u.exp <= marks'[<<"deny", u.id>>]
    BY <2>1, AuthFacts, TokenKeys
  <2>3. FamilyMarked(marks', tokens) /\ SignedOutSound(marks', tokens, authNow, signedOut)
    BY <1>2, <1>3, <2>2, AuthFacts, SqlFacts, OutSame, Zenon
  <2>4. QED
    BY <1>3, <2>3, Zenon
<1>4. RefusedYet(r, began'[c], marks', authNow, signedOut') /\ RevokesAll(r, marks') /\ r.pc \notin {"remove", "slowed"}
  BY DEF RefusedYet, RevokesAll
<1>5. TokensSound(tokens', authNow) /\ tokens' \subseteq Token /\ redeemed' \in [OneTime \X (1 .. MaxTokens) -> Nat] /\ r \in CallType(tokens')
  BY AuthFacts, Zenon
<1>6. tokens \subseteq tokens' /\ signedOut \subseteq signedOut'
  OBVIOUS
<1>7. device' \in [AuthDevices -> DeviceType] /\ logTokens' \in [AuthJobs -> Nat]
  BY AuthFacts, Zenon
<1>8. QED
  BY <1>2, <1>3, <1>4, <1>5, <1>6, <1>7, AuthWrites, Zenon

LEMMA PollSpendKeeps ==
  ASSUME AuthInv, NEW c \in AuthCalls, PollSpend(c)
  PROVE  AuthInv'
<1> DEFINE x == calls[c]  k == <<"devicespent", x.dev>>  r == [calls[c] EXCEPT !.pc = "poll_unindex"]
<1>1. /\ authNow' = authNow /\ authScene' = authScene /\ admins' = admins /\ adminMu' = adminMu /\ lastPoll' = lastPoll
      /\ device' = device /\ logTokens' = logTokens /\ tokens' = tokens /\ redeemed' = redeemed /\ signedOut' = signedOut
  BY SignedStay DEF PollSpend
<1>2. CASE Respond(c) /\ marks' = marks
  <2>1. device' \in [AuthDevices -> DeviceType] /\ logTokens' \in [AuthJobs -> Nat]
    BY <1>1, AuthFacts
  <2>2. QED
    BY <1>1, <1>2, <2>1, AuthAnswers, Zenon
<1>3. CASE LiveRecord(x.exp) /\ AddCreates(k) /\ PutMark(k, x.exp) /\ Goto(c, r)
  <2>1. x.pc = "poll_spend" /\ x \in CallType(tokens) /\ authNow \in Nat \ {0} /\ Dated(x, authNow)
    BY AuthFacts DEF PollSpend, Running
  <2>2. x \in SpendCall
    BY <2>1, CallShapes, Zenon
  <2>3. r \in SpendCall /\ r.pc = "poll_unindex" /\ r.dev = x.dev /\ r.made = x.made /\ x.dev \in AuthDevices /\ x.exp \in Nat
    BY <2>2 DEF SpendCall
  <2>4. r \in CallType(tokens)
    BY <2>3 DEF CallType
  <2> HIDE DEF r
  <2>5. Dated(r, authNow)
    BY <2>1, <2>3 DEF Dated
  <2>6. \A other, j : Spends(r, other, j) => other = "device" /\ j = x.dev
    BY <2>3 DEF Spends
  <2>7. x.exp \in Nat \ {0} /\ x.dev \in 1 .. MaxTokens /\ MarkerOf("device") = "devicespent" /\ "device" \in {"device", "log"}
    BY <1>3, <2>1, <2>3, DeviceKeys DEF LiveRecord, MarkerOf
  <2>8. marks' = [marks EXCEPT ![<<MarkerOf("device"), x.dev>>] = x.exp]
    BY <1>3, <2>7 DEF PutMark
  <2>9. r.pc \in {"poll_unindex", "log_delete"}
    BY <2>3
  <2>10. calls'[c] = r /\ \A e \in AuthCalls : e # c => calls'[e] = calls[e]
    BY <1>3, AuthFacts DEF Goto
  <2>11. ASSUME authScene.store = "sql" PROVE AllSpentOnce(marks', redeemed', calls')
    <3> DEFINE kind == "device"  i == x.dev  exp == x.exp
    <3>1. marks[<<MarkerOf(kind), i>>] = NoRow /\ kind \in OneTime /\ i \in 1 .. MaxTokens /\ exp \in Nat \ {0}
      BY <1>3, <2>7, <2>11 DEF AddCreates, OneTime
    <3>2. AuthTyped /\ AllSpentOnce(marks, redeemed, calls)
      BY <2>11, AuthFacts
    <3>3. marks' = [marks EXCEPT ![<<MarkerOf(kind), i>>] = exp]
      BY <2>8
    <3>4. OnlySpends(calls'[c], kind, i)
      BY <2>6, <2>10 DEF OnlySpends
    <3> HIDE DEF kind, i, exp
    <3>5. redeemed' = redeemed /\ exp \in Nat /\ exp # 0 /\ \A e \in AuthCalls : e # c => calls'[e] = calls[e]
      BY <1>1, <2>10, <3>1
    <3>6. QED
      BY <3>1, <3>2, <3>3, <3>4, <3>5, SpentBegins, Zenon
  <2>12. QED
    BY <1>1, <1>3, <2>4, <2>5, <2>7, <2>8, <2>9, <2>11, SpendMoves, Zenon
<1>4. QED
  BY <1>2, <1>3 DEF PollSpend, AtStep

LEMMA LogTokenSpendKeeps ==
  ASSUME AuthInv, NEW c \in AuthCalls, LogTokenSpend(c)
  PROVE  AuthInv'
<1> DEFINE x == calls[c]  k == <<"logtokenspent", x.job>>  r == [calls[c] EXCEPT !.pc = "log_delete"]
<1>1. /\ authNow' = authNow /\ authScene' = authScene /\ admins' = admins /\ adminMu' = adminMu /\ lastPoll' = lastPoll
      /\ device' = device /\ logTokens' = logTokens /\ tokens' = tokens /\ redeemed' = redeemed /\ signedOut' = signedOut
  BY SignedStay DEF LogTokenSpend
<1>2. CASE Respond(c) /\ marks' = marks
  <2>1. device' \in [AuthDevices -> DeviceType] /\ logTokens' \in [AuthJobs -> Nat]
    BY <1>1, AuthFacts
  <2>2. QED
    BY <1>1, <1>2, <2>1, AuthAnswers, Zenon
<1>3. CASE LiveRecord(x.exp) /\ AddCreates(k) /\ PutMark(k, x.exp) /\ Goto(c, r)
  <2>1. x.pc = "log_spend" /\ x \in CallType(tokens) /\ authNow \in Nat \ {0}
    BY AuthFacts DEF LogTokenSpend, Running
  <2>2. x \in LogCall
    BY <2>1, CallShapes, Zenon
  <2>3. r \in LogCall /\ r.pc = "log_delete" /\ r.job = x.job /\ x.job \in AuthJobs /\ x.exp \in Nat
    BY <2>2 DEF LogCall
  <2>4. r \in CallType(tokens)
    BY <2>3 DEF CallType
  <2> HIDE DEF r
  <2>5. Dated(r, authNow)
    BY <2>3 DEF Dated
  <2>6. \A other, j : Spends(r, other, j) => other = "log" /\ j = x.job
    BY <2>3 DEF Spends
  <2>7. x.exp \in Nat \ {0} /\ x.job \in 1 .. MaxTokens /\ MarkerOf("log") = "logtokenspent" /\ "log" \in {"device", "log"}
    BY <1>3, <2>1, <2>3, DeviceKeys DEF LiveRecord, MarkerOf
  <2>8. marks' = [marks EXCEPT ![<<MarkerOf("log"), x.job>>] = x.exp]
    BY <1>3, <2>7 DEF PutMark
  <2>9. r.pc \in {"poll_unindex", "log_delete"}
    BY <2>3
  <2>10. calls'[c] = r /\ \A e \in AuthCalls : e # c => calls'[e] = calls[e]
    BY <1>3, AuthFacts DEF Goto
  <2>11. ASSUME authScene.store = "sql" PROVE AllSpentOnce(marks', redeemed', calls')
    <3> DEFINE kind == "log"  i == x.job  exp == x.exp
    <3>1. marks[<<MarkerOf(kind), i>>] = NoRow /\ kind \in OneTime /\ i \in 1 .. MaxTokens /\ exp \in Nat \ {0}
      BY <1>3, <2>7, <2>11 DEF AddCreates, OneTime
    <3>2. AuthTyped /\ AllSpentOnce(marks, redeemed, calls)
      BY <2>11, AuthFacts
    <3>3. marks' = [marks EXCEPT ![<<MarkerOf(kind), i>>] = exp]
      BY <2>8
    <3>4. OnlySpends(calls'[c], kind, i)
      BY <2>6, <2>10 DEF OnlySpends
    <3> HIDE DEF kind, i, exp
    <3>5. redeemed' = redeemed /\ exp \in Nat /\ exp # 0 /\ \A e \in AuthCalls : e # c => calls'[e] = calls[e]
      BY <1>1, <2>10, <3>1
    <3>6. QED
      BY <3>1, <3>2, <3>3, <3>4, <3>5, SpentBegins, Zenon
  <2>12. QED
    BY <1>1, <1>3, <2>4, <2>5, <2>7, <2>8, <2>9, <2>11, SpendMoves, Zenon
<1>4. QED
  BY <1>2, <1>3 DEF LogTokenSpend, AtStep

LEMMA PollAnswerKeeps ==
  ASSUME AuthInv, NEW c \in AuthCalls, PollAnswer(c)
  PROVE  AuthInv'
<1> DEFINE x == calls[c]  d == x.dev  a == x.made + AccessTTL  e == x.made + RefreshTTL
<1>1. /\ authNow' = authNow /\ authScene' = authScene /\ admins' = admins /\ adminMu' = adminMu /\ lastPoll' = lastPoll
      /\ marks' = marks /\ logTokens' = logTokens /\ signedOut' = signedOut
      /\ Goto(c, IdleCall) /\ Redeem("device", d) /\ HandPair(x.user, 0, a, e)
      /\ device' \in {device, [device EXCEPT ![d] = NoDevice]}
  BY SignedStay DEF PollAnswer, Respond
<1>2. x.pc = "poll_answer" /\ x \in CallType(tokens) /\ authNow \in Nat \ {0} /\ Dated(x, authNow)
  BY AuthFacts DEF PollAnswer, Running
<1>3. x \in SpendCall
  BY <1>2, CallShapes, Zenon
<1>4. d \in AuthDevices /\ x.user \in Users /\ x.made \in Nat /\ x.made <= authNow
  BY <1>2, <1>3 DEF SpendCall, Dated
<1>5. NoDevice \in DeviceType
  BY DEF NoDevice, DeviceType, Users
<1>6. device' \in [AuthDevices -> DeviceType] /\ logTokens' \in [AuthJobs -> Nat] /\ marks' \in [MarkKeys -> Nat]
  BY <1>1, <1>5, AuthFacts
<1>7. a \in Nat /\ e \in Nat /\ a <= authNow + RefreshTTL /\ e <= authNow + RefreshTTL
  BY <1>2, <1>4, TimesTyped
<1>8. 0 \in 0 .. Cardinality(tokens)
  BY AuthFacts, FS_CardinalityType DEF TokensSound
<1> HIDE DEF a, e
<1>9. /\ tokens \subseteq tokens' /\ tokens' \subseteq Token /\ TokensSound(tokens', authNow)
      /\ \A M : FamilyMarked(M, tokens) /\ SignedOutSound(M, tokens, authNow, signedOut)
                => FamilyMarked(M, tokens') /\ SignedOutSound(M, tokens', authNow, signedOut)
  BY <1>1, <1>4, <1>7, <1>8, PairGoesOut
<1>10. d \in 1 .. MaxTokens /\ "device" \in OneTime
  BY <1>4, DeviceKeys DEF OneTime
<1>11. redeemed' = [redeemed EXCEPT ![<<"device", d>>] = @ + 1] /\ redeemed' \in [OneTime \X (1 .. MaxTokens) -> Nat]
  BY <1>1, <1>10, RedeemsOne
<1>12. /\ IdleCall \in CallType(tokens') /\ Dated(IdleCall, authNow) /\ IdleCall.pc = "idle" /\ \A kind, i : ~Spends(IdleCall, kind, i)
       /\ RefusedYet(IdleCall, began'[c], marks', authNow, signedOut') /\ RevokesAll(IdleCall, marks')
  BY IdleIsCall, Zenon
<1>13. calls'[c] = IdleCall /\ (\A f \in AuthCalls : f # c => calls'[f] = calls[f])
  BY <1>1, AuthFacts DEF Goto
<1>14. ASSUME authScene.store = "sql" PROVE AllSpentOnce(marks', redeemed', calls')
  <2>1. Spends(x, "device", d)
    BY <1>2 DEF Spends
  <2>2. AuthTyped /\ AllSpentOnce(marks, redeemed, calls)
    BY <1>14, AuthFacts
  <2>3. QED
    BY <1>1, <1>10, <1>11, <1>12, <1>13, <2>1, <2>2, SpentEnds
<1>15. authScene.store = "sql" => FamilyMarked(marks', tokens') /\ SignedOutSound(marks', tokens', authNow, signedOut')
  BY <1>1, <1>9, SqlFacts
<1>16. /\ \A f \in AuthDevices : marks'[<<"devpoll", f>>] = marks[<<"devpoll", f>>]
       /\ \A f \in 1 .. MaxTokens : marks'[<<"deny-session", f>>] = marks[<<"deny-session", f>>]
       /\ signedOut \subseteq signedOut' /\ IdleCall.pc \notin {"remove", "slowed"}
  BY <1>1, <1>12
<1>17. QED
  BY <1>1, <1>6, <1>9, <1>11, <1>12, <1>14, <1>15, <1>16, AuthWrites, Zenon

LEMMA MintLogTokenKeeps ==
  ASSUME AuthInv, NEW c \in AuthCalls, MintLogToken(c)
  PROVE  AuthInv'
<1>1. PICK j \in AuthJobs : logTokens' = [logTokens EXCEPT ![j] = authNow + LogTokenTTL]
  BY DEF MintLogToken
<1>2. authNow + LogTokenTTL \in Nat
  BY AuthFacts, TimesTyped
<1>3. logTokens' \in [AuthJobs -> Nat]
  BY <1>1, <1>2, AuthFacts
<1>4. /\ authNow' = authNow /\ authScene' = authScene /\ admins' = admins /\ adminMu' = adminMu /\ lastPoll' = lastPoll
      /\ device' = device /\ calls' = calls /\ began' = began /\ tokens' = tokens
      /\ marks' = marks /\ redeemed' = redeemed /\ signedOut' = signedOut
  BY SignedStay DEF MintLogToken
<1>5. /\ tokens \subseteq tokens' /\ tokens' \subseteq Token /\ TokensSound(tokens', authNow) /\ lastPoll' \in [AuthDevices -> Nat]
      /\ AdminKept(admins', adminMu', calls)
      /\ authScene.store = "badger" => PollsPaced(marks, lastPoll', calls, authNow)
  BY <1>4, AuthFacts
<1>6. authScene.store = "sql" => FamilyMarked(marks, tokens') /\ SignedOutSound(marks, tokens', authNow, signedOut)
  BY <1>4, SqlFacts
<1>7. QED
  BY <1>3, <1>4, <1>5, <1>6, AuthStill, Zenon

LEMMA LogTokenDeleteKeeps ==
  ASSUME AuthInv, NEW c \in AuthCalls, LogTokenDelete(c)
  PROVE  AuthInv'
<1> DEFINE x == calls[c]  j == x.job
<1>1. /\ authNow' = authNow /\ authScene' = authScene /\ admins' = admins /\ adminMu' = adminMu /\ lastPoll' = lastPoll
      /\ marks' = marks /\ device' = device /\ signedOut' = signedOut /\ tokens' = tokens
      /\ Goto(c, IdleCall) /\ Redeem("log", j) /\ logTokens' \in {logTokens, [logTokens EXCEPT ![j] = 0]}
  BY SignedStay DEF LogTokenDelete, Respond
<1>2. x.pc = "log_delete" /\ x \in CallType(tokens)
  BY AuthFacts DEF LogTokenDelete, Running
<1>3. x \in LogCall
  BY <1>2, CallShapes, Zenon
<1>4. j \in AuthJobs
  BY <1>3 DEF LogCall
<1>5. device' \in [AuthDevices -> DeviceType] /\ logTokens' \in [AuthJobs -> Nat] /\ marks' \in [MarkKeys -> Nat]
  BY <1>1, AuthFacts
<1>6. j \in 1 .. MaxTokens /\ "log" \in OneTime
  BY <1>4, DeviceKeys DEF OneTime
<1>7. redeemed' = [redeemed EXCEPT ![<<"log", j>>] = @ + 1] /\ redeemed' \in [OneTime \X (1 .. MaxTokens) -> Nat]
  BY <1>1, <1>6, RedeemsOne
<1>8. /\ IdleCall \in CallType(tokens') /\ Dated(IdleCall, authNow) /\ IdleCall.pc = "idle" /\ \A kind, i : ~Spends(IdleCall, kind, i)
      /\ RefusedYet(IdleCall, began'[c], marks', authNow, signedOut') /\ RevokesAll(IdleCall, marks')
  BY IdleIsCall, Zenon
<1>9. calls'[c] = IdleCall /\ (\A f \in AuthCalls : f # c => calls'[f] = calls[f])
  BY <1>1, AuthFacts DEF Goto
<1>10. ASSUME authScene.store = "sql" PROVE AllSpentOnce(marks', redeemed', calls')
  <2>1. Spends(x, "log", j)
    BY <1>2 DEF Spends
  <2>2. AuthTyped /\ AllSpentOnce(marks, redeemed, calls)
    BY <1>10, AuthFacts
  <2>3. QED
    BY <1>1, <1>6, <1>7, <1>8, <1>9, <2>1, <2>2, SpentEnds
<1>11. authScene.store = "sql" => FamilyMarked(marks', tokens') /\ SignedOutSound(marks', tokens', authNow, signedOut')
  BY <1>1, SqlFacts
<1>12. /\ \A f \in AuthDevices : marks'[<<"devpoll", f>>] = marks[<<"devpoll", f>>]
       /\ \A f \in 1 .. MaxTokens : marks'[<<"deny-session", f>>] = marks[<<"deny-session", f>>]
       /\ signedOut \subseteq signedOut' /\ IdleCall.pc \notin {"remove", "slowed"}
       /\ tokens \subseteq tokens' /\ tokens' \subseteq Token /\ TokensSound(tokens', authNow)
  BY <1>1, <1>8, AuthFacts
<1>13. QED
  BY <1>1, <1>5, <1>7, <1>8, <1>10, <1>11, <1>12, AuthWrites, Zenon

LEMMA AddAdminKeeps ==
  ASSUME AuthInv, NEW c \in AuthCalls, AddAdmin(c)
  PROVE  AuthInv'
<1>1. PICK u \in AuthUsers : admins' = admins \cup {u}
  BY DEF AddAdmin
<1>2. /\ authNow' = authNow /\ authScene' = authScene /\ adminMu' = adminMu /\ adminMu = {} /\ lastPoll' = lastPoll
      /\ device' = device /\ logTokens' = logTokens /\ calls' = calls /\ began' = began /\ tokens' = tokens
      /\ marks' = marks /\ redeemed' = redeemed /\ signedOut' = signedOut
  BY SignedStay DEF AddAdmin
<1>3. /\ tokens \subseteq tokens' /\ tokens' \subseteq Token /\ TokensSound(tokens', authNow) /\ lastPoll' \in [AuthDevices -> Nat]
      /\ logTokens' \in [AuthJobs -> Nat]
      /\ authScene.store = "badger" => PollsPaced(marks, lastPoll', calls, authNow)
  BY <1>2, AuthFacts
<1>4. authScene.store = "sql" => FamilyMarked(marks, tokens') /\ SignedOutSound(marks, tokens', authNow, signedOut)
  BY <1>2, SqlFacts
<1>5. AdminKept(admins', adminMu', calls)
  BY <1>1, <1>2, AuthFacts DEF AdminKept
<1>6. QED
  BY <1>2, <1>3, <1>4, <1>5, AuthStill, Zenon

LEMMA RemoveListKeeps ==
  ASSUME AuthInv, NEW c \in AuthCalls, RemoveList(c)
  PROVE  AuthInv'
<1> DEFINE r(u) == [pc |-> "remove", user |-> u]
<1>1. PICK u \in AuthUsers : \/ adminMu' = adminMu /\ calls' = calls /\ began' = began
                             \/ admins # {u} /\ adminMu' = {c} /\ Goto(c, r(u))
  BY DEF RemoveList
<1>2. /\ authNow' = authNow /\ authScene' = authScene /\ admins' = admins /\ adminMu = {} /\ lastPoll' = lastPoll
      /\ device' = device /\ logTokens' = logTokens /\ tokens' = tokens
      /\ marks' = marks /\ redeemed' = redeemed /\ signedOut' = signedOut
  BY SignedStay DEF RemoveList
<1>3. /\ tokens \subseteq tokens' /\ tokens' \subseteq Token /\ TokensSound(tokens', authNow) /\ lastPoll' \in [AuthDevices -> Nat]
      /\ logTokens' \in [AuthJobs -> Nat] /\ device' \in [AuthDevices -> DeviceType] /\ marks' \in [MarkKeys -> Nat]
      /\ authScene.store = "badger" => PollsPaced(marks, lastPoll', calls, authNow)
  BY <1>2, AuthFacts
<1>4. CASE adminMu' = adminMu /\ calls' = calls /\ began' = began
  <2>1. authScene.store = "sql" => FamilyMarked(marks, tokens') /\ SignedOutSound(marks, tokens', authNow, signedOut)
    BY <1>2, SqlFacts
  <2>2. AdminKept(admins', adminMu', calls)
    BY <1>2, <1>4, AuthFacts
  <2>3. QED
    BY <1>2, <1>3, <1>4, <2>1, <2>2, AuthStill, Zenon
<1>5. CASE admins # {u} /\ adminMu' = {c} /\ Goto(c, r(u))
  <2>1. r(u).pc = "remove" /\ r(u).user = u /\ r(u) \in RemoveCall
    BY DEF RemoveCall, Users
  <2>2. r(u) \in CallType(tokens)
    BY <2>1 DEF CallType
  <2> HIDE DEF r
  <2>3. r(u).pc \in {"poll_read", "slowed", "remove"}
    BY <2>1
  <2>4. /\ Dated(r(u), authNow) /\ \A at, M, out : RefusedYet(r(u), at, M, authNow, out)
        /\ \A M : RevokesAll(r(u), M) /\ \A kind, i : ~Spends(r(u), kind, i)
    BY <2>3, IdleCalls
  <2>5. calls'[c] = r(u) /\ \A e \in AuthCalls : e # c => calls'[e] = calls[e]
    BY <1>5, AuthFacts DEF Goto
  <2>6. \A e \in AuthCalls : calls[e].pc # "remove"
    BY <1>2, AuthFacts DEF AdminKept
  <2>7. AdminKept(admins', adminMu', calls')
    <3>1. \A e \in AuthCalls : calls'[e].pc = "remove" => e = c
      BY <2>5, <2>6
    <3>2. QED
      BY <1>2, <1>5, <2>1, <2>5, <3>1, AuthFacts DEF AdminKept
  <2>8. authScene.store = "badger" => PollsPaced(marks', lastPoll', calls', authNow')
    <3>1. r(u).pc # "slowed"
      BY <2>1
    <3>2. QED
      BY <1>2, <2>5, <3>1, AuthFacts, PollsKeep
  <2>9. /\ \A k \in MarkKeys : marks[k] # NoRow => marks'[k] # NoRow
        /\ \A i \in 1 .. MaxTokens : marks'[<<"deny-session", i>>] = marks[<<"deny-session", i>>] /\ marks'[<<"deny", i>>] = marks[<<"deny", i>>]
    BY <1>2
  <2>10. QED
    BY <1>2, <1>3, <1>5, <2>2, <2>4, <2>7, <2>8, <2>9, AuthWritesAll, Zenon
<1>6. QED
  BY <1>1, <1>4, <1>5

LEMMA RemoveAdminKeeps ==
  ASSUME AuthInv, NEW c \in AuthCalls, RemoveAdmin(c)
  PROVE  AuthInv'
<1>1. /\ authNow' = authNow /\ authScene' = authScene /\ admins' = admins \ {calls[c].user} /\ lastPoll' = lastPoll
      /\ device' = device /\ logTokens' = logTokens /\ tokens' = tokens
      /\ marks' = marks /\ redeemed' = redeemed /\ signedOut' = signedOut /\ Goto(c, IdleCall) /\ calls[c].pc = "remove"
  BY SignedStay DEF RemoveAdmin, Respond, Running
<1>2. /\ lastPoll' \in [AuthDevices -> Nat]
      /\ logTokens' \in [AuthJobs -> Nat] /\ device' \in [AuthDevices -> DeviceType] /\ marks' \in [MarkKeys -> Nat]
  BY <1>1, AuthFacts
<1>3. /\ IdleCall \in CallType(tokens) /\ Dated(IdleCall, authNow) /\ IdleCall.pc = "idle" /\ \A kind, i : ~Spends(IdleCall, kind, i)
      /\ (\A at, M, out : RefusedYet(IdleCall, at, M, authNow, out)) /\ (\A M : RevokesAll(IdleCall, M))
  BY IdleIsCall, Zenon
<1>4. calls'[c] = IdleCall /\ (\A f \in AuthCalls : f # c => calls'[f] = calls[f])
  BY <1>1, AuthFacts DEF Goto
<1>5. adminMu = {c} /\ admins # {calls[c].user} /\ admins # {}
  BY <1>1, AuthFacts DEF AdminKept
<1>6. AdminKept(admins', adminMu', calls')
  <2>1. admins' # {} /\ admins' \subseteq AuthUsers
    BY <1>1, <1>5, AuthFacts DEF AdminKept
  <2>2. \A e \in AuthCalls : calls[e].pc = "remove" => e = c
    BY <1>5, AuthFacts DEF AdminKept
  <2>3. \A e \in AuthCalls : calls'[e].pc # "remove"
    BY <1>3, <1>4, <2>2
  <2>4. QED
    BY <2>1, <2>3 DEF AdminKept
<1>7. authScene.store = "badger" => PollsPaced(marks', lastPoll', calls', authNow')
  <2>1. IdleCall.pc # "slowed"
    BY <1>3
  <2>2. QED
    BY <1>1, <1>4, <2>1, AuthFacts, PollsKeep
<1>8. /\ \A k \in MarkKeys : marks[k] # NoRow => marks'[k] # NoRow
      /\ \A i \in 1 .. MaxTokens : marks'[<<"deny-session", i>>] = marks[<<"deny-session", i>>] /\ marks'[<<"deny", i>>] = marks[<<"deny", i>>]
  BY <1>1
<1>9. QED
  BY <1>1, <1>2, <1>3, <1>6, <1>7, <1>8, AuthWritesAll, Zenon

LEMMA AuthTickKeeps ==
  ASSUME AuthInv, AuthTick
  PROVE  AuthInv'
<1> USE AuthFacts
<1>1. /\ authNow' = authNow + 1 /\ authScene' = authScene /\ admins' = admins /\ adminMu' = adminMu /\ lastPoll' = lastPoll
      /\ device' = device /\ logTokens' = logTokens /\ calls' = calls /\ began' = began /\ tokens' = tokens
      /\ marks' = marks /\ redeemed' = redeemed /\ signedOut' = signedOut
      /\ \A c \in AuthCalls : calls[c].pc # "idle" => began[c] = authNow
  BY DEF AuthTick
<1>2. authNow' \in Nat \ {0} /\ authNow' \in Nat /\ authNow <= authNow' /\ began \in [AuthCalls -> Nat]
  BY <1>1 DEF AuthTyped
<1>3. AuthTyped'
  BY <1>1, <1>2 DEF AuthTyped, CallType, RefreshCall, RotateCall, RevokeCall, TokenCall, AccessCall
<1>4. TokensSound(tokens, authNow)'
  <2>1. \A t \in tokens : TokenSound(t, tokens, authNow')
    <3> SUFFICES ASSUME NEW t \in tokens PROVE TokenSound(t, tokens, authNow')
      OBVIOUS
    <3>1. TokenSound(t, tokens, authNow) /\ t.exp \in Nat
      BY TokenKeys DEF TokensSound
    <3>2. t.exp <= authNow + RefreshTTL => t.exp <= authNow' + RefreshTTL
      BY <1>1, <1>2, <3>1, TimesTyped
    <3>3. QED
      BY <3>1, <3>2 DEF TokenSound
  <2>2. QED
    BY <1>1, <2>1 DEF TokensSound, TokenSound
<1>5. Recent(calls, began, authNow')
  BY <1>1, <1>2 DEF Recent
<1>6. ASSUME NEW c \in AuthCalls PROVE Dated(calls[c], authNow')
  <2>1. calls[c] \in CallType(tokens) /\ Dated(calls[c], authNow)
    OBVIOUS
  <2>2. calls[c].pc \in {"refresh_consume", "refresh_again"} => calls[c].access <= authNow' + RefreshTTL
    <3> SUFFICES ASSUME calls[c].pc \in {"refresh_consume", "refresh_again"} PROVE calls[c].access <= authNow' + RefreshTTL
      OBVIOUS
    <3>1. calls[c] \in RotateCall(tokens)
      BY <2>1, CallShapes, Zenon
    <3>2. calls[c].access \in Nat
      BY <3>1 DEF RotateCall
    <3>3. calls[c].access <= authNow + RefreshTTL
      BY <2>1 DEF Dated
    <3>4. QED
      BY <1>1, <3>2, <3>3, TimesTyped
  <2>3. calls[c].pc \in {"poll_spend", "poll_unindex", "poll_answer"} => calls[c].made <= authNow'
    <3> SUFFICES ASSUME calls[c].pc \in {"poll_spend", "poll_unindex", "poll_answer"} PROVE calls[c].made <= authNow'
      OBVIOUS
    <3>1. calls[c] \in SpendCall
      BY <2>1, CallShapes, Zenon
    <3>2. calls[c].made \in Nat
      BY <3>1 DEF SpendCall
    <3>3. calls[c].made <= authNow
      BY <2>1 DEF Dated
    <3>4. QED
      BY <1>1, <3>2, <3>3
  <2>4. QED
    BY <2>1, <2>2, <2>3 DEF Dated
<1>7. ASSUME authScene.store = "sql" PROVE SignOutSound(marks, tokens, authNow', signedOut, calls, began)
  <2>1. ASSUME NEW t \in tokens PROVE OutMarked(t, marks, authNow', signedOut)
    <3>1. OutMarked(t, marks, authNow, signedOut) /\ t.exp \in Nat
      BY <1>7, SqlFacts, TokenKeys DEF SignedOutSound
    <3>2. t.exp < authNow => t.exp < authNow'
      BY <1>1, <3>1
    <3>3. QED
      BY <3>1, <3>2 DEF OutMarked
  <2>2. SignedOutSound(marks, tokens, authNow', signedOut)
    BY <1>7, <2>1, SqlFacts DEF SignedOutSound
  <2>3. ASSUME NEW c \in AuthCalls PROVE RefusedYet(calls[c], began[c], marks, authNow', signedOut)
    <3>1. calls[c] \in CallType(tokens) /\ RefusedYet(calls[c], began[c], marks, authNow, signedOut) /\ signedOut \subseteq signedOut
      BY <1>7, SqlFacts
    <3>2. AuthTyped /\ TokensSound(tokens, authNow)
      OBVIOUS
    <3>3. calls[c].pc # "idle" => \A f \in 1 .. MaxTokens : \/ marks[<<"deny-session", f>>] = marks[<<"deny-session", f>>]
                                                           \/ began[c] + RefreshTTL <= marks[<<"deny-session", f>>]
      OBVIOUS
    <3>4. QED
      BY <1>2, <3>1, <3>2, <3>3, RefusedStays, Zenon
  <2>4. QED
    BY <1>7, <2>2, <2>3, SqlFacts DEF SignOutSound
<1>8. ASSUME authScene.store = "badger" PROVE PollsPaced(marks, lastPoll, calls, authNow')
  BY <1>1, <1>8 DEF PollsPaced
<1>9. Recent(calls', began', authNow') /\ \A c \in AuthCalls : Dated(calls'[c], authNow')
  BY <1>1, <1>5, <1>6, Zenon
<1>10. authScene'.store = "sql" => AllSpentOnce(marks', redeemed', calls') /\ SignOutSound(marks', tokens', authNow', signedOut', calls', began')
  BY <1>1, <1>7, Zenon
<1>11. (authScene'.store = "badger" => PollsPaced(marks', lastPoll', calls', authNow')) /\ AdminKept(admins', adminMu', calls')
  BY <1>1, <1>8, Zenon
<1>12. QED
  BY <1>3, <1>4, <1>9, <1>10, <1>11 DEF AuthInv, Recent, Dated, AllSpentOnce, SpentOnce, Spends, SignOutSound, FamilyMarked, SignedOutSound, OutMarked, RefusedYet, RevokesAll, PollsPaced, AdminKept, TokenId, Session

LEMMA AuthInitHolds ==
  ASSUME AuthInit, Bootstrap # {}
  PROVE  AuthInv
<1>1. /\ authNow = 1 /\ authScene \in AuthScenes /\ admins = Bootstrap /\ adminMu = {}
      /\ marks = [k \in MarkKeys |-> 0] /\ device = [d \in AuthDevices |-> NoDevice]
      /\ logTokens = [j \in AuthJobs |-> 0] /\ tokens = authScene.held /\ calls = [c \in AuthCalls |-> IdleCall]
      /\ began = [c \in AuthCalls |-> 0] /\ redeemed = [k \in OneTime \X (1 .. MaxTokens) |-> 0]
      /\ signedOut = {} /\ lastPoll = [d \in AuthDevices |-> 0]
  BY DEF AuthInit, NoRow
<1> DEFINE n == Cardinality(tokens)
<1>2. /\ IsFiniteSet(tokens) /\ n <= authScene.most
      /\ tokens \subseteq [typ : {"cli", "refresh"}, id : 1 .. n, fam : 1 .. n, user : AuthUsers, exp : 0 .. (1 + RefreshTTL)]
      /\ \A t, u \in tokens : t.id = u.id => t = u
      /\ authScene.most \in 0 .. MaxTokens
  BY <1>1, AuthAssumption
<1>3. n \in Nat /\ n <= MaxTokens /\ MaxTokens \in Nat
  BY <1>2, FS_CardinalityType, TimesTyped
<1> HIDE DEF n
<1>4. \A t \in tokens : /\ t \in Token /\ t.typ \in {"cli", "refresh"} /\ t.id \in 1 .. n /\ t.fam \in 1 .. n
                        /\ t.exp \in 0 .. (1 + RefreshTTL)
  <2> SUFFICES ASSUME NEW t \in tokens
               PROVE  /\ t \in Token /\ t.typ \in {"cli", "refresh"} /\ t.id \in 1 .. n /\ t.fam \in 1 .. n
                      /\ t.exp \in 0 .. (1 + RefreshTTL)
    OBVIOUS
  <2>1. t \in [typ : {"cli", "refresh"}, id : 1 .. n, fam : 1 .. n, user : AuthUsers, exp : 0 .. (1 + RefreshTTL)]
    BY <1>2
  <2>2. t.typ \in TokenTypes /\ t.id \in 1 .. MaxTokens /\ t.fam \in 0 .. MaxTokens /\ t.user \in Users /\ t.exp \in Nat
    BY <1>3, <2>1, TimesTyped DEF TokenTypes, Users
  <2>3. QED
    BY <2>1, <2>2 DEF Token
<1>5. AuthTyped
  <2>1. NoDevice \in DeviceType
    BY DEF NoDevice, DeviceType, Users
  <2>2. calls \in [AuthCalls -> CallType(tokens)]
    <3>1. IdleCall \in CallType(tokens)
      BY IdleIsCall
    <3> HIDE DEF CallType
    <3>2. QED
      BY <1>1, <3>1
  <2>3. marks \in [MarkKeys -> Nat] /\ redeemed \in [OneTime \X (1 .. MaxTokens) -> Nat]
    BY <1>1
  <2>4. QED
    BY <1>1, <1>4, <2>1, <2>2, <2>3 DEF AuthTyped
<1>6. TokensSound(tokens, authNow)
  <2>1. \A t \in tokens : TokenSound(t, tokens, authNow)
    BY <1>1, <1>2, <1>3, <1>4, TimesTyped DEF TokenSound, n
  <2>2. QED
    BY <1>2, <2>1 DEF TokensSound, n
<1>7. \A c \in AuthCalls : calls[c] = IdleCall /\ IdleCall.pc = "idle"
  BY <1>1, IdleIsCall
<1>8. Recent(calls, began, authNow) /\ \A c \in AuthCalls : Dated(calls[c], authNow)
  BY <1>7, IdleIsCall DEF Recent
<1>9. \A k \in MarkKeys : marks[k] = NoRow
  BY <1>1 DEF NoRow
<1>10. AllSpentOnce(marks, redeemed, calls)
  <2> SUFFICES ASSUME NEW kind \in OneTime, NEW i \in 1 .. MaxTokens PROVE SpentOnce(kind, i, marks, redeemed, calls)
    BY DEF AllSpentOnce
  <2>1. redeemed[<<kind, i>>] = 0
    BY <1>1
  <2>2. \A c \in AuthCalls : ~Spends(calls[c], kind, i)
    BY <1>7, IdleIsCall
  <2>3. QED
    BY <2>1, <2>2 DEF SpentOnce
<1>11. SignOutSound(marks, tokens, authNow, signedOut, calls, began)
  <2>1. \A f \in 1 .. MaxTokens : marks[<<"deny-session", f>>] = NoRow
    BY <1>9 DEF MarkKeys, MarkNamespaces
  <2>2. FamilyMarked(marks, tokens)
    BY <2>1 DEF FamilyMarked
  <2>3. SignedOutSound(marks, tokens, authNow, signedOut)
    BY <1>1 DEF SignedOutSound, OutMarked
  <2>4. \A c \in AuthCalls : RefusedYet(calls[c], began[c], marks, authNow, signedOut) /\ RevokesAll(calls[c], marks)
    BY <1>7, IdleIsCall
  <2>5. QED
    BY <2>2, <2>3, <2>4 DEF SignOutSound
<1>12. PollsPaced(marks, lastPoll, calls, authNow)
  <2>1. \A d \in AuthDevices : lastPoll[d] = 0 /\ marks[<<"devpoll", d>>] = 0
    BY <1>1, <1>9, DeviceKeys DEF MarkNamespaces, NoRow
  <2>2. QED
    BY <1>1, <1>7, <2>1, TimesTyped DEF PollsPaced
<1>13. AdminKept(admins, adminMu, calls)
  BY <1>1, <1>7, AuthAssumption DEF AdminKept
<1>14. QED
  BY <1>5, <1>6, <1>8, <1>10, <1>11, <1>12, <1>13 DEF AuthInv

LEMMA AuthStepHolds ==
  ASSUME AuthInv, NEW c \in AuthCalls, AuthStep(c)
  PROVE  AuthInv'
<1>1. CASE RefreshStart(c) \/ RefreshSession(c) \/ RefreshAdmin(c) \/ RefreshConsume(c) \/ RefreshAgain(c)
  BY <1>1, RefreshStartKeeps, RefreshSessionKeeps, RefreshAdminKeeps, RefreshConsumeKeeps, RefreshAgainKeeps, Zenon
<1>2. CASE RevokeStart(c) \/ RevokeToken(c) \/ RevokeFamily(c) \/ LogoutStart(c) \/ LogoutToken(c) \/ LogoutSession(c)
  BY <1>2, RevokeStartKeeps, RevokeTokenKeeps, RevokeFamilyKeeps, LogoutStartKeeps, LogoutTokenKeeps, LogoutSessionKeeps, Zenon
<1>3. CASE AccessStart(c) \/ AccessToken(c) \/ AccessSession(c) \/ AccessAdmin(c) \/ Callback(c) \/ ExchangeStart(c) \/ Exchange(c)
  BY <1>3, AccessStartKeeps, AccessTokenKeeps, AccessSessionKeeps, AccessAdminKeeps, CallbackKeeps, ExchangeStartKeeps, ExchangeKeeps, Zenon
<1>4. CASE DeviceCode(c) \/ DeviceIndex(c) \/ ApproveStart(c) \/ DeviceCallback(c) \/ TransitionRead(c) \/ TransitionPut(c)
  BY <1>4, DeviceCodeKeeps, DeviceIndexKeeps, ApproveStartKeeps, DeviceCallbackKeeps, TransitionReadKeeps, TransitionPutKeeps, Zenon
<1>5. CASE PollStart(c) \/ PollUnpaced(c) \/ PollRead(c) \/ PollAdmin(c) \/ PollSpend(c) \/ PollUnindex(c) \/ PollAnswer(c)
  BY <1>5, PollStartKeeps, PollUnpacedKeeps, PollReadKeeps, PollAdminKeeps, PollSpendKeeps, PollUnindexKeeps, PollAnswerKeeps, Zenon
<1>6. CASE MintLogToken(c) \/ LogTokenRead(c) \/ LogTokenSpend(c) \/ LogTokenDelete(c)
  BY <1>6, MintLogTokenKeeps, LogTokenReadKeeps, LogTokenSpendKeeps, LogTokenDeleteKeeps, Zenon
<1>7. CASE AddAdmin(c) \/ RemoveList(c) \/ RemoveAdmin(c) \/ StoreFails(c)
  BY <1>7, AddAdminKeeps, RemoveListKeeps, RemoveAdminKeeps, StoreFailsKeeps, Zenon
<1>8. QED
  BY <1>1, <1>2, <1>3, <1>4, <1>5, <1>6, <1>7, Zenon DEF AuthStep

LEMMA AuthInvHolds ==
  ASSUME AuthInv
  PROVE  SessionsHold
<1>1. SingleUse
  <2>1. DOMAIN redeemed = OneTime \X (1 .. MaxTokens)
    BY AuthFacts
  <2>2. ASSUME authScene.store = "sql", NEW k \in OneTime \X (1 .. MaxTokens) PROVE redeemed[k] <= 1
    <3>1. PICK kind \in OneTime, i \in 1 .. MaxTokens : k = <<kind, i>>
      BY <2>2
    <3>2. SpentOnce(kind, i, marks, redeemed, calls)
      BY <2>2, SqlFacts DEF AllSpentOnce
    <3>3. QED
      BY <3>1, <3>2 DEF SpentOnce
  <2>3. QED
    BY <2>1, <2>2 DEF SingleUse
<1>2. SignedOutIsRefused
  BY SqlFacts DEF SignedOutIsRefused, RefusedYet
<1>3. BadgerPollServed
  BY AuthFacts DEF BadgerPollServed, PatientPollServed, PollsPaced
<1>4. SomeAdmin
  BY AuthFacts DEF SomeAdmin, AdminKept
<1>5. QED
  BY <1>1, <1>2, <1>3, <1>4 DEF SessionsHold

\* Signing in to ayato: however requests overlap, whichever store calls fail and as time passes, in SQL
\* nothing one-time is answered twice and no request that began after a sign-out is granted; in badger a
\* patient device is never slowed down; and the allowlist, not empty at first, never becomes so.
THEOREM SessionsCorrect ==
  ASSUME Bootstrap # {}
  PROVE  AuthSpec => []SessionsHold
<1>1. AuthInit => AuthInv
  BY AuthInitHolds
<1>2. AuthInv /\ [AuthNext]_authVars => AuthInv'
  <2> SUFFICES ASSUME AuthInv, [AuthNext]_authVars PROVE AuthInv'
    OBVIOUS
  <2>1. CASE AuthTick
    BY <2>1, AuthTickKeeps
  <2>2. CASE \E c \in AuthCalls : AuthStep(c)
    BY <2>2, AuthStepHolds
  <2>3. CASE UNCHANGED authVars
    <3>1. /\ authNow' = authNow /\ authScene' = authScene /\ adminMu' = adminMu /\ admins' = admins /\ lastPoll' = lastPoll
          /\ device' = device /\ logTokens' = logTokens /\ calls' = calls /\ began' = began /\ tokens' = tokens
          /\ marks' = marks /\ redeemed' = redeemed /\ signedOut' = signedOut
      BY <2>3 DEF authVars
    <3>2. /\ tokens \subseteq tokens' /\ tokens' \subseteq Token /\ TokensSound(tokens', authNow) /\ lastPoll' \in [AuthDevices -> Nat]
          /\ logTokens' \in [AuthJobs -> Nat] /\ AdminKept(admins', adminMu', calls)
          /\ authScene.store = "badger" => PollsPaced(marks, lastPoll', calls, authNow)
      BY <3>1, AuthFacts
    <3>3. authScene.store = "sql" => FamilyMarked(marks, tokens') /\ SignedOutSound(marks, tokens', authNow, signedOut)
      BY <3>1, SqlFacts
    <3>4. QED
      BY <3>1, <3>2, <3>3, AuthStill, Zenon
  <2>4. QED
    BY <2>1, <2>2, <2>3 DEF AuthNext
<1>3. AuthInv => SessionsHold
  BY AuthInvHolds
<1>4. QED
  BY <1>1, <1>2, <1>3, PTL DEF AuthSpec

==============================================================================
