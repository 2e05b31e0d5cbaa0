------------------------------- MODULE Tiers -------------------------------
(***************************************************************************)
(* Promotion of one package through the tiers of a repository.  An upload  *)
(* goes to staging; a promotion copies what the source tier lists into the *)
(* next tier, architecture by architecture, and under the move policy then *)
(* removes the package from the source.  It holds the publication lease of *)
(* the target only, where the store has leases at all.                     *)
(*                                                                         *)
(* The package is an any package: each tier stores its file once and lists *)
(* it per architecture.  A version stands for the file and its bytes, 0    *)
(* for none; every upload is signed.                                       *)
(***************************************************************************)
EXTENDS Naturals, FiniteSets

CONSTANTS TierArches, Promoters, MaxVersion, MaxPromotions, TierLeases, KeepInSource, MaxTierFaults

ASSUME TierAssumption == MaxVersion \in Nat

Tier == {"staging", "testing", "stable"}

VARIABLES trListed,      \* tier -> arch -> version
          trStored,      \* tier -> versions stored
          trSigs,        \* tier -> versions whose signature is stored
          trLease,       \* tiers whose lease is held
          trP,           \* promoter -> what it does
          trRemoved,     \* tiers an unleased removal touched
          trStarted, trFaults

trVars == <<trListed, trStored, trSigs, trLease, trP, trRemoved, trStarted, trFaults>>
trData == <<trListed, trStored, trSigs, trRemoved>>

PromoterIdle == [pc |-> "idle", from |-> "staging", to |-> "testing", pin |-> 0, todo |-> {},
                 arch |-> 0, version |-> 0, current |-> 0, signed |-> FALSE, done |-> {}]

TRInit ==
  /\ trListed = [t \in Tier |-> [a \in TierArches |-> 0]]
  /\ trStored = [t \in Tier |-> {}] /\ trSigs = [t \in Tier |-> {}]
  /\ trLease = {} /\ trRemoved = {}
  /\ trP = [p \in Promoters |-> PromoterIdle] /\ trStarted = 0 /\ trFaults = 0

CanPromote(from, to) == <<from, to>> \in {<<"staging", "testing">>, <<"testing", "stable">>}

\* What a look-up of the package finds in a tier.  The code takes the first architecture
\* that lists it; the model the highest version any of them lists.
Newest(t) == CHOOSE v \in 0..MaxVersion :
               /\ \E a \in TierArches : trListed[t][a] = v
               /\ \A a \in TierArches : trListed[t][a] <= v

\* PublishTarget: an upload to the logical name lands in staging, past its
\* version gate, in every architecture.
UploadToStaging(v) ==
  /\ "staging" \notin trLease /\ v > Newest("staging")
  /\ \A w \in v..MaxVersion : w \notin trStored["staging"]
  /\ trListed' = [trListed EXCEPT !["staging"] = [a \in TierArches |-> v]]
  /\ trStored' = [trStored EXCEPT !["staging"] = @ \cup {v}]
  /\ trSigs' = [trSigs EXCEPT !["staging"] = @ \cup {v}]
  /\ UNCHANGED <<trLease, trP, trRemoved, trStarted, trFaults>>

Promoter(p, r) == trP' = [trP EXCEPT ![p] = r]

EndPromotion(p) ==
  /\ Promoter(p, PromoterIdle)
  /\ trLease' = trLease \ {trP[p].to}

\* PromotePackage up to the lease of the target.
BeginPromotion(p, from, to, pin) ==
  /\ trP[p].pc = "idle" /\ trStarted < MaxPromotions /\ trStarted' = trStarted + 1
  /\ CanPromote(from, to)
  /\ TierLeases => to \notin trLease
  /\ trLease' = IF TierLeases THEN trLease \cup {to} ELSE trLease
  /\ Promoter(p, [PromoterIdle EXCEPT !.pc = "read", !.from = from, !.to = to, !.pin = pin,
                                      !.todo = TierArches])
  /\ UNCHANGED <<trData, trFaults>>

\* The next architecture of the source: it lists nothing, another version than
\* the one asked for, or what will be promoted.
ReadSource(p, a) ==
  LET me == trP[p]
      v == trListed[me.from][a]
  IN /\ me.pc = "read" /\ a \in me.todo
     /\ CASE v = 0 -> Promoter(p, [me EXCEPT !.todo = @ \ {a}]) /\ UNCHANGED trLease
          [] v # 0 /\ me.pin \notin {0, v} -> EndPromotion(p)
          [] OTHER -> /\ Promoter(p, [me EXCEPT !.pc = "gate", !.todo = @ \ {a}, !.arch = a,
                                                !.version = v])
                      /\ UNCHANGED trLease
     /\ UNCHANGED <<trData, trStarted, trFaults>>

\* promoteOneArch: the target must not be newer.
Gate(p) ==
  LET me == trP[p]
      cur == trListed[me.to][me.arch]
  IN /\ me.pc = "gate"
     /\ IF me.version < cur THEN EndPromotion(p)
        ELSE Promoter(p, [me EXCEPT !.pc = "spool", !.current = cur]) /\ UNCHANGED trLease
     /\ UNCHANGED <<trData, trStarted, trFaults>>

\* spoolPackage: the file, then its signature; a missing signature is none.
Spool(p) ==
  LET me == trP[p]
  IN /\ me.pc = "spool"
     /\ IF me.version \notin trStored[me.from] THEN EndPromotion(p)
        ELSE Promoter(p, [me EXCEPT !.pc = "spoolsig"]) /\ UNCHANGED trLease
     /\ UNCHANGED <<trData, trStarted, trFaults>>

\* Deviation: the move clears the source as soon as it has its bytes.
SpoolSignatureAndDrop(p) ==
  LET me == trP[p]
  IN /\ me.pc = "spoolsig"
     /\ Promoter(p, [me EXCEPT !.pc = "store", !.signed = me.version \in trSigs[me.from]])
     /\ trListed' = [trListed EXCEPT ![me.from][me.arch] = 0]
     /\ UNCHANGED <<trStored, trSigs, trRemoved, trLease, trStarted, trFaults>>

SpoolSignature(p) ==
  LET me == trP[p]
  IN /\ me.pc = "spoolsig"
     /\ Promoter(p, [me EXCEPT !.pc = "store", !.signed = me.version \in trSigs[me.from]])
     /\ UNCHANGED <<trData, trLease, trStarted, trFaults>>

\* Deviation: the signature is left behind.
StoreInTargetBare(p) ==
  LET me == trP[p]
  IN /\ me.pc = "store"
     /\ trStored' = [trStored EXCEPT ![me.to] = @ \cup {me.version}]
     /\ Promoter(p, [me EXCEPT !.pc = "commit"])
     /\ UNCHANGED <<trListed, trSigs, trLease, trRemoved, trStarted, trFaults>>

\* storeSpooledPackage.
StoreInTarget(p) ==
  LET me == trP[p]
  IN /\ me.pc = "store"
     /\ trStored' = [trStored EXCEPT ![me.to] = @ \cup {me.version}]
     /\ trSigs' = IF me.signed THEN [trSigs EXCEPT ![me.to] = @ \cup {me.version}] ELSE trSigs
     /\ Promoter(p, [me EXCEPT !.pc = "commit"])
     /\ UNCHANGED <<trListed, trLease, trRemoved, trStarted, trFaults>>

\* Deviation: the commit does not look at what the target lists.
AnyCurrent(me) == TRUE

\* RepoAddBatch with CheckCurrent: the target still lists what the gate saw, or
\* already lists what is being promoted.
StillCurrent(me) == trListed[me.to][me.arch] \in {me.current, me.version}

CommitTarget(p) ==
  LET me == trP[p]
  IN /\ me.pc = "commit"
     /\ IF StillCurrent(me)
        THEN /\ trListed' = [trListed EXCEPT ![me.to][me.arch] = me.version]
             /\ Promoter(p, [me EXCEPT !.pc = "read", !.done = @ \cup {me.arch}])
             /\ UNCHANGED trLease
        ELSE EndPromotion(p) /\ UNCHANGED trListed
     /\ UNCHANGED <<trStored, trSigs, trRemoved, trStarted, trFaults>>

\* Every architecture is done: nothing was there, the source is kept, or the move ends with a removal.
PromotionDone(p) ==
  LET me == trP[p]
  IN /\ me.pc = "read" /\ me.todo = {}
     /\ IF me.done = {} \/ KeepInSource THEN EndPromotion(p)
        ELSE Promoter(p, [me EXCEPT !.pc = "drop"]) /\ UNCHANGED trLease
     /\ UNCHANGED <<trData, trStarted, trFaults>>

\* dropFromSource, RemovePkg's look at the database and its changes: whatever
\* the source lists by now is resolved and removed from every architecture, which the
\* model does in one step.  The per-architecture removal the code falls back to when
\* RemovePkg fails has the effect of this step and a failure before DropFile.
Drop(p) ==
  LET me == trP[p]
      v == Newest(me.from)
  IN /\ me.pc = "drop"
     /\ IF v = 0 THEN EndPromotion(p) /\ UNCHANGED <<trListed, trRemoved>>
        ELSE /\ trListed' = [trListed EXCEPT ![me.from] = [a \in TierArches |-> 0]]
             /\ trRemoved' = trRemoved \cup {me.from}
             /\ Promoter(p, [me EXCEPT !.pc = "dropfile", !.version = v]) /\ UNCHANGED trLease
     /\ UNCHANGED <<trStored, trSigs, trStarted, trFaults>>

DropFile(p) ==
  LET me == trP[p]
  IN /\ me.pc = "dropfile"
     /\ trStored' = [trStored EXCEPT ![me.from] = @ \ {me.version}]
     /\ trSigs' = [trSigs EXCEPT ![me.from] = @ \ {me.version}]
     /\ EndPromotion(p)
     /\ UNCHANGED <<trListed, trRemoved, trStarted, trFaults>>

\* A call fails or the request is cancelled.
PromotionFails(p) ==
  /\ trP[p].pc # "idle" /\ trFaults < MaxTierFaults /\ trFaults' = trFaults + 1
  /\ EndPromotion(p)
  /\ UNCHANGED <<trData, trStarted>>

TRNext ==
  \/ \E v \in 1..MaxVersion : UploadToStaging(v)
  \/ \E p \in Promoters :
       \/ \E from, to \in Tier, pin \in {0, 1} : BeginPromotion(p, from, to, pin)
       \/ \E a \in TierArches : ReadSource(p, a)
       \/ Gate(p) \/ Spool(p) \/ SpoolSignature(p) \/ StoreInTarget(p) \/ CommitTarget(p)
       \/ PromotionDone(p) \/ Drop(p) \/ DropFile(p) \/ PromotionFails(p)

TRSpec == TRInit /\ [][TRNext]_trVars

(***************************************************************************)
(* What promotion must not break                                           *)
(***************************************************************************)

\* Moving a package through the tiers never makes it disappear: once a version
\* was listed anywhere, the package stays listed in some tier, whatever
\* promotions, uploads and failures overlap.
NeverGone ==
  (\E t \in Tier, a \in TierArches : trListed[t][a] # 0)
    => (\E t \in Tier, a \in TierArches : trListed'[t][a] # 0)

\* Two promotions into one tier, or a promotion and its own stale reading, do
\* not replace a newer version by an older one, with or without the lease.
TiersOnlyAdvance ==
  \A t \in Tier, a \in TierArches : trListed'[t][a] # 0 => trListed'[t][a] >= trListed[t][a]

\* What a tier lists is stored there, with the signature it was uploaded with,
\* in every tier no concurrent removal works on or copies from.
PromotedIsServed ==
  trRemoved = {} =>
    \A t \in Tier, a \in TierArches :
      trListed[t][a] # 0 => trListed[t][a] \in trStored[t] \cap trSigs[t]

\* Promotion, as a whole: a package never disappears between tiers, never goes back,
\* and is stored where it is listed.
TiersHold == [][PromotedIsServed' /\ NeverGone /\ TiersOnlyAdvance]_trVars
=============================================================================
