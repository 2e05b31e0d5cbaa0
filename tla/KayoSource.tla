----------------------------- MODULE KayoSource -----------------------------
(***************************************************************************)
(* A signed package catalog from ayato to kayo.  On ayato, sources are     *)
(* registered and removed in a key-value store and the catalog is built,   *)
(* signed and cached; on kayo, a source fetches it, checks signature and   *)
(* freshness, persists the rollback watermark, swaps its index and so      *)
(* decides whether the catalog may vouch for its packages.                 *)
(*                                                                         *)
(* The network may answer a fetch with any catalog ever issued (a cache,   *)
(* a slow answer, a replica behind).  Time is a natural; Leeway is the     *)
(* verifier's tolerance.                                                   *)
(***************************************************************************)
EXTENDS Naturals, FiniteSets

CONSTANTS KayoProcs,      \* kayo processes that share the pin file
          CatalogCalls,   \* requests for the catalog that ayato serves at a time
          AurNames,       \* package names of the one registered base
          CatalogKeys,    \* the server's signing keys, in the order of rotation
          KayoModes,      \* "pinned", "tofu", "insecure"
          MaxTime, MaxAge, CatalogTTL, CacheTTL, Leeway

NoKey == 0

ASSUME KayoSourceAssumption ==
  /\ CatalogKeys \subseteq Nat \ {NoKey} /\ KayoModes \subseteq {"pinned", "tofu", "insecure"}
  /\ {MaxAge, CatalogTTL, CacheTTL, Leeway} \subseteq Nat

NoCatalog == [issued |-> 0, since |-> 0, exp |-> 0, key |-> NoKey, pkgs |-> {}]
NoBuild == [since |-> 0, todo |-> {}, pkgs |-> {}]

VARIABLES kNow,
          aurPkgs,        \* names with a package record
          aurBase,        \* {} or {names}: the base record
          aurTodo,        \* the registration or removal in progress
          aurKey,         \* the signing key in use, NoKey: unsigned
          aurBuild,       \* request -> the catalog it reads, and since when
          aurCache,       \* when the cached envelope ends
          aurIssued,      \* catalogs ever handed out; since: when its reading began
          aurGone,        \* name -> when its record was last deleted
          kMode,          \* how the source is configured
          kPins,          \* the pin file: [key, issued]
          kProc,          \* process -> its memory
          kKeysUsed,      \* keys of the catalogs accepted so far
          kHigh           \* newest issue time swapped in so far

catVars == <<aurBuild, aurCache, aurIssued>>
aurVars == <<aurPkgs, aurBase, aurTodo, aurKey, aurGone, catVars>>
kayoVars == <<kMode, kPins, kProc, kKeysUsed, kHigh>>
ksVars == <<kNow, aurVars, kayoVars>>

NoPin == [key |-> NoKey, issued |-> 0]
Down == [pc |-> "down", pins |-> NoPin, body |-> NoCatalog, last |-> 0,
         verified |-> FALSE, exp |-> 0, served |-> NoCatalog]

KSInit ==
  /\ kNow = 1
  /\ aurPkgs = {} /\ aurBase = {} /\ aurTodo = [op |-> "none", names |-> {}]
  /\ aurKey = NoKey /\ aurIssued = {}
  /\ aurBuild = [b \in CatalogCalls |-> NoBuild] /\ aurCache = 0
  /\ aurGone = [n \in AurNames |-> 0]
  /\ kMode = "none" /\ kPins = NoPin
  /\ kProc = [p \in KayoProcs |-> Down]
  /\ kKeysUsed = {} /\ kHigh = 0

Tick == /\ kNow < MaxTime /\ kNow' = kNow + 1
        /\ UNCHANGED <<aurVars, kayoVars>>

(***************************************************************************)
(* ayato: the registry and the catalog                                     *)
(***************************************************************************)
NoOp == [op |-> "none", names |-> {}]

\* Register: the clone's .SRCINFO names the packages.
RegisterStart(names) ==
  /\ aurTodo.op = "none"
  /\ aurTodo' = [op |-> "register", names |-> names]
  /\ UNCHANGED <<kNow, aurPkgs, aurBase, aurKey, aurGone, catVars, kayoVars>>

\* ingest: the package records one by one, the base record last; a failing
\* write ends it.
Ingest ==
  /\ aurTodo.op = "register"
  /\ \/ /\ \E n \in aurTodo.names \ aurPkgs : aurPkgs' = aurPkgs \cup {n}
        /\ UNCHANGED <<aurBase, aurTodo>>
     \/ /\ aurTodo.names \subseteq aurPkgs
        /\ aurBase' = {aurTodo.names} /\ aurTodo' = NoOp
        /\ UNCHANGED aurPkgs
     \/ /\ aurTodo' = NoOp
        /\ UNCHANGED <<aurPkgs, aurBase>>
  /\ UNCHANGED <<kNow, aurKey, aurGone, catVars, kayoVars>>

\* Remove: the packages of the base record, then the record.
RemoveStart ==
  /\ aurTodo.op = "none" /\ aurBase # {}
  /\ aurTodo' = [op |-> "remove", names |-> UNION aurBase]
  /\ UNCHANGED <<kNow, aurPkgs, aurBase, aurKey, aurGone, catVars, kayoVars>>

RemoveStep ==
  /\ aurTodo.op = "remove"
  /\ \/ /\ \E n \in aurTodo.names \cap aurPkgs :
             aurPkgs' = aurPkgs \ {n} /\ aurGone' = [aurGone EXCEPT ![n] = kNow]
        /\ UNCHANGED <<aurBase, aurTodo>>
     \/ /\ aurTodo.names \cap aurPkgs = {}
        /\ aurBase' = {} /\ aurTodo' = NoOp
        /\ UNCHANGED <<aurPkgs, aurGone>>
     \/ /\ aurTodo' = NoOp
        /\ UNCHANGED <<aurPkgs, aurBase, aurGone>>
  /\ UNCHANGED <<kNow, aurKey, catVars, kayoVars>>

\* The seed in the environment changes with a restart of the server, which
\* drops its requests and its cache.
RotateKey ==
  /\ \E k \in CatalogKeys : k > aurKey /\ aurKey' = k
  /\ aurTodo' = NoOp /\ aurBuild' = [b \in CatalogCalls |-> NoBuild] /\ aurCache' = 0
  /\ UNCHANGED <<kNow, aurPkgs, aurBase, aurIssued, aurGone, kayoVars>>

Build(b, r) == aurBuild' = [aurBuild EXCEPT ![b] = r]

\* Envelope: a cached envelope is handed out until its time is over, else the
\* store is read for a new one.
EnvelopeStart(b) ==
  /\ aurBuild[b] = NoBuild /\ aurCache <= kNow
  /\ Build(b, [since |-> kNow, todo |-> AurNames, pkgs |-> {}])
  /\ UNCHANGED <<kNow, aurPkgs, aurBase, aurTodo, aurKey, aurGone, aurCache, aurIssued, kayoVars>>

\* Catalog: each record as it is when it is read; a failing read ends it.
Catalog(b) ==
  /\ \/ \E n \in aurBuild[b].todo :
          Build(b, [aurBuild[b] EXCEPT !.todo = @ \ {n}, !.pkgs = @ \cup ({n} \cap aurPkgs)])
     \/ aurBuild[b].todo # {} /\ Build(b, NoBuild)
  /\ UNCHANGED <<kNow, aurPkgs, aurBase, aurTodo, aurKey, aurGone, aurCache, aurIssued, kayoVars>>

\* Sign: the issue time is that of the signature, not that of the reading.
Sign(r) == [issued |-> kNow, since |-> r.since, exp |-> IF CatalogTTL > 0 THEN kNow + CatalogTTL ELSE 0,
            key |-> aurKey, pkgs |-> r.pkgs]

\* The rest of Envelope: sign what was read, cache it and hand it out.
Envelope(b) ==
  /\ aurBuild[b] # NoBuild /\ aurBuild[b].todo = {}
  /\ aurIssued' = aurIssued \cup {Sign(aurBuild[b])}
  /\ aurCache' = kNow + CacheTTL /\ Build(b, NoBuild)
  /\ UNCHANGED <<kNow, aurPkgs, aurBase, aurTodo, aurKey, aurGone, kayoVars>>

(***************************************************************************)
(* kayo: one source in one process                                         *)
(***************************************************************************)
Proc(p, r) == kProc' = [kProc EXCEPT ![p] = r]

\* validate: which combinations a configuration may have.
KayoConfigure ==
  /\ kMode = "none" /\ \E m \in KayoModes : kMode' = m
  /\ UNCHANGED <<kNow, aurVars, kPins, kProc, kKeysUsed, kHigh>>

\* OpenPinStore and New: the watermark is restored from the pin file.
StartKayo(p) ==
  /\ kMode # "none" /\ kProc[p].pc = "down"
  /\ Proc(p, [Down EXCEPT !.pc = "idle", !.pins = kPins, !.last = kPins.issued])
  /\ UNCHANGED <<kNow, aurVars, kMode, kPins, kKeysUsed, kHigh>>

StopKayo(p) ==
  /\ kProc[p].pc # "down"
  /\ Proc(p, Down)
  /\ UNCHANGED <<kNow, aurVars, kMode, kPins, kKeysUsed, kHigh>>

\* Sync ends with an error: what was served stays.
SyncFails(p) == Proc(p, [kProc[p] EXCEPT !.pc = "idle", !.body = NoCatalog])

\* The catalog is fetched, and decoded without its signature when insecure.
SyncFetch(p) ==
  /\ kProc[p].pc = "idle"
  /\ \E c \in aurIssued :
       Proc(p, [kProc[p] EXCEPT !.body = c, !.pc = IF kMode = "insecure" THEN "swap" ELSE "resolve"])
  /\ UNCHANGED <<kNow, aurVars, kMode, kPins, kKeysUsed, kHigh>>

\* The configured key is the one the operator confirmed: the server's first.
ConfiguredKey == CHOOSE k \in CatalogKeys : \A j \in CatalogKeys : k <= j

\* PinStore.Put and saveOrRestore: on disk and in memory, or in neither; a
\* watermark never goes down.
PinPut(p, key) ==
  LET pin == [key |-> key, issued |-> kProc[p].pins.issued]
  IN kPins' = pin /\ Proc(p, [kProc[p] EXCEPT !.pc = "verify", !.pins = pin])

\* Mutant: on first use and after, the advertised key is taken.
ResolveVerifierAnew(p) ==
  /\ kProc[p].pc = "resolve"
  /\ \/ /\ kMode = "pinned"
        /\ Proc(p, [kProc[p] EXCEPT !.pc = "verify"]) /\ UNCHANGED kPins
     \/ kMode = "tofu" /\ aurKey # NoKey /\ PinPut(p, aurKey)
     \/ SyncFails(p) /\ UNCHANGED kPins
  /\ UNCHANGED <<kNow, aurVars, kMode, kKeysUsed, kHigh>>

\* resolveVerifier: the configured key, the stored one, or on first contact
\* the advertised one, which is pinned.
ResolveVerifier(p) ==
  /\ kProc[p].pc = "resolve"
  /\ \/ /\ kMode = "pinned" \/ kProc[p].pins.key # NoKey
        /\ Proc(p, [kProc[p] EXCEPT !.pc = "verify"]) /\ UNCHANGED kPins
     \/ /\ kMode = "tofu" /\ kProc[p].pins.key = NoKey /\ aurKey # NoKey
        /\ PinPut(p, aurKey)
     \/ /\ kMode = "tofu" /\ kProc[p].pins.key = NoKey
        /\ SyncFails(p) /\ UNCHANGED kPins
  /\ UNCHANGED <<kNow, aurVars, kMode, kKeysUsed, kHigh>>

VerifierKey(p) == IF kMode = "pinned" THEN ConfiguredKey ELSE kProc[p].pins.key

CheckFreshness(c, last) ==
  /\ c.issued <= kNow + Leeway
  /\ c.exp = 0 \/ kNow <= c.exp + Leeway
  /\ kNow - c.issued <= MaxAge + Leeway
  /\ last # 0 => c.issued > last

\* Mutant: a valid signature of any key.
SyncVerifyAnyKey(p) ==
  /\ kProc[p].pc = "verify"
  /\ IF kProc[p].body.key # NoKey /\ CheckFreshness(kProc[p].body, kProc[p].last)
     THEN Proc(p, [kProc[p] EXCEPT !.pc = "persist"])
     ELSE SyncFails(p)
  /\ UNCHANGED <<kNow, aurVars, kMode, kPins, kKeysUsed, kHigh>>

\* VerifyPayload, then CheckFreshness against the in-memory watermark.
SyncVerify(p) ==
  /\ kProc[p].pc = "verify"
  /\ LET c == kProc[p].body
     IN IF c.key # NoKey /\ c.key = VerifierKey(p) /\ CheckFreshness(c, kProc[p].last)
        THEN Proc(p, [kProc[p] EXCEPT !.pc = "persist"])
        ELSE SyncFails(p)
  /\ UNCHANGED <<kNow, aurVars, kMode, kPins, kKeysUsed, kHigh>>

\* Mutant: the watermark is written when the index is in place.
SyncPersistLater(p) ==
  /\ kProc[p].pc = "persist"
  /\ Proc(p, [kProc[p] EXCEPT !.pc = "swap"])
  /\ UNCHANGED <<kNow, aurVars, kMode, kPins, kKeysUsed, kHigh>>

\* SetLastIssued: the watermark must be on disk before the index is swapped;
\* a failing write ends the sync.
SyncPersist(p) ==
  /\ kProc[p].pc = "persist"
  /\ LET issued == kProc[p].body.issued
         pin == [kProc[p].pins EXCEPT !.issued = issued]
     IN \/ /\ issued > kProc[p].pins.issued
           /\ kPins' = pin
           /\ Proc(p, [kProc[p] EXCEPT !.pc = "swap", !.pins = pin])
        \/ /\ issued <= kProc[p].pins.issued
           /\ Proc(p, [kProc[p] EXCEPT !.pc = "swap"]) /\ UNCHANGED kPins
        \/ SyncFails(p) /\ UNCHANGED kPins
  /\ UNCHANGED <<kNow, aurVars, kMode, kKeysUsed, kHigh>>

\* Replace: readers see the new index from here on.
SyncSwap(p) ==
  /\ kProc[p].pc = "swap"
  /\ LET c == kProc[p].body
     IN /\ Proc(p, [kProc[p] EXCEPT !.pc = "mark", !.served = c])
        /\ kKeysUsed' = IF kMode = "tofu" THEN kKeysUsed \cup {c.key} ELSE kKeysUsed
        /\ kHigh' = IF kMode # "insecure" /\ c.issued > kHigh THEN c.issued ELSE kHigh
  /\ UNCHANGED <<kNow, aurVars, kMode, kPins>>

\* The bookkeeping Verified reads.
SyncMark(p) ==
  /\ kProc[p].pc = "mark"
  /\ LET c == kProc[p].body
         ok == kMode # "insecure"
     IN Proc(p, [kProc[p] EXCEPT !.pc = "idle", !.body = NoCatalog,
                   !.verified = ok, !.exp = c.exp,
                   !.last = IF ok /\ c.issued > @ THEN c.issued ELSE @])
  /\ UNCHANGED <<kNow, aurVars, kMode, kPins, kKeysUsed, kHigh>>

\* Mutant: a catalog once verified vouches until the next one.
VerifiedForever(p) == kProc[p].verified

\* Verified: signed, and still fresh now.
Verified(p) ==
  /\ kProc[p].verified
  /\ kProc[p].exp = 0 \/ kNow <= kProc[p].exp
  /\ kNow - kProc[p].last <= MaxAge

\* delegatedVerified: only a hard pin may be delegated to.
DelegatedVerified(p) == kMode = "pinned" /\ Verified(p)

KSNext ==
  \/ Tick \/ (\E S \in (SUBSET AurNames) \ {{}} : RegisterStart(S)) \/ Ingest
  \/ RemoveStart \/ RemoveStep \/ RotateKey \/ KayoConfigure
  \/ \E b \in CatalogCalls : EnvelopeStart(b) \/ Catalog(b) \/ Envelope(b)
  \/ \E p \in KayoProcs :
       \/ StartKayo(p) \/ StopKayo(p) \/ SyncFetch(p) \/ ResolveVerifier(p)
       \/ SyncVerify(p) \/ SyncPersist(p) \/ SyncSwap(p) \/ SyncMark(p)

KSSpec == KSInit /\ [][KSNext]_ksVars

(***************************************************************************)
(* Properties                                                              *)
(***************************************************************************)
\* A package removed on ayato stops being vouched for within MaxAge and the time
\* its catalog took from the start of its reading to its signature, whatever
\* answers the network gives (Verified's bound against a frozen catalog).
RevocationReaches ==
  \A p \in KayoProcs : DelegatedVerified(p) =>
    LET c == kProc[p].served
    IN \A n \in c.pkgs \ aurPkgs : kNow - aurGone[n] <= MaxAge + (c.issued - c.since)

\* What vouches for packages carries the configured key's signature, also in
\* the moment between the swap and its bookkeeping.
VouchedIsSigned ==
  \A p \in KayoProcs : DelegatedVerified(p) => kProc[p].served.key = ConfiguredKey

\* No catalog older than one ever served is served again, restarts included:
\* the watermark is on disk before the index (for one process per pin file).
NoCatalogRollback ==
  \A p \in KayoProcs :
    kMode # "insecure" /\ kProc'[p].served \notin {kProc[p].served, NoCatalog}
      => kProc'[p].served.issued > kHigh

\* On trust-on-first-use every catalog ever accepted has the key of the first.
OneKeyOnFirstUse == Cardinality(kKeysUsed) <= 1

\* What the code does not keep (README, section 6), so no run has it: MaxAge
\* alone, although the age counts from the signature and the list is older.
RevokedWithinMaxAge ==
  \A p \in KayoProcs : DelegatedVerified(p) =>
    \A n \in kProc[p].served.pkgs \ aurPkgs : kNow - aurGone[n] <= MaxAge

\* What a comment says and the code does not keep (README, section 6), so no run has it.
\* "Any verification error returns before the swap, so the last-good catalog
\* survives": a sync that ends leaves a catalog served if one was ever served.
LastGoodSurvives ==
  \A p \in KayoProcs :
    kProc[p].pc \notin {"down", "idle"} /\ kProc'[p].pc = "idle" /\ kHigh > 0
      => kProc'[p].served # NoCatalog

\* The parts that speak of a state; they hold trivially before the first step.
CatalogIsTrusted == RevocationReaches /\ VouchedIsSigned /\ OneKeyOnFirstUse

\* A catalog, as a whole: what it vouches for is signed by the one key, current, and
\* never replaced by an older one, with replayed answers and restarts.
CatalogHolds == [][CatalogIsTrusted' /\ NoCatalogRollback]_ksVars
=============================================================================
