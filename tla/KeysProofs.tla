----------------------------- MODULE KeysProofs -----------------------------
(***************************************************************************)
(* Theorems about the keys: miko's worker keys (WorkerKeys) for any number *)
(* of hosts, pairs and faults, and the repository's signing key            *)
(* (SigningKey) for any number of overlapping commands.                    *)
(***************************************************************************)
EXTENDS WorkerKeys, SigningKey, WellFoundedInduction, TLAPS

(***************************************************************************)
(* Worker keys.                                                            *)
(***************************************************************************)
WKTyped ==
    /\ wkDir \in [master : Nat, cert : Nat, key : Nat]
    /\ wkPairs \in Nat
    /\ wkH \in [KeyHosts -> [pc : {"down", "save", "register", "up"},
                             step : Nat, master : Nat, worker : Nat]]

\* The lock is held by the one host that saves, and there is no worker key until it
\* is done: what it wrote so far is its own.
OneSaves ==
    /\ wkLock = {h \in KeyHosts : wkH[h].pc = "save"}
    /\ \A g, h \in wkLock : g = h
    /\ \A h \in wkLock :
          /\ wkDir.key = 0 /\ wkH[h].step \in 1..3
          /\ wkH[h].worker # 0 /\ wkH[h].master = wkH[h].worker
          /\ wkH[h].step >= 2 => wkDir.master = wkH[h].worker
          /\ wkH[h].step = 3 => wkDir.cert = wkH[h].worker

\* Hosts past the keystore have its pair, and a host that is up is registered unless
\* somebody dropped it.
HostsRegistered ==
    \A h \in KeyHosts :
        /\ wkH[h].pc \in {"register", "up"} => wkH[h].worker # 0
        /\ wkH[h].pc = "up" /\ h \notin wkDropped => wkH[h].worker \in wkSigners

WKInv == WKTyped /\ OneSaves /\ KeystoreIsCertified /\ HostsRegistered /\ SignedIsAccepted

\* Every action keeps the invariant.
LEMMA WKStep == ASSUME WKInv, [WKNext]_wkVars PROVE WKInv'
<1> USE DEF WKInv
<1>h. HostDown \in [pc : {"down", "save", "register", "up"}, step : Nat, master : Nat, worker : Nat]
      /\ HostDown.pc = "down"
  BY DEF HostDown
<1>1. ASSUME NEW h \in KeyHosts, OpenKeystore(h) PROVE WKInv'
  <2>0. wkH[h].pc = "down" /\ wkLock = {} /\ UNCHANGED <<wkDir, wkServer, wkFaults>>
    BY <1>1 DEF OpenKeystore, LockFree
  <2>1. CASE wkDir.key # 0
    <3> DEFINE r == IF wkDir.master = 0 THEN HostDown
                    ELSE [HostDown EXCEPT !.pc = "register", !.master = wkDir.master, !.worker = wkDir.key]
    <3>1. wkH' = [wkH EXCEPT ![h] = r] /\ UNCHANGED <<wkLock, wkPairs>>
      BY <1>1, <2>1 DEF OpenKeystore, Host
    <3>2. /\ r \in [pc : {"down", "save", "register", "up"}, step : Nat, master : Nat, worker : Nat]
          /\ r.pc \in {"down", "register"}
          /\ r.pc = "register" => r.master = wkDir.master /\ r.worker = wkDir.key
      BY <1>h DEF WKTyped, HostDown
    <3> HIDE DEF r
    <3>3. WKTyped'
      BY <2>0, <3>1, <3>2 DEF WKTyped
    <3>4. OneSaves'
      BY <2>0, <3>1, <3>2 DEF OneSaves, WKTyped
    <3>5. KeystoreIsCertified' /\ HostsRegistered' /\ SignedIsAccepted'
      BY <2>0, <2>1, <3>1, <3>2
         DEF KeystoreIsCertified, HostsRegistered, SignedIsAccepted, WKTyped, wkServer
    <3>6. QED
      BY <3>3, <3>4, <3>5
  <2>2. CASE wkDir.key = 0
    <3> DEFINE r == [pc |-> "save", step |-> 1, master |-> wkPairs + 1, worker |-> wkPairs + 1]
    <3>1. wkH' = [wkH EXCEPT ![h] = r] /\ wkPairs' = wkPairs + 1 /\ wkLock' = {h}
      BY <1>1, <2>0, <2>2 DEF OpenKeystore, Host
    <3>2. /\ r \in [pc : {"down", "save", "register", "up"}, step : Nat, master : Nat, worker : Nat]
          /\ r.pc = "save" /\ r.step = 1 /\ r.worker # 0 /\ r.master = r.worker
      BY DEF WKTyped
    <3> HIDE DEF r
    <3>3. WKTyped'
      BY <2>0, <3>1, <3>2 DEF WKTyped
    <3>4. OneSaves'
      BY <2>0, <2>2, <3>1, <3>2 DEF OneSaves, WKTyped
    <3>5. KeystoreIsCertified' /\ HostsRegistered' /\ SignedIsAccepted'
      BY <2>0, <2>2, <3>1, <3>2
         DEF KeystoreIsCertified, HostsRegistered, SignedIsAccepted, WKTyped, wkServer
    <3>6. QED
      BY <3>3, <3>4, <3>5
  <2>3. QED
    BY <2>1, <2>2
<1>2. ASSUME NEW h \in KeyHosts, SaveFile(h) PROVE WKInv'
  <2>0. /\ wkH[h].pc = "save" /\ h \in wkLock /\ wkLock = {h} /\ UNCHANGED <<wkPairs, wkServer, wkFaults>>
        /\ wkDir.key = 0 /\ wkH[h].step \in {1, 2, 3} /\ Len(SaveOrder) = 3
        /\ SaveOrder[1] = "master" /\ SaveOrder[2] = "cert" /\ SaveOrder[3] = "key"
    BY <1>2 DEF SaveFile, OneSaves, SaveOrder
  <2>1. \A g \in KeyHosts : wkH[g].pc \notin {"register", "up"} /\ (g # h => wkH[g].pc = "down")
    BY <2>0 DEF KeystoreIsCertified, HostsRegistered, WKTyped, OneSaves
  <2>2. CASE wkH[h].step = 1
    <3>1. /\ wkH' = [wkH EXCEPT ![h] = [wkH[h] EXCEPT !.step = wkH[h].step + 1]] /\ wkLock' = wkLock
          /\ wkDir' = [wkDir EXCEPT !.master = wkH[h].worker]
      BY <1>2, <2>0, <2>2 DEF SaveFile, Host
    <3>2. QED
      BY <2>0, <2>1, <2>2, <3>1
         DEF WKTyped, OneSaves, KeystoreIsCertified, HostsRegistered, SignedIsAccepted, wkServer
  <2>3. CASE wkH[h].step = 2
    <3>1. /\ wkH' = [wkH EXCEPT ![h] = [wkH[h] EXCEPT !.step = wkH[h].step + 1]] /\ wkLock' = wkLock
          /\ wkDir' = [wkDir EXCEPT !.cert = wkH[h].worker]
      BY <1>2, <2>0, <2>3 DEF SaveFile, Host
    <3>2. QED
      BY <2>0, <2>1, <2>3, <3>1
         DEF WKTyped, OneSaves, KeystoreIsCertified, HostsRegistered, SignedIsAccepted, wkServer
  <2>4. CASE wkH[h].step = 3
    <3>1. /\ wkH' = [wkH EXCEPT ![h] = [wkH[h] EXCEPT !.pc = "register"]] /\ wkLock' = wkLock \ {h}
          /\ wkDir' = [wkDir EXCEPT !.key = wkH[h].worker]
      BY <1>2, <2>0, <2>4 DEF SaveFile, Host
    <3>2. QED
      BY <2>0, <2>1, <2>4, <3>1
         DEF WKTyped, OneSaves, KeystoreIsCertified, HostsRegistered, SignedIsAccepted, wkServer
  <2>5. QED
    BY <2>0, <2>2, <2>3, <2>4
<1>3. ASSUME NEW h \in KeyHosts, HostDies(h) PROVE WKInv'
  <2>1. wkH' = [wkH EXCEPT ![h] = HostDown] /\ wkLock' = wkLock \ {h}
        /\ UNCHANGED <<wkDir, wkPairs, wkServer>>
    BY <1>3 DEF HostDies, Host
  <2>2. QED
    BY <2>1, <1>h
       DEF WKTyped, OneSaves, KeystoreIsCertified, HostsRegistered, SignedIsAccepted, wkServer
<1>4. ASSUME NEW h \in KeyHosts, SignAndVerify(h) PROVE WKInv'
  <2>1. /\ wkH[h].pc = "up" /\ UNCHANGED <<wkDir, wkLock, wkPairs, wkH, wkMasters, wkSigners, wkDropped>>
        /\ wkChecked' = wkChecked \cup {[host |-> h, by |-> wkH[h].worker, dropped |-> h \in wkDropped,
                                         accepted |-> wkH[h].worker \in wkSigners]}
    BY <1>4 DEF SignAndVerify, TrustedWorkers
  <2>2. h \in wkDropped \/ wkH[h].worker \in wkSigners
    BY <2>1 DEF HostsRegistered
  <2> DEFINE new == [host |-> h, by |-> wkH[h].worker, dropped |-> h \in wkDropped,
                     accepted |-> wkH[h].worker \in wkSigners]
  <2>n. new.accepted \/ new.dropped
    BY <2>2, Zenon
  <2> HIDE DEF new
  <2>3. SignedIsAccepted'
    BY <2>1, <2>n, Zenon DEF SignedIsAccepted, new
  <2>4. QED
    BY <2>1, <2>3 DEF WKTyped, OneSaves, KeystoreIsCertified, HostsRegistered
<1>5. ASSUME NEW h \in KeyHosts, NEW answered \in BOOLEAN, RegisterSigner(h, answered) PROVE WKInv'
  <2> DEFINE ok == \E master \in wkMasters : CertifiedBy(wkDir.cert, master)
             r == IF ok /\ answered THEN [wkH[h] EXCEPT !.pc = "up"] ELSE HostDown
  <2>1. /\ wkH[h].pc = "register" /\ UNCHANGED <<wkDir, wkLock, wkPairs, wkMasters, wkChecked>>
        /\ wkH' = [wkH EXCEPT ![h] = r]
        /\ wkSigners' = IF ok THEN wkSigners \cup {wkDir.cert} ELSE wkSigners
        /\ wkDropped' = wkDropped \ {h}
    BY <1>5 DEF RegisterSigner, Host
  <2>2. wkH[h].worker = wkDir.cert
    BY <2>1 DEF KeystoreIsCertified, HostsRegistered
  <2>3. /\ r \in [pc : {"down", "save", "register", "up"}, step : Nat, master : Nat, worker : Nat]
        /\ r.pc \in {"down", "up"}
        /\ r.pc = "up" => ok /\ r.worker = wkH[h].worker /\ r.master = wkH[h].master
    BY <1>h DEF WKTyped
  <2> HIDE DEF ok, r
  <2>4. WKTyped' /\ OneSaves' /\ SignedIsAccepted'
    BY <2>1, <2>3 DEF WKTyped, OneSaves, SignedIsAccepted
  <2>5. KeystoreIsCertified' /\ HostsRegistered'
    BY <2>1, <2>2, <2>3 DEF WKTyped, KeystoreIsCertified, HostsRegistered
  <2>6. QED
    BY <2>4, <2>5
<1>6. ASSUME ConfigureMasters(wkDir.master) PROVE WKInv'
  BY <1>6 DEF ConfigureMasters, WKTyped, OneSaves, KeystoreIsCertified, HostsRegistered, SignedIsAccepted
<1>7. ASSUME NEW worker \in wkSigners, UnregisterSigner(worker) PROVE WKInv'
  BY <1>7 DEF UnregisterSigner, WKTyped, OneSaves, KeystoreIsCertified, HostsRegistered, SignedIsAccepted
<1>8. CASE UNCHANGED wkVars
  BY <1>8 DEF wkVars, WKTyped, OneSaves, KeystoreIsCertified, HostsRegistered, SignedIsAccepted
<1>9. QED
  BY <1>1, <1>2, <1>3, <1>4, <1>5, <1>6, <1>7, <1>8 DEF WKNext

\* OpenOrCreate leaves a whole keystore or none, whichever hosts start together and
\* die in between, and what a registered host signs is accepted until somebody
\* unregisters its worker.
THEOREM WorkerKeysCorrect == WKSpec => []WorkerKeysHold
<1>1. WKInit => WKInv
  BY DEF WKInit, WKInv, WKTyped, OneSaves, KeystoreIsCertified, HostsRegistered, SignedIsAccepted, HostDown
<1>2. WKInv => WorkerKeysHold
  BY DEF WKInv, WorkerKeysHold
<1>3. QED
  BY <1>1, <1>2, WKStep, PTL DEF WKSpec

(***************************************************************************)
(* The signing key.                                                        *)
(***************************************************************************)
Subkey == [id : Nat, exp : Nat, revoked : BOOLEAN]
Key == [primary : Nat, exp : Nat, revoked : BOOLEAN, full : BOOLEAN, subs : SUBSET Subkey]
AdminRecord == [pc : {"idle", "loaded", "save", "signing"}, key : Key, base : Key, persisted : BOOLEAN,
                overwrite : BOOLEAN, change : SUBSET ({"added", "revoked"} \X Nat), checked : Nat]

SKTyped ==
    /\ skFile \in Key /\ skBackups \subseteq Key /\ skNow \in Nat /\ skNextId \in Nat \ {0}
    /\ skA \in [KeyAdmins -> AdminRecord]
    /\ skDone \subseteq {"added", "revoked"} \X Nat

\* Fresh keys are fresh: every subkey of every copy was numbered before.
Numbered(key) == \A s \in key.subs : s.id < skNextId
AllNumbered ==
    /\ Numbered(skFile) /\ \A key \in skBackups : Numbered(key)
    /\ \A a \in KeyAdmins : Numbered(skA[a].key)

\* A change is in a key.
Recorded(c, key) ==
    IF c[1] = "added" THEN \E s \in key.subs : s.id = c[2]
    ELSE (c[2] = key.primary /\ key.revoked) \/ \E s \in key.subs : s.id = c[2] /\ s.revoked

\* A key made from another one forgets no subkey and no revocation.
Extends(key, base) ==
    /\ key.primary = base.primary
    /\ base.revoked => key.revoked
    /\ \A s \in base.subs : \E t \in key.subs : t.id = s.id /\ (s.revoked => t.revoked)

\* A subkey was usable at a moment.
UsableAt(key, moment) == \E s \in key.subs : ~s.revoked /\ (s.exp = 0 \/ moment < s.exp)

\* A command that loaded the key changes what it loaded, and its change is in the copy;
\* one that signs found a usable subkey when it checked.
CommandsExtend ==
    \A a \in KeyAdmins :
        /\ skA[a].pc = "loaded" => skA[a].persisted /\ skA[a].key = skA[a].base
        /\ skA[a].pc = "save" /\ skA[a].persisted =>
              /\ Extends(skA[a].key, skA[a].base)
              /\ \A c \in skA[a].change : Recorded(c, skA[a].key)
        /\ skA[a].pc = "signing" => UsableAt(skA[a].key, skA[a].checked)

SKInv == SKTyped /\ AllNumbered /\ CommandsExtend /\ AckedChangesStay /\ SubkeysSign

\* What is in a key is in every key made from it.
LEMMA RecordedExtends ==
    ASSUME NEW key \in Key, NEW base \in Key, Extends(key, base), NEW c, Recorded(c, base)
    PROVE  Recorded(c, key)
BY DEF Recorded, Extends

\* The records of a keyring that has no key yet.
LEMMA NoKeyType == NoKey \in Key /\ AdminIdle \in AdminRecord /\ NoKey.subs = {}
                   /\ AdminIdle.pc = "idle" /\ AdminIdle.key = NoKey
<1>1. NoKey \in Key /\ NoKey.subs = {}
  BY DEF NoKey, Key
<1>2. QED
  BY <1>1 DEF AdminIdle, AdminRecord

\* Among finitely numbered subkeys one has the highest number.
LEMMA Newest ==
    ASSUME NEW n \in Nat, NEW S, S # {}, \A s \in S : s.id \in Nat /\ s.id < n
    PROVE  \E s \in S : \A o \in S : o.id <= s.id
<1> DEFINE T == {n - s.id : s \in S}
           R == OpToRel(<, Nat)
<1>1. T \subseteq Nat /\ T # {}
  OBVIOUS
<1>r. IsWellFoundedOn(R, Nat) /\ \A x, y \in Nat : x < y => <<x, y>> \in R
  BY NatLessThanWellFounded, Zenon DEF OpToRel
<1> HIDE DEF R
<1>2. PICK x \in T : \A y \in T : ~(<<y, x>> \in R)
  <2> HIDE DEF T
  <2>1. IsWellFoundedOn(R, Nat)
    BY <1>r
  <2>2. QED
    BY <1>1, <2>1, WFMin, Zenon
<1>3. \A y \in T : x <= y
  <2> HIDE DEF T
  <2>1. \A y \in T : ~(y < x)
    BY <1>1, <1>r, <1>2
  <2>2. QED
    BY <1>1, <2>1
<1>4. PICK s \in S : x = n - s.id
  OBVIOUS
<1>5. ASSUME NEW o \in S PROVE o.id <= s.id
  <2>1. x <= n - o.id
    BY <1>3
  <2>2. QED
    BY <1>4, <2>1
<1>6. QED
  BY <1>5

\* The library picks a subkey that is usable now, when there is one.
LEMMA SignsWithUsable ==
    ASSUME SKTyped, NEW key \in Key, Numbered(key), EntitySigningKey(key) # 0, Usable(key) # {}
    PROVE  /\ ~key.revoked /\ Unexpired(key.exp)
           /\ \E s \in Usable(key) : s.id = EntitySigningKey(key)
<1>1. ~(key.revoked \/ ~Unexpired(key.exp))
  BY Zenon DEF EntitySigningKey
<1>2. EntitySigningKey(key) = (CHOOSE s \in Usable(key) : \A o \in Usable(key) : o.id <= s.id).id
  BY <1>1, Zenon DEF EntitySigningKey
<1>3. \A s \in Usable(key) : s.id \in Nat /\ s.id < skNextId
  BY DEF Usable, Key, Subkey, Numbered
<1>4. \E s \in Usable(key) : \A o \in Usable(key) : o.id <= s.id
  BY <1>1, <1>3, Newest DEF SKTyped
<1>5. (CHOOSE s \in Usable(key) : \A o \in Usable(key) : o.id <= s.id) \in Usable(key)
  BY <1>4, Zenon
<1>6. QED
  BY <1>1, <1>2, <1>5, Zenon

\* A step of one command that leaves the file alone accounts for that command only.
LEMMA CommandStep ==
    ASSUME SKInv, NEW a \in KeyAdmins, NEW r \in AdminRecord, skA' = [skA EXCEPT ![a] = r],
           skNextId' \in Nat, skNextId' >= skNextId,
           UNCHANGED <<skFile, skDone, skNow>>,
           skBackups' \in {skBackups, skBackups \cup {skA[a].key}}, SubkeysSign',
           \A s \in r.key.subs : s.id < skNextId',
           r.pc = "loaded" => r.persisted /\ r.key = r.base,
           r.pc = "save" /\ r.persisted =>
              Extends(r.key, r.base) /\ \A c \in r.change : Recorded(c, r.key),
           r.pc = "signing" => UsableAt(r.key, r.checked)
    PROVE  SKInv'
<1>1. SKTyped'
  BY DEF SKInv, SKTyped, AdminRecord
<1>n. \A key \in Key : Numbered(key) => Numbered(key)'
  BY DEF SKInv, SKTyped, Numbered, Key, Subkey
<1>2. AllNumbered'
  <2>1. Numbered(skFile)' /\ \A key \in skBackups' : Numbered(key)'
    BY <1>n DEF SKInv, SKTyped, AllNumbered, AdminRecord
  <2>2. ASSUME NEW b \in KeyAdmins PROVE Numbered(skA[b].key)'
    <3>1. CASE b = a
      BY <3>1 DEF SKInv, SKTyped, Numbered
    <3>2. CASE b # a
      <4>1. skA'[b] = skA[b] /\ skA[b].key \in Key /\ Numbered(skA[b].key)
        BY <3>2 DEF SKInv, SKTyped, AllNumbered, AdminRecord
      <4>2. QED
        BY <4>1, <1>n DEF Numbered
    <3>3. QED
      BY <3>1, <3>2
  <2>3. QED
    BY <2>1, <2>2 DEF AllNumbered, Numbered
<1>3. CommandsExtend'
  BY DEF SKInv, SKTyped, CommandsExtend
<1>4. AckedChangesStay'
  BY DEF SKInv, AckedChangesStay
<1>5. QED
  BY <1>1, <1>2, <1>3, <1>4 DEF SKInv

\* A change of a loaded key that forgets nothing.
LEMMA ChangedStep ==
    ASSUME SKInv, NEW a \in KeyAdmins, NEW key \in Key, NEW change \in SUBSET ({"added", "revoked"} \X Nat),
           Changed(a, key, change), skNextId' \in Nat, skNextId' >= skNextId,
           \A s \in key.subs : s.id < skNextId',
           skA[a].pc = "loaded" => Extends(key, skA[a].key),
           \A c \in change : Recorded(c, key)
    PROVE  SKInv'
<1>1. skA[a] \in AdminRecord /\ skA[a].pc = "loaded"
  BY DEF SKInv, SKTyped, Changed
<1>2. SubkeysSign'
  BY DEF SKInv, SubkeysSign, Changed
<1>3. CASE skA[a].key.full
  <2> DEFINE r == [skA[a] EXCEPT !.pc = "save", !.key = key, !.change = change]
  <2>1. /\ r \in AdminRecord /\ r.pc = "save" /\ r.key = key /\ r.base = skA[a].base
        /\ r.change = change
    BY <1>1 DEF AdminRecord
  <2>2. skA' = [skA EXCEPT ![a] = r] /\ UNCHANGED <<skFile, skBackups, skNow, skDone>>
    BY <1>3 DEF Changed, Admin
  <2> HIDE DEF r
  <2>3. Extends(r.key, r.base)
    BY <1>1, <2>1 DEF SKInv, CommandsExtend
  <2>4. QED
    BY <1>2, <2>1, <2>2, <2>3, CommandStep
<1>4. CASE ~skA[a].key.full
  <2>1. skA' = [skA EXCEPT ![a] = AdminIdle] /\ UNCHANGED <<skFile, skBackups, skNow, skDone>>
    BY <1>4 DEF Changed, Admin
  <2>2. QED
    BY <1>2, <2>1, NoKeyType, CommandStep
<1>5. QED
  BY <1>3, <1>4

\* A command that ends without saving.
LEMMA IdleStep ==
    ASSUME SKInv, NEW a \in KeyAdmins, Admin(a, AdminIdle), SubkeysSign',
           UNCHANGED <<skFile, skDone, skNow, skNextId>>,
           skBackups' \in {skBackups, skBackups \cup {skA[a].key}}
    PROVE  SKInv'
<1>1. skNextId' \in Nat /\ skNextId' >= skNextId
  BY DEF SKInv, SKTyped
<1>2. QED
  BY <1>1, NoKeyType, CommandStep DEF Admin

\* The subkeys a command may put into the key.
LEMMA FreshType ==
    ASSUME SKTyped
    PROVE  /\ \A ttl \in {0, SubkeyTTL} : ExpiryIn(ttl) \in Nat
           /\ FreshSub(SubkeyTTL) \in Subkey /\ FreshSub(SubkeyTTL).id = skNextId
<1>1. \A ttl \in {0, SubkeyTTL} : ExpiryIn(ttl) \in Nat
  BY SigningKeyAssumption DEF SKTyped, ExpiryIn
<1>2. QED
  BY <1>1 DEF SKTyped, FreshSub, Subkey

\* Every action keeps the invariant.
LEMMA SKStep == ASSUME SKInv, [SKNext]_skVars PROVE SKInv'
<1>t. SKTyped /\ skNextId \in Nat
  BY DEF SKInv, SKTyped
<1>s. skSigned' = skSigned => SubkeysSign'
  BY DEF SKInv, SubkeysSign
<1>a. ASSUME NEW a \in KeyAdmins
      PROVE  /\ skA[a] \in AdminRecord /\ skA[a].key \in Key /\ skA[a].key.subs \subseteq Subkey
             /\ \A s \in skA[a].key.subs : s.id \in Nat /\ s.id < skNextId
  BY <1>t DEF SKInv, SKTyped, AdminRecord, Key, AllNumbered, Numbered, Subkey
<1>1. CASE KeyClock
  <2>1. SKTyped'
    BY <1>1, <1>t DEF KeyClock, SKTyped
  <2>2. QED
    BY <1>1, <2>1
       DEF KeyClock, SKInv, AllNumbered, Numbered, CommandsExtend, AckedChangesStay, SubkeysSign
<1>2. ASSUME NEW a \in KeyAdmins, NEW ttl \in {0, SubkeyTTL}, GenerateSigningKey(a, ttl) PROVE SKInv'
  <2> DEFINE k == [primary |-> skNextId + 1, exp |-> ExpiryIn(ttl), revoked |-> FALSE, full |-> TRUE,
                   subs |-> {FreshSub(SubkeyTTL)}]
             r == [AdminIdle EXCEPT !.pc = "save", !.key = k]
  <2>1. k \in Key /\ \A s \in k.subs : s.id = skNextId
    BY <1>t, FreshType DEF Key
  <2> HIDE DEF k
  <2>2. r \in AdminRecord /\ r.pc = "save" /\ r.key = k /\ ~r.persisted
    BY <2>1, NoKeyType DEF AdminRecord, AdminIdle
  <2>3. skA' = [skA EXCEPT ![a] = r] /\ skNextId' = skNextId + 2
        /\ UNCHANGED <<skFile, skBackups, skNow, skDone, skSigned>>
    BY <1>2 DEF GenerateSigningKey, Admin, k
  <2> HIDE DEF r
  <2>4. /\ skNextId' \in Nat /\ skNextId' >= skNextId
        /\ \A s \in r.key.subs : s.id < skNextId'
    BY <1>t, <2>1, <2>2, <2>3
  <2>5. QED
    BY <1>s, <2>2, <2>3, <2>4, CommandStep
<1>3. ASSUME NEW a \in KeyAdmins, NEW key \in skBackups, NEW full \in BOOLEAN, NEW force \in BOOLEAN,
             ImportSigningKey(a, key, full, force) PROVE SKInv'
  <2> DEFINE k == [key EXCEPT !.full = full]
             r == [AdminIdle EXCEPT !.pc = "save", !.key = k, !.overwrite = force]
  <2>1. k \in Key /\ k.subs = key.subs
    BY <1>t DEF SKTyped, Key
  <2>2. \A s \in k.subs : s.id < skNextId
    BY <2>1 DEF SKInv, AllNumbered, Numbered
  <2> HIDE DEF k
  <2>3. r \in AdminRecord /\ r.pc = "save" /\ r.key = k /\ ~r.persisted
    BY <2>1, NoKeyType DEF AdminRecord, AdminIdle
  <2>4. skA' = [skA EXCEPT ![a] = r]
        /\ UNCHANGED <<skFile, skBackups, skNow, skNextId, skDone, skSigned>>
    BY <1>3 DEF ImportSigningKey, Admin, k
  <2> HIDE DEF r
  <2>5. /\ skNextId' \in Nat /\ skNextId' >= skNextId
        /\ \A s \in r.key.subs : s.id < skNextId'
    BY <1>t, <2>2, <2>3, <2>4
  <2>6. QED
    BY <1>s, <2>3, <2>4, <2>5, CommandStep
<1>4. ASSUME NEW a \in KeyAdmins, LoadSigningKey(a) PROVE SKInv'
  <2> DEFINE r == [AdminIdle EXCEPT !.pc = "loaded", !.key = skFile, !.base = skFile, !.persisted = TRUE]
  <2>1. r \in AdminRecord /\ r.pc = "loaded" /\ r.key = skFile /\ r.base = skFile /\ r.persisted
    BY <1>t, NoKeyType DEF SKTyped, AdminRecord, AdminIdle
  <2>2. skA' = [skA EXCEPT ![a] = r]
        /\ UNCHANGED <<skFile, skBackups, skNow, skNextId, skDone, skSigned>>
    BY <1>4 DEF LoadSigningKey, Admin
  <2>3. \A s \in skFile.subs : s.id < skNextId
    BY DEF SKInv, AllNumbered, Numbered
  <2> HIDE DEF r
  <2>4. /\ skNextId' \in Nat /\ skNextId' >= skNextId
        /\ \A s \in r.key.subs : s.id < skNextId'
    BY <1>t, <2>1, <2>2, <2>3
  <2>5. QED
    BY <1>s, <2>1, <2>2, <2>4, CommandStep
<1>5. ASSUME NEW a \in KeyAdmins, AddSubkey(a) PROVE SKInv'
  <2> DEFINE old == skA[a].key
             new == FreshSub(SubkeyTTL)
             k == [old EXCEPT !.subs = old.subs \cup {new}]
  <2>1. new \in Subkey /\ new.id = skNextId
    BY <1>t, FreshType
  <2> HIDE DEF new
  <2>2. k \in Key /\ k.primary = old.primary /\ k.revoked = old.revoked /\ k.subs = old.subs \cup {new}
    BY <1>a, <2>1 DEF Key
  <2>3. Changed(a, k, {<<"added", skNextId>>}) /\ skNextId' = skNextId + 1
    BY <1>5 DEF AddSubkey, new
  <2> HIDE DEF k
  <2>4. Extends(k, old)
    BY <2>2 DEF Extends
  <2>5. Recorded(<<"added", skNextId>>, k)
    BY <2>1, <2>2 DEF Recorded
  <2>6. \A s \in k.subs : s.id < skNextId'
    BY <1>t, <1>a, <2>1, <2>2, <2>3
  <2>7. QED
    BY <1>t, <2>2, <2>3, <2>4, <2>5, <2>6, ChangedStep
<1>6. ASSUME NEW a \in KeyAdmins, RotateSubkey(a) PROVE SKInv'
  <2> DEFINE old == skA[a].key
             new == FreshSub(SubkeyTTL)
             subs == {Revoke(s) : s \in old.subs} \cup {new}
             k == [old EXCEPT !.subs = subs]
             change == {<<"revoked", s.id>> : s \in old.subs} \cup {<<"added", skNextId>>}
  <2>1. new \in Subkey /\ new.id = skNextId
    BY <1>t, FreshType
  <2> HIDE DEF new
  <2>r. \A s \in old.subs : Revoke(s) \in Subkey /\ Revoke(s).id = s.id /\ Revoke(s).revoked
    BY <1>a DEF Revoke, Subkey
  <2>2. subs \subseteq Subkey
    BY <2>1, <2>r
  <2>3. Changed(a, k, change) /\ skNextId' = skNextId + 1
    BY <1>6 DEF RotateSubkey, new
  <2>4. \A s \in old.subs : \E t \in subs : t.id = s.id /\ t.revoked
    BY <2>r
  <2>5. \A s \in subs : s.id < skNextId'
    BY <1>t, <1>a, <2>1, <2>r, <2>3
  <2>6. new \in subs
    OBVIOUS
  <2> HIDE DEF subs
  <2>7. k \in Key /\ k.primary = old.primary /\ k.revoked = old.revoked /\ k.subs = subs
    BY <1>a, <2>2 DEF Key
  <2> HIDE DEF k
  <2>8. Extends(k, old)
    BY <2>4, <2>7 DEF Extends
  <2>9. change \in SUBSET ({"added", "revoked"} \X Nat)
    BY <1>t, <1>a
  <2>10. \A c \in change : Recorded(c, k)
    BY <2>1, <2>4, <2>6, <2>7 DEF Recorded
  <2> HIDE DEF change
  <2>11. QED
    BY <1>t, <2>3, <2>5, <2>7, <2>8, <2>9, <2>10, ChangedStep
<1>7. ASSUME NEW a \in KeyAdmins, RevokePrimary(a) PROVE SKInv'
  <2> DEFINE old == skA[a].key
             k == [old EXCEPT !.revoked = TRUE]
  <2>1. k \in Key /\ k.primary = old.primary /\ k.revoked /\ k.subs = old.subs
    BY <1>a DEF Key
  <2>2. Changed(a, k, {<<"revoked", old.primary>>}) /\ skNextId' = skNextId
    BY <1>7 DEF RevokePrimary
  <2>3. {<<"revoked", old.primary>>} \in SUBSET ({"added", "revoked"} \X Nat)
    BY <1>a DEF Key
  <2> HIDE DEF k
  <2>4. Extends(k, old) /\ Recorded(<<"revoked", old.primary>>, k)
    BY <2>1 DEF Extends, Recorded
  <2>5. \A s \in k.subs : s.id < skNextId'
    BY <1>a, <2>1, <2>2
  <2>6. QED
    BY <1>t, <2>1, <2>2, <2>3, <2>4, <2>5, ChangedStep
<1>8. ASSUME NEW a \in KeyAdmins, NEW s \in skA[a].key.subs, RevokeSubkey(a, s) PROVE SKInv'
  <2> DEFINE old == skA[a].key
             subs == (old.subs \ {s}) \cup {Revoke(s)}
             k == [old EXCEPT !.subs = subs]
  <2>r. s \in Subkey /\ Revoke(s) \in Subkey /\ Revoke(s).id = s.id /\ Revoke(s).revoked
    BY <1>a DEF Revoke, Subkey
  <2>1. subs \subseteq Subkey /\ Revoke(s) \in subs /\ \A t \in subs : t.id < skNextId
    BY <1>a, <2>r
  <2>2. \A t \in old.subs : \E u \in subs : u.id = t.id /\ (t.revoked => u.revoked)
    BY <2>r
  <2> HIDE DEF subs
  <2>3. k \in Key /\ k.primary = old.primary /\ k.revoked = old.revoked /\ k.subs = subs
    BY <1>a, <2>1 DEF Key
  <2>4. Changed(a, k, {<<"revoked", s.id>>}) /\ skNextId' = skNextId
    BY <1>8 DEF RevokeSubkey, subs
  <2>5. {<<"revoked", s.id>>} \in SUBSET ({"added", "revoked"} \X Nat)
    BY <2>r DEF Subkey
  <2> HIDE DEF k
  <2>6. Extends(k, old)
    BY <2>2, <2>3 DEF Extends
  <2>7. Recorded(<<"revoked", s.id>>, k)
    BY <2>r, <2>1, <2>3 DEF Recorded
  <2>8. QED
    BY <1>t, <2>1, <2>3, <2>4, <2>5, <2>6, <2>7, ChangedStep
<1>9. ASSUME NEW a \in KeyAdmins, NEW primary \in BOOLEAN, NEW ttl \in {0, SubkeyTTL},
             SetExpiry(a, primary, ttl) PROVE SKInv'
  <2> DEFINE old == skA[a].key
             Dated(s) == [s EXCEPT !.exp = IF s.revoked THEN s.exp ELSE ExpiryIn(ttl)]
             subs == {Dated(s) : s \in old.subs}
             k == IF primary THEN [old EXCEPT !.exp = ExpiryIn(ttl)] ELSE [old EXCEPT !.subs = subs]
  <2>e. ExpiryIn(ttl) \in Nat
    BY <1>t, FreshType
  <2>r. \A s \in old.subs : Dated(s) \in Subkey /\ Dated(s).id = s.id /\ Dated(s).revoked = s.revoked
    BY <1>a, <2>e DEF Subkey
  <2>1. Changed(a, k, {}) /\ skNextId' = skNextId
    BY <1>9 DEF SetExpiry
  <2> HIDE DEF Dated
  <2>2. subs \subseteq Subkey /\ \A t \in subs : t.id < skNextId
    BY <1>a, <2>r
  <2>3. \A s \in old.subs : \E t \in subs : t.id = s.id /\ (s.revoked => t.revoked)
    BY <2>r
  <2> HIDE DEF subs
  <2>4. k \in Key /\ k.primary = old.primary /\ k.revoked = old.revoked /\ k.subs \in {subs, old.subs}
    BY <1>a, <2>e, <2>2 DEF Key
  <2> HIDE DEF k
  <2>5. Extends(k, old)
    BY <2>3, <2>4 DEF Extends
  <2>6. \A s \in k.subs : s.id < skNextId'
    BY <1>a, <2>1, <2>2, <2>4
  <2>7. QED
    BY <1>t, <2>1, <2>4, <2>5, <2>6, ChangedStep
<1>10. ASSUME NEW a \in KeyAdmins, ExportSecretArmored(a) \/ AdminDies(a) PROVE SKInv'
  BY <1>10, <1>s, IdleStep DEF ExportSecretArmored, AdminDies
<1>11. ASSUME NEW a \in KeyAdmins, SaveKey(a) PROVE SKInv'
  <2> DEFINE me == skA[a]
  <2>1. me.pc = "save" /\ Admin(a, AdminIdle) /\ UNCHANGED <<skBackups, skNow, skNextId, skSigned>>
    BY <1>11 DEF SaveKey
  <2>2. CASE SaveAllowed(me)
    <3>1. skFile' = me.key /\ skDone' = IF me.persisted THEN skDone \cup me.change ELSE {}
      BY <1>11, <2>2 DEF SaveKey
    <3>2. SKTyped'
      BY <1>t, <1>a, <2>1, <3>1, NoKeyType DEF SKTyped, Admin, AdminRecord
    <3>3. AllNumbered'
      BY <1>a, <2>1, <3>1, NoKeyType DEF SKInv, SKTyped, AllNumbered, Numbered, Admin
    <3>4. CommandsExtend'
      BY <2>1, NoKeyType DEF SKInv, SKTyped, CommandsExtend, Admin
    <3>5. AckedChangesStay'
      <4>1. CASE me.persisted
        <5>1. skFile = me.base /\ Extends(me.key, me.base) /\ \A c \in me.change : Recorded(c, me.key)
          BY <2>1, <2>2, <4>1 DEF SaveAllowed, SKInv, CommandsExtend
        <5>2. me.key \in Key /\ me.base \in Key
          BY <1>a DEF AdminRecord
        <5>3. \A c \in skDone : Recorded(c, skFile)
          BY DEF SKInv, AckedChangesStay, Recorded
        <5>4. \A c \in skDone' : Recorded(c, me.key)
          BY <3>1, <4>1, <5>1, <5>2, <5>3, RecordedExtends
        <5>5. QED
          BY <3>1, <5>4 DEF AckedChangesStay, Recorded
      <4>2. CASE ~me.persisted
        BY <3>1, <4>2 DEF AckedChangesStay
      <4>3. QED
        BY <4>1, <4>2
    <3>6. QED
      BY <1>s, <2>1, <3>2, <3>3, <3>4, <3>5 DEF SKInv
  <2>3. CASE ~SaveAllowed(me)
    BY <1>11, <1>s, <2>1, <2>3, IdleStep DEF SaveKey
  <2>4. QED
    BY <2>2, <2>3
<1>12. ASSUME NEW a \in KeyAdmins, CheckSigningKey(a) PROVE SKInv'
  <2>1. UNCHANGED <<skFile, skBackups, skNow, skNextId, skDone, skSigned>> /\ skA[a].pc = "loaded"
    BY <1>12 DEF CheckSigningKey
  <2>2. CASE MaySign(skA[a].key)
    <3> DEFINE me == skA[a]
               r == [me EXCEPT !.pc = "signing", !.checked = skNow]
    <3>1. skA' = [skA EXCEPT ![a] = r]
      BY <1>12, <2>2 DEF CheckSigningKey, Admin
    <3>2. r \in AdminRecord /\ r.pc = "signing" /\ r.key = me.key /\ r.checked = skNow
      BY <1>t, <1>a DEF AdminRecord, SKTyped
    <3>3. Usable(me.key) # {}
      BY <2>2, Zenon DEF MaySign, EntitySigningKey
    <3>4. UsableAt(me.key, skNow)
      BY <3>3 DEF Usable, Unexpired, UsableAt
    <3> HIDE DEF r
    <3>5. skNextId' \in Nat /\ skNextId' >= skNextId /\ \A s \in r.key.subs : s.id < skNextId'
      BY <1>t, <1>a, <2>1, <3>2
    <3>6. QED
      BY <1>s, <2>1, <3>1, <3>2, <3>4, <3>5, CommandStep
  <2>3. CASE ~MaySign(skA[a].key)
    BY <1>12, <1>s, <2>1, <2>3, IdleStep DEF CheckSigningKey
  <2>4. QED
    BY <2>2, <2>3
<1>d. ASSUME NEW a \in KeyAdmins, DetachSign(a) PROVE SKInv'
  <2> DEFINE k == skA[a].key
             sig == [by |-> EntitySigningKey(k), checked |-> skA[a].checked, at |-> skNow, key |-> k]
  <2>1. /\ skA[a].pc = "signing" /\ Admin(a, AdminIdle) /\ UNCHANGED <<skFile, skBackups, skNow, skNextId, skDone>>
        /\ skSigned' = IF EntitySigningKey(k) = 0 THEN skSigned ELSE skSigned \cup {sig}
    BY <1>d DEF DetachSign
  <2>2. SubkeysSign'
    <3>1. CASE EntitySigningKey(k) # 0
      <4>0. ~k.revoked /\ Unexpired(k.exp)
        BY <3>1, Zenon DEF EntitySigningKey
      <4>1. CASE Usable(k) # {}
        <5>1. \E s \in Usable(k) : s.id = EntitySigningKey(k)
          <6>1. Numbered(k)
            BY <1>a DEF Numbered
          <6>2. QED
            BY <1>t, <1>a, <3>1, <4>1, <6>1, SignsWithUsable
        <5>2. QED
          BY <4>0, <5>1, <2>1, <3>1 DEF Usable, Unexpired, SubkeysSign, SKInv
      <4>2. CASE Usable(k) = {}
        <5>1. EntitySigningKey(k) = k.primary
          BY <4>0, <4>2, Zenon DEF EntitySigningKey
        <5>2. PICK s \in k.subs : ~s.revoked /\ (s.exp = 0 \/ skA[a].checked < s.exp)
          BY <2>1 DEF SKInv, CommandsExtend, UsableAt
        <5>3. s \in Subkey /\ skNow \in Nat
          BY <1>t, <1>a DEF SKTyped
        <5>4. skA[a].checked < s.exp /\ s.exp <= skNow
          BY <4>2, <5>2, <5>3 DEF Usable, Unexpired, Subkey
        <5>5. QED
          BY <2>1, <3>1, <4>0, <5>1, <5>2, <5>4 DEF Unexpired, SubkeysSign, SKInv
      <4>3. QED
        BY <4>1, <4>2
    <3>2. CASE EntitySigningKey(k) = 0
      BY <1>s, <2>1, <3>2
    <3>3. QED
      BY <3>1, <3>2
  <2>3. QED
    BY <2>1, <2>2, IdleStep
<1>13. CASE UNCHANGED skVars
  BY <1>13 DEF skVars, SKInv, SKTyped, AllNumbered, Numbered, CommandsExtend, AckedChangesStay, SubkeysSign
<1>14. QED
  BY <1>1, <1>2, <1>3, <1>4, <1>5, <1>6, <1>7, <1>8, <1>9, <1>10, <1>11, <1>12, <1>d, <1>13 DEF SKNext

\* Only a save touches the file, and only a forced import replaces another primary.
LEMMA AnchorStep == ASSUME SKInv, SKNext PROVE AnchorStays
<1>1. ASSUME NEW a \in KeyAdmins, SaveKey(a), skFile # NoKey, skFile'.primary # skFile.primary
      PROVE  skA[a].overwrite /\ skA[a].pc = "save" /\ skA'[a].pc = "idle"
  <2>1. skA[a].pc = "save" /\ skA'[a].pc = "idle"
    BY <1>1, NoKeyType DEF SaveKey, Admin, SKInv, SKTyped
  <2>2. SaveAllowed(skA[a]) /\ skFile' = skA[a].key
    BY <1>1 DEF SaveKey
  <2>3. CASE skA[a].persisted
    <3>1. skFile = skA[a].base /\ skA[a].key.primary = skA[a].base.primary
      BY <2>1, <2>2, <2>3 DEF SaveAllowed, SKInv, CommandsExtend, Extends
    <3>2. QED
      BY <1>1, <2>2, <3>1
  <2>4. CASE ~skA[a].persisted
    BY <1>1, <2>1, <2>2, <2>4 DEF SaveAllowed
  <2>5. QED
    BY <2>1, <2>3, <2>4
<1>2. (\E a \in KeyAdmins : SaveKey(a)) \/ skFile' = skFile
  BY DEF SKNext, KeyClock, GenerateSigningKey, ImportSigningKey, LoadSigningKey, AddSubkey, RotateSubkey,
         RevokePrimary, RevokeSubkey, SetExpiry, Changed, ExportSecretArmored, AdminDies, CheckSigningKey, DetachSign
<1>3. QED
  BY <1>1, <1>2 DEF AnchorStays

\* With any number of commands that load, change and save the key at once: what a
\* command reported as saved stays in the key, every signature is by a subkey usable
\* when it was made, and the primary changes only with a forced import.
THEOREM SigningKeyCorrect == SKSpec => KeyHolds
<1>1. SKInit => SKInv
  BY NoKeyType DEF SKInit, SKInv, SKTyped, AllNumbered, Numbered, CommandsExtend, AckedChangesStay, SubkeysSign
<1>2. SKInv' => KeyIsUsedRightly'
  BY DEF SKInv, KeyIsUsedRightly
<1>3. ASSUME SKInv, SKInv', [SKNext]_skVars PROVE [KeyIsUsedRightly' /\ AnchorStays]_skVars
  BY <1>2, <1>3, AnchorStep
<1>4. QED
  BY <1>1, <1>3, SKStep, PTL DEF SKSpec, KeyHolds
=============================================================================
