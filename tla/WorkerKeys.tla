----------------------------- MODULE WorkerKeys -----------------------------
(***************************************************************************)
(* The signing keys of miko: a directory several hosts may share, with a   *)
(* worker key and the master that certified it, made at the first start;   *)
(* the registration of the worker with ayato; and ayato's verification.    *)
(*                                                                         *)
(* A pair has one number: worker n is certified by master n.  0 is a file  *)
(* that is not there.                                                      *)
(***************************************************************************)
EXTENDS Naturals, Sequences, FiniteSets

CONSTANTS KeyHosts, MaxPairs, MaxKeyFaults, MaxSignatures,
          Allowlist   \* whether trusted_keys restricts the fingerprints

VARIABLES wkDir,      \* [master, cert, key], the three files
          wkLock,     \* the hosts that hold the directory's lock
          wkPairs,    \* pairs generated so far
          wkH,        \* host -> [pc, step, master, worker]
          wkMasters,  \* verify.master_keys
          wkSigners,  \* registered workers
          wkDropped,  \* hosts whose worker was unregistered since they started
          wkChecked,  \* signatures ayato looked at: [host, by, accepted, dropped]
          wkFaults

wkVars == <<wkDir, wkLock, wkPairs, wkH, wkMasters, wkSigners, wkDropped, wkChecked, wkFaults>>
wkServer == <<wkMasters, wkSigners, wkDropped, wkChecked>>

HostDown == [pc |-> "down", step |-> 0, master |-> 0, worker |-> 0]

WKInit ==
  /\ wkDir = [master |-> 0, cert |-> 0, key |-> 0]
  /\ wkLock = {} /\ wkPairs = 0 /\ wkMasters = {} /\ wkSigners = {} /\ wkDropped = {}
  /\ wkChecked = {} /\ wkFaults = 0
  /\ wkH = [h \in KeyHosts |-> HostDown]

Host(h, r) == wkH' = [wkH EXCEPT ![h] = r]

\* Deviation: the directory is not locked.
LockFreely(h) == TRUE

LockFree(h) == wkLock = {}

\* OpenOrCreate, up to the look that decides: under the lock.
OpenKeystore(h) ==
  /\ wkH[h].pc = "down" /\ LockFree(h)
  /\ IF wkDir.key # 0
     THEN /\ Host(h, IF wkDir.master = 0 THEN HostDown
                     ELSE [HostDown EXCEPT !.pc = "register", !.master = wkDir.master, !.worker = wkDir.key])
          /\ UNCHANGED <<wkLock, wkPairs>>
     ELSE /\ wkPairs < MaxPairs /\ wkPairs' = wkPairs + 1
          /\ wkLock' = wkLock \cup {h}
          /\ Host(h, [pc |-> "save", step |-> 1, master |-> wkPairs', worker |-> wkPairs'])
  /\ UNCHANGED <<wkDir, wkServer, wkFaults>>

\* The worker key last: its presence says that the other two are there.
SaveOrder == <<"master", "cert", "key">>

SaveFile(h) ==
  LET me == wkH[h]
      last == me.step = Len(SaveOrder)
  IN /\ me.pc = "save"
     /\ wkDir' = [wkDir EXCEPT ![SaveOrder[me.step]] = me.worker]
     /\ Host(h, IF last THEN [me EXCEPT !.pc = "register"] ELSE [me EXCEPT !.step = @ + 1])
     /\ wkLock' = IF last THEN wkLock \ {h} ELSE wkLock
     /\ UNCHANGED <<wkPairs, wkServer, wkFaults>>

\* The process dies, which releases its lock.
HostDies(h) ==
  /\ wkH[h].pc # "down" /\ wkFaults < MaxKeyFaults /\ wkFaults' = wkFaults + 1
  /\ Host(h, HostDown) /\ wkLock' = wkLock \ {h}
  /\ UNCHANGED <<wkDir, wkPairs, wkServer>>

CertifiedBy(worker, master) == worker = master

\* RegisterWorkerCert sends worker.pub; RegisterSigner keeps it when a configured
\* master certified it.  A host whose registration fails, or is not answered, stops.
RegisterSigner(h, answered) ==
  LET cert == wkDir.cert
      ok == \E master \in wkMasters : CertifiedBy(cert, master)
  IN /\ wkH[h].pc = "register"
     /\ answered \/ wkFaults < MaxKeyFaults
     /\ wkFaults' = IF answered THEN wkFaults ELSE wkFaults + 1
     /\ wkSigners' = IF ok THEN wkSigners \cup {cert} ELSE wkSigners
     /\ Host(h, IF ok /\ answered THEN [wkH[h] EXCEPT !.pc = "up"] ELSE HostDown)
     /\ wkDropped' = wkDropped \ {h}
     /\ UNCHANGED <<wkDir, wkLock, wkPairs, wkMasters, wkChecked>>

\* The operator copies master.pub into ayato's configuration, or takes one out.
ConfigureMasters(master) ==
  /\ master # 0
  /\ wkMasters' = IF master \in wkMasters THEN wkMasters \ {master} ELSE wkMasters \cup {master}
  /\ UNCHANGED <<wkDir, wkLock, wkPairs, wkH, wkSigners, wkDropped, wkChecked, wkFaults>>

UnregisterSigner(worker) ==
  /\ worker \in wkSigners /\ wkSigners' = wkSigners \ {worker}
  /\ wkDropped' = wkDropped \cup {h \in KeyHosts : wkH[h].worker = worker}
  /\ UNCHANGED <<wkDir, wkLock, wkPairs, wkH, wkMasters, wkChecked, wkFaults>>

\* Deviation: an allowlist names the static keys only.
TrustedStatic == IF Allowlist THEN {} ELSE wkSigners

\* verifyKeyring: registered workers join the keyring, and the allowlist if there is one.
TrustedWorkers == wkSigners

\* A package is signed, here or through the signer service, and ayato checks it.
SignAndVerify(h) ==
  /\ wkH[h].pc = "up" /\ Cardinality(wkChecked) < MaxSignatures
  /\ wkChecked' = wkChecked \cup {[host |-> h, by |-> wkH[h].worker, dropped |-> h \in wkDropped,
                                   accepted |-> wkH[h].worker \in wkSigners \cap TrustedWorkers]}
  /\ UNCHANGED <<wkDir, wkLock, wkPairs, wkH, wkMasters, wkSigners, wkDropped, wkFaults>>

WKNext ==
  \/ \E h \in KeyHosts :
       \/ OpenKeystore(h) \/ SaveFile(h) \/ HostDies(h) \/ SignAndVerify(h)
       \/ \E answered \in BOOLEAN : RegisterSigner(h, answered)
  \/ ConfigureMasters(wkDir.master)
  \/ \E worker \in wkSigners : UnregisterSigner(worker)

WKSpec == WKInit /\ [][WKNext]_wkVars

\* A worker key that is there has its certificate and the master that
\* certified it beside it, and every host works with that one pair: although
\* the three files are written one after the other, by hosts that start
\* together and may die in between.
KeystoreIsCertified ==
  /\ wkDir.key # 0 => wkDir.master = wkDir.key /\ wkDir.cert = wkDir.key
  /\ \A h \in KeyHosts : wkH[h].pc \in {"register", "up"} => wkH[h].worker = wkDir.key /\ wkH[h].master = wkDir.master

\* A host that came up signs with the key it registered: ayato accepts what it
\* signs until somebody unregisters it, with an allowlist or without.
SignedIsAccepted == \A c \in wkChecked : c.accepted \/ c.dropped

\* Worker keys, as a whole: the keystore is whole, and what a host signs is accepted.
WorkerKeysHold == KeystoreIsCertified /\ SignedIsAccepted
=============================================================================
