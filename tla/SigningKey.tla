------------------------------ MODULE SigningKey ------------------------------
(***************************************************************************)
(* The repository's signing key (ayaka key, ayaka keyring): a primary that *)
(* is the trust anchor and the subkeys that sign, in one file that every   *)
(* command loads, changes in memory and saves again.                       *)
(*                                                                         *)
(* A subkey is [id, exp, revoked]; exp 0 never expires.  The revision of a *)
(* loaded key is the content it was read from.                             *)
(***************************************************************************)
EXTENDS Naturals, FiniteSets

CONSTANTS KeyAdmins, MaxKeyId, MaxKeyTime, SubkeyTTL, MaxKeyCommands

ASSUME SigningKeyAssumption == SubkeyTTL \in Nat

VARIABLES skFile,     \* signing.key
          skBackups,  \* keys an operator exported
          skNow,
          skNextId,   \* the next fresh key
          skA,        \* admin -> the command it runs
          skDone,     \* changes reported as done since the file was last replaced
          skSigned,   \* the signatures made
          skCommands

skVars == <<skFile, skBackups, skNow, skNextId, skA, skDone, skSigned, skCommands>>

NoKey == [primary |-> 0, exp |-> 0, revoked |-> FALSE, full |-> FALSE, subs |-> {}]
AdminIdle == [pc |-> "idle", key |-> NoKey, base |-> NoKey, persisted |-> FALSE, overwrite |-> FALSE,
              change |-> {}, checked |-> 0]

SKInit ==
  /\ skFile = NoKey /\ skBackups = {} /\ skNow = 1 /\ skNextId = 1 /\ skDone = {}
  /\ skSigned = {} /\ skCommands = 0
  /\ skA = [a \in KeyAdmins |-> AdminIdle]

Admin(a, r) == skA' = [skA EXCEPT ![a] = r]

\* ttlSecs and lifetimeFrom, as the moment of expiry.
ExpiryIn(ttl) == IF ttl = 0 THEN 0 ELSE skNow + ttl
Unexpired(exp) == exp = 0 \/ skNow < exp
FreshSub(ttl) == [id |-> skNextId, exp |-> ExpiryIn(ttl), revoked |-> FALSE]

Starts(a) == skA[a].pc = "idle" /\ skCommands < MaxKeyCommands /\ skCommands' = skCommands + 1

KeyClock ==
  /\ skNow < MaxKeyTime /\ skNow' = skNow + 1
  /\ UNCHANGED <<skFile, skBackups, skNextId, skA, skDone, skSigned, skCommands>>

(***************************************************************************)
(* Commands up to the save                                                 *)
(***************************************************************************)
GenerateSigningKey(a, ttl) ==
  /\ Starts(a) /\ skFile = NoKey /\ skNextId < MaxKeyId
  /\ skNextId' = skNextId + 2
  /\ Admin(a, [AdminIdle EXCEPT
       !.pc = "save",
       !.key = [primary |-> skNextId + 1, exp |-> ExpiryIn(ttl), revoked |-> FALSE, full |-> TRUE,
                subs |-> {FreshSub(SubkeyTTL)}]])
  /\ UNCHANGED <<skFile, skBackups, skNow, skDone, skSigned>>

\* A backup, or the copy without the primary's secret that gpg makes of one.
ImportSigningKey(a, key, full, force) ==
  /\ Starts(a) /\ key \in skBackups /\ (skFile = NoKey \/ force)
  /\ Admin(a, [AdminIdle EXCEPT !.pc = "save", !.key = [key EXCEPT !.full = full], !.overwrite = force])
  /\ UNCHANGED <<skFile, skBackups, skNow, skNextId, skDone, skSigned>>

LoadSigningKey(a) ==
  /\ Starts(a) /\ skFile # NoKey
  /\ Admin(a, [AdminIdle EXCEPT !.pc = "loaded", !.key = skFile, !.base = skFile, !.persisted = TRUE])
  /\ UNCHANGED <<skFile, skBackups, skNow, skNextId, skDone, skSigned>>

\* A change of the key in memory, for which the primary's secret must be there.
Changed(a, key, change) ==
  /\ skA[a].pc = "loaded"
  /\ Admin(a, IF skA[a].key.full THEN [skA[a] EXCEPT !.pc = "save", !.key = key, !.change = change] ELSE AdminIdle)
  /\ UNCHANGED <<skFile, skBackups, skNow, skDone, skSigned, skCommands>>

AddSubkey(a) ==
  /\ skNextId <= MaxKeyId /\ skNextId' = skNextId + 1
  /\ Changed(a, [skA[a].key EXCEPT !.subs = @ \cup {FreshSub(SubkeyTTL)}], {<<"added", skNextId>>})

Revoke(s) == [s EXCEPT !.revoked = TRUE]

RevokeSubkey(a, s) ==
  /\ s \in skA[a].key.subs
  /\ Changed(a, [skA[a].key EXCEPT !.subs = (@ \ {s}) \cup {Revoke(s)}], {<<"revoked", s.id>>})
  /\ UNCHANGED skNextId

RotateSubkey(a) ==
  /\ skNextId <= MaxKeyId /\ skNextId' = skNextId + 1
  /\ Changed(a, [skA[a].key EXCEPT !.subs = {Revoke(s) : s \in @} \cup {FreshSub(SubkeyTTL)}],
             {<<"revoked", s.id>> : s \in skA[a].key.subs} \cup {<<"added", skNextId>>})

RevokePrimary(a) ==
  /\ Changed(a, [skA[a].key EXCEPT !.revoked = TRUE], {<<"revoked", skA[a].key.primary>>})
  /\ UNCHANGED skNextId

\* The primary, or every subkey that is not revoked, is dated anew.
SetExpiry(a, primary, ttl) ==
  LET key == skA[a].key
  IN /\ Changed(a, IF primary THEN [key EXCEPT !.exp = ExpiryIn(ttl)]
                   ELSE [key EXCEPT !.subs = {[s EXCEPT !.exp = IF s.revoked THEN @ ELSE ExpiryIn(ttl)] : s \in @}],
                {})
     /\ primary \/ \E s \in key.subs : ~s.revoked
     /\ UNCHANGED skNextId

ExportSecretArmored(a) ==
  /\ skA[a].pc = "loaded" /\ Admin(a, AdminIdle)
  /\ skBackups' = skBackups \cup {skA[a].key}
  /\ UNCHANGED <<skFile, skNow, skNextId, skDone, skSigned, skCommands>>

(***************************************************************************)
(* The save, under the lock of the directory                               *)
(***************************************************************************)
\* Deviation: the content the command loaded is not compared.
SaveAllowedBlind(r) == r.persisted \/ skFile = NoKey \/ r.overwrite

\* Deviation: a new key trusts the look it had before the lock.
SaveAllowedUnseen(r) == IF r.persisted THEN skFile = r.base ELSE TRUE

SaveAllowed(r) == IF r.persisted THEN skFile = r.base ELSE skFile = NoKey \/ r.overwrite

SaveKey(a) ==
  LET me == skA[a]
  IN /\ me.pc = "save"
     /\ Admin(a, AdminIdle)
     /\ IF SaveAllowed(me)
        THEN skFile' = me.key /\ skDone' = IF me.persisted THEN skDone \cup me.change ELSE {}
        ELSE UNCHANGED <<skFile, skDone>>
     /\ UNCHANGED <<skBackups, skNow, skNextId, skSigned, skCommands>>

\* The process ends before it saved.
AdminDies(a) ==
  /\ skA[a].pc # "idle" /\ Admin(a, AdminIdle)
  /\ UNCHANGED <<skFile, skBackups, skNow, skNextId, skDone, skSigned, skCommands>>

(***************************************************************************)
(* Signing a keyring package                                               *)
(***************************************************************************)
Usable(key) == {s \in key.subs : ~s.revoked /\ Unexpired(s.exp)}

\* The key the library signs with: the newest usable subkey, or else the primary.
EntitySigningKey(key) ==
  IF key.revoked \/ ~Unexpired(key.exp) THEN 0
  ELSE IF Usable(key) = {} THEN key.primary
  ELSE (CHOOSE s \in Usable(key) : \A o \in Usable(key) : o.id <= s.id).id

\* Deviation: whatever key the library found.
MaySignAny(key) == EntitySigningKey(key) # 0

\* Sign refuses to fall back to the primary.
MaySign(key) == EntitySigningKey(key) \notin {0, key.primary}

\* Sign: the check, at the clock of the moment.
CheckSigningKey(a) ==
  /\ skA[a].pc = "loaded"
  /\ Admin(a, IF MaySign(skA[a].key) THEN [skA[a] EXCEPT !.pc = "signing", !.checked = skNow] ELSE AdminIdle)
  /\ UNCHANGED <<skFile, skBackups, skNow, skNextId, skDone, skSigned, skCommands>>

\* detachSign: the library chooses the key once more, at its own clock.
DetachSign(a) ==
  LET key == skA[a].key
  IN /\ skA[a].pc = "signing" /\ Admin(a, AdminIdle)
     /\ skSigned' = IF EntitySigningKey(key) = 0 THEN skSigned
                    ELSE skSigned \cup {[by |-> EntitySigningKey(key), checked |-> skA[a].checked, at |-> skNow,
                                         key |-> key]}
     /\ UNCHANGED <<skFile, skBackups, skNow, skNextId, skDone, skCommands>>

SKNext ==
  \/ KeyClock
  \/ \E a \in KeyAdmins :
       \/ \E ttl \in {0, SubkeyTTL} : GenerateSigningKey(a, ttl)
       \/ \E key \in skBackups, full, force \in BOOLEAN : ImportSigningKey(a, key, full, force)
       \/ LoadSigningKey(a) \/ AddSubkey(a) \/ RotateSubkey(a) \/ RevokePrimary(a)
       \/ \E s \in skA[a].key.subs : RevokeSubkey(a, s)
       \/ \E primary \in BOOLEAN, ttl \in {0, SubkeyTTL} : SetExpiry(a, primary, ttl)
       \/ ExportSecretArmored(a) \/ SaveKey(a) \/ AdminDies(a)
       \/ CheckSigningKey(a) \/ DetachSign(a)

SKSpec == SKInit /\ [][SKNext]_skVars

(***************************************************************************)
(* What the key promises                                                   *)
(***************************************************************************)

\* A revocation or a subkey that a command reported as saved is in the key
\* from then on, whatever other commands were working on an older copy: only
\* an import that replaces the key may undo it.
AckedChangesStay ==
  \A c \in skDone :
    IF c[1] = "added" THEN \E s \in skFile.subs : s.id = c[2]
    ELSE (c[2] = skFile.primary /\ skFile.revoked) \/ \E s \in skFile.subs : s.id = c[2] /\ s.revoked

\* The primary, which every user's keyring pins, changes only with a forced
\* import: not with a rotation, and not when two commands create a key at once.
AnchorStays ==
  (skFile # NoKey /\ skFile'.primary # skFile.primary) =>
    \E a \in KeyAdmins : skA[a].overwrite /\ skA[a].pc = "save" /\ skA'[a].pc = "idle"

\* A key that its copy says is revoked or expired signs nothing, and every signature
\* is by a subkey that was neither revoked nor expired at that moment; the primary
\* signs only when the subkey that Sign had found expired before detachSign chose
\* again.
SubkeysSign ==
  \A sig \in skSigned :
    /\ ~sig.key.revoked /\ (sig.key.exp = 0 \/ sig.at < sig.key.exp)
    /\ \E s \in sig.key.subs :
         /\ ~s.revoked
         /\ \/ s.id = sig.by /\ (s.exp = 0 \/ sig.at < s.exp)
            \/ sig.by = sig.key.primary /\ sig.checked < s.exp /\ s.exp <= sig.at

\* What a comment says and the code does not keep (README, section 6), so no run has it.
\* The primary signs no package (signingkey.go, Sign: "It refuses to fall back to
\* the primary key").
PrimaryNeverSigns == \A sig \in skSigned : sig.by # sig.key.primary

\* The parts that speak of a state; they hold trivially before the first step.
KeyIsUsedRightly == AckedChangesStay /\ SubkeysSign

\* The signing key, as a whole: reported changes stay, subkeys sign, and the anchor
\* users pin never changes, with commands that overlap.
KeyHolds == [][KeyIsUsedRightly' /\ AnchorStays]_skVars
=============================================================================
