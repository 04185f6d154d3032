----------------------------- MODULE SecretFile -----------------------------
(***************************************************************************)
(* The secret store over an encrypted file: items, each sealed under the   *)
(* key of its time, and the salt and mark that tell the next start which   *)
(* key to derive.  A key is the pair of its salt and passphrase.  Every    *)
(* operation runs under the store's lock; only the writing that Get leaves *)
(* behind comes later.                                                     *)
(***************************************************************************)
EXTENDS Naturals, FiniteSets

CONSTANTS VaultIDs, Passphrases, NoPassphrase, MaxSalts, MaxFlushes

ASSUME VaultAssumption == MaxSalts \in Nat \ {0} /\ MaxFlushes \in Nat

VARIABLES
  vKey,      \* the derived key, or no key
  vSalt,     \* the salt in memory
  vLocked,   \* meta.Protected in memory
  vItems,    \* key of each item in memory
  vFile,     \* salt, mark and items of the file
  vFlushes,  \* writes that Get started
  vMade,     \* salts made
  fate,      \* of each ID: "unmade", "returned" by Set, "refused" or "deleted" (history)
  changed    \* was the last SetPassphrase of an open store a success? (history)

vaultVars == <<vKey, vSalt, vLocked, vItems, vFile, vFlushes, vMade, fate, changed>>

NoSecretKey == <<0, NoPassphrase>>
DeriveKey(pass, salt) == <<salt, pass>>
Held == {id \in VaultIDs : vItems[id] # NoSecretKey}

\* A new store has a salt and derives its key from no passphrase.
VaultInit ==
  /\ vSalt = 1 /\ vMade = 1 /\ vLocked = FALSE
  /\ vKey = DeriveKey(NoPassphrase, 1)
  /\ vItems = [id \in VaultIDs |-> NoSecretKey]
  /\ vFile = [salt |-> 1, locked |-> FALSE, items |-> vItems]
  /\ vFlushes = 0 /\ fate = [id \in VaultIDs |-> "unmade"] /\ changed = FALSE

\* Mutant of Flush: the header of the file is kept, as if only items could change.
FlushItems == vFile' = [vFile EXCEPT !.items = vItems']
\* flushLocked writes all of it to a temporary file and renames that.
Flush == vFile' = [salt |-> vSalt', locked |-> vLocked', items |-> vItems']
FlushFails == UNCHANGED vFile

\* Set seals the content under the key of now, and takes the item back when the file fails.
VaultSet(id) ==
  /\ vKey # NoSecretKey /\ fate[id] = "unmade"
  /\ vItems' = [vItems EXCEPT ![id] = vKey]
  /\ fate' = [fate EXCEPT ![id] = "returned"]
  /\ UNCHANGED <<vKey, vSalt, vLocked, vFlushes, vMade, changed>>
  /\ Flush
\* Mutant of VaultSetFails: the item stays in memory.
SetKeepsItem(id) ==
  /\ vKey # NoSecretKey /\ fate[id] = "unmade"
  /\ vItems' = [vItems EXCEPT ![id] = vKey]
  /\ fate' = [fate EXCEPT ![id] = "refused"] /\ FlushFails
  /\ UNCHANGED <<vKey, vSalt, vLocked, vFlushes, vMade, changed>>
VaultSetFails(id) ==
  /\ vKey # NoSecretKey /\ fate[id] = "unmade"
  /\ fate' = [fate EXCEPT ![id] = "refused"] /\ FlushFails
  /\ UNCHANGED <<vKey, vSalt, vLocked, vItems, vFlushes, vMade, changed>>

\* Get opens what the key of now sealed; what another key sealed is an error.
Readable(id) == vKey # NoSecretKey /\ vItems[id] = vKey
VaultGet(id) ==
  /\ Readable(id) /\ vFlushes < MaxFlushes
  /\ vFlushes' = vFlushes + 1
  /\ UNCHANGED <<vKey, vSalt, vLocked, vItems, vFile, vMade, fate, changed>>
\* The write that Get left behind, whatever has happened to the store meanwhile.
LaterFlush ==
  /\ vFlushes > 0 /\ vFlushes' = vFlushes - 1
  /\ UNCHANGED <<vKey, vSalt, vLocked, vItems, vMade, fate, changed>>
  /\ Flush \/ FlushFails

\* Delete needs no key.  When the file fails, the item is back after the next start.
VaultDelete(id) ==
  /\ id \in Held
  /\ vItems' = [vItems EXCEPT ![id] = NoSecretKey]
  /\ fate' = [fate EXCEPT ![id] = "deleted"]
  /\ UNCHANGED <<vKey, vSalt, vLocked, vFlushes, vMade, changed>>
  /\ Flush \/ FlushFails

(***************************************************************************)
(* SetPassphrase.  A marked store only derives the key again, right or     *)
(* wrong; else it gets a new salt, key and mark, and the items keep the    *)
(* key they were sealed under.                                             *)
(***************************************************************************)
Unlock(pass) ==
  /\ vLocked
  /\ vKey' = DeriveKey(pass, vSalt)
  /\ changed' = (vKey # NoSecretKey)
  /\ UNCHANGED <<vSalt, vLocked, vItems, vFile, vFlushes, vMade, fate>>
FirstPassphrase(pass) ==
  /\ ~vLocked /\ vMade < MaxSalts
  /\ vMade' = vMade + 1 /\ vSalt' = vMade' /\ vLocked' = TRUE
  /\ vKey' = DeriveKey(pass, vSalt')
  /\ UNCHANGED <<vItems, vFlushes, fate>>
  /\ \/ Flush /\ changed' = (vKey # NoSecretKey)
     \/ FlushFails /\ changed' = FALSE

VaultClose ==
  /\ vKey # NoSecretKey
  /\ vKey' = NoSecretKey /\ changed' = FALSE
  /\ UNCHANGED <<vSalt, vLocked, vItems, vFile, vFlushes, vMade, fate>>

\* The next start reads the file; a marked store has no key until SetPassphrase.
VaultRestart ==
  /\ vSalt' = vFile.salt /\ vLocked' = vFile.locked /\ vItems' = vFile.items
  /\ vKey' = IF vFile.locked THEN NoSecretKey ELSE DeriveKey(NoPassphrase, vFile.salt)
  /\ vFlushes' = 0 /\ changed' = FALSE
  /\ UNCHANGED <<vFile, vMade, fate>>

VaultNext ==
  \/ \E id \in VaultIDs : VaultSet(id) \/ VaultSetFails(id) \/ VaultGet(id) \/ VaultDelete(id)
  \/ LaterFlush
  \/ \E pass \in Passphrases : Unlock(pass) \/ FirstPassphrase(pass)
  \/ VaultClose \/ VaultRestart

VaultSpec == VaultInit /\ [][VaultNext]_vaultVars

(***************************************************************************)
(* Properties.                                                             *)
(***************************************************************************)
VaultTypeOK ==
  /\ vSalt \in 1 .. MaxSalts /\ vLocked \in BOOLEAN
  /\ vItems \in [VaultIDs -> (0 .. MaxSalts) \X (Passphrases \cup {NoPassphrase})]
  /\ vFlushes \in 0 .. MaxFlushes

\* An ID that Set returned is in the file until Delete is called for it, and a secret whose Set
\* failed never gets there: whichever later write of another operation, started by an earlier
\* Get or after a restart, takes the memory to the file (Set, flushLocked).
SetIsAllOrNothing == \A id \in VaultIDs :
  /\ fate[id] = "returned" => vFile.items[id] # NoSecretKey
  /\ fate[id] = "refused" => vFile.items[id] = NoSecretKey

\* What can be read now and is in the file can be read after the next start with the passphrase
\* of now: the salt and the mark in the file belong to the key that sealed it, also after a
\* SetPassphrase that failed half-way and a write that Get left behind (flushLocked, Set).
NextKey == DeriveKey(IF vFile.locked THEN vKey[2] ELSE NoPassphrase, vFile.salt)
ReadableAgain ==
  \A id \in VaultIDs : Readable(id) /\ vFile.items[id] = vKey => vFile.items[id] = NextKey

\* "Any time: may be called to change the master password": violated, since the items are not
\* sealed again and a marked store keeps its old password.
PassphraseOpensAll == changed => \A id \in Held : Readable(id)
=============================================================================
