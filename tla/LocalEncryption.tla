---------------------------- MODULE LocalEncryption ----------------------------
(***************************************************************************)
(* The local database of one user while its encryption is turned on, off   *)
(* or given another password: LocalDatabase of                             *)
(* src/backend/app/local_storage/local_db.py over EncryptionManager and    *)
(* EncryptedDatabase of encryption.py, called by routes/memory.py.         *)
(*                                                                         *)
(* Every request builds a LocalDatabase of its own and runs to its end     *)
(* without an await; between any two of its steps on the disk the process  *)
(* can die, and any of these steps can raise.                              *)
(*                                                                         *)
(* The key and the salt are kept by what matters of them: whether a file   *)
(* is encrypted with the key in the key file, and whether the salt is the  *)
(* one the key file was written with.                                      *)
(***************************************************************************)
EXTENDS Naturals

CONSTANTS
    Passwords,
    Overwrites,     \* does rename() replace a file that exists? not on Windows
    MaxFaults,      \* bound: steps that raise, processes that die
    None

ASSUME EncryptionAssumption ==
    /\ None \notin Passwords
    /\ "no" \notin Passwords /\ "torn" \notin Passwords
    /\ Overwrites \in BOOLEAN
    /\ MaxFaults \in Nat

Files == {"local.db", "encrypted.db", "unencrypted.bak", "decrypted.db", "encrypted.bak"}

\* rows: does it hold what the user had stored before the first of these calls?
Plain(rows) == [rows |-> rows, key |-> "plain"]
Kept(rows) == [rows |-> rows, key |-> "kept"]       \* with the key in the key file
NoFile == [rows |-> FALSE, key |-> "absent"]
Contents == [rows : BOOLEAN, key : {"absent", "plain", "kept", "lost"}]

VARIABLES
    disk,       \* what each file of the database holds
    keyFile,    \* the password .encryption_key was written with, "no" or "torn"
    salt,       \* .salt: "no", "fits" the key file, or "other"
    step,       \* of the request that runs: what it does next
    password,   \* of that request
    \* what the user knows
    told,       \* the password that is in force, None for a plain database
    faults,
    \* history, read by no guard of the code:
    saltTorn    \* a change of password ended between its first step and its last

files == <<disk, keyFile, salt>>
vars == <<files, step, password, told, faults, saltTorn>>

Init ==
    /\ disk = [f \in Files |-> IF f = "local.db" THEN Plain(TRUE) ELSE NoFile]
    /\ keyFile = "no" /\ salt = "no"
    /\ step = "idle" /\ password = None /\ told = None
    /\ faults = 0 /\ saltTorn = FALSE

-----------------------------------------------------------------------------
(* Files.                                                                  *)

Present(f) == disk[f].key # "absent"

\* d once the key in the key file is gone.
KeyGone(d) == [f \in Files |-> IF d[f].key = "kept" THEN [d[f] EXCEPT !.key = "lost"] ELSE d[f]]

Unlink(f) == disk' = [disk EXCEPT ![f] = NoFile]

Rename(f, to) ==
    /\ Present(f)
    /\ Present(to) => Overwrites
    /\ disk' = [disk EXCEPT ![to] = disk[f], ![f] = NoFile]

\* unlock: derives a key from the password, and makes a salt where there is none.
Unlocks(pw) == keyFile = pw /\ salt = "fits"
SaltMade == salt' = IF salt = "no" THEN "other" ELSE salt

-----------------------------------------------------------------------------
(* Requests.  The constructor unlocks with the password of the request and  *)
(* opens the database, where it can: sqlite makes a file that is missing.   *)

Begin(first, pw) == step' = first /\ password' = pw
Return == step' = "idle" /\ password' = None
Reply(pw) == Return /\ told' = pw
Quiet == UNCHANGED <<told, faults, saltTorn>>

OpensPlain ==
    \/ ~Present("local.db") /\ disk' = [disk EXCEPT !["local.db"] = Plain(FALSE)]
    \/ disk["local.db"].key = "plain" /\ UNCHANGED disk

OpensKept ==
    \/ ~Present("local.db") /\ disk' = [disk EXCEPT !["local.db"] = Kept(FALSE)]
    \/ disk["local.db"].key = "kept" /\ UNCHANGED disk

\* Any request that needs no password; an encrypted database stays closed.
Request ==
    /\ step = "idle" /\ keyFile = "no"
    /\ OpensPlain
    /\ UNCHANGED <<keyFile, salt, step, password>> /\ Quiet

\* POST /encryption/unlock, and what the other routes with a password do first.
Unlock(pw) ==
    /\ step = "idle" /\ keyFile # "no"
    /\ IF Unlocks(pw) THEN OpensKept /\ UNCHANGED salt
       ELSE SaltMade /\ UNCHANGED disk
    /\ UNCHANGED <<keyFile, step, password>> /\ Quiet

Enable(pw) ==
    /\ step = "idle" /\ keyFile = "no"
    /\ OpensPlain
    /\ Begin("salt", pw)
    /\ UNCHANGED <<keyFile, salt>> /\ Quiet

ChangePassword(old, new) ==
    /\ step = "idle" /\ keyFile # "no"
    /\ Unlocks(old) /\ OpensKept
    /\ Begin("unsalt", new)
    /\ UNCHANGED <<keyFile, salt>> /\ Quiet

Disable(pw) ==
    /\ step = "idle" /\ keyFile # "no"
    /\ Unlocks(pw) /\ OpensKept
    /\ Begin("export", pw)
    /\ UNCHANGED <<keyFile, salt>> /\ Quiet

-----------------------------------------------------------------------------
(* Steps that succeed.                                                     *)

At(s, next) == step = s /\ step' = next /\ UNCHANGED password

\* EncryptionManager.enable_encryption
MakeSalt ==
    /\ At("salt", "wrap") /\ SaltMade
    /\ UNCHANGED <<disk, keyFile>> /\ Quiet

WriteKey ==
    /\ At("wrap", "copy")
    /\ keyFile' = password /\ salt' = "fits"
    /\ UNCHANGED disk /\ Quiet

\* encrypt_existing_database.  A copy left behind by an earlier run has
\* another key: it cannot be opened.
Copy ==
    /\ At("copy", "aside")
    /\ ~Present("encrypted.db")
    /\ disk' = [disk EXCEPT !["encrypted.db"] = Kept(disk["local.db"].rows)]
    /\ UNCHANGED <<keyFile, salt>> /\ Quiet

\* Mutant: the original is deleted, not set aside.
SetAsideDeletes ==
    /\ At("aside", "swap")
    /\ Unlink("local.db")
    /\ UNCHANGED <<keyFile, salt>> /\ Quiet

SetAside ==
    /\ At("aside", "swap")
    /\ Rename("local.db", "unencrypted.bak")
    /\ UNCHANGED <<keyFile, salt>> /\ Quiet

Swap ==
    /\ At("swap", "drop")
    /\ Rename("encrypted.db", "local.db")
    /\ UNCHANGED <<keyFile, salt>> /\ Quiet

\* Mutant: the backup is kept.
DropBackupNot ==
    /\ step = "drop" /\ UNCHANGED disk
    /\ Reply(password)
    /\ UNCHANGED <<keyFile, salt, faults, saltTorn>>

DropBackup ==
    /\ step = "drop" /\ Unlink("unencrypted.bak")
    /\ Reply(password)
    /\ UNCHANGED <<keyFile, salt, faults, saltTorn>>

\* decrypt_database
Export ==
    /\ At("export", "aside_") /\ ~Present("decrypted.db")
    /\ disk' = [disk EXCEPT !["decrypted.db"] = Plain(disk["local.db"].rows)]
    /\ UNCHANGED <<keyFile, salt>> /\ Quiet

SetAsideEncrypted ==
    /\ At("aside_", "swap_")
    /\ Rename("local.db", "encrypted.bak")
    /\ UNCHANGED <<keyFile, salt>> /\ Quiet

SwapDecrypted ==
    /\ At("swap_", "drop_")
    /\ Rename("decrypted.db", "local.db")
    /\ UNCHANGED <<keyFile, salt>> /\ Quiet

DropEncrypted ==
    /\ At("drop_", "unkey") /\ Unlink("encrypted.bak")
    /\ UNCHANGED <<keyFile, salt>> /\ Quiet

\* Mutant: files encrypted with the key that is removed still count as readable.
DropKeyKeepsFiles ==
    /\ step \in {"unkey", "undo"}
    /\ step' = IF step = "unkey" THEN "unkey_" ELSE "undo_"
    /\ keyFile' = "no" /\ UNCHANGED disk
    /\ salt' = "other"
    /\ UNCHANGED password /\ Quiet

\* EncryptionManager.disable_encryption; "undo" when it takes an enable back.
DropKey ==
    /\ step \in {"unkey", "undo"}
    /\ step' = IF step = "unkey" THEN "unkey_" ELSE "undo_"
    /\ keyFile' = "no" /\ disk' = KeyGone(disk)
    /\ salt' = "other"
    /\ UNCHANGED password /\ Quiet

DropSalt ==
    /\ step \in {"unkey_", "undo_"}
    /\ salt' = "no"
    /\ Reply(IF step = "unkey_" THEN None ELSE told)
    /\ UNCHANGED <<disk, keyFile, faults, saltTorn>>

\* EncryptionManager.change_password
DropOldSalt ==
    /\ At("unsalt", "resalt") /\ salt' = "no"
    /\ UNCHANGED <<disk, keyFile>> /\ Quiet

MakeNewSalt ==
    /\ At("resalt", "rewrap") /\ SaltMade
    /\ UNCHANGED <<disk, keyFile>> /\ Quiet

\* Mutant: the key file is written with a key from the old salt.
RewriteKeyOldSalt ==
    /\ step = "rewrap"
    /\ keyFile' = password /\ salt' = "other"
    /\ Reply(password)
    /\ UNCHANGED <<disk, faults, saltTorn>>

RewriteKey ==
    /\ step = "rewrap"
    /\ keyFile' = password /\ salt' = "fits"
    /\ Reply(password)
    /\ UNCHANGED <<disk, faults, saltTorn>>

-----------------------------------------------------------------------------
(* Steps that raise.  A step whose target or source is not as it expects    *)
(* raises by itself; any other needs a fault.                               *)

Fault == faults < MaxFaults /\ faults' = faults + 1

Raises(possible) == IF possible THEN Fault ELSE UNCHANGED faults

Encrypting == {"copy", "aside", "swap", "drop"}
Decrypting == {"export", "aside_", "swap_", "drop_"}
Changing == {"unsalt", "resalt", "rewrap"}

CanStep ==
    CASE step = "copy" -> ~Present("encrypted.db")
      [] step = "export" -> ~Present("decrypted.db")
      [] step = "aside" -> Present("unencrypted.bak") => Overwrites
      [] step = "aside_" -> Present("encrypted.bak") => Overwrites
      [] OTHER -> TRUE

\* A copy that is not finished is there, but does not hold the rows.
Unfinished ==
    CASE step = "copy" /\ CanStep -> [disk EXCEPT !["encrypted.db"] = Kept(FALSE)]
      [] step = "export" /\ CanStep -> [disk EXCEPT !["decrypted.db"] = Plain(FALSE)]
      [] OTHER -> disk

\* encrypt_existing_database removes its copy and returns False, and the keys
\* are taken back; where the copy cannot be removed (it is open), they are not.
EncryptFails ==
    /\ step \in Encrypting
    /\ Raises(CanStep)
    /\ \/ Unlink("encrypted.db") /\ step' = "undo" /\ UNCHANGED password
       \/ disk' = Unfinished /\ disk'["encrypted.db"] # NoFile /\ Return
    /\ UNCHANGED <<keyFile, salt, told, saltTorn>>

DecryptFails ==
    /\ step \in Decrypting
    /\ Raises(CanStep)
    /\ Unlink("decrypted.db") \/ disk' = Unfinished
    /\ Return
    /\ UNCHANGED <<keyFile, salt, told, saltTorn>>

\* A write of the key file that does not end leaves it as it was, or torn.
KeyTorn ==
    /\ keyFile' = "torn" /\ disk' = KeyGone(disk) /\ UNCHANGED salt

KeysFail ==
    /\ step \in {"salt", "wrap", "unkey", "unkey_", "undo", "undo_"} \cup Changing
    /\ Fault /\ Return
    /\ \/ UNCHANGED files
       \/ step \in {"wrap", "rewrap"} /\ KeyTorn
    /\ saltTorn' = (saltTorn \/ step \in {"resalt", "rewrap"})
    /\ UNCHANGED told

\* The process dies before the step, or in the middle of it.
Crash ==
    /\ step # "idle"
    /\ Fault /\ Return
    /\ \/ UNCHANGED files
       \/ disk' = Unfinished /\ UNCHANGED <<keyFile, salt>>
       \/ step \in {"wrap", "rewrap"} /\ KeyTorn
    /\ saltTorn' = (saltTorn \/ step \in {"resalt", "rewrap"})
    /\ UNCHANGED told

Next ==
    \/ Request
    \/ \E pw \in Passwords :
        Unlock(pw) \/ Enable(pw) \/ Disable(pw) \/ \E new \in Passwords : ChangePassword(pw, new)
    \/ MakeSalt \/ WriteKey \/ Copy \/ SetAside \/ Swap \/ DropBackup
    \/ Export \/ SetAsideEncrypted \/ SwapDecrypted \/ DropEncrypted \/ DropKey \/ DropSalt
    \/ DropOldSalt \/ MakeNewSalt \/ RewriteKey
    \/ EncryptFails \/ DecryptFails \/ KeysFail \/ Crash

Spec == Init /\ [][Next]_vars

-----------------------------------------------------------------------------
(* Properties.                                                             *)

Steps == Encrypting \cup Decrypting \cup Changing
             \cup {"idle", "salt", "wrap", "unkey", "unkey_", "undo", "undo_"}

\* Every variable has its type; a file is encrypted with the key of the key
\* file only while there is one.
TypeOK ==
    /\ disk \in [Files -> Contents]
    /\ keyFile \in Passwords \cup {"no", "torn"}
    /\ salt \in {"no", "fits", "other"}
    /\ step \in Steps /\ password \in Passwords \cup {None}
    /\ told \in Passwords \cup {None}
    /\ faults \in 0..MaxFaults /\ saltTorn \in BOOLEAN
    /\ (\E f \in Files : disk[f].key = "kept") => keyFile \in Passwords

\* Through any sequence of calls in which nothing fails, the user's rows are
\* in local.db and open with the password of the last "changed successfully"
\* or "encrypted successfully", and there is no other copy of them.
OpensAsTold ==
    step = "idle" /\ faults = 0 =>
        /\ disk = [f \in Files |-> IF f # "local.db" THEN NoFile
                                  ELSE IF told = None THEN Plain(TRUE) ELSE Kept(TRUE)]
        /\ IF told = None THEN keyFile = "no" ELSE Unlocks(told)

\* Whatever raises, and wherever the process dies, some file still holds the
\* user's rows and can be read, in the clear or with a password the key file
\* and the salt belong to; a change of password is the only call that can
\* lose them, from the moment it removes the salt.
RowsSurvive ==
    \/ saltTorn \/ step \in Changing
    \/ \E f \in Files :
        disk[f].rows /\ (disk[f].key = "plain" \/ (disk[f].key = "kept" /\ salt = "fits"))

\* When the user is told "Database encrypted successfully" no file holds the
\* database in the clear, whatever earlier calls have left behind.
EncryptedLeavesNothingPlain ==
    [][DropBackup => \A f \in Files : disk'[f].key # "plain"]_vars
=============================================================================
