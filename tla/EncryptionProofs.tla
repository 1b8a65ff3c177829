--------------------------- MODULE EncryptionProofs ---------------------------
(***************************************************************************)
(* Theorems about LocalEncryption, for any passwords and any number of     *)
(* faults.                                                                 *)
(***************************************************************************)
EXTENDS LocalEncryption, TLAPS

-----------------------------------------------------------------------------
(* The inductive invariant.                                                *)

Enabling == {"salt", "wrap", "undo", "undo_"} \cup Encrypting

KeyAt(f) == disk[f].key

\* What the steps of a request can rely on, whatever earlier ones have left.
KeysInStep ==
    /\ step # "idle" => password \in Passwords
    /\ step \in {"salt", "wrap", "undo_", "unkey_"} => keyFile = "no"
    /\ step \in Encrypting \cup Decrypting \cup Changing \cup {"undo", "unkey"} =>
          keyFile \in Passwords
    /\ step \in Encrypting => keyFile = password
    /\ step \in Encrypting \cup Decrypting \cup {"undo", "unkey", "unsalt"} => salt = "fits"

\* Where the database is at each step of an encryption, and of a decryption.
FilesInStep ==
    /\ step \in {"salt", "wrap", "copy"} => KeyAt("local.db") = "plain"
    /\ step = "aside" =>
          /\ KeyAt("local.db") = "plain"
          /\ disk["encrypted.db"] = Kept(disk["local.db"].rows)
    /\ step = "swap" =>
          /\ disk["local.db"] = NoFile /\ KeyAt("unencrypted.bak") = "plain"
          /\ disk["encrypted.db"] = Kept(disk["unencrypted.bak"].rows)
    /\ step = "drop" =>
          /\ disk["local.db"] = Kept(disk["unencrypted.bak"].rows)
          /\ KeyAt("unencrypted.bak") = "plain"
    /\ step \in {"export"} \cup Changing => KeyAt("local.db") = "kept"
    /\ step = "aside_" =>
          /\ KeyAt("local.db") = "kept"
          /\ disk["decrypted.db"] = Plain(disk["local.db"].rows)
    /\ step = "swap_" =>
          /\ disk["local.db"] = NoFile /\ KeyAt("encrypted.bak") = "kept"
          /\ disk["decrypted.db"] = Plain(disk["encrypted.bak"].rows)
    /\ step = "drop_" =>
          /\ disk["local.db"] = Plain(disk["encrypted.bak"].rows)
          /\ KeyAt("encrypted.bak") = "kept"
    /\ step \in {"unkey", "unkey_"} => KeyAt("local.db") = "plain"

\* Only the backup of an encryption and a decryption under way are in the clear
\* beside the database itself.
PlainOnlyWhere ==
    /\ KeyAt("encrypted.db") # "plain" /\ KeyAt("encrypted.bak") # "plain"
    /\ keyFile = "no" \/ step \in Enabling \cup {"drop_", "unkey"} =>
          KeyAt("decrypted.db") # "plain"

Only(some) == \A f \in Files \ some : disk[f] = NoFile

\* While nothing has failed there is one copy of the rows, and a second only in
\* the middle of a request.
NothingFailed ==
    faults = 0 =>
        /\ step = "idle" =>
              /\ Only({"local.db"}) /\ disk["local.db"].rows
              /\ told = None => KeyAt("local.db") = "plain" /\ keyFile = "no"
              /\ told # None => KeyAt("local.db") = "kept" /\ Unlocks(told)
        /\ step \in {"salt", "wrap", "copy", "export", "unkey", "unkey_"} \cup Changing =>
              Only({"local.db"}) /\ disk["local.db"].rows
        /\ step = "aside" => Only({"local.db", "encrypted.db"}) /\ disk["local.db"].rows
        /\ step = "swap" => Only({"encrypted.db", "unencrypted.bak"})
                            /\ disk["unencrypted.bak"].rows
        /\ step = "drop" => Only({"local.db", "unencrypted.bak"}) /\ disk["local.db"].rows
        /\ step = "aside_" => Only({"local.db", "decrypted.db"}) /\ disk["local.db"].rows
        /\ step = "swap_" => Only({"decrypted.db", "encrypted.bak"})
                             /\ disk["encrypted.bak"].rows
        /\ step = "drop_" => Only({"local.db", "encrypted.bak"}) /\ disk["local.db"].rows
        /\ step \notin {"undo", "undo_"}

IInv == TypeOK /\ KeysInStep /\ FilesInStep /\ PlainOnlyWhere /\ NothingFailed

Holds(f, key) == disk[f].rows /\ disk[f].key = key

PlainHeld == Holds("local.db", "plain") \/ Holds("unencrypted.bak", "plain")
KeptHeld == Holds("local.db", "kept") \/ Holds("encrypted.bak", "kept")

\* Where the rows are, if rename replaces no file: in the clear from the moment
\* encryption is asked for until its backup is dropped, and again before the key
\* is; else in the database or in the backup of a decryption that was cut short.
RowsHeld ==
    \/ saltTorn
    \/ PlainHeld
    \/ /\ KeptHeld /\ (salt = "fits" \/ step \in Changing)
       /\ step \notin Enabling \cup {"unkey", "unkey_"}

LEMMA FileContents ==
    /\ NoFile \in Contents
    /\ \A b \in BOOLEAN : Plain(b) \in Contents /\ Kept(b) \in Contents
    /\ \A c \in Contents : c.rows \in BOOLEAN /\ [c EXCEPT !.key = "lost"] \in Contents
<1>1. NoFile \in Contents
  BY DEF Contents, NoFile
<1>2. \A b \in BOOLEAN : Plain(b) \in Contents /\ Kept(b) \in Contents
  BY DEF Contents, Plain, Kept
<1>3. \A c \in Contents : c.rows \in BOOLEAN /\ [c EXCEPT !.key = "lost"] \in Contents
  BY DEF Contents
<1> QED BY <1>1, <1>2, <1>3

LEMMA InitInv == Init => IInv
<1> SUFFICES ASSUME Init PROVE IInv
  OBVIOUS
<1>1. /\ disk \in [Files -> Contents]
      /\ \A f \in Files : disk[f].key # "kept"
      /\ \A f \in Files \ {"local.db"} : disk[f] = NoFile
  <2>1. /\ disk = [f \in Files |-> IF f = "local.db" THEN Plain(TRUE) ELSE NoFile]
    BY DEF Init
  <2>2. \A f \in Files : disk[f] \in {Plain(TRUE), NoFile} /\ (f # "local.db" => disk[f] = NoFile)
    BY <2>1
  <2>3. \A c \in {Plain(TRUE), NoFile} : c.key # "kept"
    BY DEF Plain, NoFile
  <2> QED BY <2>1, <2>2, <2>3, FileContents
<1>2. disk["local.db"].rows /\ KeyAt("local.db") = "plain"
  BY DEF Init, Files, Plain, KeyAt
<1>3. TypeOK
  <2>1. /\ keyFile = "no" /\ salt = "no" /\ step = "idle" /\ password = None
        /\ told = None /\ faults = 0 /\ saltTorn = FALSE
    BY DEF Init
  <2>2. step \in Steps
    BY <2>1 DEF Steps
  <2>3. faults \in 0..MaxFaults
    BY <2>1, EncryptionAssumption
  <2> QED BY <1>1, <2>1, <2>2, <2>3 DEF TypeOK
<1>4. KeysInStep /\ FilesInStep
  BY DEF Init, KeysInStep, FilesInStep, Enabling, Encrypting, Decrypting, Changing
<1>5. PlainOnlyWhere
  <2>1. \A f \in Files \ {"local.db"} : KeyAt(f) # "plain"
    BY <1>1 DEF NoFile, KeyAt
  <2> QED BY <2>1 DEF PlainOnlyWhere, Files
<1>6. NothingFailed
  BY <1>1, <1>2 DEF Init, NothingFailed, Only, Encrypting, Decrypting, Changing
<1> QED BY <1>3, <1>4, <1>5, <1>6 DEF IInv

-----------------------------------------------------------------------------
(* The requests.                                                           *)

USE DEF Files, Contents, Plain, Kept, NoFile, KeyAt, Enabling, Encrypting, Decrypting, Changing

LEMMA RequestStep == ASSUME IInv, Request PROVE IInv'
<1> USE DEF IInv, Request, OpensPlain, Quiet, Present
<1>1. TypeOK'
  <2>1. disk' \in [Files -> Contents]
    <3> HIDE DEF Contents, Plain, Kept, NoFile
    <3> QED BY FileContents DEF TypeOK
  <2>2. (\E f \in Files : KeyAt(f)' = "kept") => keyFile' \in Passwords
    BY DEF TypeOK, KeysInStep
  <2> QED BY <2>1, <2>2, EncryptionAssumption DEF TypeOK, Steps, KeysInStep
<1>2. KeysInStep'
  BY DEF KeysInStep
<1>3. FilesInStep'
  BY DEF FilesInStep, KeysInStep, TypeOK
<1>4. PlainOnlyWhere'
  BY EncryptionAssumption DEF PlainOnlyWhere, FilesInStep, KeysInStep, TypeOK
<1>5. NothingFailed'
  BY EncryptionAssumption DEF NothingFailed, FilesInStep, KeysInStep, Only, Unlocks, TypeOK
<1> QED BY <1>1, <1>2, <1>3, <1>4, <1>5

LEMMA UnlockStep == ASSUME IInv, NEW pw \in Passwords, Unlock(pw) PROVE IInv'
<1> USE DEF IInv, Unlock, Unlocks, OpensKept, SaltMade, Quiet, Present
<1>1. TypeOK'
  <2>1. disk' \in [Files -> Contents]
    <3> HIDE DEF Contents, Plain, Kept, NoFile
    <3> QED BY FileContents DEF TypeOK
  <2>2. (\E f \in Files : KeyAt(f)' = "kept") => keyFile' \in Passwords
    BY DEF TypeOK, KeysInStep
  <2> QED BY <2>1, <2>2, EncryptionAssumption DEF TypeOK, Steps, KeysInStep
<1>2. KeysInStep'
  BY DEF KeysInStep
<1>3. FilesInStep'
  BY DEF FilesInStep, KeysInStep, TypeOK
<1>4. PlainOnlyWhere'
  BY EncryptionAssumption DEF PlainOnlyWhere, FilesInStep, KeysInStep, TypeOK
<1>5. NothingFailed'
  BY EncryptionAssumption DEF NothingFailed, FilesInStep, KeysInStep, Only, Unlocks, TypeOK
<1> QED BY <1>1, <1>2, <1>3, <1>4, <1>5

LEMMA EnableStep == ASSUME IInv, NEW pw \in Passwords, Enable(pw) PROVE IInv'
<1> USE DEF IInv, Enable, OpensPlain, Begin, Quiet, Present
<1>1. TypeOK'
  <2>1. disk' \in [Files -> Contents]
    <3> HIDE DEF Contents, Plain, Kept, NoFile
    <3> QED BY FileContents DEF TypeOK
  <2>2. (\E f \in Files : KeyAt(f)' = "kept") => keyFile' \in Passwords
    BY DEF TypeOK, KeysInStep
  <2> QED BY <2>1, <2>2, EncryptionAssumption DEF TypeOK, Steps, KeysInStep
<1>2. KeysInStep'
  BY DEF KeysInStep
<1>3. FilesInStep'
  BY DEF FilesInStep, KeysInStep, TypeOK
<1>4. PlainOnlyWhere'
  BY EncryptionAssumption DEF PlainOnlyWhere, FilesInStep, KeysInStep, TypeOK
<1>5. NothingFailed'
  BY EncryptionAssumption DEF NothingFailed, FilesInStep, KeysInStep, Only, Unlocks, TypeOK
<1> QED BY <1>1, <1>2, <1>3, <1>4, <1>5

LEMMA ChangePasswordStep == ASSUME IInv, NEW old \in Passwords, NEW new \in Passwords,
                                   ChangePassword(old, new) PROVE IInv'
<1> USE DEF IInv, ChangePassword, Unlocks, OpensKept, Begin, Quiet, Present
<1>1. TypeOK'
  <2>1. disk' \in [Files -> Contents]
    <3> HIDE DEF Contents, Plain, Kept, NoFile
    <3> QED BY FileContents DEF TypeOK
  <2>2. (\E f \in Files : KeyAt(f)' = "kept") => keyFile' \in Passwords
    BY DEF TypeOK, KeysInStep
  <2> QED BY <2>1, <2>2, EncryptionAssumption DEF TypeOK, Steps, KeysInStep
<1>2. KeysInStep'
  BY DEF KeysInStep
<1>3. FilesInStep'
  BY DEF FilesInStep, KeysInStep, TypeOK
<1>4. PlainOnlyWhere'
  BY EncryptionAssumption DEF PlainOnlyWhere, FilesInStep, KeysInStep, TypeOK
<1>5. NothingFailed'
  BY EncryptionAssumption DEF NothingFailed, FilesInStep, KeysInStep, Only, Unlocks, TypeOK
<1> QED BY <1>1, <1>2, <1>3, <1>4, <1>5

LEMMA DisableStep == ASSUME IInv, NEW pw \in Passwords, Disable(pw) PROVE IInv'
<1> USE DEF IInv, Disable, Unlocks, OpensKept, Begin, Quiet, Present
<1>1. TypeOK'
  <2>1. disk' \in [Files -> Contents]
    <3> HIDE DEF Contents, Plain, Kept, NoFile
    <3> QED BY FileContents DEF TypeOK
  <2>2. (\E f \in Files : KeyAt(f)' = "kept") => keyFile' \in Passwords
    BY DEF TypeOK, KeysInStep
  <2> QED BY <2>1, <2>2, EncryptionAssumption DEF TypeOK, Steps, KeysInStep
<1>2. KeysInStep'
  BY DEF KeysInStep
<1>3. FilesInStep'
  BY DEF FilesInStep, KeysInStep, TypeOK
<1>4. PlainOnlyWhere'
  BY EncryptionAssumption DEF PlainOnlyWhere, FilesInStep, KeysInStep, TypeOK
<1>5. NothingFailed'
  BY EncryptionAssumption DEF NothingFailed, FilesInStep, KeysInStep, Only, Unlocks, TypeOK
<1> QED BY <1>1, <1>2, <1>3, <1>4, <1>5

-----------------------------------------------------------------------------
(* The steps that succeed.                                                 *)

LEMMA MakeSaltStep == ASSUME IInv, MakeSalt PROVE IInv'
<1> USE DEF IInv, MakeSalt, At, SaltMade, Quiet
<1>1. TypeOK'
  BY EncryptionAssumption DEF TypeOK, Steps, KeysInStep
<1>2. KeysInStep'
  BY DEF KeysInStep
<1>3. FilesInStep'
  BY DEF FilesInStep, KeysInStep, TypeOK
<1>4. PlainOnlyWhere'
  BY EncryptionAssumption DEF PlainOnlyWhere, FilesInStep, KeysInStep, TypeOK
<1>5. NothingFailed'
  BY EncryptionAssumption DEF NothingFailed, FilesInStep, KeysInStep, Only, Unlocks, TypeOK
<1> QED BY <1>1, <1>2, <1>3, <1>4, <1>5

LEMMA WriteKeyStep == ASSUME IInv, WriteKey PROVE IInv'
<1> USE DEF IInv, WriteKey, At, Quiet
<1>1. TypeOK'
  BY EncryptionAssumption DEF TypeOK, Steps, KeysInStep
<1>2. KeysInStep'
  BY DEF KeysInStep
<1>3. FilesInStep'
  BY DEF FilesInStep, KeysInStep, TypeOK
<1>4. PlainOnlyWhere'
  BY EncryptionAssumption DEF PlainOnlyWhere, FilesInStep, KeysInStep, TypeOK
<1>5. NothingFailed'
  BY EncryptionAssumption DEF NothingFailed, FilesInStep, KeysInStep, Only, Unlocks, TypeOK
<1> QED BY <1>1, <1>2, <1>3, <1>4, <1>5

LEMMA CopyStep == ASSUME IInv, Copy PROVE IInv'
<1> USE DEF IInv, Copy, At, Present, Quiet
<1>1. TypeOK'
  BY EncryptionAssumption DEF TypeOK, Steps, KeysInStep
<1>2. KeysInStep'
  BY DEF KeysInStep
<1>3. FilesInStep'
  BY DEF FilesInStep, KeysInStep, TypeOK
<1>4. PlainOnlyWhere'
  BY EncryptionAssumption DEF PlainOnlyWhere, FilesInStep, KeysInStep, TypeOK
<1>5. NothingFailed'
  BY EncryptionAssumption DEF NothingFailed, FilesInStep, KeysInStep, Only, Unlocks, TypeOK
<1> QED BY <1>1, <1>2, <1>3, <1>4, <1>5

LEMMA SetAsideStep == ASSUME IInv, SetAside PROVE IInv'
<1> USE DEF IInv, SetAside, At, Rename, Present, Quiet
<1>1. TypeOK'
  BY EncryptionAssumption DEF TypeOK, Steps, KeysInStep
<1>2. KeysInStep'
  BY DEF KeysInStep
<1>3. FilesInStep'
  BY DEF FilesInStep, KeysInStep, TypeOK
<1>4. PlainOnlyWhere'
  BY EncryptionAssumption DEF PlainOnlyWhere, FilesInStep, KeysInStep, TypeOK
<1>5. NothingFailed'
  BY EncryptionAssumption DEF NothingFailed, FilesInStep, KeysInStep, Only, Unlocks, TypeOK
<1> QED BY <1>1, <1>2, <1>3, <1>4, <1>5

LEMMA SwapStep == ASSUME IInv, Swap PROVE IInv'
<1> USE DEF IInv, Swap, At, Rename, Present, Quiet
<1>1. TypeOK'
  BY EncryptionAssumption DEF TypeOK, Steps, KeysInStep
<1>2. KeysInStep'
  BY DEF KeysInStep
<1>3. FilesInStep'
  BY DEF FilesInStep, KeysInStep, TypeOK
<1>4. PlainOnlyWhere'
  BY EncryptionAssumption DEF PlainOnlyWhere, FilesInStep, KeysInStep, TypeOK
<1>5. NothingFailed'
  BY EncryptionAssumption DEF NothingFailed, FilesInStep, KeysInStep, Only, Unlocks, TypeOK
<1> QED BY <1>1, <1>2, <1>3, <1>4, <1>5

LEMMA DropBackupStep == ASSUME IInv, DropBackup PROVE IInv'
<1> USE DEF IInv, DropBackup, Unlink, Reply, Return
<1>1. TypeOK'
  BY EncryptionAssumption DEF TypeOK, Steps, KeysInStep
<1>2. KeysInStep'
  BY DEF KeysInStep
<1>3. FilesInStep'
  BY DEF FilesInStep, KeysInStep, TypeOK
<1>4. PlainOnlyWhere'
  BY EncryptionAssumption DEF PlainOnlyWhere, FilesInStep, KeysInStep, TypeOK
<1>5. NothingFailed'
  BY EncryptionAssumption DEF NothingFailed, FilesInStep, KeysInStep, Only, Unlocks, TypeOK
<1> QED BY <1>1, <1>2, <1>3, <1>4, <1>5

LEMMA ExportStep == ASSUME IInv, Export PROVE IInv'
<1> USE DEF IInv, Export, At, Present, Quiet
<1>1. TypeOK'
  BY EncryptionAssumption DEF TypeOK, Steps, KeysInStep
<1>2. KeysInStep'
  BY DEF KeysInStep
<1>3. FilesInStep'
  BY DEF FilesInStep, KeysInStep, TypeOK
<1>4. PlainOnlyWhere'
  BY EncryptionAssumption DEF PlainOnlyWhere, FilesInStep, KeysInStep, TypeOK
<1>5. NothingFailed'
  BY EncryptionAssumption DEF NothingFailed, FilesInStep, KeysInStep, Only, Unlocks, TypeOK
<1> QED BY <1>1, <1>2, <1>3, <1>4, <1>5

LEMMA SetAsideEncryptedStep == ASSUME IInv, SetAsideEncrypted PROVE IInv'
<1> USE DEF IInv, SetAsideEncrypted, At, Rename, Present, Quiet
<1>1. TypeOK'
  BY EncryptionAssumption DEF TypeOK, Steps, KeysInStep
<1>2. KeysInStep'
  BY DEF KeysInStep
<1>3. FilesInStep'
  BY DEF FilesInStep, KeysInStep, TypeOK
<1>4. PlainOnlyWhere'
  BY EncryptionAssumption DEF PlainOnlyWhere, FilesInStep, KeysInStep, TypeOK
<1>5. NothingFailed'
  BY EncryptionAssumption DEF NothingFailed, FilesInStep, KeysInStep, Only, Unlocks, TypeOK
<1> QED BY <1>1, <1>2, <1>3, <1>4, <1>5

LEMMA SwapDecryptedStep == ASSUME IInv, SwapDecrypted PROVE IInv'
<1> USE DEF IInv, SwapDecrypted, At, Rename, Present, Quiet
<1>1. TypeOK'
  BY EncryptionAssumption DEF TypeOK, Steps, KeysInStep
<1>2. KeysInStep'
  BY DEF KeysInStep
<1>3. FilesInStep'
  BY DEF FilesInStep, KeysInStep, TypeOK
<1>4. PlainOnlyWhere'
  BY EncryptionAssumption DEF PlainOnlyWhere, FilesInStep, KeysInStep, TypeOK
<1>5. NothingFailed'
  BY EncryptionAssumption DEF NothingFailed, FilesInStep, KeysInStep, Only, Unlocks, TypeOK
<1> QED BY <1>1, <1>2, <1>3, <1>4, <1>5

LEMMA DropEncryptedStep == ASSUME IInv, DropEncrypted PROVE IInv'
<1> USE DEF IInv, DropEncrypted, At, Unlink, Quiet
<1>1. TypeOK'
  BY EncryptionAssumption DEF TypeOK, Steps, KeysInStep
<1>2. KeysInStep'
  BY DEF KeysInStep
<1>3. FilesInStep'
  BY DEF FilesInStep, KeysInStep, TypeOK
<1>4. PlainOnlyWhere'
  BY EncryptionAssumption DEF PlainOnlyWhere, FilesInStep, KeysInStep, TypeOK
<1>5. NothingFailed'
  BY EncryptionAssumption DEF NothingFailed, FilesInStep, KeysInStep, Only, Unlocks, TypeOK
<1> QED BY <1>1, <1>2, <1>3, <1>4, <1>5

LEMMA DropKeyStep == ASSUME IInv, DropKey PROVE IInv'
<1> USE DEF IInv, DropKey, KeyGone, Quiet
<1>1. TypeOK'
  BY EncryptionAssumption DEF TypeOK, Steps, KeysInStep
<1>2. KeysInStep'
  BY DEF KeysInStep
<1>3. FilesInStep'
  BY DEF FilesInStep, KeysInStep, TypeOK
<1>4. PlainOnlyWhere'
  BY EncryptionAssumption DEF PlainOnlyWhere, FilesInStep, KeysInStep, TypeOK
<1>5. NothingFailed'
  BY EncryptionAssumption DEF NothingFailed, FilesInStep, KeysInStep, Only, Unlocks, TypeOK
<1> QED BY <1>1, <1>2, <1>3, <1>4, <1>5

LEMMA DropSaltStep == ASSUME IInv, DropSalt PROVE IInv'
<1> USE DEF IInv, DropSalt, Reply, Return
<1>1. TypeOK'
  BY EncryptionAssumption DEF TypeOK, Steps, KeysInStep
<1>2. KeysInStep'
  BY DEF KeysInStep
<1>3. FilesInStep'
  BY DEF FilesInStep, KeysInStep, TypeOK
<1>4. PlainOnlyWhere'
  BY EncryptionAssumption DEF PlainOnlyWhere, FilesInStep, KeysInStep, TypeOK
<1>5. NothingFailed'
  BY EncryptionAssumption DEF NothingFailed, FilesInStep, KeysInStep, Only, Unlocks, TypeOK
<1> QED BY <1>1, <1>2, <1>3, <1>4, <1>5

LEMMA DropOldSaltStep == ASSUME IInv, DropOldSalt PROVE IInv'
<1> USE DEF IInv, DropOldSalt, At, Quiet
<1>1. TypeOK'
  BY EncryptionAssumption DEF TypeOK, Steps, KeysInStep
<1>2. KeysInStep'
  BY DEF KeysInStep
<1>3. FilesInStep'
  BY DEF FilesInStep, KeysInStep, TypeOK
<1>4. PlainOnlyWhere'
  BY EncryptionAssumption DEF PlainOnlyWhere, FilesInStep, KeysInStep, TypeOK
<1>5. NothingFailed'
  BY EncryptionAssumption DEF NothingFailed, FilesInStep, KeysInStep, Only, Unlocks, TypeOK
<1> QED BY <1>1, <1>2, <1>3, <1>4, <1>5

LEMMA MakeNewSaltStep == ASSUME IInv, MakeNewSalt PROVE IInv'
<1> USE DEF IInv, MakeNewSalt, At, SaltMade, Quiet
<1>1. TypeOK'
  BY EncryptionAssumption DEF TypeOK, Steps, KeysInStep
<1>2. KeysInStep'
  BY DEF KeysInStep
<1>3. FilesInStep'
  BY DEF FilesInStep, KeysInStep, TypeOK
<1>4. PlainOnlyWhere'
  BY EncryptionAssumption DEF PlainOnlyWhere, FilesInStep, KeysInStep, TypeOK
<1>5. NothingFailed'
  BY EncryptionAssumption DEF NothingFailed, FilesInStep, KeysInStep, Only, Unlocks, TypeOK
<1> QED BY <1>1, <1>2, <1>3, <1>4, <1>5

LEMMA RewriteKeyStep == ASSUME IInv, RewriteKey PROVE IInv'
<1> USE DEF IInv, RewriteKey, Reply, Return
<1>1. TypeOK'
  BY EncryptionAssumption DEF TypeOK, Steps, KeysInStep
<1>2. KeysInStep'
  BY DEF KeysInStep
<1>3. FilesInStep'
  BY DEF FilesInStep, KeysInStep, TypeOK
<1>4. PlainOnlyWhere'
  BY EncryptionAssumption DEF PlainOnlyWhere, FilesInStep, KeysInStep, TypeOK
<1>5. NothingFailed'
  BY EncryptionAssumption DEF NothingFailed, FilesInStep, KeysInStep, Only, Unlocks, TypeOK
<1> QED BY <1>1, <1>2, <1>3, <1>4, <1>5

-----------------------------------------------------------------------------
(* The steps that raise, and the death of the process.                     *)

LEMMA EncryptFailsStep == ASSUME IInv, EncryptFails PROVE IInv'
<1> USE DEF IInv, EncryptFails, Raises, Fault, CanStep, Unfinished, Unlink,
            Present, Return
<1>1. TypeOK'
  <2>1. disk' \in [Files -> Contents]
    <3> HIDE DEF Contents, Plain, Kept, NoFile
    <3> QED BY FileContents DEF TypeOK
  <2>2. (\E f \in Files : KeyAt(f)' = "kept") => keyFile' \in Passwords
    BY DEF TypeOK, KeysInStep
  <2> QED BY <2>1, <2>2, EncryptionAssumption DEF TypeOK, Steps, KeysInStep
<1>2. KeysInStep'
  BY DEF KeysInStep
<1>3. FilesInStep'
  BY DEF FilesInStep, KeysInStep, TypeOK
<1>4. PlainOnlyWhere'
  BY EncryptionAssumption DEF PlainOnlyWhere, FilesInStep, KeysInStep, TypeOK
<1>5. NothingFailed'
  BY EncryptionAssumption DEF NothingFailed, FilesInStep, KeysInStep, Only, Unlocks, TypeOK
<1> QED BY <1>1, <1>2, <1>3, <1>4, <1>5

LEMMA DecryptFailsStep == ASSUME IInv, DecryptFails PROVE IInv'
<1> USE DEF IInv, DecryptFails, Raises, Fault, CanStep, Unfinished, Unlink,
            Present, Return
<1>1. TypeOK'
  <2>1. disk' \in [Files -> Contents]
    <3> HIDE DEF Contents, Plain, Kept, NoFile
    <3> QED BY FileContents DEF TypeOK
  <2>2. (\E f \in Files : KeyAt(f)' = "kept") => keyFile' \in Passwords
    BY DEF TypeOK, KeysInStep
  <2> QED BY <2>1, <2>2, EncryptionAssumption DEF TypeOK, Steps, KeysInStep
<1>2. KeysInStep'
  BY DEF KeysInStep
<1>3. FilesInStep'
  BY DEF FilesInStep, KeysInStep, TypeOK
<1>4. PlainOnlyWhere'
  BY EncryptionAssumption DEF PlainOnlyWhere, FilesInStep, KeysInStep, TypeOK
<1>5. NothingFailed'
  BY EncryptionAssumption DEF NothingFailed, FilesInStep, KeysInStep, Only, Unlocks, TypeOK
<1> QED BY <1>1, <1>2, <1>3, <1>4, <1>5

LEMMA KeysFailStep == ASSUME IInv, KeysFail PROVE IInv'
<1> USE DEF IInv, KeysFail, Fault, KeyTorn, KeyGone, Return, files
<1>1. TypeOK'
  BY EncryptionAssumption DEF TypeOK, Steps, KeysInStep
<1>2. KeysInStep'
  BY DEF KeysInStep
<1>3. FilesInStep'
  BY DEF FilesInStep, KeysInStep, TypeOK
<1>4. PlainOnlyWhere'
  BY EncryptionAssumption DEF PlainOnlyWhere, FilesInStep, KeysInStep, TypeOK
<1>5. NothingFailed'
  BY EncryptionAssumption DEF NothingFailed, FilesInStep, KeysInStep, Only, Unlocks, TypeOK
<1> QED BY <1>1, <1>2, <1>3, <1>4, <1>5

LEMMA CrashStep == ASSUME IInv, Crash PROVE IInv'
<1> USE DEF IInv, Crash, Fault, KeyTorn, KeyGone, CanStep, Unfinished, Present,
            Return, files
<1>1. TypeOK'
  <2>1. disk' \in [Files -> Contents]
    <3> HIDE DEF Contents, Plain, Kept, NoFile
    <3>1. Unfinished \in [Files -> Contents]
      BY FileContents DEF TypeOK
    <3>2. KeyGone(disk) \in [Files -> Contents]
      BY FileContents DEF TypeOK
    <3> QED BY <3>1, <3>2 DEF TypeOK
  <2>2. (\E f \in Files : KeyAt(f)' = "kept") => keyFile' \in Passwords
    BY DEF TypeOK, KeysInStep
  <2> QED BY <2>1, <2>2, EncryptionAssumption DEF TypeOK, Steps, KeysInStep
<1>2. KeysInStep'
  BY DEF KeysInStep
<1>3. FilesInStep'
  BY DEF FilesInStep, KeysInStep, TypeOK
<1>4. PlainOnlyWhere'
  BY EncryptionAssumption DEF PlainOnlyWhere, FilesInStep, KeysInStep, TypeOK
<1>5. NothingFailed'
  BY EncryptionAssumption DEF NothingFailed, FilesInStep, KeysInStep, Only, Unlocks, TypeOK
<1> QED BY <1>1, <1>2, <1>3, <1>4, <1>5

-----------------------------------------------------------------------------
(* Where the rows are.                                                     *)

USE DEF RowsHeld, PlainHeld, KeptHeld, Holds

Requested ==
    \/ Request
    \/ \E pw \in Passwords :
        Unlock(pw) \/ Enable(pw) \/ Disable(pw) \/ \E new \in Passwords : ChangePassword(pw, new)

LEMMA RequestsHold == ASSUME IInv, RowsHeld, Requested PROVE RowsHeld'
<1> USE DEF IInv, TypeOK, Quiet, Present
<1>1. CASE Request
  BY <1>1 DEF Request, OpensPlain
<1>2. ASSUME NEW pw \in Passwords, Unlock(pw) PROVE RowsHeld'
  BY <1>2 DEF Unlock, OpensKept, SaltMade
<1>3. ASSUME NEW pw \in Passwords, Enable(pw) PROVE RowsHeld'
  BY <1>3, EncryptionAssumption DEF Enable, OpensPlain, Begin
<1>4. ASSUME NEW pw \in Passwords, Disable(pw) PROVE RowsHeld'
  BY <1>4 DEF Disable, OpensKept, Begin, Unlocks
<1>5. ASSUME NEW pw \in Passwords, NEW new \in Passwords, ChangePassword(pw, new)
      PROVE  RowsHeld'
  BY <1>5 DEF ChangePassword, OpensKept, Begin, Unlocks
<1> HIDE DEF RowsHeld
<1> QED BY <1>1, <1>2, <1>3, <1>4, <1>5 DEF Requested

\* The database is set aside only under a name that is free, and its copy takes
\* its place before the backup goes.
LEMMA EncryptionHolds ==
    ASSUME ~Overwrites, IInv, RowsHeld,
           MakeSalt \/ WriteKey \/ Copy \/ SetAside \/ Swap \/ DropBackup
    PROVE  RowsHeld'
<1> USE DEF IInv, At, Quiet, Present
<1>1. CASE MakeSalt
  BY <1>1 DEF MakeSalt, SaltMade
<1>2. CASE WriteKey
  BY <1>2 DEF WriteKey
<1>3. CASE Copy
  BY <1>3 DEF Copy, TypeOK
<1>4. CASE SetAside
  BY <1>4 DEF SetAside, Rename, TypeOK, FilesInStep
<1>5. CASE Swap
  BY <1>5 DEF Swap, Rename, TypeOK, FilesInStep
<1>6. CASE DropBackup
  BY <1>6 DEF DropBackup, Unlink, Reply, Return, TypeOK, FilesInStep, KeysInStep
<1> QED BY <1>1, <1>2, <1>3, <1>4, <1>5, <1>6

LEMMA DecryptionHolds ==
    ASSUME ~Overwrites, IInv, RowsHeld,
           \/ Export \/ SetAsideEncrypted \/ SwapDecrypted \/ DropEncrypted
           \/ DropKey \/ DropSalt
    PROVE  RowsHeld'
<1> USE DEF IInv, At, Quiet, Present
<1>1. CASE Export
  BY <1>1 DEF Export, TypeOK
<1>2. CASE SetAsideEncrypted
  BY <1>2 DEF SetAsideEncrypted, Rename, TypeOK, FilesInStep
<1>3. CASE SwapDecrypted
  BY <1>3 DEF SwapDecrypted, Rename, TypeOK, FilesInStep
<1>4. CASE DropEncrypted
  BY <1>4 DEF DropEncrypted, Unlink, TypeOK, FilesInStep
<1>5. CASE DropKey
  BY <1>5 DEF DropKey, KeyGone, TypeOK
<1>6. CASE DropSalt
  BY <1>6 DEF DropSalt, Reply, Return
<1> QED BY <1>1, <1>2, <1>3, <1>4, <1>5, <1>6

LEMMA ChangeHolds ==
    ASSUME IInv, RowsHeld, DropOldSalt \/ MakeNewSalt \/ RewriteKey
    PROVE  RowsHeld'
BY DEF IInv, At, Quiet, DropOldSalt, MakeNewSalt, SaltMade, RewriteKey, Reply, Return

LEMMA FaultsHold ==
    ASSUME IInv, RowsHeld, EncryptFails \/ DecryptFails \/ KeysFail \/ Crash
    PROVE  RowsHeld'
<1> USE DEF IInv, Return, TypeOK
<1>1. CASE EncryptFails
  BY <1>1 DEF EncryptFails, Unlink, Unfinished
<1>2. CASE DecryptFails
  BY <1>2 DEF DecryptFails, Unlink, Unfinished
<1>3. CASE KeysFail
  BY <1>3, EncryptionAssumption DEF KeysFail, KeyTorn, KeyGone, files, KeysInStep
<1>4. CASE Crash
  BY <1>4, EncryptionAssumption DEF Crash, KeyTorn, KeyGone, Unfinished, files, KeysInStep
<1> QED BY <1>1, <1>2, <1>3, <1>4

-----------------------------------------------------------------------------
(* The theorems.                                                           *)

LEMMA NextInv == IInv /\ [Next]_vars => IInv'
<1> SUFFICES ASSUME IInv, [Next]_vars PROVE IInv'
  OBVIOUS
<1>1. CASE Requested
  BY <1>1, RequestStep, UnlockStep, EnableStep, DisableStep, ChangePasswordStep DEF Requested
<1>2. CASE MakeSalt \/ WriteKey \/ Copy \/ SetAside \/ Swap \/ DropBackup
  BY <1>2, MakeSaltStep, WriteKeyStep, CopyStep, SetAsideStep, SwapStep, DropBackupStep
<1>3. CASE \/ Export \/ SetAsideEncrypted \/ SwapDecrypted \/ DropEncrypted
           \/ DropKey \/ DropSalt
  BY <1>3, ExportStep, SetAsideEncryptedStep, SwapDecryptedStep, DropEncryptedStep,
     DropKeyStep, DropSaltStep
<1>4. CASE DropOldSalt \/ MakeNewSalt \/ RewriteKey
  BY <1>4, DropOldSaltStep, MakeNewSaltStep, RewriteKeyStep
<1>5. CASE EncryptFails \/ DecryptFails \/ KeysFail \/ Crash
  BY <1>5, EncryptFailsStep, DecryptFailsStep, KeysFailStep, CrashStep
<1>6. CASE UNCHANGED vars
  BY <1>6 DEF IInv, TypeOK, KeysInStep, FilesInStep, PlainOnlyWhere, NothingFailed, Only,
              Unlocks, vars, files
<1> QED BY <1>1, <1>2, <1>3, <1>4, <1>5, <1>6 DEF Next, Requested

LEMMA RowsInv == ~Overwrites /\ IInv /\ RowsHeld /\ [Next]_vars => RowsHeld'
<1> SUFFICES ASSUME ~Overwrites, IInv, RowsHeld, [Next]_vars PROVE RowsHeld'
  OBVIOUS
<1>1. CASE UNCHANGED vars
  BY <1>1 DEF vars, files
<1>2. CASE Next
  <2> HIDE DEF RowsHeld
  <2> QED BY <1>2, RequestsHold, EncryptionHolds, DecryptionHolds, ChangeHolds, FaultsHold
          DEF Next, Requested
<1> QED BY <1>1, <1>2

\* The invariant holds whatever fails and wherever the process dies.
THEOREM InductiveInvariant == Spec => []IInv
BY InitInv, NextInv, PTL DEF Spec

\* The files, the keys and the request under way have their types, and no file is
\* encrypted with a key the key file does not hold.
THEOREM TypeCorrect == Spec => []TypeOK
<1>1. IInv => TypeOK
  BY DEF IInv
<1> QED BY <1>1, InductiveInvariant, PTL

\* While nothing fails, the database opens as the user was told, holds the rows,
\* and has no second copy.
THEOREM DatabaseOpensAsTold == Spec => []OpensAsTold
<1>1. ASSUME IInv, step = "idle", faults = 0
      PROVE  /\ disk = [f \in Files |-> IF f # "local.db" THEN NoFile
                                       ELSE IF told = None THEN Plain(TRUE) ELSE Kept(TRUE)]
             /\ IF told = None THEN keyFile = "no" ELSE Unlocks(told)
  <2>1. /\ Only({"local.db"}) /\ disk["local.db"].rows
        /\ told = None => KeyAt("local.db") = "plain" /\ keyFile = "no"
        /\ told # None => KeyAt("local.db") = "kept" /\ Unlocks(told)
    BY <1>1 DEF IInv, NothingFailed
  <2>2. disk["local.db"] = IF told = None THEN Plain(TRUE) ELSE Kept(TRUE)
    BY <1>1, <2>1 DEF IInv, TypeOK
  <2> QED BY <1>1, <2>1, <2>2 DEF IInv, TypeOK, Only
<1>2. IInv => OpensAsTold
  BY <1>1 DEF OpensAsTold
<1> QED BY <1>2, InductiveInvariant, PTL

\* Where rename replaces no file, as on Windows: whatever raises and wherever the
\* process dies, a file that can be opened holds the rows, until a change of
\* password is cut short.
THEOREM RowsAreKept == ~Overwrites => (Spec => []RowsSurvive)
<1> SUFFICES ASSUME ~Overwrites PROVE Spec => []RowsSurvive
  OBVIOUS
<1>1. Init => RowsHeld
  BY DEF Init
<1>2. IInv /\ RowsHeld /\ [Next]_vars => RowsHeld'
  BY RowsInv
<1>3. RowsHeld => RowsSurvive
  BY DEF RowsSurvive
<1> QED BY <1>1, <1>2, <1>3, InductiveInvariant, PTL DEF Spec

\* "Database encrypted successfully": no file is left in the clear.
THEOREM NothingPlainIsLeft == Spec => EncryptedLeavesNothingPlain
<1>1. ASSUME IInv, DropBackup PROVE \A f \in Files : disk'[f].key # "plain"
  BY <1>1 DEF IInv, TypeOK, DropBackup, Unlink, FilesInStep, PlainOnlyWhere
<1>2. IInv /\ [Next]_vars => [DropBackup => \A f \in Files : disk'[f].key # "plain"]_vars
  BY <1>1
<1> QED BY <1>2, InductiveInvariant, PTL DEF Spec, EncryptedLeavesNothingPlain
===============================================================================
