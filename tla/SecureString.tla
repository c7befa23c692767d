---------------------------- MODULE SecureString ----------------------------
(***************************************************************************)
(* securestring.SecureStringDriver over the envelope encryption of package *)
(* kms (src/gorm/driver/securestring, src/kms): one encrypted column and   *)
(* the driver values that handlers hold of it.  A text is encrypted with a *)
(* data key of its own, which is stored wrapped by a master key beside the *)
(* name of that master key; ReEncrypt wraps the data key anew.  Ciphers    *)
(* are symbolic: what was sealed with a key opens with that key.           *)
(***************************************************************************)
EXTENDS Integers

CONSTANTS
  Obj,      \* driver values
  Text,     \* plain texts but the empty one
  MaxDek,   \* bound: how many data keys are generated
  MaxKey    \* bound: master keys 1..MaxKey

Empty == ""

ASSUME SecureStringAssumption ==
  MaxDek \in Nat /\ MaxKey \in Nat \ {0} /\ Empty \notin Text

Null == [sealed |-> Empty, by |-> 0, dek |-> 0, wrap |-> 0, key |-> 0]

\* types.EncryptedInfo: Ciphertext, a text sealed by a data key; WrappedDEK, a
\* data key wrapped by a master key; and KeyVersion, which names a master key.
EncryptedInfo ==
  [sealed : Text, by : 1..MaxDek, dek : 1..MaxDek, wrap : 1..MaxKey, key : 1..MaxKey] \cup {Null}

VARIABLES
  column,   \* the column, Null for NULL
  deks,     \* how many data keys were generated
  keyId,    \* the master key the process was configured with
  obj,      \* each driver value: rawText and encryptedInfo
  given,    \* history: the text New or the last Scan gave each value
  told,     \* what String has returned since, "none" if it was not called
  reused,   \* history: the values that were scanned while they held a text
  job       \* what a caller of ReEncrypt has yet to write to the column

vars == <<column, deks, keyId, obj, given, told, reused, job>>

Blank == [raw |-> Empty, info |-> Null]

TypeOK ==
  /\ column \in EncryptedInfo
  /\ deks \in 0..MaxDek /\ keyId \in 1..MaxKey
  /\ obj \in [Obj -> [raw : Text \cup {Empty}, info : EncryptedInfo]]
  /\ given \in [Obj -> Text \cup {Empty}]
  /\ told \in [Obj -> Text \cup {Empty, "none"}]
  /\ reused \subseteq Obj
  /\ job \in EncryptedInfo

Init ==
  /\ column = Null /\ deks = 0 /\ keyId = 1
  /\ obj = [o \in Obj |-> Blank]
  /\ given = [o \in Obj |-> Empty]
  /\ told = [o \in Obj |-> "none"]
  /\ reused = {}
  /\ job = Null

----------------------------------------------------------------------------
(* package kms *)

\* genDek: a data key nobody else has.
GenDek == deks + 1

\* Encrypt seals the text with a new data key and wraps that.
Encrypt(text) ==
  [sealed |-> text, by |-> GenDek, dek |-> GenDek, wrap |-> keyId, key |-> keyId]

\* KMS unwraps a data key only for the master key that wrapped it.
Unwraps(info) == info.wrap = info.key

\* Decrypt asks KMS for the data key, naming KeyVersion, and opens the text.
Opens(info)   == Unwraps(info) /\ info.by = info.dek
Decrypt(info) == info.sealed

\* Mutant: the new KeyVersion is not stored.
ReEncryptOldVersion(info) == [info EXCEPT !.wrap = keyId]

\* ReEncrypt asks KMS to wrap the data key with the configured master key.
ReEncrypt(info) == [info EXCEPT !.wrap = keyId, !.key = keyId]

----------------------------------------------------------------------------
(* SecureStringDriver *)

New(o, text) ==
  /\ obj[o] = Blank
  /\ obj' = [obj EXCEPT ![o].raw = text]
  /\ given' = [given EXCEPT ![o] = text]
  /\ UNCHANGED <<column, deks, keyId, told, reused, job>>

\* Scan, into any value, leaves rawText alone: one that is scanned a second
\* time keeps the text of the first.
Scan(o) ==
  /\ column # Null
  /\ obj' = [obj EXCEPT ![o].info = column]
  /\ given' = [given EXCEPT ![o] = column.sealed]
  /\ told' = [told EXCEPT ![o] = "none"]
  /\ reused' = IF obj[o].raw = Empty THEN reused ELSE reused \cup {o}
  /\ UNCHANGED <<column, deks, keyId, job>>

\* Scan of NULL returns at once, whatever the value holds.
ScanNull(o) ==
  /\ column = Null
  /\ UNCHANGED vars

\* The handler that holds the value is over; the next one has a new value.
Drop(o) ==
  /\ obj[o] # Blank
  /\ obj' = [obj EXCEPT ![o] = Blank]
  /\ given' = [given EXCEPT ![o] = Empty]
  /\ told' = [told EXCEPT ![o] = "none"]
  /\ reused' = reused \ {o}
  /\ UNCHANGED <<column, deks, keyId, job>>

\* Value without a raw text is NULL, whatever encryptedInfo holds.
SaveNull(o) ==
  /\ obj[o].raw = Empty
  /\ column' = Null
  /\ UNCHANGED <<deks, keyId, obj, given, told, reused, job>>

\* Value encrypts once and keeps the result.
SaveNew(o) ==
  /\ obj[o].raw # Empty /\ obj[o].info = Null /\ deks < MaxDek
  /\ obj' = [obj EXCEPT ![o].info = Encrypt(obj[o].raw)]
  /\ column' = obj'[o].info
  /\ deks' = deks + 1
  /\ UNCHANGED <<keyId, given, told, reused, job>>

\* The data key, the seal or the wrapping fails: nothing is kept or written.
SaveErr(o) ==
  /\ obj[o].raw # Empty /\ obj[o].info = Null
  /\ UNCHANGED vars

\* Mutant: Value encrypts the text anew every time.
SaveAfresh(o) ==
  /\ obj[o].raw # Empty /\ obj[o].info # Null /\ deks < MaxDek
  /\ obj' = [obj EXCEPT ![o].info = Encrypt(obj[o].raw)]
  /\ column' = obj'[o].info
  /\ deks' = deks + 1
  /\ UNCHANGED <<keyId, given, told, reused, job>>

\* Value writes the encryption it has and does not look at the text.
SaveAgain(o) ==
  /\ obj[o].raw # Empty /\ obj[o].info # Null
  /\ column' = obj[o].info
  /\ UNCHANGED <<deks, keyId, obj, given, told, reused, job>>

\* String of a value that was never saved or loaded is empty.
StringBlank(o) ==
  /\ obj[o].info = Null
  /\ told' = [told EXCEPT ![o] = Empty]
  /\ UNCHANGED <<column, deks, keyId, obj, given, reused, job>>

StringCached(o) ==
  /\ obj[o].info # Null /\ obj[o].raw # Empty
  /\ told' = [told EXCEPT ![o] = obj[o].raw]
  /\ UNCHANGED <<column, deks, keyId, obj, given, reused, job>>

\* String decrypts and keeps the result; an error changes nothing.
StringDecrypts(o) ==
  /\ obj[o].info # Null /\ obj[o].raw = Empty
  /\ Opens(obj[o].info)
  /\ obj' = [obj EXCEPT ![o].raw = Decrypt(obj[o].info)]
  /\ told' = [told EXCEPT ![o] = Decrypt(obj[o].info)]
  /\ UNCHANGED <<column, deks, keyId, given, reused, job>>

----------------------------------------------------------------------------
(* The process and the callers of ReEncrypt *)

\* A new process, without values, is configured with another master key.
Restart ==
  /\ keyId' \in 1..MaxKey \ {keyId}
  /\ obj' = [o \in Obj |-> Blank]
  /\ given' = [o \in Obj |-> Empty]
  /\ told' = [o \in Obj |-> "none"]
  /\ reused' = {}
  /\ job' = Null
  /\ UNCHANGED <<column, deks>>

\* Nothing in the repository calls ReEncrypt.  A program that does reads the
\* column and, beside handlers that load and save it, writes it back later.
CallReEncrypt ==
  /\ column # Null /\ Unwraps(column) /\ job = Null
  /\ job' = ReEncrypt(column)
  /\ UNCHANGED <<column, deks, keyId, obj, given, told, reused>>

WriteBack ==
  /\ job # Null
  /\ column' = job
  /\ job' = Null
  /\ UNCHANGED <<deks, keyId, obj, given, told, reused>>

Next ==
  \/ \E o \in Obj :
       \/ \E text \in Text : New(o, text)
       \/ Scan(o) \/ ScanNull(o) \/ Drop(o)
       \/ SaveNull(o) \/ SaveNew(o) \/ SaveErr(o) \/ SaveAgain(o)
       \/ StringBlank(o) \/ StringCached(o) \/ StringDecrypts(o)
  \/ Restart \/ CallReEncrypt \/ WriteBack

Spec == Init /\ [][Next]_vars

----------------------------------------------------------------------------
(* Properties *)

\* The column can always be read back, under any configured key: through saves
\* of values loaded before it was rewrapped and rewrapped columns written back
\* late, its KeyVersion unwraps its data key and that opens its text.
ColumnReadable == column # Null => Opens(column)

\* What Value writes, unless it writes NULL, is the text the value was last
\* given, even if rawText still holds an older one; and String has returned
\* that text, or nothing, unless the value was scanned over a text.
SavesWhatItWasGiven ==
  \A o \in Obj :
    /\ obj[o].info # Null => obj[o].info.sealed = given[o]
    /\ o \notin reused => told[o] \in {"none", Empty, given[o]}

\* README line 3, "automatic encryption when saving to the database and lazy
\* decryption when reading": saving a value that was read leaves the secret in
\* the column as it was read, whether or not it has been decrypted in between.
DocumentedSave ==
  [][\A o \in Obj : (SaveNull(o) /\ obj[o].info # Null) => column'.sealed = given[o]]_vars
=============================================================================
