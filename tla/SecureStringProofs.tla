------------------------- MODULE SecureStringProofs -------------------------
(***************************************************************************)
(* The encrypted column stays readable and the driver values coherent for  *)
(* any values and texts, any number of data keys and master keys.          *)
(***************************************************************************)
EXTENDS SecureString, TLAPS

\* Everything that is encrypted opens: in the column, in every value, for it
\* may be saved long after the column it was loaded from was rewrapped, and in
\* what a caller of ReEncrypt has still to write back.
ReadableInv == Opens(column) /\ Opens(job) /\ \A o \in Obj : Opens(obj[o].info)

\* The encryption a value holds is of the text it was last given; so is its
\* raw text and what String returned, unless it was scanned over a text.
GivenInv ==
  \A o \in Obj :
    /\ obj[o].info # Null => obj[o].info.sealed = given[o]
    /\ (o \notin reused /\ obj[o].raw # Empty) => obj[o].raw = given[o]
    /\ o \notin reused => told[o] \in {"none", Empty, given[o]}
    /\ o \in reused => obj[o].info # Null
    /\ obj[o] = Blank => given[o] = Empty

IInv == TypeOK /\ ReadableInv /\ GivenInv

----------------------------------------------------------------------------

\* What Encrypt makes is an EncryptedInfo that opens to the text it was given.
LEMMA EncryptOK ==
  ASSUME TypeOK, NEW text \in Text, deks < MaxDek
  PROVE  /\ Encrypt(text) \in EncryptedInfo /\ Encrypt(text) # Null
         /\ Opens(Encrypt(text)) /\ Decrypt(Encrypt(text)) = text
<1>1. deks + 1 \in 1..MaxDek
  BY SecureStringAssumption DEF TypeOK
<1>2. Encrypt(text) = [sealed |-> text, by |-> deks + 1, dek |-> deks + 1,
                          wrap |-> keyId, key |-> keyId]
  BY DEF Encrypt, GenDek
<1>3. Encrypt(text) \in [sealed : Text, by : 1..MaxDek, dek : 1..MaxDek, wrap : 1..MaxKey, key : 1..MaxKey]
  BY <1>1, <1>2 DEF TypeOK
<1>4. Encrypt(text).sealed = text /\ Encrypt(text).by = Encrypt(text).dek /\ Encrypt(text).wrap = Encrypt(text).key
  BY <1>2
<1>5. Encrypt(text) # Null
  BY <1>4, SecureStringAssumption DEF Null
<1> QED
  BY <1>3, <1>4, <1>5 DEF EncryptedInfo, Opens, Unwraps, Decrypt

\* ReEncrypt of what KMS unwraps keeps the text and what opens it.
LEMMA ReEncryptOK ==
  ASSUME TypeOK, NEW info \in EncryptedInfo, info # Null
  PROVE  /\ ReEncrypt(info) \in EncryptedInfo
         /\ ReEncrypt(info).sealed = info.sealed
         /\ Opens(info) => Opens(ReEncrypt(info))
<1>1. info \in [sealed : Text, by : 1..MaxDek, dek : 1..MaxDek, wrap : 1..MaxKey, key : 1..MaxKey]
  BY DEF EncryptedInfo
<1>2. ReEncrypt(info) \in [sealed : Text, by : 1..MaxDek, dek : 1..MaxDek, wrap : 1..MaxKey, key : 1..MaxKey]
  BY <1>1 DEF ReEncrypt, TypeOK
<1> QED
  BY <1>1, <1>2 DEF EncryptedInfo, ReEncrypt, Opens, Unwraps

\* An EncryptedInfo other than Null holds a text.
LEMMA SealedOK ==
  ASSUME NEW info \in EncryptedInfo
  PROVE  info.sealed \in Text \cup {Empty} /\ (info # Null => info.sealed \in Text)
  BY DEF EncryptedInfo, Null

\* Before the first value there is nothing to be read.
LEMMA InitInv == Init => IInv
<1> SUFFICES ASSUME Init PROVE IInv
  OBVIOUS
<1> USE SecureStringAssumption DEF Init
<1>1. Null \in EncryptedInfo /\ Opens(Null)
  BY DEF EncryptedInfo, Null, Opens, Unwraps
<1>2. Blank \in [raw : Text \cup {Empty}, info : EncryptedInfo] /\ Blank.raw = Empty /\ Blank.info = Null
  BY <1>1 DEF Blank
<1>3. TypeOK
  BY <1>1, <1>2 DEF TypeOK
<1> QED
  BY <1>1, <1>2, <1>3 DEF IInv, ReadableInv, GivenInv

\* An empty value, and an empty column, are of their types.
LEMMA Blanks ==
  /\ Null \in EncryptedInfo /\ Opens(Null) /\ Null.sealed = Empty
  /\ Blank \in [raw : Text \cup {Empty}, info : EncryptedInfo] /\ Blank.raw = Empty /\ Blank.info = Null
  BY DEF EncryptedInfo, Null, Opens, Unwraps, Blank

\* Values come and go: New, Scan and Drop.
LEMMA ValueInv ==
  ASSUME IInv, NEW o \in Obj, (\E text \in Text : New(o, text)) \/ Scan(o) \/ Drop(o)
  PROVE  IInv'
<1> USE SecureStringAssumption DEF IInv
<1>1. CASE \E text \in Text : New(o, text)
  <2>1. PICK text \in Text : New(o, text)
    BY <1>1
  <2>2. /\ obj[o] = Blank /\ obj' = [obj EXCEPT ![o].raw = text] /\ given' = [given EXCEPT ![o] = text]
        /\ UNCHANGED <<column, deks, keyId, told, reused, job>>
    BY <2>1 DEF New
  <2>3. /\ obj'[o].raw = text /\ obj'[o].info = Null /\ given'[o] = text
        /\ obj'[o] \in [raw : Text \cup {Empty}, info : EncryptedInfo]
        /\ \A p \in Obj : p # o => obj'[p] = obj[p] /\ given'[p] = given[p]
    BY <2>2, Blanks DEF TypeOK
  <2>4. TypeOK'
    BY <2>2, <2>3 DEF TypeOK
  <2>5. ReadableInv'
    BY <2>2, <2>3, Blanks DEF ReadableInv
  <2>6. obj'[o] # Blank /\ (o \notin reused => told[o] \in {"none", Empty})
    BY <2>2, <2>3, Blanks DEF GivenInv
  <2>7. GivenInv'
    BY <2>2, <2>3, <2>6 DEF GivenInv
  <2> QED
    BY <2>4, <2>5, <2>7
<1>2. CASE Scan(o)
  <2>1. /\ column # Null
        /\ obj' = [obj EXCEPT ![o].info = column] /\ given' = [given EXCEPT ![o] = column.sealed]
        /\ told' = [told EXCEPT ![o] = "none"]
        /\ reused' = IF obj[o].raw = Empty THEN reused ELSE reused \cup {o}
        /\ UNCHANGED <<column, deks, keyId, job>>
    BY <1>2 DEF Scan
  <2>2. /\ obj'[o].raw = obj[o].raw /\ obj'[o].info = column
        /\ given'[o] = column.sealed /\ told'[o] = "none"
        /\ obj'[o] \in [raw : Text \cup {Empty}, info : EncryptedInfo]
        /\ \A p \in Obj : p # o => /\ obj'[p] = obj[p] /\ given'[p] = given[p] /\ told'[p] = told[p]
                                   /\ (p \in reused' <=> p \in reused)
    BY <2>1 DEF TypeOK
  <2>3. column.sealed \in Text
    BY <2>1, SealedOK DEF TypeOK
  <2>4. TypeOK'
    BY <2>1, <2>2, <2>3 DEF TypeOK
  <2>5. ReadableInv'
    BY <2>1, <2>2 DEF ReadableInv
  <2>6. obj'[o] # Blank /\ (obj[o].raw # Empty => o \in reused')
    BY <2>1, <2>2, Blanks
  <2>7. GivenInv'
    BY <2>1, <2>2, <2>6 DEF GivenInv
  <2> QED
    BY <2>4, <2>5, <2>7
<1>3. CASE Drop(o)
  <2>1. /\ obj' = [obj EXCEPT ![o] = Blank] /\ given' = [given EXCEPT ![o] = Empty]
        /\ told' = [told EXCEPT ![o] = "none"] /\ reused' = reused \ {o}
        /\ UNCHANGED <<column, deks, keyId, job>>
    BY <1>3 DEF Drop
  <2>2. TypeOK'
    BY <2>1, Blanks DEF TypeOK
  <2>3. ReadableInv'
    BY <2>1, Blanks DEF TypeOK, ReadableInv
  <2>4. GivenInv'
    BY <2>1, Blanks DEF TypeOK, GivenInv
  <2> QED
    BY <2>2, <2>3, <2>4
<1> QED
  BY <1>1, <1>2, <1>3

\* Value: NULL, a new encryption or the one it has.
LEMMA SaveInv ==
  ASSUME IInv, NEW o \in Obj, SaveNull(o) \/ SaveNew(o) \/ SaveErr(o) \/ SaveAgain(o)
  PROVE  IInv'
<1> USE SecureStringAssumption DEF IInv
<1>1. CASE SaveNull(o) \/ SaveAgain(o) \/ SaveErr(o)
  <2>1. UNCHANGED <<deks, keyId, obj, given, told, reused, job>> /\ column' \in {Null, obj[o].info, column}
    BY <1>1 DEF SaveNull, SaveAgain, SaveErr, vars
  <2>2. column' \in EncryptedInfo /\ Opens(column')
    BY <2>1, Blanks DEF TypeOK, ReadableInv, Opens
  <2> QED
    BY <2>1, <2>2 DEF TypeOK, ReadableInv, GivenInv, Opens
<1>2. CASE SaveNew(o)
  <2> DEFINE info == Encrypt(obj[o].raw)
  <2>1. /\ obj[o].raw # Empty /\ deks < MaxDek
        /\ obj[o].info = Null
        /\ obj' = [obj EXCEPT ![o].info = info] /\ column' = obj'[o].info /\ deks' = deks + 1
        /\ UNCHANGED <<keyId, given, told, reused, job>>
    BY <1>2 DEF SaveNew
  <2>2. obj[o].raw \in Text
    BY <2>1 DEF TypeOK
  <2>3. info \in EncryptedInfo /\ info # Null /\ Opens(info) /\ info.sealed = obj[o].raw
    BY <2>1, <2>2, EncryptOK DEF Decrypt
  <2> HIDE DEF info
  <2>4. /\ obj'[o].raw = obj[o].raw /\ obj'[o].info = info
        /\ obj'[o] \in [raw : Text \cup {Empty}, info : EncryptedInfo]
        /\ \A p \in Obj : p # o => obj'[p] = obj[p]
    BY <2>1, <2>3 DEF TypeOK
  <2>5. TypeOK'
    BY <2>1, <2>3, <2>4 DEF TypeOK
  <2>6. ReadableInv'
    BY <2>1, <2>3, <2>4 DEF ReadableInv
  <2>7. obj'[o] # Blank
    BY <2>1, <2>4 DEF Blank
  <2>8. o \notin reused /\ obj[o].raw = given[o]
    BY <2>1 DEF GivenInv
  <2>9. GivenInv'
    BY <2>1, <2>3, <2>4, <2>7, <2>8 DEF GivenInv
  <2> QED
    BY <2>5, <2>6, <2>9
<1> QED
  BY <1>1, <1>2

\* String: of an empty value, of a text that is kept, and of one that is sealed.
LEMMA StringInv ==
  ASSUME IInv, NEW o \in Obj, StringBlank(o) \/ StringCached(o) \/ StringDecrypts(o)
  PROVE  IInv'
<1> USE SecureStringAssumption DEF IInv
<1>1. CASE StringBlank(o) \/ StringCached(o)
  <2>1. UNCHANGED <<column, deks, keyId, obj, given, reused, job>>
    BY <1>1 DEF StringBlank, StringCached
  <2>2. PICK t \in Text \cup {Empty} :
          told' = [told EXCEPT ![o] = t] /\ (o \notin reused => t \in {Empty, given[o]})
    <3>1. obj[o].raw \in Text \cup {Empty} /\ (o \notin reused => obj[o].raw \in {Empty, given[o]})
      BY DEF GivenInv, TypeOK
    <3> QED
      BY <1>1, <3>1 DEF StringBlank, StringCached
  <2>3. TypeOK'
    BY <2>1, <2>2 DEF TypeOK
  <2>4. told'[o] = t /\ \A p \in Obj : p # o => told'[p] = told[p]
    BY <2>2 DEF TypeOK
  <2>5. GivenInv'
    BY <2>1, <2>2, <2>4 DEF GivenInv
  <2> QED
    BY <2>1, <2>3, <2>5 DEF ReadableInv
<1>2. CASE StringDecrypts(o)
  <2>1. /\ obj[o].info # Null /\ obj' = [obj EXCEPT ![o].raw = obj[o].info.sealed]
        /\ told' = [told EXCEPT ![o] = obj[o].info.sealed]
        /\ UNCHANGED <<column, deks, keyId, given, reused, job>>
    BY <1>2 DEF StringDecrypts, Decrypt
  <2>2. obj[o].info.sealed = given[o] /\ given[o] \in Text \cup {Empty}
    BY <2>1 DEF GivenInv, TypeOK
  <2>3. /\ obj'[o].raw = given[o] /\ obj'[o].info = obj[o].info
        /\ obj'[o] \in [raw : Text \cup {Empty}, info : EncryptedInfo]
        /\ \A p \in Obj : p # o => obj'[p] = obj[p]
    BY <2>1, <2>2 DEF TypeOK
  <2>4. TypeOK'
    BY <2>1, <2>2, <2>3 DEF TypeOK
  <2>5. ReadableInv'
    BY <2>1, <2>3 DEF ReadableInv
  <2>6. obj'[o] # Blank
    BY <2>1, <2>3 DEF Blank
  <2>7. told'[o] = given[o] /\ \A p \in Obj : p # o => told'[p] = told[p]
    BY <2>1, <2>2 DEF TypeOK
  <2>8. GivenInv'
    BY <2>1, <2>3, <2>6, <2>7 DEF GivenInv
  <2> QED
    BY <2>4, <2>5, <2>8
<1> QED
  BY <1>1, <1>2

\* A new process, and the callers of ReEncrypt.
LEMMA ProcessInv ==
  ASSUME IInv, Restart \/ CallReEncrypt \/ WriteBack \/ UNCHANGED vars
  PROVE  IInv'
<1> USE SecureStringAssumption DEF IInv
<1>1. CASE Restart
  <2>1. /\ keyId' \in 1..MaxKey /\ UNCHANGED <<column, deks>>
        /\ obj' = [o \in Obj |-> Blank] /\ given' = [o \in Obj |-> Empty]
        /\ told' = [o \in Obj |-> "none"] /\ reused' = {} /\ job' = Null
    BY <1>1 DEF Restart
  <2>2. TypeOK'
    BY <2>1, Blanks DEF TypeOK
  <2> QED
    BY <2>1, <2>2, Blanks DEF ReadableInv, GivenInv
<1>2. CASE CallReEncrypt
  <2>1. /\ column # Null /\ job' = ReEncrypt(column)
        /\ UNCHANGED <<column, deks, keyId, obj, given, told, reused>>
    BY <1>2 DEF CallReEncrypt
  <2>2. job' \in EncryptedInfo /\ Opens(job')
    BY <2>1, ReEncryptOK DEF TypeOK, ReadableInv
  <2> QED
    BY <2>1, <2>2 DEF TypeOK, ReadableInv, GivenInv
<1>3. CASE WriteBack \/ UNCHANGED vars
  <2>1. /\ column' \in {column, job} /\ job' \in {job, Null}
        /\ UNCHANGED <<deks, keyId, obj, given, told, reused>>
    BY <1>3 DEF WriteBack, vars
  <2>2. column' \in EncryptedInfo /\ Opens(column') /\ job' \in EncryptedInfo /\ Opens(job')
    BY <2>1, Blanks DEF TypeOK, ReadableInv
  <2> QED
    BY <2>1, <2>2 DEF TypeOK, ReadableInv, GivenInv
<1> QED
  BY <1>1, <1>2, <1>3

----------------------------------------------------------------------------

\* IInv holds throughout every behaviour.
THEOREM Invariance == Spec => []IInv
<1>1. IInv /\ [Next]_vars => IInv'
  BY ValueInv, SaveInv, StringInv, ProcessInv DEF Next, ScanNull
<1> QED
  BY <1>1, InitInv, PTL DEF Spec

\* The variables keep their types.
THEOREM TypeCorrect == Spec => []TypeOK
<1>1. IInv => TypeOK
  BY DEF IInv
<1> QED
  BY <1>1, Invariance, PTL

\* The column can be read back after any saves, restarts and rewrappings.
THEOREM ReadableCorrect == Spec => []ColumnReadable
<1>1. IInv => ColumnReadable
  BY DEF IInv, ReadableInv, ColumnReadable
<1> QED
  BY <1>1, Invariance, PTL

\* Value writes the text a value was last given, and String returns it unless
\* the value was scanned over a text.
THEOREM GivenCorrect == Spec => []SavesWhatItWasGiven
<1>1. IInv => SavesWhatItWasGiven
  BY DEF IInv, GivenInv, SavesWhatItWasGiven
<1> QED
  BY <1>1, Invariance, PTL
=============================================================================
