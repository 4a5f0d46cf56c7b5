----------------------------- MODULE Encryption -----------------------------
(***************************************************************************)
(* EncryptionService: secrets stored as envelopes, a data key of its own for  *)
(* each value and the data key wrapped by the master key a replica booted     *)
(* with.  Columns are damaged and spliced, and replicas of one deployment     *)
(* hold different master keys while a new one is rolled out.                  *)
(*                                                                         *)
(* AES-256-GCM is ideal: a sealed value is its key, nonce and text, and opens *)
(* under that key and nonce with its own tag or not at all.  A field is its    *)
(* decoded bytes.  Random keys and nonces never repeat: the number of the call *)
(* stands for the ones it draws.                                             *)
(***************************************************************************)
EXTENDS Naturals

CONSTANTS
  Row, Proc,
  Secret,       \* plaintexts
  Key,          \* master keys
  Junk,         \* bytes no encrypt() call produced
  Refused,      \* InternalException
  Absent,       \* no key, no envelope, no answer
  MaxCalls,     \* bound: calls of encrypt()
  MaxDamages    \* bound: damaged fields

ASSUME EncryptionAssumption ==
  /\ MaxCalls \in Nat /\ MaxDamages \in Nat
  /\ Junk \notin Nat /\ Refused \notin Nat
  /\ Refused \notin Secret
  /\ Absent \notin Key

VARIABLES
  masterKey,    \* each replica
  column,       \* each row's stored envelope
  answer,       \* what the last call of decrypt() came to
  calls,        \* how often encrypt() has been called
  damages,
  issued        \* history: those calls

vars == <<masterKey, column, answer, calls, damages, issued>>

Field == {"version", "wrapIv", "wrappedKey", "wrapTag", "iv", "ciphertext", "tag"}
Calls == [id : 1..MaxCalls, key : Key, text : Secret]

-----------------------------------------------------------------------------
(* Envelopes                                                                *)

Seal(key, nonce, text) == <<key, nonce, text>>

\* randomBytes(ENCRYPTION_KEY_BYTES): a data key of the value's own.
DataKey(call) == call.id

\* The nonces of the wrap and of the value.
Nonce(call) == call.id

\* wrapDataKey: the data key under the master key.
Wrapped(call) == Seal(call.key, Nonce(call), DataKey(call))

Sealed(call) == Seal(DataKey(call), Nonce(call), call.text)

\* What encrypt() serializes.  The payload holds the ciphertext and its tag.
Envelope(call) ==
  [version |-> "v1", wrapIv |-> Nonce(call), wrappedKey |-> Wrapped(call), wrapTag |-> Wrapped(call),
   iv |-> Nonce(call), ciphertext |-> Sealed(call), tag |-> Sealed(call)]

\* A damaged column has some fields of one envelope, some of another, some of none.
Wraps    == {Wrapped(call) : call \in Calls} \union {Junk}
Payloads == {Sealed(call) : call \in Calls} \union {Junk}
Nonces   == {Nonce(call) : call \in Calls} \union {Junk}

ASSUME JunkAssumption == \A call \in Calls : Junk \notin {Wrapped(call), Sealed(call)}

Envelopes ==
  [version : {"v1", Junk}, wrapIv : Nonces, wrappedKey : Wraps, wrapTag : Wraps,
   iv : Nonces, ciphertext : Payloads, tag : Payloads]

\* Slip: the tag is not checked.
Slip_Unauthenticated(key, nonce, box, tag) ==
  IF box # Junk /\ box[1] = key /\ box[2] = nonce THEN box[3] ELSE Refused

Open(key, nonce, box, tag) ==
  IF tag = box /\ box # Junk /\ box[1] = key /\ box[2] = nonce THEN box[3] ELSE Refused

unwrapDataKey(key, e) == Open(key, e.wrapIv, e.wrappedKey, e.wrapTag)

\* A wrong version or count of fields, a wrong master key, a truncated payload
\* and a tag that does not match all end in InternalException.
decryptEnvelope(key, e) ==
  LET dataKey == unwrapDataKey(key, e) IN
  IF e.version # "v1" \/ dataKey = Refused
  THEN Refused
  ELSE Open(dataKey, e.iv, e.ciphertext, e.tag)

-----------------------------------------------------------------------------

TypeOK ==
  /\ masterKey \in [Proc -> Key \union {Absent}]
  /\ column \in [Row -> Envelopes \union {Absent}]
  /\ answer \in Secret \union {Refused, Absent}
  /\ calls \in 0..MaxCalls
  /\ damages \in 0..MaxDamages
  /\ issued \in SUBSET Calls

Init ==
  /\ masterKey = [p \in Proc |-> Absent]
  /\ column = [r \in Row |-> Absent]
  /\ answer = Absent
  /\ calls = 0 /\ damages = 0
  /\ issued = {}

\* readMasterKey: a configured value that is not 32 bytes of base64 fails the boot.
boot(p, key) ==
  /\ masterKey[p] # key
  /\ masterKey' = [masterKey EXCEPT ![p] = key]
  /\ UNCHANGED <<column, answer, calls, damages, issued>>

\* The value is encrypted and its row saved.
encrypt(p, r, text) ==
  LET call == [id |-> calls + 1, key |-> masterKey[p], text |-> text] IN
  /\ masterKey[p] # Absent /\ calls < MaxCalls
  /\ calls' = calls + 1
  /\ column' = [column EXCEPT ![r] = Envelope(call)]
  /\ issued' = issued \union {call}
  /\ UNCHANGED <<masterKey, answer, damages>>

decrypt(p, r) ==
  /\ masterKey[p] # Absent /\ column[r] # Absent
  /\ answer' = decryptEnvelope(masterKey[p], column[r])
  /\ UNCHANGED <<masterKey, column, calls, damages, issued>>

\* A field is lost, or another row's is written over it.
Damage(r, f) ==
  /\ damages < MaxDamages /\ damages' = damages + 1
  /\ column[r] # Absent
  /\ \E bytes \in {Junk} \union {column[s][f] : s \in {t \in Row : column[t] # Absent}} :
       /\ bytes # column[r][f]
       /\ column' = [column EXCEPT ![r][f] = bytes]
  /\ UNCHANGED <<masterKey, answer, calls, issued>>

Next ==
  \/ \E p \in Proc, key \in Key : boot(p, key)
  \/ \E p \in Proc, r \in Row, text \in Secret : encrypt(p, r, text)
  \/ \E p \in Proc, r \in Row : decrypt(p, r)
  \/ \E r \in Row, f \in Field : Damage(r, f)

Spec == Init /\ [][Next]_vars

-----------------------------------------------------------------------------
(* Properties                                                               *)

\* What a vault would answer: the text whose envelope the column holds, if the
\* reader's master key made it.
Stored(key, e) == {call \in issued : call.key = key /\ e = Envelope(call)}

\* decrypt() answers with the very text encrypt() was given when the column holds
\* that envelope whole and the reader has the master key it was made with, and
\* refuses in every other case: however columns are damaged and spliced it never
\* returns another value ("fails to decrypt rather than yielding plausible
\* garbage", ENCRYPTION_ALGORITHM), and never refuses one that is intact.
ReadIsExact ==
  [][\A p \in Proc, r \in Row : decrypt(p, r) =>
       \/ \E call \in Stored(masterKey[p], column[r]) : answer' = call.text
       \/ Stored(masterKey[p], column[r]) = {} /\ answer' = Refused]_vars
=============================================================================
