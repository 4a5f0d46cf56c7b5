--------------------------- MODULE ProcessProofs ----------------------------
(***************************************************************************)
(* The three parts of a process.                                            *)
(*                                                                         *)
(* EncryptionService reads back what it stored or refuses, for any number of  *)
(* rows, replicas, master keys, secrets, calls and damaged fields.  A tag in  *)
(* a column, whatever happened to the fields beside it, was made by some call *)
(* of encrypt(), and no two calls share a data key.  So the data key a wrap   *)
(* opens to names one call, and a payload it opens is that call's.           *)
(*                                                                         *)
(* HealthController answers with what its checks found since the question,   *)
(* and never takes the latch back, for any number of probes and checks.      *)
(*                                                                         *)
(* scrubEvent scrubs right, path by path, heaps of any size, shared and        *)
(* cyclic ones included, at any depth.  Its recursion is well-founded because  *)
(* each level is one deeper and a level past the cut asks for no other; the    *)
(* rest is an induction along a path: above every cut what stands in the       *)
(* report is the level's image of what stands in the objects, at the cut the   *)
(* placeholder, and below it nothing.                                        *)
(***************************************************************************)
EXTENDS MCProcess, Sequences, WellFoundedInduction, TLAPS

-----------------------------------------------------------------------------
(* EncryptionService                                                        *)

\* No two calls have a number, and so a data key, in common.
FreshInv ==
  /\ \A c \in issued : c.id <= calls
  /\ \A c, d \in issued : c.id = d.id => c = d

\* The tags of a column are damaged or some call's.
TagsInv ==
  \A r \in Row : column[r] # Absent =>
    /\ column[r].wrapTag \in {Wrapped(c) : c \in issued} \union {Junk}
    /\ column[r].tag \in {Sealed(c) : c \in issued} \union {Junk}

IInv == TypeOK /\ FreshInv /\ TagsInv

-----------------------------------------------------------------------------
(* Envelopes                                                                *)

\* What a call serializes is an envelope.
LEMMA EnvelopeType ==
  ASSUME NEW c \in Calls
  PROVE  Envelope(c) \in Envelopes
BY DEF Envelope, Envelopes, Nonces, Wraps, Payloads, Nonce

\* An intact envelope opens under its master key to its text.
LEMMA OpensIntact ==
  ASSUME NEW c \in Calls
  PROVE  decryptEnvelope(c.key, Envelope(c)) = c.text
<1>1. unwrapDataKey(c.key, Envelope(c)) = c.id
  <2>1. Wrapped(c) # Junk
    BY JunkAssumption
  <2>2. QED
    BY <2>1 DEF unwrapDataKey, Open, Envelope, Wrapped, Seal, Nonce, DataKey
<1>2. c.id # Refused
  BY EncryptionAssumption DEF Calls
<1>3. Open(c.id, c.id, Sealed(c), Sealed(c)) = c.text
  <2>1. Sealed(c) # Junk
    BY JunkAssumption
  <2>2. QED
    BY <2>1 DEF Open, Sealed, Seal, Nonce, DataKey
<1>4. QED
  BY <1>1, <1>2, <1>3 DEF decryptEnvelope, Envelope, Nonce

\* A column that opens holds one call's envelope whole, made under that key.
LEMMA OpensOnlyWhole ==
  ASSUME IInv, NEW r \in Row, column[r] # Absent, NEW key,
         decryptEnvelope(key, column[r]) # Refused
  PROVE  \E c \in issued : c.key = key /\ column[r] = Envelope(c)
<1> DEFINE e == column[r]
           dataKey == unwrapDataKey(key, e)
<1>1. /\ e.version = "v1" /\ dataKey # Refused
      /\ Open(dataKey, e.iv, e.ciphertext, e.tag) # Refused
  BY DEF decryptEnvelope
<1>2. PICK c \in issued : e.wrapTag = Wrapped(c)
  BY <1>1 DEF IInv, TagsInv, unwrapDataKey, Open
<1>3. PICK d \in issued : e.tag = Sealed(d)
  BY <1>1 DEF IInv, TagsInv, Open
<1>4. /\ e.wrappedKey = Wrapped(c) /\ e.wrapIv = c.id
      /\ c.key = key /\ dataKey = c.id
  BY <1>1, <1>2 DEF unwrapDataKey, Open, Wrapped, Seal, Nonce, DataKey
<1>5. e.ciphertext = Sealed(d) /\ e.iv = d.id /\ d.id = dataKey
  BY <1>1, <1>3 DEF Open, Sealed, Seal, Nonce, DataKey
<1>6. d = c
  BY <1>4, <1>5 DEF IInv, FreshInv
<1>7. e \in Envelopes
  BY DEF IInv, TypeOK
<1>8. e = Envelope(c)
  BY <1>1, <1>2, <1>3, <1>4, <1>5, <1>6, <1>7 DEF Envelopes, Envelope, Nonce
<1>9. QED
  BY <1>4, <1>8

-----------------------------------------------------------------------------

\* The first replicas start with no key, no row and no call.
THEOREM InitIInv == Init => IInv
BY EncryptionAssumption DEF Init, IInv, TypeOK, FreshInv, TagsInv, Envelopes

\* A call of encrypt() takes a number of its own and writes a whole envelope.
LEMMA encryptIInv ==
  ASSUME IInv, NEW p \in Proc, NEW r \in Row, NEW text \in Secret, encrypt(p, r, text)
  PROVE  IInv'
<1> DEFINE call == [id |-> calls + 1, key |-> masterKey[p], text |-> text]
<1>1. call \in Calls
  BY EncryptionAssumption DEF IInv, TypeOK, encrypt, Calls
<1>2. TypeOK'
  BY <1>1, EnvelopeType, EncryptionAssumption DEF IInv, TypeOK, encrypt
<1>3. FreshInv'
  BY <1>1, EncryptionAssumption DEF IInv, TypeOK, FreshInv, encrypt, Calls
<1>4. TagsInv'
  <2>1. /\ column' = [column EXCEPT ![r] = Envelope(call)]
        /\ issued' = issued \union {call}
    BY DEF encrypt
  <2>2. Envelope(call).wrapTag = Wrapped(call) /\ Envelope(call).tag = Sealed(call)
    BY DEF Envelope
  <2>3. ASSUME NEW s \in Row, column'[s] # Absent
        PROVE  /\ column'[s].wrapTag \in {Wrapped(c) : c \in issued'} \union {Junk}
               /\ column'[s].tag \in {Sealed(c) : c \in issued'} \union {Junk}
    <3>1. CASE s = r
      BY <3>1, <2>1, <2>2 DEF IInv, TypeOK
    <3>2. CASE s # r
      BY <3>2, <2>1, <2>3 DEF IInv, TypeOK, TagsInv
    <3>3. QED
      BY <3>1, <3>2
  <2>4. QED
    BY <2>3 DEF TagsInv, Wrapped, Sealed, Seal, Nonce, DataKey
<1>5. QED
  BY <1>2, <1>3, <1>4 DEF IInv

\* Damage moves a field to the same place of another column, or loses it.
LEMMA DamageIInv ==
  ASSUME IInv, NEW r \in Row, NEW f \in Field, Damage(r, f)
  PROVE  IInv'
<1>1. PICK bytes \in {Junk} \union {column[s][f] : s \in {t \in Row : column[t] # Absent}} :
        column' = [column EXCEPT ![r][f] = bytes]
  BY DEF Damage
<1>2. /\ column[r] # Absent
      /\ bytes = Junk \/ \E s \in Row : column[s] # Absent /\ bytes = column[s][f]
      /\ UNCHANGED <<masterKey, answer, calls, issued>>
      /\ damages' \in 0..MaxDamages
  BY <1>1, EncryptionAssumption DEF Damage, IInv, TypeOK
<1>3. /\ column'[r] = [column[r] EXCEPT ![f] = bytes]
      /\ \A s \in Row \ {r} : column'[s] = column[s]
      /\ column[r] \in Envelopes
  BY <1>1, <1>2 DEF IInv, TypeOK
<1>4. column'[r] \in Envelopes
  <2>1. \A s \in Row : column[s] # Absent => column[s] \in Envelopes
    BY DEF IInv, TypeOK
  <2>2. CASE f = "version"
    <3>1. bytes \in {"v1", Junk}
      BY <1>2, <2>1, <2>2 DEF Envelopes
    <3>2. QED
      BY <1>3, <2>2, <3>1 DEF Envelopes
  <2>3. CASE f \in {"wrapIv", "iv"}
    <3>1. bytes \in Nonces
      BY <1>2, <2>1, <2>3 DEF Envelopes, Nonces
    <3>2. QED
      BY <1>3, <2>3, <3>1 DEF Envelopes
  <2>4. CASE f \in {"wrappedKey", "wrapTag"}
    <3>1. bytes \in Wraps
      BY <1>2, <2>1, <2>4 DEF Envelopes, Wraps
    <3>2. QED
      BY <1>3, <2>4, <3>1 DEF Envelopes
  <2>5. CASE f \in {"ciphertext", "tag"}
    <3>1. bytes \in Payloads
      BY <1>2, <2>1, <2>5 DEF Envelopes, Payloads
    <3>2. QED
      BY <1>3, <2>5, <3>1 DEF Envelopes
  <2>6. QED
    BY <2>2, <2>3, <2>4, <2>5 DEF Field
<1>5. TypeOK'
  BY <1>1, <1>2, <1>3, <1>4 DEF IInv, TypeOK
<1>6. TagsInv'
  <2>1. /\ column'[r].wrapTag \in {Wrapped(c) : c \in issued} \union {Junk}
        /\ column'[r].tag \in {Sealed(c) : c \in issued} \union {Junk}
    BY <1>2, <1>3 DEF IInv, TagsInv, Envelopes, Field
  <2>2. QED
    BY <1>2, <1>3, <2>1 DEF IInv, TagsInv
<1>7. FreshInv'
  BY <1>2 DEF IInv, FreshInv
<1>8. QED
  BY <1>5, <1>6, <1>7 DEF IInv

\* Every boot, call and damaged field keeps the invariant.
THEOREM NextIInv == IInv /\ [Next]_vars => IInv'
<1> SUFFICES ASSUME IInv, [Next]_vars PROVE IInv'
  OBVIOUS
<1>1. CASE UNCHANGED vars
  BY <1>1 DEF vars, IInv, TypeOK, FreshInv, TagsInv
<1>2. ASSUME NEW p \in Proc, NEW key \in Key, boot(p, key) PROVE IInv'
  BY <1>2 DEF boot, IInv, TypeOK, FreshInv, TagsInv
<1>3. ASSUME NEW p \in Proc, NEW r \in Row, decrypt(p, r) PROVE IInv'
  <2>1. answer' \in Secret \union {Refused}
    <3>1. CASE answer' = Refused
      BY <3>1
    <3>2. CASE answer' # Refused
      <4>1. PICK c \in issued : c.key = masterKey[p] /\ column[r] = Envelope(c)
        BY <1>3, <3>2, OpensOnlyWhole DEF decrypt
      <4>2. answer' = c.text /\ c.text \in Secret
        BY <1>3, <4>1, OpensIntact DEF decrypt, IInv, TypeOK, Calls
      <4>3. QED
        BY <4>2
    <3>3. QED
      BY <3>1, <3>2
  <2>2. QED
    BY <1>3, <2>1 DEF decrypt, IInv, TypeOK, FreshInv, TagsInv
<1>4. QED
  BY <1>1, <1>2, <1>3, encryptIInv, DamageIInv DEF Next

\* IInv holds of every reachable state.
THEOREM IInvHolds == Spec => []IInv
BY InitIInv, NextIInv, PTL DEF Spec

\* Every value has its type: in particular no read returns anything but a text
\* some encrypt() was given or the refusal (EncryptionService.decrypt).
THEOREM TypeCorrect == Spec => []TypeOK
<1>1. IInv => TypeOK
  BY DEF IInv
<1>2. QED
  BY <1>1, IInvHolds, PTL

\* EncryptionService.decrypt: the text whose envelope the column holds whole,
\* under the reader's master key, and the refusal in every other case.
THEOREM ExactReads == Spec => ReadIsExact
<1>1. ASSUME IInv, NEW p \in Proc, NEW r \in Row, decrypt(p, r)
      PROVE  \/ \E call \in Stored(masterKey[p], column[r]) : answer' = call.text
             \/ Stored(masterKey[p], column[r]) = {} /\ answer' = Refused
  <2>1. column[r] # Absent /\ answer' = decryptEnvelope(masterKey[p], column[r])
    BY <1>1 DEF decrypt
  <2>2. CASE answer' # Refused
    <3>1. PICK c \in issued : c.key = masterKey[p] /\ column[r] = Envelope(c)
      BY <1>1, <2>1, <2>2, OpensOnlyWhole
    <3>2. answer' = c.text
      BY <1>1, <2>1, <3>1, OpensIntact DEF IInv, TypeOK
    <3>3. QED
      BY <3>1, <3>2 DEF Stored
  <2>3. CASE answer' = Refused
    <3>1. ASSUME NEW call \in Stored(masterKey[p], column[r]) PROVE FALSE
      <4>1. call \in Calls /\ call.key = masterKey[p] /\ column[r] = Envelope(call)
        BY <1>1, <3>1 DEF Stored, IInv, TypeOK
      <4>2. answer' = call.text /\ call.text \in Secret
        BY <2>1, <4>1, OpensIntact DEF Calls
      <4>3. QED
        BY <2>3, <4>2, EncryptionAssumption
    <3>2. QED
      BY <2>3, <3>1
  <2>4. QED
    BY <2>2, <2>3
<1>2. IInv /\ [Next]_vars =>
        [\A p \in Proc, r \in Row : decrypt(p, r) =>
           \/ \E call \in Stored(masterKey[p], column[r]) : answer' = call.text
           \/ Stored(masterKey[p], column[r]) = {} /\ answer' = Refused]_vars
  BY <1>1
<1>3. QED
  BY <1>2, IInvHolds, PTL DEF Spec, ReadIsExact

-----------------------------------------------------------------------------
(* HealthController                                                         *)

\* A probe still running was not answered by the latch, and each check that has
\* settled found its dependency as it was at some moment since the probe began.
RunningInv(p) ==
  /\ ~late[p]
  /\ up \subseteq seenUp[p] /\ Check \ up \subseteq seenDown[p]
  /\ \A c \in Check : /\ result[p][c] = "up" => c \in seenUp[p]
                      /\ result[p][c] = "down" => c \in seenDown[p]

ProbesInv ==
  /\ Health!TypeOK
  /\ \A p \in Probe : IF pc[p] = "running" THEN RunningInv(p) ELSE result[p] = Health!Unasked
  /\ AnswersAreFresh
  /\ LatchHolds

LEMMA ListsAreChecks == \A ask : Health!List(ask) \subseteq Check
BY ChecksAssumption DEF Health!List

LEMMA InitProbesInv == Health!Init => ProbesInv
<1> SUFFICES ASSUME Health!Init PROVE ProbesInv
  OBVIOUS
<1>1. Health!TypeOK
  <2>1. Health!Unasked \in [Check -> Health!Outcome]
    BY DEF Health!Unasked, Health!Outcome
  <2>2. QED
    BY <2>1 DEF Health!Init, Health!TypeOK, Health!Asking
<1>2. \A p \in Probe : pc[p] = "idle" /\ result[p] = Health!Unasked
  BY DEF Health!Init
<1>3. AnswersAreFresh /\ LatchHolds
  BY <1>2 DEF Health!Init, AnswersAreFresh, Health!AnswersAreFresh, LatchHolds, Health!LatchHolds
<1>4. QED
  BY <1>1, <1>2, <1>3 DEF ProbesInv

\* A dependency that comes or goes is seen by the probes that are running.
LEMMA DependencyProbesInv ==
  ASSUME ProbesInv, NEW c \in Check, Health!DependencyChanges(c)
  PROVE  ProbesInv'
<1>1. /\ up' \subseteq Check
      /\ seenUp' \in [Probe -> SUBSET Check] /\ seenDown' \in [Probe -> SUBSET Check]
  BY DEF ProbesInv, Health!TypeOK, Health!DependencyChanges
<1>2. ASSUME NEW p \in Probe
      PROVE  IF pc[p] = "running"
             THEN /\ seenUp'[p] = seenUp[p] \union up'
                  /\ seenDown'[p] = seenDown[p] \union (Check \ up')
             ELSE seenUp'[p] = seenUp[p] /\ seenDown'[p] = seenDown[p]
  BY DEF Health!DependencyChanges
<1>3. UNCHANGED <<started, asks, pc, result, late, answered>>
  BY DEF Health!DependencyChanges, Health!service
<1>4. Health!TypeOK'
  BY <1>1, <1>3 DEF ProbesInv, Health!TypeOK
<1>5. ASSUME NEW p \in Probe
      PROVE  IF pc'[p] = "running" THEN RunningInv(p)' ELSE result'[p] = Health!Unasked
  BY <1>2, <1>3 DEF ProbesInv, RunningInv
<1>6. AnswersAreFresh' /\ LatchHolds'
  BY <1>2, <1>3 DEF ProbesInv, AnswersAreFresh, Health!AnswersAreFresh, LatchHolds,
                    Health!LatchHolds, Health!Booting, Health!List
<1>7. QED
  BY <1>4, <1>5, <1>6 DEF ProbesInv, Health!Unasked

\* A probe that arrives asks its checks anew, unless the latch answers it.
LEMMA ArrivesProbesInv ==
  ASSUME ProbesInv, NEW p \in Probe, NEW ask \in Health!Asking, Health!Arrives(p, ask)
  PROVE  ProbesInv'
<1>1. /\ pc[p] = "idle" /\ asks' = [asks EXCEPT ![p] = ask]
      /\ UNCHANGED <<up, started, result>>
  BY DEF Health!Arrives
<1>2. CASE ~Health!Latched(ask) /\ Health!run(p, ask) /\ UNCHANGED answered
  <2>1. /\ pc' = [pc EXCEPT ![p] = "running"]
        /\ seenUp' = [seenUp EXCEPT ![p] = up]
        /\ seenDown' = [seenDown EXCEPT ![p] = Check \ up]
        /\ late' = [late EXCEPT ![p] = FALSE]
    BY <1>2 DEF Health!run, Health!Latched
  <2>2. Health!TypeOK'
    BY <1>1, <1>2, <2>1 DEF ProbesInv, Health!TypeOK
  <2>3. RunningInv(p)'
    BY <1>1, <2>1 DEF ProbesInv, RunningInv, Health!TypeOK, Health!Unasked
  <2>4. ASSUME NEW q \in Probe
        PROVE  IF pc'[q] = "running" THEN RunningInv(q)' ELSE result'[q] = Health!Unasked
    BY <1>1, <2>1, <2>3 DEF ProbesInv, RunningInv, Health!TypeOK
  <2>5. AnswersAreFresh' /\ LatchHolds'
    BY <1>1, <1>2, <2>1 DEF ProbesInv, AnswersAreFresh, Health!AnswersAreFresh, LatchHolds,
                    Health!LatchHolds, Health!Booting, Health!List, Health!TypeOK
  <2>6. QED
    BY <2>2, <2>4, <2>5 DEF ProbesInv, Health!Unasked
<1>3. CASE /\ Health!Latched(ask)
           /\ pc' = [pc EXCEPT ![p] = "200"]
           /\ late' = [late EXCEPT ![p] = ask = "startup"]
           /\ answered' = (answered \/ ask = "startup")
           /\ UNCHANGED <<seenUp, seenDown>>
  <2>1. ask = "startup" /\ started /\ answered' = TRUE /\ late' = [late EXCEPT ![p] = TRUE]
    BY <1>3 DEF Health!Latched
  <2>2. Health!TypeOK'
    BY <1>1, <1>3, <2>1 DEF ProbesInv, Health!TypeOK
  <2>3. ASSUME NEW q \in Probe
        PROVE  IF pc'[q] = "running" THEN RunningInv(q)' ELSE result'[q] = Health!Unasked
    BY <1>1, <1>3, <2>1 DEF ProbesInv, RunningInv, Health!TypeOK
  <2>4. AnswersAreFresh' /\ LatchHolds'
    BY <1>1, <1>3, <2>1 DEF ProbesInv, AnswersAreFresh, Health!AnswersAreFresh, LatchHolds,
                    Health!LatchHolds, Health!Booting, Health!List, Health!TypeOK
  <2>5. QED
    BY <2>2, <2>3, <2>4 DEF ProbesInv, Health!Unasked
<1>4. QED
  BY <1>2, <1>3 DEF Health!Arrives

\* A check that settles sees its dependency as it is; one that hangs sees nothing.
LEMMA SettlesProbesInv ==
  ASSUME ProbesInv, NEW p \in Probe, NEW c \in Check,
         Health!runOne(p, c) \/ Health!Hangs(p, c)
  PROVE  ProbesInv'
<1>1. PICK outcome \in {"up", "down", "hung"} :
        /\ result' = [result EXCEPT ![p][c] = outcome]
        /\ outcome = "up" => c \in up
        /\ outcome = "down" => c \notin up
  BY DEF Health!runOne, Health!Hangs
<1>2. /\ pc[p] = "running"
      /\ UNCHANGED <<up, started, asks, pc, seenUp, seenDown, late, answered>>
  BY DEF Health!runOne, Health!Hangs
<1>3. Health!TypeOK'
  BY <1>1, <1>2 DEF ProbesInv, Health!TypeOK, Health!Outcome
<1>4. ASSUME NEW q \in Probe
      PROVE  IF pc'[q] = "running" THEN RunningInv(q)' ELSE result'[q] = Health!Unasked
  BY <1>1, <1>2 DEF ProbesInv, RunningInv, Health!TypeOK
<1>5. AnswersAreFresh' /\ LatchHolds'
  BY <1>2 DEF ProbesInv, AnswersAreFresh, Health!AnswersAreFresh, LatchHolds,
              Health!LatchHolds, Health!Booting, Health!List
<1>6. QED
  BY <1>3, <1>4, <1>5 DEF ProbesInv, Health!Unasked

\* The answer of a probe whose checks have all settled is what they found.
LEMMA ConcludeProbesInv ==
  ASSUME ProbesInv, NEW p \in Probe, Health!Conclude(p)
  PROVE  ProbesInv'
<1>1. /\ pc[p] = "running" /\ Health!AllSettled(p) /\ RunningInv(p)
      /\ pc' = [pc EXCEPT ![p] = IF Health!allUp(p) THEN "200" ELSE "503"]
      /\ started' = (started \/ (Health!Booting(p) /\ Health!allUp(p)))
      /\ answered' = (answered \/ (Health!Booting(p) /\ Health!allUp(p)))
      /\ result' = [result EXCEPT ![p] = Health!Unasked]
      /\ UNCHANGED <<up, asks, seenUp, seenDown, late>>
  BY DEF Health!Conclude, Health!Latch, ProbesInv
<1>2. Health!TypeOK'
  <2>1. Health!Unasked \in [Check -> Health!Outcome]
    BY DEF Health!Unasked, Health!Outcome
  <2>2. started' \in BOOLEAN /\ answered' \in BOOLEAN
    BY <1>1 DEF ProbesInv, Health!TypeOK
  <2>3. QED
    BY <1>1, <2>1, <2>2 DEF ProbesInv, Health!TypeOK
<1>3. ASSUME NEW q \in Probe
      PROVE  IF pc'[q] = "running" THEN RunningInv(q)' ELSE result'[q] = Health!Unasked
  BY <1>1 DEF ProbesInv, RunningInv, Health!TypeOK
<1>4. AnswersAreFresh'
  <2>1. CASE Health!allUp(p)
    <3>1. Health!List(asks[p]) \subseteq seenUp[p]
      BY <1>1, <2>1, ListsAreChecks DEF Health!allUp, RunningInv
    <3>2. QED
      BY <1>1, <2>1, <3>1 DEF ProbesInv, AnswersAreFresh, Health!AnswersAreFresh, Health!List,
                               Health!TypeOK
  <2>2. CASE ~Health!allUp(p)
    <3>1. Health!List(asks[p]) \intersect seenDown[p] # {}
      BY <1>1, <2>2, ListsAreChecks DEF Health!allUp, Health!AllSettled, RunningInv
    <3>2. QED
      BY <1>1, <2>2, <3>1 DEF ProbesInv, AnswersAreFresh, Health!AnswersAreFresh, Health!List,
                               Health!TypeOK
  <2>3. QED
    BY <2>1, <2>2
<1>5. LatchHolds'
  BY <1>1 DEF ProbesInv, RunningInv, LatchHolds, Health!LatchHolds, Health!Booting, Health!TypeOK
<1>6. QED
  BY <1>2, <1>3, <1>4, <1>5 DEF ProbesInv, Health!Unasked

\* A probe that is over leaves nothing to the next one.
LEMMA OverProbesInv ==
  ASSUME ProbesInv, NEW p \in Probe, Health!Over(p)
  PROVE  ProbesInv'
<1>1. Health!TypeOK'
  <2>1. Health!Unasked \in [Check -> Health!Outcome]
    BY DEF Health!Unasked, Health!Outcome
  <2>2. QED
    BY <2>1 DEF Health!Over, ProbesInv, Health!TypeOK, Health!Asking
<1>2. ASSUME NEW q \in Probe
      PROVE  IF pc'[q] = "running" THEN RunningInv(q)' ELSE result'[q] = Health!Unasked
  BY DEF Health!Over, ProbesInv, RunningInv, Health!TypeOK
<1>3. AnswersAreFresh' /\ LatchHolds'
  BY DEF Health!Over, ProbesInv, AnswersAreFresh, Health!AnswersAreFresh, LatchHolds,
         Health!LatchHolds, Health!Booting, Health!List, Health!TypeOK
<1>4. QED
  BY <1>1, <1>2, <1>3 DEF ProbesInv, Health!Unasked

LEMMA NextProbesInv == ProbesInv /\ [Health!Next]_probes => ProbesInv'
<1> SUFFICES ASSUME ProbesInv, [Health!Next]_probes PROVE ProbesInv'
  OBVIOUS
<1>1. CASE UNCHANGED probes
  BY <1>1 DEF probes, ProbesInv, RunningInv, Health!TypeOK, AnswersAreFresh,
              Health!AnswersAreFresh, LatchHolds, Health!LatchHolds, Health!Booting, Health!List,
              Health!Unasked
<1>2. CASE Health!Next
  BY <1>2, DependencyProbesInv, ArrivesProbesInv, SettlesProbesInv, ConcludeProbesInv,
     OverProbesInv DEF Health!Next, Health!Respond, Health!GivesUp
<1>3. QED
  BY <1>1, <1>2

\* The strengthened invariant of the probes, in a process that does more than
\* answer them.
THEOREM ProbesInvariance == ProcessSpec => []ProbesInv
<1>1. ProcessInit => ProbesInv
  BY InitProbesInv DEF ProcessInit
<1>2. ProbesInv /\ [ProcessNext]_<<acting, vars, probes, reporter>> => ProbesInv'
  BY NextProbesInv DEF ProcessNext
<1>3. QED
  BY <1>1, <1>2, PTL DEF ProcessSpec

\* A process behaves, in each of these parts, as the part does alone.
THEOREM ProcessHasItsParts == ProcessSpec => Spec /\ Health!Spec
<1>1. ProcessInit => Init /\ Health!Init
  BY DEF ProcessInit
<1>2. [ProcessNext]_<<acting, vars, probes, reporter>> => [Next]_vars /\ [Health!Next]_Health!vars
  BY DEF ProcessNext, probes, Health!vars, Health!service
<1>3. QED
  BY <1>1, <1>2, PTL DEF ProcessSpec, Spec, Health!Spec

\* HealthController.ready and startup: an answer is what the checks found since
\* the question, or the latch.
THEOREM FreshAnswers == ProcessSpec => []AnswersAreFresh
<1>1. ProbesInv => AnswersAreFresh
  BY DEF ProbesInv
<1>2. QED
  BY <1>1, ProbesInvariance, PTL

\* HealthController.startup: once it has answered 200, a dependency that fails
\* does not take the answer back.
THEOREM LatchIsKept == ProcessSpec => []LatchHolds
<1>1. ProbesInv => LatchHolds
  BY DEF ProbesInv
<1>2. QED
  BY <1>1, ProbesInvariance, PTL

-----------------------------------------------------------------------------
(* Induction                                                                *)

\* The library's induction principles take a predicate as a parameter; this one
\* takes the set of the numbers for which it holds.
LEMMA SetInduction ==
  ASSUME NEW S, 0 \in S, \A n \in Nat : n \in S => n + 1 \in S
  PROVE  Nat \subseteq S
<1> DEFINE T == Nat \ S
           R == {ss \in Nat \X Nat : ss[1] < ss[2]}
<1> SUFFICES ASSUME T # {} PROVE FALSE
  OBVIOUS
<1>1. IsWellFoundedOn(R, Nat)
  BY NatLessThanWellFounded, SMT DEF OpToRel
<1>2. PICK x \in T : \A y \in T : <<y, x>> \notin R
  <2>1. T \subseteq Nat
    OBVIOUS
  <2> HIDE DEF T, R
  <2> QED
    BY <1>1, <2>1, WFMin
<1>3. x # 0 /\ x - 1 \in Nat /\ x - 1 < x /\ (x - 1) + 1 = x
  OBVIOUS
<1>4. x - 1 \in S /\ x \notin S
  BY <1>2, <1>3
<1> QED
  BY <1>3, <1>4

-----------------------------------------------------------------------------
(* scrubEvent                                                               *)

Deepest == MAX_SCRUB_DEPTH + 2

LevelsTo(h, k, g) ==
  \A depth \in 0..Deepest : depth + k >= Deepest => g[depth] = Scrub!Scrubbed(h, depth, g[depth + 1])

\* The recursion is well-founded: from the deepest level up, each follows from
\* the one below it.
LEMMA LevelsExist ==
  ASSUME NEW h
  PROVE  \E g : g = [depth \in 0..Deepest |-> Scrub!Scrubbed(h, depth, g[depth + 1])]
<1> DEFINE P(k) == \E g : DOMAIN g = 0..Deepest /\ g = [d \in 0..Deepest |-> g[d]] /\ LevelsTo(h, k, g)
           S == {k \in Nat : P(k)}
<1>0. Deepest \in Nat
  BY ScrubConstants DEF Scrub!ScrubAssumption, Deepest
<1>1. 0 \in S
  <2> DEFINE g == [d \in 0..Deepest |-> [ref \in Scrub!Ref |-> Scrub!Redacted]]
  <2>1. \A d \in 0..Deepest : d + 0 >= Deepest => Scrub!TooDeep(d)
    BY ScrubConstants DEF Scrub!ScrubAssumption, Deepest, Scrub!TooDeep
  <2>2. LevelsTo(h, 0, g)
    BY <2>1 DEF LevelsTo, Scrub!Scrubbed
  <2> QED
    BY <2>2
<1>2. ASSUME NEW k \in Nat, k \in S PROVE k + 1 \in S
  <2>1. PICK g : DOMAIN g = 0..Deepest /\ g = [d \in 0..Deepest |-> g[d]] /\ LevelsTo(h, k, g)
    BY <1>2
  <2> DEFINE f == [d \in 0..Deepest |-> Scrub!Scrubbed(h, d, g[d + 1])]
  <2> HIDE DEF f
  <2>2. ASSUME NEW d \in 0..Deepest, d + k >= Deepest PROVE f[d] = g[d]
    BY <2>1, <2>2 DEF f, LevelsTo
  <2>3. ASSUME NEW d \in 0..Deepest, d + (k + 1) >= Deepest
        PROVE  f[d] = Scrub!Scrubbed(h, d, f[d + 1])
    <3>1. CASE d = Deepest
      <4>1. Scrub!TooDeep(d)
        BY <3>1, ScrubConstants DEF Scrub!ScrubAssumption, Deepest, Scrub!TooDeep
      <4> QED
        BY <4>1 DEF f, Scrub!Scrubbed
    <3>2. CASE d < Deepest
      <4>1. d + 1 \in 0..Deepest /\ d + 1 + k >= Deepest
        BY <3>2, <2>3, <1>0
      <4> QED
        BY <4>1, <2>2 DEF f
    <3> QED
      BY <3>1, <3>2, <1>0
  <2>4. DOMAIN f = 0..Deepest /\ f = [d \in 0..Deepest |-> f[d]]
    BY DEF f
  <2>5. LevelsTo(h, k + 1, f)
    BY <2>3 DEF LevelsTo
  <2>6. P(k + 1)
    BY <2>4, <2>5, Zenon
  <2> HIDE DEF P
  <2> QED
    BY <2>6
<1>3. Deepest \in S
  <2> HIDE DEF S
  <2>1. \A k \in Nat : k \in S => k + 1 \in S
    BY <1>2
  <2>2. Nat \subseteq S
    BY <1>1, <2>1, SetInduction
  <2> QED
    BY <1>0, <2>2
<1>4. PICK g : g = [d \in 0..Deepest |-> g[d]] /\ LevelsTo(h, Deepest, g)
  BY <1>3
<1>5. \A d \in 0..Deepest : g[d] = Scrub!Scrubbed(h, d, g[d + 1])
  <2>1. \A d \in 0..Deepest : d + Deepest >= Deepest
    BY <1>0
  <2> QED
    BY <1>4, <2>1 DEF LevelsTo
<1> DEFINE f == [depth \in 0..Deepest |-> Scrub!Scrubbed(h, depth, g[depth + 1])]
<1>6. g = f
  BY <1>4, <1>5
<1> QED
  BY <1>6

LEMMA ScrubValueIs ==
  ASSUME NEW h, NEW depth \in 0..Deepest
  PROVE  Scrub!scrubValue(h)[depth] = Scrub!Scrubbed(h, depth, Scrub!scrubValue(h)[depth + 1])
<1> DEFINE F(g) == [d \in 0..Deepest |-> Scrub!Scrubbed(h, d, g[d + 1])]
           s == CHOOSE g : g = F(g)
<1>1. \E g : g = F(g)
  BY LevelsExist
<1>2. s = F(s)
  BY <1>1, Zenon
<1>3. Scrub!scrubValue(h) = s
  BY DEF Scrub!scrubValue, Deepest
<1> HIDE DEF s
<1>4. F(s)[depth] = Scrub!Scrubbed(h, depth, s[depth + 1])
  OBVIOUS
<1> HIDE DEF F
<1> QED
  BY <1>2, <1>3, <1>4

\* What a path leads to in the objects, step by step.
Followed(w, root, path, n) ==
  \A i \in 0..n : w[i] = IF i = 0 THEN root ELSE Scrub!Follow(w[i - 1], path[i])

LEMMA FollowExists ==
  ASSUME NEW root, NEW path, NEW n \in Nat
  PROVE  \E w : Followed(w, root, path, n)
<1> DEFINE S == {m \in Nat : \E w : Followed(w, root, path, m)}
<1>1. 0 \in S
  <2> DEFINE w == [i \in 0..0 |-> root]
  <2>1. Followed(w, root, path, 0)
    BY DEF Followed
  <2> QED
    BY <2>1
<1>2. ASSUME NEW m \in Nat, m \in S PROVE m + 1 \in S
  <2>1. PICK w : Followed(w, root, path, m)
    BY <1>2
  <2> DEFINE v == [i \in 0..(m + 1) |-> IF i = m + 1 THEN Scrub!Follow(w[m], path[i]) ELSE w[i]]
  <2>2. Followed(v, root, path, m + 1)
    BY <2>1 DEF Followed
  <2> HIDE DEF v
  <2> QED
    BY <2>2
<1>3. Nat \subseteq S
  <2>1. \A m \in Nat : m \in S => m + 1 \in S
    BY <1>2
  <2> HIDE DEF S
  <2> QED
    BY <1>1, <2>1, SetInduction
<1> QED
  BY <1>3

LEMMA BeforeIs ==
  ASSUME NEW part, NEW path, Len(path) \in Nat
  PROVE  \E w : /\ Followed(w, event.parts[part], path, Len(path))
                /\ Scrub!Before(part, path) = w[Len(path)]
<1> DEFINE F(g) == [i \in 0..Len(path) |->
                      IF i = 0 THEN event.parts[part] ELSE Scrub!Follow(g[i - 1], path[i])]
           w == CHOOSE g : g = F(g)
<1>1. \E g : g = F(g)
  <2>1. PICK v : Followed(v, event.parts[part], path, Len(path))
    BY FollowExists
  <2> DEFINE g == [i \in 0..Len(path) |-> v[i]]
  <2>2. g = F(g)
    BY <2>1 DEF Followed
  <2> QED
    BY <2>2, Zenon
<1>2. w = F(w)
  BY <1>1, Zenon
<1>3. Scrub!Before(part, path) = w[Len(path)]
  BY DEF Scrub!Before
<1> HIDE DEF w
<1>4. \A i \in 0..Len(path) :
        F(w)[i] = IF i = 0 THEN event.parts[part] ELSE Scrub!Follow(w[i - 1], path[i])
  OBVIOUS
<1> HIDE DEF F
<1> QED
  BY <1>2, <1>3, <1>4 DEF Followed

\* The same in the report.
Entered(w, root, path, n) ==
  \A i \in 0..n : w[i] = IF i = 0 THEN root ELSE Scrub!Enter(w[i - 1], path[i])

LEMMA EnterExists ==
  ASSUME NEW root, NEW path, NEW n \in Nat
  PROVE  \E w : Entered(w, root, path, n)
<1> DEFINE S == {m \in Nat : \E w : Entered(w, root, path, m)}
<1>1. 0 \in S
  <2> DEFINE w == [i \in 0..0 |-> root]
  <2>1. Entered(w, root, path, 0)
    BY DEF Entered
  <2> QED
    BY <2>1
<1>2. ASSUME NEW m \in Nat, m \in S PROVE m + 1 \in S
  <2>1. PICK w : Entered(w, root, path, m)
    BY <1>2
  <2> DEFINE v == [i \in 0..(m + 1) |-> IF i = m + 1 THEN Scrub!Enter(w[m], path[i]) ELSE w[i]]
  <2>2. Entered(v, root, path, m + 1)
    BY <2>1 DEF Entered
  <2> HIDE DEF v
  <2> QED
    BY <2>2
<1>3. Nat \subseteq S
  <2>1. \A m \in Nat : m \in S => m + 1 \in S
    BY <1>2
  <2> HIDE DEF S
  <2> QED
    BY <1>1, <2>1, SetInduction
<1> QED
  BY <1>3

LEMMA AfterIs ==
  ASSUME NEW part, NEW path, Len(path) \in Nat
  PROVE  \E w : /\ Entered(w, report.parts[part], path, Len(path))
                /\ Scrub!After(part, path) = w[Len(path)]
<1> DEFINE F(g) == [i \in 0..Len(path) |->
                      IF i = 0 THEN report.parts[part] ELSE Scrub!Enter(g[i - 1], path[i])]
           w == CHOOSE g : g = F(g)
<1>1. \E g : g = F(g)
  <2>1. PICK v : Entered(v, report.parts[part], path, Len(path))
    BY EnterExists
  <2> DEFINE g == [i \in 0..Len(path) |-> v[i]]
  <2>2. g = F(g)
    BY <2>1 DEF Entered
  <2> QED
    BY <2>2, Zenon
<1>2. w = F(w)
  BY <1>1, Zenon
<1>3. Scrub!After(part, path) = w[Len(path)]
  BY DEF Scrub!After
<1> HIDE DEF w
<1>4. \A i \in 0..Len(path) :
        F(w)[i] = IF i = 0 THEN report.parts[part] ELSE Scrub!Enter(w[i - 1], path[i])
  OBVIOUS
<1> HIDE DEF F
<1> QED
  BY <1>2, <1>3, <1>4 DEF Entered

\* The objects and the event are what a program can build.
ScrubTyped == heap \in [Node -> Scrub!Objects] /\ event \in Scrub!Events

Level(depth) == Scrub!scrubValue(heap)[depth]

LEMMA ObjectFacts ==
  ASSUME ScrubTyped, NEW node \in Node
  PROVE  /\ heap[node].type \in {"record", "array"}
         /\ heap[node].type = "record" => DOMAIN heap[node].at \subseteq Property
         /\ heap[node].type = "array" => DOMAIN heap[node].at \subseteq Nat
         /\ \A step \in DOMAIN heap[node].at : heap[node].at[step] \in Scrub!Ref
<1>1. heap[node] \in Scrub!Objects
  BY DEF ScrubTyped
<1>2. CASE heap[node] \in [type : {"record"}, at : Scrub!Records]
  BY <1>2 DEF Scrub!Records
<1>3. CASE heap[node] \in [type : {"array"}, at : Scrub!Arrays]
  BY <1>3, ScrubConstants DEF Scrub!Arrays, Scrub!ScrubAssumption
<1> QED
  BY <1>1, <1>2, <1>3 DEF Scrub!Objects

\* A level scrubs a node property by property, and a leaf to itself, down to the
\* depth where it is cut.
LEMMA LevelFacts ==
  ASSUME ScrubTyped, NEW depth \in 0..(MAX_SCRUB_DEPTH + 1), NEW ref \in Scrub!Ref
  PROVE  /\ depth > MAX_SCRUB_DEPTH => Level(depth)[ref] = Scrub!Redacted
         /\ depth <= MAX_SCRUB_DEPTH /\ ref = Scrub!Data => Level(depth)[ref] = Scrub!Data
         /\ depth <= MAX_SCRUB_DEPTH /\ ref \in Node =>
              /\ Level(depth)[ref].type = heap[ref].type
              /\ Level(depth)[ref].at =
                   [step \in DOMAIN heap[ref].at |->
                      IF heap[ref].type = "record" /\ step \in Sensitive THEN Scrub!Redacted
                      ELSE Level(depth + 1)[heap[ref].at[step]]]
<1>1. depth \in 0..Deepest /\ depth \in Nat /\ MAX_SCRUB_DEPTH \in Nat
  BY ScrubConstants DEF Deepest, Scrub!ScrubAssumption
<1>2. Level(depth) = Scrub!Scrubbed(heap, depth, Level(depth + 1))
  BY <1>1, ScrubValueIs DEF Level
<1>3. ref \in Node => ref # Scrub!Data
  BY ScrubConstants DEF Scrub!ScrubAssumption
<1> HIDE DEF Level
<1> QED
  BY <1>1, <1>2, <1>3 DEF Scrub!Scrubbed, Scrub!TooDeep, Scrub!Hidden

\* One step further from a node, in the objects and in what was made of them.
LEMMA StepFacts ==
  ASSUME ScrubTyped, NEW depth \in 0..MAX_SCRUB_DEPTH, NEW node \in Node, NEW step \in Scrub!Step
  PROVE  /\ Scrub!Follow(node, step) \in Scrub!Ref \union {Scrub!Nothing}
         /\ Scrub!Enter(Level(depth)[node], step) =
              IF Scrub!Follow(node, step) = Scrub!Nothing THEN Scrub!Nothing
              ELSE IF step \in Sensitive THEN Scrub!Redacted
              ELSE Level(depth + 1)[Scrub!Follow(node, step)]
<1> DEFINE object == heap[node]
           tree == Level(depth)[node]
<1>1. depth \in 0..(MAX_SCRUB_DEPTH + 1) /\ depth <= MAX_SCRUB_DEPTH /\ node \in Scrub!Ref
  BY ScrubConstants DEF Scrub!ScrubAssumption, Scrub!Ref
<1>2. /\ tree.type = object.type
      /\ tree.at = [s \in DOMAIN object.at |->
                      IF object.type = "record" /\ s \in Sensitive THEN Scrub!Redacted
                      ELSE Level(depth + 1)[object.at[s]]]
  BY <1>1, LevelFacts
<1>3. /\ object.type \in {"record", "array"}
      /\ object.type = "array" => \A s \in DOMAIN object.at : s \notin Sensitive
      /\ \A s \in DOMAIN object.at : object.at[s] \in Scrub!Ref
  BY ObjectFacts, ScrubConstants DEF Scrub!ScrubAssumption
<1>4. Scrub!Nothing \notin Scrub!Ref
  BY ScrubConstants DEF Scrub!ScrubAssumption, Scrub!Ref, Scrub!Nothing, Scrub!Data
<1> HIDE DEF tree, object
<1>5. Scrub!Enter(tree, step) = Scrub!At(tree, step)
  BY <1>2, <1>3 DEF Scrub!Enter
<1>6. Scrub!Follow(node, step) = Scrub!At(object, step)
  BY DEF Scrub!Follow, object
<1>7. DOMAIN tree.at = DOMAIN object.at
  BY <1>2
<1>8. ASSUME step \in DOMAIN object.at
      PROVE  tree.at[step] = IF step \in Sensitive THEN Scrub!Redacted
                             ELSE Level(depth + 1)[object.at[step]]
  BY <1>2, <1>3, <1>8
<1> HIDE DEF Level
<1>9. CASE step \in DOMAIN object.at
  <2>1. Scrub!Follow(node, step) = object.at[step] /\ object.at[step] \in Scrub!Ref
    BY <1>9, <1>6, <1>3 DEF Scrub!At
  <2>2. Scrub!Enter(tree, step) = tree.at[step]
    BY <1>9, <1>5, <1>7 DEF Scrub!At
  <2> QED
    BY <2>1, <2>2, <1>4, <1>8, <1>9 DEF tree
<1>10. CASE step \notin DOMAIN object.at
  BY <1>10, <1>5, <1>6, <1>7 DEF Scrub!At, tree
<1> QED
  BY <1>9, <1>10

\* Nothing lies beyond a leaf.
LEMMA LeafFacts ==
  \A step : /\ Scrub!Enter(Scrub!Data, step) = Scrub!Nothing
            /\ Scrub!Enter(Scrub!Redacted, step) = Scrub!Nothing
            /\ Scrub!Enter(Scrub!Nothing, step) = Scrub!Nothing
            /\ Scrub!Follow(Scrub!Data, step) = Scrub!Nothing
            /\ Scrub!Follow(Scrub!Nothing, step) = Scrub!Nothing
BY ScrubConstants DEF Scrub!ScrubAssumption, Scrub!Enter, Scrub!Follow, Scrub!Data,
   Scrub!Redacted, Scrub!Nothing

CleanTo(path, k) == \A i \in 1..k : path[i] \notin Sensitive

\* A place of a path lies above every cut, by a name or by depth.
Uncut(path, i) == CleanTo(path, i - 1) /\ i - 1 <= MAX_SCRUB_DEPTH

\* What stands in the report where b stands in the objects.
Agree(b, a, path, i) ==
  /\ b[i] \in Scrub!Ref \union {Scrub!Nothing}
  /\ b[i] = Scrub!Nothing => a[i] = Scrub!Nothing
  /\ b[i] # Scrub!Nothing =>
       /\ Uncut(path, i) /\ (i > 0 => path[i] \notin Sensitive) => a[i] = Level(i)[b[i]]
       /\ Uncut(path, i) /\ i > 0 /\ path[i] \in Sensitive => a[i] = Scrub!Redacted
       /\ ~Uncut(path, i) => a[i] = Scrub!Nothing

LEMMA AgreeNext ==
  ASSUME ScrubTyped, NEW b, NEW a, NEW path, NEW i \in Nat, Agree(b, a, path, i),
         path[i + 1] \in Scrub!Step,
         b[i + 1] = Scrub!Follow(b[i], path[i + 1]),
         a[i + 1] = Scrub!Enter(a[i], path[i + 1])
  PROVE  Agree(b, a, path, i + 1)
<1>1. MAX_SCRUB_DEPTH \in Nat /\ Scrub!Ref = Node \union {Scrub!Data}
      /\ Scrub!Data \notin Node /\ Scrub!Nothing \notin Node
  BY ScrubConstants DEF Scrub!ScrubAssumption, Scrub!Ref
<1>2. Uncut(path, i + 1) <=> CleanTo(path, i) /\ i <= MAX_SCRUB_DEPTH
  BY DEF Uncut
<1>3. CleanTo(path, i) <=> CleanTo(path, i - 1) /\ (i > 0 => path[i] \notin Sensitive)
  BY DEF CleanTo
<1>4. CASE b[i] \in Node /\ Uncut(path, i + 1)
  <2>1. i \in 0..MAX_SCRUB_DEPTH
    BY <1>1, <1>2, <1>4
  <2>2. a[i] = Level(i)[b[i]]
    BY <1>1, <1>2, <1>3, <1>4 DEF Agree, Uncut
  <2>3. /\ b[i + 1] \in Scrub!Ref \union {Scrub!Nothing}
        /\ a[i + 1] = IF b[i + 1] = Scrub!Nothing THEN Scrub!Nothing
                      ELSE IF path[i + 1] \in Sensitive THEN Scrub!Redacted
                      ELSE Level(i + 1)[b[i + 1]]
    BY <1>4, <2>1, <2>2, StepFacts
  <2> QED
    BY <1>4, <2>3 DEF Agree
<1>5. CASE b[i] \in Node /\ ~Uncut(path, i + 1)
  <2>1. a[i] \in {Scrub!Redacted, Scrub!Nothing}
    <3>1. CASE Uncut(path, i) /\ (i > 0 => path[i] \notin Sensitive)
      <4>1. i = MAX_SCRUB_DEPTH + 1
        BY <1>1, <1>2, <1>3, <1>5, <3>1 DEF Uncut
      <4>2. i \in 0..(MAX_SCRUB_DEPTH + 1) /\ i > MAX_SCRUB_DEPTH /\ b[i] \in Scrub!Ref
        BY <4>1, <1>1, <1>5
      <4>3. Level(i)[b[i]] = Scrub!Redacted
        BY <4>2, LevelFacts
      <4> QED
        BY <4>3, <3>1, <1>1, <1>5 DEF Agree
    <3>2. CASE ~(Uncut(path, i) /\ (i > 0 => path[i] \notin Sensitive))
      BY <3>2, <1>1, <1>5 DEF Agree
    <3> QED
      BY <3>1, <3>2
  <2>2. a[i + 1] = Scrub!Nothing
    BY <2>1, LeafFacts
  <2>3. b[i + 1] \in Scrub!Ref \union {Scrub!Nothing}
    <3>1. 0 \in 0..MAX_SCRUB_DEPTH
      BY <1>1
    <3> QED
      BY <3>1, <1>5, StepFacts
  <2> QED
    BY <2>2, <2>3, <1>5 DEF Agree
<1>6. CASE b[i] \notin Node
  <2>1. b[i] \in {Scrub!Data, Scrub!Nothing}
    BY <1>1, <1>6 DEF Agree
  <2>2. a[i] \in {Scrub!Data, Scrub!Redacted, Scrub!Nothing}
    <3>1. CASE b[i] = Scrub!Data /\ Uncut(path, i) /\ (i > 0 => path[i] \notin Sensitive)
      <4>1. i \in 0..(MAX_SCRUB_DEPTH + 1) /\ b[i] \in Scrub!Ref
        BY <3>1, <1>1 DEF Uncut
      <4>2. Level(i)[b[i]] \in {Scrub!Data, Scrub!Redacted}
        <5>1. /\ i > MAX_SCRUB_DEPTH => Level(i)[b[i]] = Scrub!Redacted
              /\ i <= MAX_SCRUB_DEPTH /\ b[i] = Scrub!Data => Level(i)[b[i]] = Scrub!Data
          BY <4>1, LevelFacts
        <5> QED
          BY <5>1, <3>1, <1>1
      <4>3. b[i] # Scrub!Nothing
        BY <3>1 DEF Scrub!Data, Scrub!Nothing
      <4> QED
        BY <4>2, <4>3, <3>1 DEF Agree
    <3>2. CASE ~(b[i] = Scrub!Data /\ Uncut(path, i) /\ (i > 0 => path[i] \notin Sensitive))
      BY <3>2, <2>1 DEF Agree
    <3> QED
      BY <3>1, <3>2
  <2> QED
    BY <2>1, <2>2, LeafFacts DEF Agree
<1> QED
  BY <1>4, <1>5, <1>6

LEMMA AgreeAlong ==
  ASSUME ScrubTyped, NEW part \in Part, NEW path, NEW n \in Nat, NEW b, NEW a,
         \A i \in 1..n : path[i] \in Scrub!Step,
         report.parts = Scrub!scrubParts(event),
         Followed(b, event.parts[part], path, n), Entered(a, report.parts[part], path, n)
  PROVE  \A i \in 0..n : Agree(b, a, path, i)
<1> DEFINE S == {i \in Nat : i <= n => Agree(b, a, path, i)}
<1>1. 0 \in S
  <2>1. /\ b[0] = event.parts[part]
        /\ a[0] = IF b[0] = Scrub!Nothing THEN Scrub!Nothing ELSE Level(0)[b[0]]
    BY DEF Followed, Entered, Scrub!scrubParts, Scrub!scrubRecord, Level
  <2>2. b[0] \in Node \union {Scrub!Nothing}
    BY <2>1 DEF ScrubTyped, Scrub!Events
  <2>3. Uncut(path, 0)
    BY ScrubConstants DEF Uncut, CleanTo, Scrub!ScrubAssumption
  <2> QED
    BY <2>1, <2>2, <2>3 DEF Agree, Scrub!Ref
<1>2. ASSUME NEW i \in Nat, i \in S PROVE i + 1 \in S
  <2> SUFFICES ASSUME i + 1 <= n PROVE Agree(b, a, path, i + 1)
    OBVIOUS
  <2>1. Agree(b, a, path, i) /\ path[i + 1] \in Scrub!Step
    BY <1>2
  <2>2. /\ b[i + 1] = Scrub!Follow(b[i], path[i + 1])
        /\ a[i + 1] = Scrub!Enter(a[i], path[i + 1])
    <3>1. i + 1 \in 0..n /\ i + 1 # 0 /\ (i + 1) - 1 = i
      OBVIOUS
    <3> QED
      BY <3>1 DEF Followed, Entered
  <2> QED
    BY <2>1, <2>2, AgreeNext
<1>3. Nat \subseteq S
  <2>1. \A i \in Nat : i \in S => i + 1 \in S
    BY <1>2
  <2> HIDE DEF S
  <2> QED
    BY <1>1, <2>1, SetInduction
<1> QED
  BY <1>3

LEMMA PathFacts ==
  ASSUME NEW path \in Scrub!Paths
  PROVE  /\ Len(path) \in Nat \ {0}
         /\ \A i \in 1..Len(path) : path[i] \in Scrub!Step
         /\ Scrub!Clean(path) <=> CleanTo(path, Len(path))
         /\ Scrub!Clean(SubSeq(path, 1, Len(path) - 1)) <=> CleanTo(path, Len(path) - 1)
<1>1. PICK n \in 1..(MAX_SCRUB_DEPTH + 2) : path \in [1..n -> Scrub!Step]
  BY DEF Scrub!Paths
<1>2. n \in Nat \ {0}
  BY ScrubConstants DEF Scrub!ScrubAssumption
<1>3. path \in Seq(Scrub!Step) /\ Len(path) = n
  BY <1>1, <1>2
<1>4. LET parent == SubSeq(path, 1, Len(path) - 1) IN
        /\ Len(parent) = Len(path) - 1
        /\ \A i \in 1..Len(parent) : parent[i] = path[i]
  BY <1>2, <1>3, <1>1
<1> QED
  BY <1>1, <1>2, <1>3, <1>4 DEF Scrub!Clean, CleanTo

\* What scrubEvent makes of its parts is right, path by path.
LEMMA PartsAreScrubbed ==
  ASSUME ScrubTyped, report.parts = Scrub!scrubParts(event)
  PROVE  Scrub!ScrubbedPathByPath
<1> SUFFICES ASSUME NEW part \in Part, NEW path \in Scrub!Paths
             PROVE  LET parent == SubSeq(path, 1, Len(path) - 1)
                        last   == path[Len(path)] IN
      /\ Scrub!After(part, path) = Scrub!Data <=>
           Scrub!Before(part, path) = Scrub!Data /\ Scrub!Clean(path) /\ Len(path) <= MAX_SCRUB_DEPTH
      /\ Scrub!After(part, path) = Scrub!Redacted <=>
           /\ Scrub!Before(part, path) # Scrub!Nothing /\ Scrub!Clean(parent)
           /\ \/ last \in Sensitive /\ Len(path) <= MAX_SCRUB_DEPTH + 1
              \/ last \notin Sensitive /\ Len(path) = MAX_SCRUB_DEPTH + 1
  BY DEF Scrub!ScrubbedPathByPath
<1> DEFINE n == Len(path)
<1>1. /\ n \in Nat /\ n > 0
      /\ \A i \in 1..n : path[i] \in Scrub!Step
      /\ Scrub!Clean(path) <=> CleanTo(path, n)
      /\ Scrub!Clean(SubSeq(path, 1, n - 1)) <=> CleanTo(path, n - 1)
  BY PathFacts
<1>2. PICK b : Followed(b, event.parts[part], path, n) /\ Scrub!Before(part, path) = b[n]
  BY <1>1, BeforeIs
<1>3. PICK a : Entered(a, report.parts[part], path, n) /\ Scrub!After(part, path) = a[n]
  BY <1>1, AfterIs
<1> HIDE DEF n
<1>4. Agree(b, a, path, n)
  <2>1. n \in 0..n
    BY <1>1
  <2> QED
    BY <1>1, <1>2, <1>3, <2>1, AgreeAlong
<1>5. /\ MAX_SCRUB_DEPTH \in Nat /\ Scrub!Ref = Node \union {Scrub!Data}
      /\ Scrub!Data \notin Node /\ Scrub!Nothing \notin Node
  BY ScrubConstants DEF Scrub!ScrubAssumption, Scrub!Ref
<1>6. Scrub!Data # Scrub!Redacted /\ Scrub!Data # Scrub!Nothing /\ Scrub!Redacted # Scrub!Nothing
  BY DEF Scrub!Data, Scrub!Redacted, Scrub!Nothing
<1>7. CleanTo(path, n) <=> CleanTo(path, n - 1) /\ path[n] \notin Sensitive
  BY <1>1 DEF CleanTo
<1>8. /\ a[n] = Scrub!Data <=> b[n] = Scrub!Data /\ CleanTo(path, n) /\ n <= MAX_SCRUB_DEPTH
      /\ a[n] = Scrub!Redacted <=>
           /\ b[n] # Scrub!Nothing /\ CleanTo(path, n - 1)
           /\ \/ path[n] \in Sensitive /\ n <= MAX_SCRUB_DEPTH + 1
              \/ path[n] \notin Sensitive /\ n = MAX_SCRUB_DEPTH + 1
  <2>1. CASE b[n] = Scrub!Nothing
    BY <2>1, <1>4, <1>6 DEF Agree
  <2>2. CASE b[n] # Scrub!Nothing /\ ~Uncut(path, n)
    BY <2>2, <1>1, <1>4, <1>5, <1>6, <1>7 DEF Agree, Uncut
  <2>3. CASE b[n] # Scrub!Nothing /\ Uncut(path, n) /\ path[n] \in Sensitive
    BY <2>3, <1>1, <1>4, <1>5, <1>6, <1>7 DEF Agree, Uncut
  <2>4. CASE b[n] # Scrub!Nothing /\ Uncut(path, n) /\ path[n] \notin Sensitive
    <3>1. n \in 0..(MAX_SCRUB_DEPTH + 1) /\ b[n] \in Scrub!Ref
      BY <2>4, <1>1, <1>4, <1>5 DEF Agree, Uncut
    <3>2. a[n] = Level(n)[b[n]]
      BY <2>4, <1>1, <1>4 DEF Agree
    <3>3. CASE n > MAX_SCRUB_DEPTH
      <4>1. a[n] = Scrub!Redacted
        BY <3>1, <3>2, <3>3, LevelFacts
      <4>2. n = MAX_SCRUB_DEPTH + 1
        BY <3>1, <3>3, <1>1, <1>5
      <4> QED
        BY <4>1, <4>2, <2>4, <1>5, <1>6 DEF Uncut
    <3>4. CASE n <= MAX_SCRUB_DEPTH /\ b[n] = Scrub!Data
      <4>1. a[n] = Scrub!Data
        BY <3>1, <3>2, <3>4, LevelFacts
      <4>2. ~(n = MAX_SCRUB_DEPTH + 1)
        BY <3>4, <1>1, <1>5
      <4> QED
        BY <4>1, <4>2, <3>4, <2>4, <1>6, <1>7 DEF Uncut
    <3>5. CASE n <= MAX_SCRUB_DEPTH /\ b[n] \in Node
      <4>1. a[n].type = heap[b[n]].type
        BY <3>1, <3>2, <3>5, LevelFacts
      <4>2. a[n].type \in {"record", "array"}
        BY <4>1, <3>5, ObjectFacts
      <4>3. a[n] # Scrub!Data /\ a[n] # Scrub!Redacted
        BY <4>2 DEF Scrub!Data, Scrub!Redacted
      <4> QED
        BY <4>3, <3>5, <2>4, <1>1, <1>5, <1>7
    <3> QED
      BY <3>1, <3>3, <3>4, <3>5, <1>1, <1>5
  <2> QED
    BY <2>1, <2>2, <2>3, <2>4
<1> QED
  BY <1>1, <1>2, <1>3, <1>8 DEF n

ScrubInv ==
  /\ acting = "reporter" => ScrubTyped
  /\ report # Absent => acting = "reporter" /\ report = Scrub!Reported(event)

LEMMA ListLeaves ==
  ASSUME ScrubInv
  PROVE  Scrub!OnlyTheListLeaves
<1> SUFFICES ASSUME report # Absent PROVE Scrub!OnlyTheListLeaves
  BY DEF Scrub!OnlyTheListLeaves
<1>1. event \in Scrub!Events /\ report = Scrub!Reported(event)
  BY DEF ScrubInv, ScrubTyped
<1>2. /\ event.request # Absent =>
           /\ report.request.fields = {"method", "headers"}
           /\ report.request.headers = Scrub!filterHeaders(event.request.headers)
           /\ event.request.headers \subseteq Scrub!Header
      /\ event.user # Absent => report.user = {"id"}
      /\ event.frame # Absent =>
           report.frame = event.frame \ {"vars"} /\ event.frame = {"function", "lineno", "vars"}
  BY <1>1 DEF Scrub!Reported, Scrub!Events
<1> QED
  BY <1>2 DEF Scrub!OnlyTheListLeaves, Scrub!filterHeaders

\* A report that leaves is what scrubEvent made of the event as it still is.
THEOREM ScrubInvariance == ProcessSpec => []ScrubInv
<1>1. ProcessInit => ScrubInv
  BY DEF ProcessInit, ScrubInv, ScrubTyped, Scrub!Init
<1>2. ScrubInv /\ [ProcessNext]_<<acting, vars, probes, reporter>> => ScrubInv'
  <2> SUFFICES ASSUME ScrubInv, [ProcessNext]_<<acting, vars, probes, reporter>> PROVE ScrubInv'
    OBVIOUS
  <2>1. UNCHANGED <<acting, heap, event>>
    BY DEF ProcessNext, reporter, Scrub!Next, Scrub!scrubEvent
  <2>2. Scrub!Reported(event)' = Scrub!Reported(event)
    BY <2>1 DEF Scrub!Reported, Scrub!scrubParts
  <2>3. \/ report' = report
        \/ acting = "reporter" /\ report' = Scrub!Reported(event)
    BY DEF ProcessNext, reporter, Scrub!Next, Scrub!scrubEvent
  <2> QED
    BY <2>1, <2>2, <2>3 DEF ScrubInv, ScrubTyped
<1>3. QED
  BY <1>1, <1>2, PTL DEF ProcessSpec

\* Scrub's own type invariant, while the process is at that: a part has something
\* to show in the report exactly when it had something to hide.
THEOREM ScrubTypeCorrect == ProcessSpec => [](acting = "reporter" => Scrub!TypeOK)
<1>1. ScrubInv /\ acting = "reporter" => Scrub!TypeOK
  <2> SUFFICES ASSUME ScrubInv, acting = "reporter" PROVE Scrub!TypeOK
    OBVIOUS
  <2>1. ScrubTyped
    BY DEF ScrubInv
  <2>2. ASSUME report # Absent, NEW part \in Part
        PROVE  report.parts[part] = Scrub!Nothing <=> event.parts[part] = Scrub!Nothing
    <3>1. report.parts[part] = IF event.parts[part] = Scrub!Nothing THEN Scrub!Nothing
                               ELSE Level(0)[event.parts[part]]
      BY <2>2 DEF ScrubInv, Scrub!Reported, Scrub!scrubParts, Scrub!scrubRecord, Level
    <3>2. ASSUME event.parts[part] # Scrub!Nothing
          PROVE  Level(0)[event.parts[part]] # Scrub!Nothing
      <4>1. event.parts[part] \in Node
        BY <2>1, <3>2 DEF ScrubTyped, Scrub!Events
      <4>2. /\ 0 \in 0..(MAX_SCRUB_DEPTH + 1) /\ 0 <= MAX_SCRUB_DEPTH
            /\ event.parts[part] \in Scrub!Ref
        BY <4>1, ScrubConstants DEF Scrub!ScrubAssumption, Scrub!Ref
      <4>3. Level(0)[event.parts[part]].type \in {"record", "array"}
        BY <4>1, <4>2, <2>1, LevelFacts, ObjectFacts
      <4> QED
        BY <4>3 DEF Scrub!Nothing
    <3> QED
      BY <3>1, <3>2
  <2>3. report # Absent => DOMAIN report = DOMAIN event
    BY <2>1 DEF ScrubInv, ScrubTyped, Scrub!Reported, Scrub!Events
  <2> QED
    BY <2>1, <2>2, <2>3 DEF Scrub!TypeOK, ScrubTyped
<1>2. QED
  BY <1>1, ScrubInvariance, PTL

\* scrubEvent, for any heap of objects, depth and names: data leaves exactly by
\* the clean paths above the cut, and every cut shows.
THEOREM ScrubbedReports == ProcessSpec => []ReportIsScrubbed
<1>1. ScrubInv => ReportIsScrubbed
  <2> SUFFICES ASSUME ScrubInv PROVE ReportIsScrubbed
    OBVIOUS
  <2>1. CASE report = Absent
    BY <2>1, ListLeaves DEF ReportIsScrubbed, Scrub!ReportIsScrubbed, Scrub!ScrubbedPathByPath
  <2>2. CASE report # Absent
    <3>1. ScrubTyped /\ report.parts = Scrub!scrubParts(event)
      BY <2>2 DEF ScrubInv, Scrub!Reported
    <3> QED
      BY <3>1, PartsAreScrubbed, ListLeaves DEF ReportIsScrubbed, Scrub!ReportIsScrubbed
  <2> QED
    BY <2>1, <2>2
<1>2. QED
  BY <1>1, ScrubInvariance, PTL
=============================================================================
