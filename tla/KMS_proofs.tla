----------------------------- MODULE KMS_proofs -----------------------------
(***************************************************************************)
(* Proofs about KeyManager, KMSServer and KeyRotation, of which each        *)
(* extends the one before: for any number of processes, goroutines,         *)
(* requests and keys and for every Env.                                     *)
(***************************************************************************)
EXTENDS KeyRotation, TLAPS, FiniteSetTheorems

-----------------------------------------------------------------------------
(* KeyManager: type correctness, then the invariants LockInv, KeyInv, OneKeyInv and
   RecordInv, each inductive relative to those before it, and from them the properties
   of the module. *)

\* The types are inductive together with what is known of the keys that calls
\* hold: a call writes, seals and caches keys only.  First the steps of a call.
LEMMA TypeStep ==
    ASSUME TypeOK, KeyInv, NEW c \in Calls, Step(c)
    PROVE  TypeOK' /\ KeyInv'
<1> USE KeyManagerAssumption
    DEF TypeOK, KeyInv, KeyManagerAssumption, Record, PC, store, memory, calls, history
<1>1. CASE FastPath(c)
  BY <1>1, SMT DEF FastPath, HandOut, Goto
<1>2. CASE AcquireLock(c)
  BY <1>2, SMT DEF AcquireLock, HandOut, Goto
<1>3. CASE ReadKey(c)
  BY <1>3, SMT DEF ReadKey, HandOut, Unlock, KeyReadable, KVReadable
<1>4. CASE ReadMalformed(c)
  BY <1>4, SMT DEF ReadMalformed, Finish, Unlock
<1>5. CASE ReadMiss(c)
  BY <1>5, SMT DEF ReadMiss, Finish, Unlock
<1>6. ASSUME NEW k \in Keys, Generate(c, k) PROVE TypeOK' /\ KeyInv'
  BY <1>6, SMT DEF Generate
<1>7. CASE WriteApplied(c)
  BY <1>7, SMT DEF WriteApplied, Put, NewRecord, Goto
<1>8. CASE Retry(c)
  BY <1>8, SMT DEF Retry, Goto
<1>9. CASE WriteFails(c)
  BY <1>9, SMT DEF WriteFails, Finish, Unlock
<1>10. CASE WriteTimesOut(c)
  BY <1>10, SMT DEF WriteTimesOut, NewRecord, Finish, Unlock
<1>11. CASE WriteAcked(c)
  BY <1>11, SMT DEF WriteAcked, HandOut, Unlock
<1>12. CASE Seal(c)
  BY <1>12, SMT DEF Seal, Goto
<1>13. CASE Respond(c)
  BY <1>13, SMT DEF Respond, Finish
<1>14. CASE Open(c)
  BY <1>14, SMT DEF Open, Finish
<1> QED
  BY <1>1, <1>2, <1>3, <1>4, <1>5, <1>6, <1>7, <1>8, <1>9, <1>10, <1>11, <1>12, <1>13, <1>14
     DEF Step

\* Then all steps: calls, processes and the environment.
LEMMA TypeNext ==
    ASSUME TypeOK, KeyInv, [Next]_vars
    PROVE  TypeOK' /\ KeyInv'
<1> USE KeyManagerAssumption
    DEF TypeOK, KeyInv, KeyManagerAssumption, Record, PC, store, memory, calls, history
<1>1. ASSUME NEW c \in Calls, Step(c) PROVE TypeOK' /\ KeyInv'
  BY <1>1, TypeStep
<1>2. ASSUME NEW c \in Calls, NEW x \in Keys \cup {NoKey, BadKey}, Receive(c, x)
      PROVE  TypeOK' /\ KeyInv'
  BY <1>2, SMT DEF Receive
<1>3. ASSUME NEW p \in Plugins, Boot(p)
      PROVE  TypeOK' /\ KeyInv'
  BY <1>3, SMT DEF Boot
<1>4. ASSUME NEW p \in Plugins, Crash(p)
      PROVE  TypeOK' /\ KeyInv'
  BY <1>4, SMT DEF Crash
<1>5. ASSUME NEW p \in Plugins, InvalidateCache(p)
      PROVE  TypeOK' /\ KeyInv'
  BY <1>5, SMT DEF InvalidateCache
<1>6. ASSUME NEW k \in Keys, NEW v \in 1..MaxVersion, Rotate(k, v)
      PROVE  TypeOK' /\ KeyInv'
  BY <1>6, SMT DEF Rotate, Put
<1>7. ASSUME NEW r \in Record, LateWrite(r)
      PROVE  TypeOK' /\ KeyInv'
  BY <1>7, SMT DEF LateWrite, Put
<1>8. CASE WriteMalformed
  BY <1>8, SMT DEF WriteMalformed
<1>9. CASE Outage
  <2>1. baoUp' \in BOOLEAN
    BY <1>9 DEF Outage
  <2> QED
    BY <1>9, <2>1, SMT DEF Outage
<1>10. CASE Recovery
  BY <1>10, SMT DEF Recovery
<1>11. CASE UNCHANGED vars
  BY <1>11, SMT DEF vars
<1> QED
  BY <1>1, <1>2, <1>3, <1>4, <1>5, <1>6, <1>7, <1>8, <1>9, <1>10, <1>11
     DEF Next

\* Mutual exclusion: the lock and the program counters agree, and whoever holds
\* the lock has seen an empty cache, which only the holder fills.
LEMMA LockStep ==
    ASSUME TypeOK, LockInv, NEW c \in Calls, Step(c)
    PROVE  LockInv'
<1> USE KeyManagerAssumption
    DEF TypeOK, LockInv, InCritical, KeyManagerAssumption, PC, store, memory, calls,
        history
<1>1. CASE FastPath(c)
  BY <1>1, SMT DEF FastPath, HandOut, Goto
<1>2. CASE AcquireLock(c)
  BY <1>2, SMT DEF AcquireLock, HandOut, Goto
<1>3. CASE ReadKey(c)
  BY <1>3, SMT DEF ReadKey, HandOut, Unlock, KeyReadable, KVReadable
<1>4. CASE ReadMalformed(c)
  BY <1>4, SMT DEF ReadMalformed, Finish, Unlock
<1>5. CASE ReadMiss(c)
  BY <1>5, SMT DEF ReadMiss, Finish, Unlock
<1>6. ASSUME NEW k \in Keys, Generate(c, k) PROVE LockInv'
  BY <1>6, SMT DEF Generate
<1>7. CASE WriteApplied(c)
  BY <1>7, SMT DEF WriteApplied, Put, NewRecord, Goto
<1>8. CASE Retry(c)
  BY <1>8, SMT DEF Retry, Goto
<1>9. CASE WriteFails(c)
  BY <1>9, SMT DEF WriteFails, Finish, Unlock
<1>10. CASE WriteTimesOut(c)
  BY <1>10, SMT DEF WriteTimesOut, NewRecord, Finish, Unlock
<1>11. CASE WriteAcked(c)
  BY <1>11, SMT DEF WriteAcked, HandOut, Unlock
<1>12. CASE Seal(c)
  BY <1>12, SMT DEF Seal, Goto
<1>13. CASE Respond(c)
  BY <1>13, SMT DEF Respond, Finish
<1>14. CASE Open(c)
  BY <1>14, SMT DEF Open, Finish
<1> QED
  BY <1>1, <1>2, <1>3, <1>4, <1>5, <1>6, <1>7, <1>8, <1>9, <1>10, <1>11, <1>12, <1>13, <1>14
     DEF Step

\* Nothing outside the calls takes or fills what the lock protects.
LEMMA LockNext ==
    ASSUME TypeOK, LockInv, [Next]_vars
    PROVE  LockInv'
<1> USE KeyManagerAssumption
    DEF TypeOK, LockInv, InCritical, KeyManagerAssumption, PC, store, memory, calls,
        history
<1>1. ASSUME NEW c \in Calls, Step(c) PROVE LockInv'
  BY <1>1, LockStep
<1>2. ASSUME NEW c \in Calls, NEW x \in Keys \cup {NoKey, BadKey}, Receive(c, x)
      PROVE  LockInv'
  BY <1>2, SMT DEF Receive
<1>3. ASSUME NEW p \in Plugins, Boot(p)
      PROVE  LockInv'
  BY <1>3, SMT DEF Boot
<1>4. ASSUME NEW p \in Plugins, Crash(p)
      PROVE  LockInv'
  BY <1>4, SMT DEF Crash
<1>5. ASSUME NEW p \in Plugins, InvalidateCache(p)
      PROVE  LockInv'
  BY <1>5, SMT DEF InvalidateCache
<1>6. ASSUME NEW k \in Keys, NEW v \in 1..MaxVersion, Rotate(k, v)
      PROVE  LockInv'
  BY <1>6, SMT DEF Rotate, Put
<1>7. ASSUME NEW r \in Record, LateWrite(r)
      PROVE  LockInv'
  BY <1>7, SMT DEF LateWrite, Put
<1>8. CASE WriteMalformed
  BY <1>8, SMT DEF WriteMalformed
<1>9. CASE Outage
  BY <1>9, SMT DEF Outage
<1>10. CASE Recovery
  BY <1>10, SMT DEF Recovery
<1>11. CASE UNCHANGED vars
  BY <1>11, SMT DEF vars
<1> QED
  BY <1>1, <1>2, <1>3, <1>4, <1>5, <1>6, <1>7, <1>8, <1>9, <1>10, <1>11
     DEF Next

\* A cached key stays until the process dies, so all calls get the same one.
\* ReadKey and WriteAcked fill the cache, which LockInv says was empty.
LEMMA OneKeyStep ==
    ASSUME TypeOK, KeyInv, LockInv, OneKeyInv, NEW c \in Calls, Step(c)
    PROVE  OneKeyInv'
<1> USE KeyManagerAssumption
    DEF TypeOK, KeyInv, LockInv, InCritical, OneKeyInv, KeyManagerAssumption, PC, store,
        memory, calls, history
<1>1. CASE FastPath(c)
  BY <1>1, SMT DEF FastPath, HandOut, Goto
<1>2. CASE AcquireLock(c)
  BY <1>2, SMT DEF AcquireLock, HandOut, Goto
<1>3. CASE ReadKey(c)
  BY <1>3, SMT DEF ReadKey, HandOut, Unlock, KeyReadable, KVReadable
<1>4. CASE ReadMalformed(c)
  BY <1>4, SMT DEF ReadMalformed, Finish, Unlock
<1>5. CASE ReadMiss(c)
  BY <1>5, SMT DEF ReadMiss, Finish, Unlock
<1>6. ASSUME NEW k \in Keys, Generate(c, k) PROVE OneKeyInv'
  BY <1>6, SMT DEF Generate
<1>7. CASE WriteApplied(c)
  BY <1>7, SMT DEF WriteApplied, Put, NewRecord, Goto
<1>8. CASE Retry(c)
  BY <1>8, SMT DEF Retry, Goto
<1>9. CASE WriteFails(c)
  BY <1>9, SMT DEF WriteFails, Finish, Unlock
<1>10. CASE WriteTimesOut(c)
  BY <1>10, SMT DEF WriteTimesOut, NewRecord, Finish, Unlock
<1>11. CASE WriteAcked(c)
  BY <1>11, SMT DEF WriteAcked, HandOut, Unlock
<1>12. CASE Seal(c)
  BY <1>12, SMT DEF Seal, Goto
<1>13. CASE Respond(c)
  BY <1>13, SMT DEF Respond, Finish
<1>14. CASE Open(c)
  BY <1>14, SMT DEF Open, Finish
<1> QED
  BY <1>1, <1>2, <1>3, <1>4, <1>5, <1>6, <1>7, <1>8, <1>9, <1>10, <1>11, <1>12, <1>13, <1>14
     DEF Step

\* Only InvalidateCache empties the cache of a living process.
LEMMA OneKeyNext ==
    ASSUME TypeOK, KeyInv, LockInv, OneKeyInv, [Next]_vars
    PROVE  OneKeyInv'
<1> USE KeyManagerAssumption
    DEF TypeOK, KeyInv, LockInv, InCritical, OneKeyInv, KeyManagerAssumption, PC, store,
        memory, calls, history
<1>1. ASSUME NEW c \in Calls, Step(c) PROVE OneKeyInv'
  BY <1>1, OneKeyStep
<1>2. ASSUME NEW c \in Calls, NEW x \in Keys \cup {NoKey, BadKey}, Receive(c, x)
      PROVE  OneKeyInv'
  BY <1>2, SMT DEF Receive
<1>3. ASSUME NEW p \in Plugins, Boot(p)
      PROVE  OneKeyInv'
  BY <1>3, SMT DEF Boot
<1>4. ASSUME NEW p \in Plugins, Crash(p)
      PROVE  OneKeyInv'
  BY <1>4, SMT DEF Crash
<1>5. ASSUME NEW p \in Plugins, InvalidateCache(p)
      PROVE  OneKeyInv'
  BY <1>5, SMT DEF InvalidateCache
<1>6. ASSUME NEW k \in Keys, NEW v \in 1..MaxVersion, Rotate(k, v)
      PROVE  OneKeyInv'
  BY <1>6, SMT DEF Rotate, Put
<1>7. ASSUME NEW r \in Record, LateWrite(r)
      PROVE  OneKeyInv'
  BY <1>7, SMT DEF LateWrite, Put
<1>8. CASE WriteMalformed
  BY <1>8, SMT DEF WriteMalformed
<1>9. CASE Outage
  BY <1>9, SMT DEF Outage
<1>10. CASE Recovery
  BY <1>10, SMT DEF Recovery
<1>11. CASE UNCHANGED vars
  BY <1>11, SMT DEF vars
<1> QED
  BY <1>1, <1>2, <1>3, <1>4, <1>5, <1>6, <1>7, <1>8, <1>9, <1>10, <1>11
     DEF Next

\* In a safe deployment the record, the caches and the calls hold one key.  The
\* delicate step is WriteApplied: LockInv makes the writer the only one in its
\* process, and SafeDeployment makes its process the only one that may create.
LEMMA RecordStep ==
    ASSUME TypeOK, KeyInv, LockInv, RecordInv, NEW c \in Calls, Step(c)
    PROVE  RecordInv'
<1> USE KeyManagerAssumption
    DEF TypeOK, KeyInv, LockInv, InCritical, RecordInv, SafeDeployment, NewRecord,
        KeyManagerAssumption, Record, PC, store, memory, calls, history
<1>1. CASE FastPath(c)
  BY <1>1, SMT DEF FastPath, HandOut, Goto
<1>2. CASE AcquireLock(c)
  BY <1>2, SMT DEF AcquireLock, HandOut, Goto
<1>3. CASE ReadKey(c)
  BY <1>3, SMT DEF ReadKey, HandOut, Unlock, KeyReadable, KVReadable
<1>4. CASE ReadMalformed(c)
  BY <1>4, SMT DEF ReadMalformed, Finish, Unlock
<1>5. CASE ReadMiss(c)
  BY <1>5, SMT DEF ReadMiss, Finish, Unlock
<1>6. ASSUME NEW k \in Keys, Generate(c, k) PROVE RecordInv'
  BY <1>6, SMT DEF Generate, KVReadable
<1>7. CASE WriteApplied(c)
  BY <1>7, SMT DEF WriteApplied, Put, NewRecord, Goto
<1>8. CASE Retry(c)
  BY <1>8, SMT DEF Retry, Goto
<1>9. CASE WriteFails(c)
  BY <1>9, SMT DEF WriteFails, Finish, Unlock
<1>10. CASE WriteTimesOut(c)
  BY <1>10, SMT DEF WriteTimesOut, NewRecord, Finish, Unlock
<1>11. CASE WriteAcked(c)
  BY <1>11, SMT DEF WriteAcked, HandOut, Unlock
<1>12. CASE Seal(c)
  BY <1>12, SMT DEF Seal, Goto
<1>13. CASE Respond(c)
  BY <1>13, SMT DEF Respond, Finish
<1>14. CASE Open(c)
  BY <1>14, SMT DEF Open, Finish
<1> QED
  BY <1>1, <1>2, <1>3, <1>4, <1>5, <1>6, <1>7, <1>8, <1>9, <1>10, <1>11, <1>12, <1>13, <1>14
     DEF Step

\* The environment of a safe deployment leaves the record alone.
LEMMA RecordNext ==
    ASSUME TypeOK, KeyInv, LockInv, RecordInv, [Next]_vars
    PROVE  RecordInv'
<1> USE KeyManagerAssumption
    DEF TypeOK, KeyInv, LockInv, InCritical, RecordInv, SafeDeployment, NewRecord,
        KeyManagerAssumption, Record, PC, store, memory, calls, history
<1>1. ASSUME NEW c \in Calls, Step(c) PROVE RecordInv'
  BY <1>1, RecordStep
<1>2. ASSUME NEW c \in Calls, NEW x \in Keys \cup {NoKey, BadKey}, Receive(c, x)
      PROVE  RecordInv'
  BY <1>2, SMT DEF Receive
<1>3. ASSUME NEW p \in Plugins, Boot(p)
      PROVE  RecordInv'
  BY <1>3, SMT DEF Boot
<1>4. ASSUME NEW p \in Plugins, Crash(p)
      PROVE  RecordInv'
  BY <1>4, SMT DEF Crash
<1>5. ASSUME NEW p \in Plugins, InvalidateCache(p)
      PROVE  RecordInv'
  BY <1>5, SMT DEF InvalidateCache
<1>6. ASSUME NEW k \in Keys, NEW v \in 1..MaxVersion, Rotate(k, v)
      PROVE  RecordInv'
  BY <1>6, SMT DEF Rotate, Put
<1>7. ASSUME NEW r \in Record, LateWrite(r)
      PROVE  RecordInv'
  BY <1>7, SMT DEF LateWrite, Put
<1>8. CASE WriteMalformed
  BY <1>8, SMT DEF WriteMalformed
<1>9. CASE Outage
  BY <1>9, SMT DEF Outage
<1>10. CASE Recovery
  BY <1>10, SMT DEF Recovery
<1>11. CASE UNCHANGED vars
  BY <1>11, SMT DEF vars
<1> QED
  BY <1>1, <1>2, <1>3, <1>4, <1>5, <1>6, <1>7, <1>8, <1>9, <1>10, <1>11
     DEF Next

-----------------------------------------------------------------------------
\* The conjunction of the four invariants, and why every behaviour keeps it.
IInv == TypeOK /\ KeyInv /\ LockInv /\ OneKeyInv /\ RecordInv

\* The initial states satisfy it.
LEMMA InitIInv == Init => IInv
<1> SUFFICES ASSUME Init PROVE IInv
  OBVIOUS
<1> USE KeyManagerAssumption DEF KeyManagerAssumption, Init
<1>1. TypeOK /\ KeyInv
  BY SMT DEF TypeOK, KeyInv, Record, PC
<1>2. LockInv
  BY SMT DEF LockInv, InCritical
<1>3. OneKeyInv
  BY SMT DEF OneKeyInv
<1>4. RecordInv
  BY SMT DEF RecordInv, SafeDeployment
<1> QED
  BY <1>1, <1>2, <1>3, <1>4 DEF IInv

\* Every step keeps it.
LEMMA NextIInv == IInv /\ [Next]_vars => IInv'
BY TypeNext, LockNext, OneKeyNext, RecordNext DEF IInv

\* Every behaviour of the specification, whatever the constants, keeps IInv.
THEOREM Invariance == Spec => []IInv
BY InitIInv, NextIInv, PTL DEF Spec

\* Type correctness of the key manager.
THEOREM TypeCorrect == Spec => []TypeOK
<1>1. IInv => TypeOK
  BY DEF IInv
<1> QED
  BY <1>1, Invariance, PTL

\* No ciphertext leaves a plugin under a key that OpenBao has not stored,
\* whatever faults happen.
THEOREM SealedKeysAreStored == Spec => []SealedIsStored
<1>1. IInv => SealedIsStored
  BY DEF IInv, KeyInv, SealedIsStored
<1> QED
  BY <1>1, Invariance, PTL

\* A process whose cache is not invalidated opens what it has sealed since it
\* started, whatever happens to the record.
THEOREM OwnCiphertextsOpen ==
    ASSUME "invalidate" \notin Env
    PROVE  Spec => []OwnRoundTrip
<1>1. IInv => OwnRoundTrip
  BY KeyManagerAssumption DEF IInv, TypeOK, OneKeyInv, OwnRoundTrip, KeyManagerAssumption
<1> QED
  BY <1>1, Invariance, PTL

\* In a safe deployment every ciphertext is under the key in the record, and no
\* Decrypt of one comes to another key.
THEOREM CiphertextsAreRecoverable == Spec => []Recoverable
<1>1. IInv => Recoverable
  BY KeyManagerAssumption, SMT DEF IInv, RecordInv, Recoverable, KeyManagerAssumption, TypeOK
<1> QED
  BY <1>1, Invariance, PTL

\* With RecordInv a call writes only what the record already holds.
LEMMA PermStep ==
    ASSUME IInv, NEW c \in Calls, Step(c)
    PROVE  SafeDeployment /\ kv.key # NoKey => kv' = kv
<1> USE KeyManagerAssumption
    DEF IInv, TypeOK, RecordInv, SafeDeployment, NewRecord, KeyManagerAssumption,
        Record, store, memory, calls, history
<1>1. CASE FastPath(c)
  BY <1>1, SMT DEF FastPath, HandOut, Goto
<1>2. CASE AcquireLock(c)
  BY <1>2, SMT DEF AcquireLock, HandOut, Goto
<1>3. CASE ReadKey(c)
  BY <1>3, SMT DEF ReadKey, HandOut, Unlock, KeyReadable, KVReadable
<1>4. CASE ReadMalformed(c)
  BY <1>4, SMT DEF ReadMalformed, Finish, Unlock
<1>5. CASE ReadMiss(c)
  BY <1>5, SMT DEF ReadMiss, Finish, Unlock
<1>6. ASSUME NEW k \in Keys, Generate(c, k) PROVE SafeDeployment /\ kv.key # NoKey => kv' = kv
  BY <1>6, SMT DEF Generate
<1>7. CASE WriteApplied(c)
  BY <1>7, SMT DEF WriteApplied, Put, NewRecord, Goto
<1>8. CASE Retry(c)
  BY <1>8, SMT DEF Retry, Goto
<1>9. CASE WriteFails(c)
  BY <1>9, SMT DEF WriteFails, Finish, Unlock
<1>10. CASE WriteTimesOut(c)
  BY <1>10, SMT DEF WriteTimesOut, NewRecord, Finish, Unlock
<1>11. CASE WriteAcked(c)
  BY <1>11, SMT DEF WriteAcked, HandOut, Unlock
<1>12. CASE Seal(c)
  BY <1>12, SMT DEF Seal, Goto
<1>13. CASE Respond(c)
  BY <1>13, SMT DEF Respond, Finish
<1>14. CASE Open(c)
  BY <1>14, SMT DEF Open, Finish
<1> QED
  BY <1>1, <1>2, <1>3, <1>4, <1>5, <1>6, <1>7, <1>8, <1>9, <1>10, <1>11, <1>12, <1>13, <1>14
     DEF Step

\* And so does every other step of a safe deployment.
LEMMA PermNext ==
    ASSUME IInv, [Next]_vars
    PROVE  SafeDeployment /\ kv.key # NoKey => kv' = kv
<1> USE KeyManagerAssumption
    DEF IInv, TypeOK, RecordInv, SafeDeployment, NewRecord, KeyManagerAssumption,
        Record, store, memory, calls, history
<1>1. ASSUME NEW c \in Calls, Step(c) PROVE SafeDeployment /\ kv.key # NoKey => kv' = kv
  BY <1>1, PermStep
<1>2. ASSUME NEW c \in Calls, NEW x \in Keys \cup {NoKey, BadKey}, Receive(c, x)
      PROVE  SafeDeployment /\ kv.key # NoKey => kv' = kv
  BY <1>2, SMT DEF Receive
<1>3. ASSUME NEW p \in Plugins, Boot(p)
      PROVE  SafeDeployment /\ kv.key # NoKey => kv' = kv
  BY <1>3, SMT DEF Boot
<1>4. ASSUME NEW p \in Plugins, Crash(p)
      PROVE  SafeDeployment /\ kv.key # NoKey => kv' = kv
  BY <1>4, SMT DEF Crash
<1>5. ASSUME NEW p \in Plugins, InvalidateCache(p)
      PROVE  SafeDeployment /\ kv.key # NoKey => kv' = kv
  BY <1>5, SMT DEF InvalidateCache
<1>6. ASSUME NEW k \in Keys, NEW v \in 1..MaxVersion, Rotate(k, v)
      PROVE  SafeDeployment /\ kv.key # NoKey => kv' = kv
  BY <1>6, SMT DEF Rotate, Put
<1>7. ASSUME NEW r \in Record, LateWrite(r)
      PROVE  SafeDeployment /\ kv.key # NoKey => kv' = kv
  BY <1>7, SMT DEF LateWrite, Put
<1>8. CASE WriteMalformed
  BY <1>8, SMT DEF WriteMalformed
<1>9. CASE Outage
  BY <1>9, SMT DEF Outage
<1>10. CASE Recovery
  BY <1>10, SMT DEF Recovery
<1>11. CASE UNCHANGED vars
  BY <1>11, SMT DEF vars
<1> QED
  BY <1>1, <1>2, <1>3, <1>4, <1>5, <1>6, <1>7, <1>8, <1>9, <1>10, <1>11
     DEF Next

\* In a safe deployment the plugins never replace the record.
THEOREM TheRecordIsPermanent == Spec => RecordIsPermanent
<1>1. IInv /\ [Next]_vars => (SafeDeployment /\ kv.key # NoKey => kv' = kv)
  BY PermNext
<1> QED
  BY <1>1, Invariance, PTL DEF Spec, RecordIsPermanent

\* Under the mapping active <- cachedKey a step of a call is Adopt (ReadKey and
\* WriteAcked), Store (WriteApplied), Issue (Respond) or changes nothing.
LEMMA RefStep ==
    ASSUME "invalidate" \notin Env, IInv, NEW c \in Calls, Step(c)
    PROVE  [Vault!Next]_(Vault!vars)
<1> USE KeyManagerAssumption
    DEF IInv, TypeOK, KeyInv, LockInv, InCritical, OneKeyInv, KeyManagerAssumption,
        Vault!Next, Vault!vars, Vault!Store, Vault!Adopt, Vault!Issue, Vault!Restart,
        store, memory, calls, history
<1>1. CASE FastPath(c)
  BY <1>1, SMT DEF FastPath, HandOut, Goto
<1>2. CASE AcquireLock(c)
  BY <1>2, SMT DEF AcquireLock, HandOut, Goto
<1>3. CASE ReadKey(c)
  <2>1. kv.key \in Keys /\ Host[c] \in Plugins
    BY <1>3, SMT DEF ReadKey, KeyReadable, KVReadable, Record
  <2>2. Vault!Adopt(Host[c], kv.key)
    BY <1>3, <2>1, SMT DEF ReadKey, KeyReadable, KVReadable
  <2> QED
    BY <2>1, <2>2, Zenon
<1>4. CASE ReadMalformed(c)
  BY <1>4, SMT DEF ReadMalformed, Finish, Unlock
<1>5. CASE ReadMiss(c)
  BY <1>5, SMT DEF ReadMiss, Finish, Unlock
<1>6. ASSUME NEW k \in Keys, Generate(c, k) PROVE [Vault!Next]_(Vault!vars)
  BY <1>6, SMT DEF Generate
<1>7. CASE WriteApplied(c)
  BY <1>7, SMT DEF WriteApplied, Put, NewRecord, Goto
<1>8. CASE Retry(c)
  BY <1>8, SMT DEF Retry, Goto
<1>9. CASE WriteFails(c)
  BY <1>9, SMT DEF WriteFails, Finish, Unlock
<1>10. CASE WriteTimesOut(c)
  BY <1>10, SMT DEF WriteTimesOut, NewRecord, Finish, Unlock
<1>11. CASE WriteAcked(c)
  <2>1. key[c] \in Keys /\ Host[c] \in Plugins
    BY <1>11, SMT DEF WriteAcked
  <2>2. Vault!Adopt(Host[c], key[c])
    BY <1>11, <2>1, SMT DEF WriteAcked
  <2> QED
    BY <2>1, <2>2, Zenon
<1>12. CASE Seal(c)
  BY <1>12, SMT DEF Seal, Goto
<1>13. CASE Respond(c)
  BY <1>13, SMT DEF Respond, Finish
<1>14. CASE Open(c)
  BY <1>14, SMT DEF Open, Finish
<1> QED
  BY <1>1, <1>2, <1>3, <1>4, <1>5, <1>6, <1>7, <1>8, <1>9, <1>10, <1>11, <1>12, <1>13, <1>14
     DEF Step

\* Crash is Restart; Rotate and LateWrite are Store; the others change nothing.
LEMMA RefNext ==
    ASSUME "invalidate" \notin Env, IInv, [Next]_vars
    PROVE  [Vault!Next]_(Vault!vars)
<1> USE KeyManagerAssumption
    DEF IInv, TypeOK, KeyInv, LockInv, InCritical, OneKeyInv, KeyManagerAssumption,
        Vault!Next, Vault!vars, Vault!Store, Vault!Adopt, Vault!Issue, Vault!Restart,
        store, memory, calls, history
<1>1. ASSUME NEW c \in Calls, Step(c) PROVE [Vault!Next]_(Vault!vars)
  BY <1>1, RefStep
<1>2. ASSUME NEW c \in Calls, NEW x \in Keys \cup {NoKey, BadKey}, Receive(c, x)
      PROVE  [Vault!Next]_(Vault!vars)
  BY <1>2, SMT DEF Receive
<1>3. ASSUME NEW p \in Plugins, Boot(p)
      PROVE  [Vault!Next]_(Vault!vars)
  BY <1>3, SMT DEF Boot
<1>4. ASSUME NEW p \in Plugins, Crash(p)
      PROVE  [Vault!Next]_(Vault!vars)
  <2>1. Vault!Restart(p)
    BY <1>4, SMT DEF Crash
  <2> QED
    BY <2>1, Zenon
<1>5. ASSUME NEW p \in Plugins, InvalidateCache(p)
      PROVE  [Vault!Next]_(Vault!vars)
  BY <1>5, SMT DEF InvalidateCache
<1>6. ASSUME NEW k \in Keys, NEW v \in 1..MaxVersion, Rotate(k, v)
      PROVE  [Vault!Next]_(Vault!vars)
  BY <1>6, SMT DEF Rotate, Put
<1>7. ASSUME NEW r \in Record, LateWrite(r)
      PROVE  [Vault!Next]_(Vault!vars)
  BY <1>7, SMT DEF LateWrite, Put
<1>8. CASE WriteMalformed
  BY <1>8, SMT DEF WriteMalformed
<1>9. CASE Outage
  BY <1>9, SMT DEF Outage
<1>10. CASE Recovery
  BY <1>10, SMT DEF Recovery
<1>11. CASE UNCHANGED vars
  BY <1>11, SMT DEF vars
<1> QED
  BY <1>1, <1>2, <1>3, <1>4, <1>5, <1>6, <1>7, <1>8, <1>9, <1>10, <1>11
     DEF Next

\* The locking and the failure handling of GetOrCreateKey implement the simple
\* promise of SealingKeys, as long as nobody invalidates the cache.
THEOREM Refinement ==
    ASSUME "invalidate" \notin Env
    PROVE  Spec => ImplementsSealingKeys
<1>1. Init => Vault!Init
  BY KeyManagerAssumption, SMT DEF Init, Vault!Init, KeyManagerAssumption
<1>2. IInv /\ [Next]_vars => [Vault!Next]_(Vault!vars)
  BY RefNext
<1> QED
  BY <1>1, <1>2, Invariance, PTL DEF Spec, ImplementsSealingKeys, Vault!Spec

-----------------------------------------------------------------------------
(* KMSServer.  The server adds Status and labels to KeyManager and takes nothing away:
   it implements KeyManager!Spec, and so inherits what is shown above. *)

\* Every step of the server is a step of the key manager, or changes none of
\* its variables.
LEMMA ServerStepIsKeyManagerStep == [ServerNext]_serverVars => [Next]_vars
<1> SUFFICES ASSUME [ServerNext]_serverVars PROVE [Next]_vars
  OBVIOUS
<1>1. ASSUME NEW c \in Calls, Serve(c) PROVE Next
  BY <1>1 DEF Serve, Next
<1>2. ASSUME NEW c \in Calls, NEW x \in Keys \cup {NoKey, BadKey}, Accept(c, x)
      PROVE  Next
  BY <1>2 DEF Accept, Next
<1>3. ASSUME NEW p \in Plugins, Start(p) PROVE Next
  BY <1>3 DEF Start, Next
<1>4. ASSUME NEW p \in Plugins, Die(p) PROVE Next
  BY <1>4 DEF Die, Next
<1>5. ASSUME NEW p \in Plugins, HealthRead(p) \/ HealthApply(p) PROVE UNCHANGED vars
  BY <1>5 DEF HealthRead, HealthApply
<1>6. CASE Weather
  BY <1>6 DEF Weather, Next
<1>7. ASSUME NEW k \in Keys, NEW v \in 1..MaxVersion, RotateByHand(k, v) PROVE Next
  BY <1>7 DEF RotateByHand, Next
<1>8. CASE UNCHANGED serverVars
  BY <1>8 DEF serverVars
<1> QED
  BY <1>1, <1>2, <1>3, <1>4, <1>5, <1>6, <1>7, <1>8 DEF ServerNext, ServerStep

\* The gRPC server in front of it changes nothing of what the key manager does.
THEOREM ServerImplementsKeyManager == ServerSpec => Spec
<1>1. ServerInit => Init
  BY DEF ServerInit
<1> QED
  BY <1>1, ServerStepIsKeyManagerStep, PTL DEF ServerSpec, Spec

\* So the invariants of the key manager hold in the server too.
LEMMA ServerKeepsIInv == ServerSpec => []IInv
BY ServerImplementsKeyManager, Invariance

\* What GetKeyInfo answers: the only version parseKeyData delivers, or an error.
LEMMA InfoIsOne == Info \in {1, NoVersion}
BY DEF Info, ParsedVersion

\* StatusInv is inductive together with the types, given those of the key manager.
LEMMA StatusInit == ServerInit => ServerTypeOK /\ StatusInv
BY SMT DEF ServerInit, Init, S!Init, ServerTypeOK, StatusInv

LEMMA StatusNext ==
    ASSUME TypeOK, KeyInv, ServerTypeOK, StatusInv, [ServerNext]_serverVars
    PROVE  ServerTypeOK' /\ StatusInv'
<1> USE KeyManagerAssumption, ServerAssumption
    DEF TypeOK, KeyInv, ServerTypeOK, Versions, StatusInv, KeyManagerAssumption, ServerAssumption,
        status, store, memory, calls, history, vars
<1>1. ASSUME NEW c \in Calls, Serve(c) PROVE ServerTypeOK' /\ StatusInv'
  <2>1. up' = up /\ pc[c] # "idle" /\ \A d \in Calls \ {c} : pc'[d] = pc[d]
    BY <1>1, SMT DEF Serve, Step, FastPath, AcquireLock, ReadKey, ReadMalformed, ReadMiss,
       Generate, WriteApplied, Retry, WriteFails, WriteTimesOut, WriteAcked, Seal, Respond,
       Open, HandOut, Goto, Finish
  <2>2. sealed \subseteq sealed'
    BY <1>1, SMT DEF Serve, Step, FastPath, AcquireLock, ReadKey, ReadMalformed, ReadMiss,
       Generate, WriteApplied, Retry, WriteFails, WriteTimesOut, WriteAcked, Seal, Respond, Open
  <2>3. pc[c] = "respond" => key[c] \in sealed'
    BY <1>1, SMT DEF Serve, Step, FastPath, AcquireLock, ReadKey, ReadMalformed, ReadMiss,
       Generate, WriteApplied, Retry, WriteFails, WriteTimesOut, WriteAcked, Seal, Respond,
       Open, InCritical
  <2> QED
    BY <1>1, <2>1, <2>2, <2>3, SMT DEF Serve
<1>2. ASSUME NEW c \in Calls, NEW x \in Keys \cup {NoKey, BadKey}, Accept(c, x)
      PROVE  ServerTypeOK' /\ StatusInv'
  BY <1>2, SMT DEF Accept, Receive
<1>3. ASSUME NEW p \in Plugins, Start(p) PROVE ServerTypeOK' /\ StatusInv'
  BY <1>3, InfoIsOne, SMT DEF Start, Boot, S!Initialize
<1>4. ASSUME NEW p \in Plugins, Die(p) PROVE ServerTypeOK' /\ StatusInv'
  BY <1>4, SMT DEF Die, Crash, S!Lose
<1>5. ASSUME NEW p \in Plugins, HealthRead(p) PROVE ServerTypeOK' /\ StatusInv'
  BY <1>5, InfoIsOne, SMT DEF HealthRead, S!ReadKeyInfo
<1>6. ASSUME NEW p \in Plugins, HealthApply(p) PROVE ServerTypeOK' /\ StatusInv'
  <2>1. CASE S!ApplyFailure(p)
    <3>1. CASE healthy[p]
      <4>1. healthy' = healthy
        BY <2>1, <3>1 DEF S!ApplyFailure
      <4> QED
        BY <1>6, <2>1, <4>1, SMT DEF HealthApply, S!ApplyFailure
    <3>2. CASE ~healthy[p]
      BY <1>6, <2>1, <3>2, SMT DEF HealthApply, S!ApplyFailure
    <3> QED
      BY <3>1, <3>2
  <2>2. CASE S!ApplySuccess(p)
    BY <1>6, <2>2, SMT DEF HealthApply, S!ApplySuccess
  <2> QED
    BY <1>6, <2>1, <2>2 DEF HealthApply
<1>7. CASE Weather
  BY <1>7, SMT DEF Weather, InvalidateCache, LateWrite, Put, WriteMalformed, Outage, Recovery
<1>8. ASSUME NEW k \in Keys, NEW v \in 1..MaxVersion, RotateByHand(k, v)
      PROVE  ServerTypeOK' /\ StatusInv'
  BY <1>8, SMT DEF RotateByHand, Rotate, Put
<1>9. CASE UNCHANGED serverVars
  BY <1>9, SMT DEF serverVars
<1> QED
  BY <1>1, <1>2, <1>3, <1>4, <1>5, <1>6, <1>7, <1>8, <1>9 DEF ServerNext, ServerStep

\* Only a plugin writes the record in a safe deployment, and it writes version 1.
LEMMA VersionInit == ServerInit => VersionInv
BY KeyManagerAssumption, SMT DEF ServerInit, Init, VersionInv, StartsAtOne, KeyManagerAssumption

LEMMA VersionNext ==
    ASSUME IInv, VersionInv, [Next]_vars
    PROVE  VersionInv'
<1> SUFFICES ASSUME SafeDeployment, StartsAtOne, kv'.key # NoKey PROVE kv'.version = 1
  BY DEF VersionInv, SafeDeployment, StartsAtOne
<1>1. CASE kv.key # NoKey
  BY <1>1, PermNext DEF VersionInv
<1>2. CASE kv.key = NoKey
  <2>1. kv' # kv
    BY <1>2
  <2>2. ASSUME NEW c \in Calls, Step(c) PROVE kv'.version = 1
    <3>1. CASE WriteApplied(c)
      BY <3>1, SMT DEF WriteApplied, Put, NewRecord
    <3>2. CASE ~WriteApplied(c)
      <4>1. CASE WriteTimesOut(c)
        BY <2>1, <4>1 DEF WriteTimesOut
      <4>2. CASE ~WriteTimesOut(c)
        <5>1. UNCHANGED store
          BY <2>2, <3>2, <4>2 DEF Step, FastPath, AcquireLock, ReadKey, ReadMalformed, ReadMiss,
             Generate, Retry, WriteFails, WriteAcked, Seal, Respond, Open
        <5> QED
          BY <2>1, <5>1 DEF store
      <4> QED
        BY <4>1, <4>2
    <3> QED
      BY <3>1, <3>2
  <2>3. late = {} /\ Env \cap {"rotate", "malformed"} = {}
    BY SMT DEF IInv, RecordInv, SafeDeployment
  <2>4. ASSUME NEW c \in Calls, NEW x \in Keys \cup {NoKey, BadKey}, Receive(c, x)
        PROVE  FALSE
    BY <2>1, <2>4 DEF Receive, store
  <2>5. ASSUME NEW p \in Plugins, Boot(p) \/ Crash(p) \/ InvalidateCache(p)
        PROVE  FALSE
    BY <2>1, <2>5 DEF Boot, Crash, InvalidateCache, store
  <2>6. ASSUME NEW k \in Keys, NEW v \in 1..MaxVersion, Rotate(k, v)
        PROVE  FALSE
    BY <2>3, <2>6 DEF Rotate
  <2>7. ASSUME NEW r \in Record, LateWrite(r)
        PROVE  FALSE
    BY <2>3, <2>7 DEF LateWrite
  <2>8. CASE WriteMalformed \/ Outage \/ Recovery
    BY <2>1, <2>3, <2>8 DEF WriteMalformed, Outage, Recovery
  <2>9. CASE UNCHANGED vars
    BY <2>1, <2>9 DEF vars, store
  <2> QED
    BY <2>2, <2>4, <2>5, <2>6, <2>7, <2>8, <2>9 DEF Next
<1> QED
  BY <1>1, <1>2

-----------------------------------------------------------------------------
\* Every behaviour of the server keeps what the properties follow from.
THEOREM ServerInvariance == ServerSpec => [](IInv /\ ServerTypeOK /\ StatusInv /\ VersionInv)
<1>1. IInv /\ ServerTypeOK /\ StatusInv /\ [ServerNext]_serverVars
        => ServerTypeOK' /\ StatusInv'
  BY StatusNext DEF IInv
<1>2. IInv /\ VersionInv /\ [ServerNext]_serverVars => VersionInv'
  BY VersionNext, ServerStepIsKeyManagerStep
<1> QED
  BY <1>1, <1>2, StatusInit, VersionInit, ServerKeepsIInv, PTL DEF ServerSpec

\* Type correctness of the server around the key manager.
THEOREM ServerTypeCorrect == ServerSpec => []ServerTypeOK
<1> QED
  BY ServerInvariance, PTL

\* In a safe deployment every label names the record that holds the key.
THEOREM LabelsAreTrue == ServerSpec => []LabelsNameTheRecord
<1>1. IInv /\ StatusInv /\ VersionInv => LabelsNameTheRecord
  BY KeyManagerAssumption, SMT
     DEF KeyManagerAssumption, IInv, TypeOK, RecordInv, StatusInv, VersionInv, LabelsNameTheRecord
<1> QED
  BY <1>1, ServerInvariance, PTL

-----------------------------------------------------------------------------
(* KeyRotation.  Rotations that time out leave writes of the UI in late, which
   KeyManager alone does not do; so the types are proved again, with the lemma of
   KeyManager for the steps that are its own. *)

\* A handler on its way has chosen its version.
RotationTypes ==
    /\ TypeOK /\ KeyInv /\ RotationTypeOK
    /\ \A r \in Requests : rpc[r] # "idle" => newVersion[r] \in 2..MaxVersion

\* While only the UI writes, the plugins always find a readable record and so
\* never write one, and rotations one after the other keep the counter exact.
CounterInv ==
    OnlyTheUIWrites =>
        /\ baoUp /\ kv.key \in Keys
        /\ \A c \in Calls : pc[c] \notin {"write", "reply"}
        /\ orderly =>
            /\ late = {}
            /\ \A r, q \in Requests : rpc[r] # "idle" /\ rpc[q] # "idle" => r = q
            /\ \A r \in Requests : rpc[r] = "post" => newVersion[r] = rotations + 2
            /\ kv.version = rotations + (IF \E r \in Requests : rpc[r] = "reply" THEN 2 ELSE 1)

\* A write that the UI applies is a rotation of the key manager.
LEMMA RotateWritesIsNext ==
    ASSUME RotationTypes, NEW r \in Requests, NEW k \in Keys, RotateWrites(r, k)
    PROVE  Next
<1>1. newVersion[r] \in 1..MaxVersion
  BY KeyManagerAssumption, SMT DEF RotationTypes, RotateWrites, KeyManagerAssumption
<1> QED
  BY <1>1 DEF RotateWrites, RotateByHand, Next

\* Every step of KeyRotation but a time-out is one of the key manager.
LEMMA RotationStepIsKeyManagerStep ==
    ASSUME RotationTypes, [RotationNext]_rotationVars
    PROVE  \/ [Next]_vars
           \/ \E r \in Requests, k \in Keys : RotateTimesOut(r, k)
<1>1. CASE ServerStep /\ UNCHANGED ui
  <2>1. [ServerNext]_serverVars
    BY <1>1 DEF ServerNext
  <2> QED
    BY <2>1, ServerStepIsKeyManagerStep
<1>2. ASSUME NEW r \in Requests, RotateBegins(r) \/ RotateFails(r) \/ RotateAcked(r)
      PROVE  UNCHANGED vars
  BY <1>2 DEF RotateBegins, RotateFails, RotateAcked, serverVars
<1>3. ASSUME NEW r \in Requests, NEW k \in Keys, RotateWrites(r, k) PROVE Next
  BY <1>3, RotateWritesIsNext
<1>4. CASE UIRestart
  BY <1>4 DEF UIRestart, serverVars
<1>5. CASE UNCHANGED rotationVars
  BY <1>5 DEF rotationVars, serverVars
<1> QED
  BY <1>1, <1>2, <1>3, <1>4, <1>5 DEF RotationNext

-----------------------------------------------------------------------------
LEMMA RotationTypesInit == RotationInit => RotationTypes
<1> SUFFICES ASSUME RotationInit PROVE RotationTypes
  OBVIOUS
<1>1. TypeOK /\ KeyInv
  BY InitIInv DEF RotationInit, ServerInit, IInv
<1>2. RotationTypeOK /\ \A r \in Requests : rpc[r] = "idle"
  BY SMT DEF RotationInit, RotationTypeOK
<1> QED
  BY <1>1, <1>2 DEF RotationTypes

LEMMA RotationTypesNext ==
    ASSUME RotationTypes, [RotationNext]_rotationVars
    PROVE  RotationTypes'
<1>1. TypeOK' /\ KeyInv'
  <2>1. CASE [Next]_vars
    BY <2>1, TypeNext DEF RotationTypes
  <2>2. ASSUME NEW r \in Requests, NEW k \in Keys, RotateTimesOut(r, k)
        PROVE  TypeOK' /\ KeyInv'
    <3>1. newVersion[r] \in 1..MaxVersion
      BY <2>2, KeyManagerAssumption, SMT DEF RotationTypes, RotateTimesOut, KeyManagerAssumption
    <3> QED
      BY <2>2, <3>1, SMT DEF RotationTypes, RotateTimesOut, TypeOK, KeyInv, memory, calls, history
  <2> QED
    BY <2>1, <2>2, RotationStepIsKeyManagerStep
<1>2. RotationTypeOK' /\ \A r \in Requests : rpc'[r] # "idle" => newVersion'[r] \in 2..MaxVersion
  <2> USE KeyManagerAssumption DEF RotationTypes, RotationTypeOK, Leave, KeyManagerAssumption
  <2>1. CASE UNCHANGED ui
    BY <2>1, SMT DEF ui
  <2>2. ASSUME NEW r \in Requests, RotateBegins(r)
        PROVE  RotationTypeOK' /\ \A q \in Requests : rpc'[q] # "idle" => newVersion'[q] \in 2..MaxVersion
    BY <2>2, SMT DEF RotateBegins
  <2>3. ASSUME NEW r \in Requests, RotateFails(r)
        PROVE  RotationTypeOK' /\ \A q \in Requests : rpc'[q] # "idle" => newVersion'[q] \in 2..MaxVersion
    BY <2>3, SMT DEF RotateFails
  <2>4. ASSUME NEW r \in Requests, RotateAcked(r)
        PROVE  RotationTypeOK' /\ \A q \in Requests : rpc'[q] # "idle" => newVersion'[q] \in 2..MaxVersion
    BY <2>4, SMT DEF RotateAcked
  <2>5. ASSUME NEW r \in Requests, NEW k \in Keys, RotateWrites(r, k)
        PROVE  RotationTypeOK' /\ \A q \in Requests : rpc'[q] # "idle" => newVersion'[q] \in 2..MaxVersion
    BY <2>5, SMT DEF RotateWrites
  <2>6. ASSUME NEW r \in Requests, NEW k \in Keys, RotateTimesOut(r, k)
        PROVE  RotationTypeOK' /\ \A q \in Requests : rpc'[q] # "idle" => newVersion'[q] \in 2..MaxVersion
    <3>1. orderly' \in BOOLEAN
      BY <2>6 DEF RotateTimesOut
    <3> QED
      BY <2>6, <3>1, SMT DEF RotateTimesOut
  <2>7. CASE UIRestart
    <3>1. orderly' \in BOOLEAN
      BY <2>7 DEF UIRestart
    <3> QED
      BY <2>7, <3>1, SMT DEF UIRestart
  <2> QED
    BY <2>1, <2>2, <2>3, <2>4, <2>5, <2>6, <2>7 DEF RotationNext, rotationVars
<1> QED
  BY <1>1, <1>2 DEF RotationTypes

\* Type correctness of the rotation, of the plugins and of the record together.
THEOREM RotationTypesHold == RotationSpec => []RotationTypes
BY RotationTypesInit, RotationTypesNext, PTL DEF RotationSpec

THEOREM RotationTypeCorrect == RotationSpec => []RotationTypeOK
<1>1. RotationTypes => RotationTypeOK
  BY DEF RotationTypes
<1> QED
  BY <1>1, RotationTypesHold, PTL

-----------------------------------------------------------------------------
\* With a readable record the plugins leave it alone: no step of theirs, or of
\* the environment, changes it, except that a late write may land.
LEMMA QuietStep ==
    ASSUME RotationTypes, OnlyTheUIWrites, baoUp, kv.key \in Keys,
           \A c \in Calls : pc[c] \notin {"write", "reply"},
           ServerStep
    PROVE  /\ baoUp' /\ kv'.key \in Keys
           /\ \A c \in Calls : pc'[c] \notin {"write", "reply"}
           /\ late = {} => kv' = kv /\ late' = {}
<1> USE KeyManagerAssumption
    DEF RotationTypes, TypeOK, OnlyTheUIWrites, KeyManagerAssumption, PC, store, memory, calls, history
<1> DEFINE Quiet == /\ baoUp' /\ kv'.key \in Keys
                    /\ \A c \in Calls : pc'[c] \notin {"write", "reply"}
                    /\ late = {} => kv' = kv /\ late' = {}
<1>1. ASSUME NEW c \in Calls, Serve(c) PROVE Quiet
  <2>1. KVReadable /\ kv.key # BadKey
    BY DEF KVReadable
  <2>2. ~ReadMalformed(c) /\ ~ReadMiss(c) /\ \A k \in Keys : ~Generate(c, k)
    BY <2>1 DEF ReadMalformed, ReadMiss, Generate
  <2>3. ~WriteApplied(c) /\ ~Retry(c) /\ ~WriteFails(c) /\ ~WriteTimesOut(c) /\ ~WriteAcked(c)
    BY DEF WriteApplied, Retry, WriteFails, WriteTimesOut, WriteAcked
  <2>4. FastPath(c) \/ AcquireLock(c) \/ ReadKey(c) \/ Seal(c) \/ Respond(c) \/ Open(c)
    BY <1>1, <2>2, <2>3 DEF Serve, Step
  <2>5. UNCHANGED store
    BY <2>4 DEF FastPath, AcquireLock, ReadKey, Seal, Respond, Open
  <2>6. \A d \in Calls : pc'[d] \notin {"write", "reply"}
    <3>1. CASE FastPath(c)
      BY <3>1, SMT DEF FastPath, HandOut, Goto
    <3>2. CASE AcquireLock(c)
      <4>1. cachedKey[Host[c]] # NoKey \/ pc' = [pc EXCEPT ![c] = "read"]
        BY <3>2 DEF AcquireLock, Goto
      <4>2. cachedKey[Host[c]] = NoKey \/ pc' = [pc EXCEPT ![c] = "crypt"]
        BY <3>2 DEF AcquireLock, HandOut
      <4> QED
        BY <4>1, <4>2, SMT
    <3>3. CASE ReadKey(c)
      BY <3>3, SMT DEF ReadKey, HandOut
    <3>4. CASE Seal(c) \/ Respond(c) \/ Open(c)
      <4>1. pc' = [pc EXCEPT ![c] = "respond"] \/ pc' = [pc EXCEPT ![c] = "idle"]
        BY <3>4 DEF Seal, Respond, Open, Goto, Finish
      <4> QED
        BY <4>1, SMT
    <3> QED
      BY <2>4, <3>1, <3>2, <3>3, <3>4
  <2> QED
    BY <2>5, <2>6
<1>2. ASSUME NEW c \in Calls, NEW x \in Keys \cup {NoKey, BadKey}, Accept(c, x) PROVE Quiet
  BY <1>2, SMT DEF Accept, Receive
<1>3. ASSUME NEW p \in Plugins, Start(p) PROVE Quiet
  BY <1>3, SMT DEF Start, Boot
<1>4. ASSUME NEW p \in Plugins, Die(p) PROVE Quiet
  BY <1>4, SMT DEF Die, Crash
<1>5. ASSUME NEW p \in Plugins, HealthRead(p) \/ HealthApply(p) PROVE Quiet
  BY <1>5 DEF HealthRead, HealthApply, vars
<1>6. CASE Weather
  <2>1. ASSUME NEW p \in Plugins, InvalidateCache(p) PROVE Quiet
    BY <2>1, SMT DEF InvalidateCache
  <2>2. ASSUME NEW r \in Record, LateWrite(r) PROVE Quiet
    BY <2>2, SMT DEF LateWrite, Put
  <2>3. ~WriteMalformed /\ ~Outage /\ ~Recovery
    BY DEF WriteMalformed, Outage, Recovery
  <2> QED
    BY <1>6, <2>1, <2>2, <2>3 DEF Weather
<1> QED
  BY <1>1, <1>2, <1>3, <1>4, <1>5, <1>6 DEF ServerStep

LEMMA CounterInit == RotationInit => CounterInv
BY SMT DEF RotationInit, ServerInit, Init, CounterInv, OnlyTheUIWrites

LEMMA CounterNext ==
    ASSUME RotationTypes, CounterInv, [RotationNext]_rotationVars
    PROVE  CounterInv'
<1> SUFFICES ASSUME OnlyTheUIWrites PROVE CounterInv'
  BY DEF CounterInv, OnlyTheUIWrites
<1>1. CASE ServerStep /\ UNCHANGED ui
  BY <1>1, QuietStep, SMT DEF CounterInv, OnlyTheUIWrites, ui
<1> USE DEF RotationTypes, RotationTypeOK, CounterInv, Leave
<1>2. ASSUME NEW r \in Requests, RotateBegins(r) PROVE CounterInv'
  <2>1. UNCHANGED <<kv, late, baoUp, pc, rotations>>
    BY <1>2 DEF RotateBegins, serverVars, vars, store, calls
  <2>2. orderly' => orderly /\ \A q \in Requests : rpc[q] = "idle"
    BY <1>2 DEF RotateBegins
  <2>3. ASSUME orderly', \A q \in Requests : rpc[q] = "idle"
        PROVE  /\ \A q \in Requests : rpc'[q] # "idle" => q = r
               /\ \A q \in Requests : rpc'[q] # "reply"
               /\ newVersion'[r] = rotations + 2
    BY <1>2, <2>3, SMT DEF RotateBegins
  <2> QED
    BY <2>1, <2>2, <2>3 DEF OnlyTheUIWrites
<1>3. ASSUME NEW r \in Requests, RotateFails(r) PROVE CounterInv'
  <2>1. UNCHANGED <<kv, late, baoUp, pc, rotations>>
    BY <1>3 DEF RotateFails, serverVars, vars, store, calls
  <2>2. orderly' => orderly /\ rpc[r] = "post"
    BY <1>3 DEF RotateFails
  <2>3. rpc' = [rpc EXCEPT ![r] = "idle"] /\ newVersion' = [newVersion EXCEPT ![r] = 0]
    BY <1>3 DEF RotateFails
  <2>4. ASSUME orderly, rpc[r] = "post"
        PROVE  /\ \A q \in Requests : rpc'[q] = "idle"
               /\ \A q \in Requests : rpc[q] # "reply"
    BY <2>3, <2>4
  <2> QED
    BY <2>1, <2>2, <2>4 DEF OnlyTheUIWrites
<1>4. ASSUME NEW r \in Requests, RotateAcked(r) PROVE CounterInv'
  BY <1>4, SMT DEF RotateAcked, serverVars, vars, store, calls
<1>5. ASSUME NEW r \in Requests, NEW k \in Keys, RotateWrites(r, k) PROVE CounterInv'
  BY <1>5, SMT DEF RotateWrites, RotateByHand, Rotate, Put, calls
<1>6. ASSUME NEW r \in Requests, NEW k \in Keys, RotateTimesOut(r, k) PROVE CounterInv'
  BY <1>6, SMT DEF RotateTimesOut, calls
<1>7. CASE UIRestart
  BY <1>7, SMT DEF UIRestart, serverVars, vars, store, calls
<1>8. CASE UNCHANGED rotationVars
  BY <1>8, SMT DEF rotationVars, serverVars, vars, store, calls, ui
<1> QED
  BY <1>1, <1>2, <1>3, <1>4, <1>5, <1>6, <1>7, <1>8 DEF RotationNext

\* While only the UI writes the record and rotations come one after the other,
\* the counter accounts for its version exactly.
THEOREM TheCounterFollowsTheRecord == RotationSpec => []CounterFollowsRecord
<1>1. CounterInv => CounterFollowsRecord
  BY DEF CounterInv, CounterFollowsRecord
<1> QED
  BY <1>1, RotationTypesHold, CounterInit, CounterNext, PTL DEF RotationSpec

-----------------------------------------------------------------------------
\* The keys that were in the record only ever grow, one at a time.
LEMMA StoredGrows ==
    ASSUME [Next]_vars
    PROVE  stored' = stored \/ \E k : stored' = stored \cup {k}
<1> USE DEF store, memory, calls, history
<1>1. ASSUME NEW c \in Calls, Step(c) PROVE stored' = stored \/ \E k : stored' = stored \cup {k}
  BY <1>1, SMT DEF Step, FastPath, AcquireLock, ReadKey, ReadMalformed, ReadMiss, Generate,
     WriteApplied, Put, Retry, WriteFails, WriteTimesOut, WriteAcked, Seal, Respond, Open
<1>2. ASSUME NEW c \in Calls, NEW x \in Keys \cup {NoKey, BadKey}, Receive(c, x)
      PROVE  stored' = stored
  BY <1>2 DEF Receive
<1>3. ASSUME NEW p \in Plugins, Boot(p) \/ Crash(p) \/ InvalidateCache(p) PROVE stored' = stored
  BY <1>3 DEF Boot, Crash, InvalidateCache
<1>4. ASSUME NEW k \in Keys, NEW v \in 1..MaxVersion, Rotate(k, v)
      PROVE  \E x : stored' = stored \cup {x}
  BY <1>4 DEF Rotate, Put
<1>5. ASSUME NEW r \in Record, LateWrite(r) PROVE \E x : stored' = stored \cup {x}
  BY <1>5 DEF LateWrite, Put
<1>6. CASE WriteMalformed \/ Outage \/ Recovery
  BY <1>6 DEF WriteMalformed, Outage, Recovery
<1>7. CASE UNCHANGED vars
  BY <1>7 DEF vars
<1> QED
  BY <1>1, <1>2, <1>3, <1>4, <1>5, <1>6, <1>7 DEF Next

Replying == {r \in Requests : rpc[r] = "reply"}

\* CounterCountsWrites with what it takes to speak of cardinalities.
CountInv ==
    /\ IsFiniteSet(stored)
    /\ (\A r \in InitialRecords : r.key \in Keys) =>
           rotations + Cardinality(Replying) < Cardinality(stored)

\* There are finitely many handlers.
LEMMA RepliesAreFinite == IsFiniteSet(Replying) /\ Cardinality(Replying) \in Nat
BY RotationAssumption, FS_Subset, FS_CardinalityType DEF Replying, RotationAssumption

LEMMA CountInit == RotationInit => CountInv
<1> SUFFICES ASSUME RotationInit PROVE CountInv
  OBVIOUS
<1>1. IsFiniteSet(stored)
  <2>1. stored \in SUBSET {kv.key}
    BY DEF RotationInit, ServerInit, Init
  <2> QED
    BY <2>1, FS_Singleton, FS_Subset
<1>2. ASSUME \A r \in InitialRecords : r.key \in Keys
      PROVE  rotations + Cardinality(Replying) < Cardinality(stored)
  <2>1. stored = {kv.key}
    BY <1>2 DEF RotationInit, ServerInit, Init
  <2>2. Replying = {}
    BY SMT DEF RotationInit, Replying
  <2>3. Cardinality(stored) = 1 /\ Cardinality(Replying) = 0
    BY <2>1, <2>2, FS_Singleton, FS_EmptySet
  <2>4. rotations = 0
    BY DEF RotationInit
  <2> QED
    BY <2>3, <2>4, SMT
<1> QED
  BY <1>1, <1>2 DEF CountInv

\* A step that counts nothing and answers nobody keeps it.
LEMMA CountKeeps ==
    ASSUME RotationTypes, CountInv,
           stored' = stored \/ \E k : stored' = stored \cup {k},
           rotations' \in Nat, rotations' <= rotations, Replying' \in SUBSET Replying
    PROVE  CountInv'
<1>1. IsFiniteSet(stored') /\ Cardinality(stored') >= Cardinality(stored)
  <2>1. CASE stored' = stored
    BY <2>1, FS_CardinalityType, SMT DEF CountInv
  <2>2. ASSUME NEW k, stored' = stored \cup {k}
        PROVE  IsFiniteSet(stored') /\ Cardinality(stored') >= Cardinality(stored)
    BY <2>2, FS_AddElement, FS_CardinalityType, SMT DEF CountInv
  <2> QED
    BY <2>1, <2>2
<1>2. Cardinality(Replying') <= Cardinality(Replying) /\ Cardinality(Replying') \in Nat
  BY RepliesAreFinite, FS_Subset, FS_CardinalityType
<1>3. Cardinality(stored) \in Nat /\ Cardinality(stored') \in Nat
  BY <1>1, FS_CardinalityType DEF CountInv
<1>4. rotations \in Nat
  BY DEF RotationTypes, RotationTypeOK
<1> QED
  BY <1>1, <1>2, <1>3, <1>4, RepliesAreFinite, SMT DEF CountInv

LEMMA CountNext ==
    ASSUME RotationTypes, CountInv, [RotationNext]_rotationVars
    PROVE  CountInv'
<1> USE DEF RotationTypes, RotationTypeOK
<1>1. CASE UNCHANGED ui /\ [Next]_vars
  <2>1. rotations' = rotations /\ Replying' = Replying
    BY <1>1 DEF ui, Replying
  <2> QED
    BY <1>1, <2>1, StoredGrows, CountKeeps, SMT
<1>2. ASSUME NEW r \in Requests, RotateBegins(r) \/ RotateFails(r) PROVE CountInv'
  <2>1. stored' = stored /\ rotations' = rotations
    BY <1>2 DEF RotateBegins, RotateFails, serverVars, vars, store
  <2>2. Replying' \in SUBSET Replying
    BY <1>2, SMT DEF RotateBegins, RotateFails, Leave, Replying
  <2> QED
    BY <2>1, <2>2, CountKeeps, SMT
<1>3. ASSUME NEW r \in Requests, RotateAcked(r) PROVE CountInv'
  <2>1. stored' = stored /\ rotations' = rotations + 1
    BY <1>3 DEF RotateAcked, serverVars, vars, store
  <2>2. Replying' = Replying \ {r} /\ r \in Replying
    BY <1>3, SMT DEF RotateAcked, Leave, Replying
  <2>3. Cardinality(Replying') = Cardinality(Replying) - 1
    BY <2>2, RepliesAreFinite, FS_RemoveElement
  <2> QED
    BY <2>1, <2>3, RepliesAreFinite, SMT DEF CountInv
<1>4. ASSUME NEW r \in Requests, NEW k \in Keys, RotateWrites(r, k) PROVE CountInv'
  <2>1. stored' = stored \cup {k} /\ k \notin stored /\ rotations' = rotations
    BY <1>4 DEF RotateWrites, RotateByHand, Rotate, Put, Fresh
  <2>2. Replying' = Replying \cup {r} /\ r \notin Replying
    BY <1>4, SMT DEF RotateWrites, Replying
  <2>3. IsFiniteSet(stored') /\ Cardinality(stored') = Cardinality(stored) + 1
    BY <2>1, FS_AddElement DEF CountInv
  <2>4. Cardinality(Replying') = Cardinality(Replying) + 1
    BY <2>2, RepliesAreFinite, FS_AddElement
  <2>5. Cardinality(stored) \in Nat
    BY FS_CardinalityType DEF CountInv
  <2> QED
    BY <2>1, <2>3, <2>4, <2>5, RepliesAreFinite, SMT DEF CountInv
<1>5. ASSUME NEW r \in Requests, NEW k \in Keys, RotateTimesOut(r, k) PROVE CountInv'
  <2>1. stored' = stored /\ rotations' = rotations
    BY <1>5 DEF RotateTimesOut
  <2>2. Replying' \in SUBSET Replying
    BY <1>5, SMT DEF RotateTimesOut, Leave, Replying
  <2> QED
    BY <2>1, <2>2, CountKeeps, SMT
<1>6. CASE UIRestart
  <2>1. stored' = stored /\ rotations' = 0
    BY <1>6 DEF UIRestart, serverVars, vars, store
  <2>2. Replying' \in SUBSET Replying
    BY <1>6, SMT DEF UIRestart, Replying
  <2> QED
    BY <2>1, <2>2, CountKeeps, SMT
<1>7. CASE UNCHANGED rotationVars
  BY <1>1, <1>7 DEF rotationVars, serverVars
<1>8. CASE ServerStep /\ UNCHANGED ui
  <2>1. [ServerNext]_serverVars
    BY <1>8 DEF ServerNext
  <2> QED
    BY <1>1, <1>8, <2>1, ServerStepIsKeyManagerStep
<1> QED
  BY <1>2, <1>3, <1>4, <1>5, <1>6, <1>7, <1>8 DEF RotationNext

\* Whatever fails, the counter of the UI counts only rotations that took place.
THEOREM TheCounterCountsWrites == RotationSpec => []CounterCountsWrites
<1>1. CountInv => CounterCountsWrites
  BY DEF CountInv, CounterCountsWrites, Replying
<1> QED
  BY <1>1, RotationTypesHold, CountInit, CountNext, PTL DEF RotationSpec

=============================================================================
