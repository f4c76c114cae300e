--------------------------- MODULE KeyUnlockProofs ---------------------------
(***************************************************************************)
(* Proofs about KeyUnlock, for any keys, keyrings, passphrases, requests   *)
(* and number of permits.                                                  *)
(***************************************************************************)
EXTENDS KeyUnlock, FiniteSetTheorems, TLAPS

-----------------------------------------------------------------------------
(* The permits.                                                            *)

\* The requests on the blocking pool are finitely many.
LEMMA BlockingFinite ==
  /\ IsFiniteSet(Blocking) /\ Cardinality(Blocking) \in Nat
  /\ IsFiniteSet(Blocking') /\ Cardinality(Blocking') \in Nat
<1>1. Blocking \subseteq Requests /\ Blocking' \subseteq Requests
  BY DEF Blocking
<1> QED
  BY <1>1, FS_Subset, FS_CardinalityType, ConstantsAssumption

\* Nothing changes as long as a request stays where it is with its permit.
LEMMA CountSame ==
  ASSUME TypeInv, UNCHANGED available,
         \A q \in Requests : pc'[q] \in BlockingPc <=> pc[q] \in BlockingPc
  PROVE  available' \in 0 .. Permits /\ PermitInv'
<1>1. Blocking' = Blocking
  BY DEF Blocking
<1> QED
  BY <1>1 DEF TypeInv, TypeOK, PermitInv

\* A closure that ends gives back one permit, and only then.
LEMMA CountFinish ==
  ASSUME TypeInv, NEW r \in Requests, NEW code, pc[r] \in BlockingPc, Finish(r, code)
  PROVE  available' \in 0 .. Permits /\ PermitInv'
<1>1. Blocking' = Blocking \ {r} /\ r \in Blocking
  BY DEF Finish, Goto, Blocking, BlockingPc, TypeInv, TypeOK
<1>2. Cardinality(Blocking') = Cardinality(Blocking) - 1
  BY <1>1, BlockingFinite, FS_RemoveElement
<1>3. available' = available + 1
  BY DEF Finish
<1> QED
  BY <1>2, <1>3, BlockingFinite, ConstantsAssumption DEF TypeInv, TypeOK, PermitInv

\* A request that acquires a permit takes exactly one.
LEMMA CountAcquire ==
  ASSUME TypeInv, NEW r \in Requests, Acquire(r)
  PROVE  available' \in 0 .. Permits /\ PermitInv'
<1>1. Blocking' = Blocking \cup {r} /\ r \notin Blocking
  BY DEF Acquire, Goto, Blocking, BlockingPc, TypeInv, TypeOK
<1>2. Cardinality(Blocking') = Cardinality(Blocking) + 1
  BY <1>1, BlockingFinite, FS_AddElement
<1>3. available' = available - 1 /\ available > 0
  BY DEF Acquire
<1> QED
  BY <1>2, <1>3, BlockingFinite, ConstantsAssumption DEF TypeInv, TypeOK, PermitInv

-----------------------------------------------------------------------------
(* Types.                                                                  *)

\* The target of a request is of its kind.
LEMMA RequestType ==
  ASSUME NEW q \in Request
  PROVE  /\ q.kind \in {"key", "ring"} /\ q.pass \in Passphrases
         /\ q.kind = "key" => q.target \in Keys
         /\ q.kind = "ring" => q.target \in Rings
  BY DEF Request

\* The initial state.
LEMMA InitTypeInv == Init => TypeInv
<1> SUFFICES ASSUME Init PROVE TypeInv
  OBVIOUS
<1>1. TypeOK
  BY ConstantsAssumption DEF Init, TypeOK, Pc, BlockingPc, Result, MemberResult
<1>2. LoopInv
  BY DEF Init, LoopInv, BlockingPc
<1>3. Blocking = {}
  BY DEF Init, Blocking, BlockingPc
<1>4. PermitInv
  BY <1>3, FS_EmptySet, ConstantsAssumption DEF Init, PermitInv
<1> QED
  BY <1>1, <1>2, <1>4 DEF TypeInv

\* The end of a closure, for an action that otherwise only touches what the
\* request has collected.
LEMMA FinishType ==
  ASSUME TypeInv, NEW r \in Requests, NEW code \in Result, pc[r] \in BlockingPc, Finish(r, code),
         UNCHANGED <<req, client, spc, skey>>,
         cursor' \in [Requests -> Nat \ {0}], decrypted' \in [Requests -> Seq(Keys)],
         \A q \in Requests \ {r} : cursor'[q] = cursor[q] /\ decrypted'[q] = decrypted[q],
         failed' \in [Requests -> SUBSET Keys], outcome' \in [Requests -> [Keys -> MemberResult]],
         unlocked' \subseteq Keys, poisoned' \subseteq Keys,
         installed' \in [Requests -> SUBSET Keys], panics' \in 0 .. MaxPanics
  PROVE  TypeInv'
<1>1. available' \in 0 .. Permits /\ PermitInv'
  BY CountFinish
<1>2. TypeOK'
  BY <1>1 DEF TypeInv, TypeOK, Finish, Goto, Pc
<1>3. LoopInv'
  BY DEF TypeInv, TypeOK, LoopInv, Finish, Goto, BlockingPc
<1> QED
  BY <1>1, <1>2, <1>3 DEF TypeInv

\* The member a keyring request is looking at.
LEMMA ScanKey ==
  ASSUME TypeInv, NEW r \in Requests, pc[r] = "ring_scan"
  PROVE  /\ req[r] \in Request /\ req[r].target \in Rings
         /\ RingKeys[req[r].target] \in Seq(Keys)
         /\ cursor[r] \in 1 .. Len(RingKeys[req[r].target])
         /\ RingKeys[req[r].target][cursor[r]] \in Keys
<1>1. req[r] \in Request /\ req[r].kind = "ring"
  BY DEF TypeInv, TypeOK, LoopInv, BlockingPc, RingPc
<1>2. req[r].target \in Rings
  BY <1>1, RequestType
<1>3. RingKeys[req[r].target] \in Seq(Keys)
  BY <1>2, ConstantsAssumption
<1>4. cursor[r] \in 1 .. Len(RingKeys[req[r].target])
  BY <1>3 DEF TypeInv, TypeOK, LoopInv
<1> QED
  BY <1>1, <1>2, <1>3, <1>4

\* The key whose lock a keyring request takes or whose material it stores.
LEMMA LockKey ==
  ASSUME TypeInv, NEW r \in Requests, pc[r] \in {"ring_lock", "ring_install"}
  PROVE  /\ decrypted[r] \in Seq(Keys)
         /\ cursor[r] \in 1 .. Len(decrypted[r])
         /\ decrypted[r][cursor[r]] \in Keys
<1>1. decrypted[r] \in Seq(Keys)
  BY DEF TypeInv, TypeOK
<1>2. cursor[r] \in 1 .. Len(decrypted[r])
  BY <1>1 DEF TypeInv, TypeOK, LoopInv
<1> QED
  BY <1>1, <1>2

\* One key's unlock request has a key for its target.
LEMMA TargetKey ==
  ASSUME TypeInv, NEW r \in Requests, pc[r] \in {"key_check", "key_decrypt", "key_install"}
  PROVE  req[r] \in Request /\ req[r].target \in Keys
<1>1. req[r] \in Request /\ req[r].kind = "key"
  BY DEF TypeInv, TypeOK, LoopInv, BlockingPc, RingPc
<1> QED
  BY <1>1, RequestType

\* The async part of the handlers, and the readers, keep the types.
LEMMA HandlerType ==
  ASSUME TypeInv, NEW r \in Requests, Reject(r) \/ Submit(r) \/ Acquire(r) \/ Disconnect(r)
  PROVE  TypeInv'
<1>1. CASE Reject(r)
  <2>1. available' \in 0 .. Permits /\ PermitInv'
    BY <1>1, CountSame DEF Reject, Goto, BlockingPc, TypeInv, TypeOK
  <2> QED
    BY <1>1, <2>1
    DEF TypeInv, TypeOK, LoopInv, Reject, Goto, Pc, BlockingPc, Result, keyVars, signVars
<1>2. CASE Submit(r)
  <2>1. available' \in 0 .. Permits /\ PermitInv'
    BY <1>2, CountSame DEF Submit, Goto, BlockingPc, TypeInv, TypeOK
  <2> QED
    BY <1>2, <2>1
    DEF TypeInv, TypeOK, LoopInv, Submit, Goto, Pc, BlockingPc, keyVars, signVars
<1>3. CASE Acquire(r)
  <2>1. available' \in 0 .. Permits /\ PermitInv'
    BY <1>3, CountAcquire
  <2>2. req[r] \in Request /\ req[r].kind \in {"key", "ring"}
    BY <1>3, RequestType DEF Acquire, TypeInv, TypeOK
  <2>3. TypeOK'
    BY <1>3, <2>1, <2>2 DEF TypeInv, TypeOK, Acquire, Goto, Pc, BlockingPc, keyVars, signVars
  <2> QED
    <3>1. \A g \in Rings : Len(RingKeys[g]) >= 1
      BY ConstantsAssumption, FromKeysAssumption DEF FromKeysOk
    <3>2. req[r].kind = "ring" => Len(RingKeys[req[r].target]) >= 1
      BY <2>2, <3>1, RequestType
    <3> QED
      BY <1>3, <2>1, <2>2, <2>3, <3>2
      DEF TypeInv, TypeOK, LoopInv, Acquire, Goto, Pc, BlockingPc, RingPc
<1>4. CASE Disconnect(r)
  <2>1. available' \in 0 .. Permits /\ PermitInv'
    BY <1>4, CountSame DEF Disconnect, Goto, BlockingPc, TypeInv, TypeOK
  <2> QED
    <3>1. TypeOK'
      BY <1>4, <2>1 DEF TypeInv, TypeOK, Disconnect, Goto, Pc, BlockingPc, Result, keyVars, signVars
    <3>2. LoopInv'
      BY <1>4 DEF TypeInv, TypeOK, LoopInv, Disconnect, Goto, BlockingPc
    <3> QED
      BY <2>1, <3>1, <3>2 DEF TypeInv
<1> QED
  BY <1>1, <1>2, <1>3, <1>4

\* KeyMaterial::unlock keeps the types.
LEMMA KeyStepType ==
  ASSUME TypeInv, NEW r \in Requests, KeyCheck(r) \/ KeyDecrypt(r) \/ KeyInstall(r)
  PROVE  TypeInv'
<1> USE DEF keyVars, signVars
<1>1. ASSUME NEW code \in Result, Finish(r, code) PROVE TypeInv'
  <2>1. /\ pc[r] \in BlockingPc /\ req[r].target \in Keys
        /\ UNCHANGED <<req, cursor, decrypted, failed, outcome, client, poisoned, spc, skey, panics>>
    BY TargetKey DEF KeyCheck, KeyDecrypt, KeyInstall, BlockingPc
  <2>2. \/ UNCHANGED <<unlocked, installed>>
        \/ /\ unlocked' = unlocked \cup {req[r].target}
           /\ installed' = [installed EXCEPT ![r] = {req[r].target}]
    BY DEF KeyCheck, KeyDecrypt, KeyInstall
  <2>3. unlocked' \subseteq Keys /\ installed' \in [Requests -> SUBSET Keys]
    <3>1. unlocked \subseteq Keys /\ installed \in [Requests -> SUBSET Keys]
      BY DEF TypeInv, TypeOK
    <3>2. {req[r].target} \in SUBSET Keys
      BY <2>1
    <3> QED
      BY <2>1, <2>2, <3>1, <3>2
  <2> QED
    BY <1>1, <2>1, <2>3, FinishType DEF TypeInv, TypeOK
<1>2. ASSUME NEW l \in {"key_decrypt", "key_install"}, Goto(r, l),
             UNCHANGED <<req, cursor, decrypted, failed, outcome, res, client, guards, available,
                         unlocked, poisoned, installed, spc, skey, panics>>
      PROVE  TypeInv'
  <2>1. pc[r] \in {"key_check", "key_decrypt", "key_install"}
    BY DEF KeyCheck, KeyDecrypt, KeyInstall
  <2>2. available' \in 0 .. Permits /\ PermitInv'
    BY <1>2, <2>1, CountSame DEF Goto, BlockingPc, TypeInv, TypeOK
  <2> QED
    BY <1>2, <2>1, <2>2 DEF TypeInv, TypeOK, LoopInv, Goto, Pc, BlockingPc, RingPc
<1>3. {"inactive", "poisoned", "already", "invalid", "ok"} \subseteq Result
  BY DEF Result
<1>4. CASE KeyCheck(r)
  BY <1>1, <1>2, <1>3, <1>4 DEF KeyCheck
<1>5. CASE KeyDecrypt(r)
  BY <1>1, <1>2, <1>3, <1>5 DEF KeyDecrypt
<1>6. CASE KeyInstall(r)
  BY <1>1, <1>3, <1>6 DEF KeyInstall
<1> QED
  BY <1>4, <1>5, <1>6

\* An iteration over the members keeps the types.
LEMMA RingScanType ==
  ASSUME TypeInv, NEW r \in Requests, RingScan(r)
  PROVE  TypeInv'
<1> DEFINE g == req[r].target
           k == RingKeys[g][cursor[r]]
<1>1. /\ pc[r] = "ring_scan" /\ g \in Rings /\ RingKeys[g] \in Seq(Keys) /\ k \in Keys
      /\ cursor[r] \in 1 .. Len(RingKeys[g])
  BY ScanKey DEF RingScan
<1>2. UNCHANGED <<req, client, unlocked, poisoned, installed, spc, skey, panics>>
  BY DEF RingScan, keyVars, signVars
<1>3. decrypted' \in [Requests -> Seq(Keys)] /\ \A q \in Requests \ {r} : decrypted'[q] = decrypted[q]
  <2>1. decrypted[r] \in Seq(Keys) /\ Append(decrypted[r], k) \in Seq(Keys)
    BY <1>1 DEF TypeInv, TypeOK
  <2>2. \/ decrypted' = [decrypted EXCEPT ![r] = decrypted[r]]
        \/ decrypted' = [decrypted EXCEPT ![r] = Append(decrypted[r], k)]
    BY DEF RingScan
  <2>3. PICK d \in Seq(Keys) : decrypted' = [decrypted EXCEPT ![r] = d]
    <3> HIDE DEF k
    <3> QED
      BY <2>1, <2>2
  <2>4. decrypted \in [Requests -> Seq(Keys)]
    BY DEF TypeInv, TypeOK
  <2> QED
    BY <2>3, <2>4
<1>4. failed' \in [Requests -> SUBSET Keys]
  <2>1. failed[r] \in SUBSET Keys /\ failed[r] \cup {k} \in SUBSET Keys
    BY <1>1 DEF TypeInv, TypeOK
  <2>2. \/ failed' = [failed EXCEPT ![r] = failed[r]]
        \/ failed' = [failed EXCEPT ![r] = failed[r] \cup {k}]
    BY DEF RingScan
  <2> QED
    BY <2>1, <2>2 DEF TypeInv, TypeOK
<1>5. outcome' \in [Requests -> [Keys -> MemberResult]]
  <2>1. PICK v \in MemberResult : outcome' = [outcome EXCEPT ![r] = [@ EXCEPT ![k] = v]]
    BY DEF RingScan, MemberResult
  <2>2. [outcome[r] EXCEPT ![k] = v] \in [Keys -> MemberResult]
    BY <1>1 DEF TypeInv, TypeOK
  <2> QED
    BY <2>1, <2>2 DEF TypeInv, TypeOK
<1>6. ASSUME NEW code \in Result, Finish(r, code), UNCHANGED cursor PROVE TypeInv'
  <2>1. pc[r] \in BlockingPc
    BY <1>1 DEF BlockingPc
  <2> QED
    BY <1>2, <1>3, <1>4, <1>5, <1>6, <2>1, FinishType DEF TypeInv, TypeOK
<1>7. CASE /\ cursor[r] < Len(RingKeys[g])
           /\ cursor' = [cursor EXCEPT ![r] = @ + 1]
           /\ UNCHANGED <<pc, res, guards, available>>
  <2>1. available' \in 0 .. Permits /\ PermitInv'
    BY <1>7, CountSame
  <2>2. TypeOK'
    BY <1>1, <1>2, <1>3, <1>4, <1>5, <1>7, <2>1, SMTT(30) DEF TypeInv, TypeOK
  <2>3. LoopInv'
    BY <1>1, <1>2, <1>3, <1>7 DEF TypeInv, TypeOK, LoopInv
  <2> QED
    BY <2>1, <2>2, <2>3 DEF TypeInv
<1>8. ASSUME Goto(r, "ring_lock"), cursor' = [cursor EXCEPT ![r] = 1], decrypted'[r] # << >>,
             UNCHANGED <<res, guards, available>>
      PROVE  TypeInv'
  <2>1. available' \in 0 .. Permits /\ PermitInv'
    BY <1>1, <1>8, CountSame DEF Goto, BlockingPc, TypeInv, TypeOK
  <2>2. TypeOK'
    BY <1>1, <1>2, <1>3, <1>4, <1>5, <1>8, <2>1 DEF TypeInv, TypeOK, Goto, Pc, BlockingPc
  <2>3. decrypted'[r] \in Seq(Keys) /\ Len(decrypted'[r]) >= 1
    BY <1>3, <1>8
  <2>4. LoopInv'
    BY <1>1, <1>2, <1>3, <1>8, <2>3 DEF TypeInv, TypeOK, LoopInv, Goto, BlockingPc, RingPc
  <2> QED
    BY <2>1, <2>2, <2>4 DEF TypeInv
<1>9. ASSUME NEW opened, NEW missed, opened = decrypted'[r], AfterScan(r, opened, missed)
      PROVE  TypeInv'
  <2>1. {"invalid", "mismatch", "ok"} \subseteq Result
    BY DEF Result
  <2> QED
    BY <1>6, <1>8, <1>9, <2>1 DEF AfterScan
<1>10. \A o : decrypted' = [decrypted EXCEPT ![r] = o] => decrypted'[r] = o
  BY DEF TypeInv, TypeOK
<1> QED
  BY <1>7, <1>9, <1>10 DEF RingScan

\* Taking a lock keeps the types.
LEMMA RingLockType ==
  ASSUME TypeInv, NEW r \in Requests, RingLock(r)
  PROVE  TypeInv'
<1> DEFINE k == decrypted[r][cursor[r]]
<1>1. pc[r] = "ring_lock" /\ k \in Keys /\ cursor[r] \in 1 .. Len(decrypted[r])
      /\ decrypted[r] \in Seq(Keys)
  BY LockKey DEF RingLock
<1>2. UNCHANGED <<req, decrypted, failed, outcome, client, unlocked, poisoned, installed, spc, skey,
                  panics>>
  BY DEF RingLock, keyVars, signVars
<1>3. CASE Finish(r, "poisoned") /\ UNCHANGED cursor
  BY <1>1, <1>2, <1>3, FinishType DEF TypeInv, TypeOK, BlockingPc, Result
<1>4. ASSUME guards' = [guards EXCEPT ![r] = @ \cup {k}], UNCHANGED <<res, available>>,
             NEW l \in {"ring_lock", "ring_install"}, Goto(r, l),
             NEW i \in 1 .. Len(decrypted[r]), cursor' = [cursor EXCEPT ![r] = i]
      PROVE  TypeInv'
  <2>1. available' \in 0 .. Permits /\ PermitInv'
    BY <1>1, <1>4, CountSame DEF Goto, BlockingPc, TypeInv, TypeOK
  <2>2. guards[r] \cup {k} \in SUBSET Keys
    BY <1>1 DEF TypeInv, TypeOK
  <2>3. i \in Nat \ {0}
    BY <1>1
  <2>4. TypeOK'
    BY <1>1, <1>2, <1>4, <2>1, <2>2, <2>3 DEF TypeInv, TypeOK, Goto, Pc, BlockingPc
  <2>5. LoopInv'
    BY <1>1, <1>2, <1>4, <2>3 DEF TypeInv, TypeOK, LoopInv, Goto, BlockingPc, RingPc
  <2> QED
    BY <2>1, <2>4, <2>5 DEF TypeInv
<1>5. UNCHANGED pc => Goto(r, "ring_lock")
  BY <1>1 DEF Goto, TypeInv, TypeOK
<1>6. 1 \in 1 .. Len(decrypted[r])
      /\ (cursor[r] < Len(decrypted[r]) => cursor[r] + 1 \in 1 .. Len(decrypted[r]))
  BY <1>1
<1> QED
  BY <1>3, <1>4, <1>5, <1>6 DEF RingLock

\* Storing a key keeps the types.
LEMMA RingInstallType ==
  ASSUME TypeInv, NEW r \in Requests, RingInstall(r)
  PROVE  TypeInv'
<1> DEFINE k == decrypted[r][cursor[r]]
<1>1. pc[r] = "ring_install" /\ k \in Keys /\ cursor[r] \in 1 .. Len(decrypted[r])
      /\ decrypted[r] \in Seq(Keys)
  BY LockKey DEF RingInstall
<1>2. UNCHANGED <<req, decrypted, failed, client, poisoned, spc, skey, panics>>
  BY DEF RingInstall, signVars
<1>3. /\ unlocked' \subseteq Keys
      /\ installed' \in [Requests -> SUBSET Keys]
      /\ outcome' \in [Requests -> [Keys -> MemberResult]]
  <2>1. installed[r] \cup {k} \in SUBSET Keys
    BY <1>1 DEF TypeInv, TypeOK
  <2>2. [outcome[r] EXCEPT ![k] = "already"] \in [Keys -> MemberResult]
    BY <1>1 DEF TypeInv, TypeOK, MemberResult
  <2>3. \/ /\ outcome' = [outcome EXCEPT ![r] = [outcome[r] EXCEPT ![k] = "already"]]
           /\ UNCHANGED <<unlocked, installed>>
        \/ /\ unlocked' = unlocked \cup {k}
           /\ installed' = [installed EXCEPT ![r] = installed[r] \cup {k}]
           /\ UNCHANGED outcome
    BY DEF RingInstall
  <2>4. /\ unlocked \subseteq Keys /\ installed \in [Requests -> SUBSET Keys]
        /\ outcome \in [Requests -> [Keys -> MemberResult]]
    BY DEF TypeInv, TypeOK
  <2> HIDE DEF k
  <2>5. unlocked' \subseteq Keys
    BY <1>1, <2>3, <2>4
  <2>6. installed' \in [Requests -> SUBSET Keys]
    BY <2>1, <2>3, <2>4
  <2>7. outcome' \in [Requests -> [Keys -> MemberResult]]
    <3> DEFINE o == [outcome[r] EXCEPT ![k] = "already"]
    <3>1. o \in [Keys -> MemberResult]
      BY <2>2
    <3>2. outcome' = [outcome EXCEPT ![r] = o] \/ outcome' = outcome
      BY <2>3
    <3> HIDE DEF o
    <3> QED
      BY <2>4, <3>1, <3>2
  <2> QED
    BY <2>5, <2>6, <2>7
<1>4. CASE Finish(r, "ok") /\ UNCHANGED cursor
  <2>1. pc[r] \in BlockingPc /\ "ok" \in Result
    BY <1>1 DEF BlockingPc, Result
  <2>2. /\ cursor \in [Requests -> Nat \ {0}] /\ decrypted \in [Requests -> Seq(Keys)]
        /\ failed \in [Requests -> SUBSET Keys] /\ poisoned \subseteq Keys
        /\ panics \in 0 .. MaxPanics
    BY DEF TypeInv, TypeOK
  <2>3. /\ cursor' = cursor /\ decrypted' = decrypted /\ failed' = failed
        /\ poisoned' = poisoned /\ panics' = panics /\ UNCHANGED <<req, client, spc, skey>>
    BY <1>2, <1>4
  <2>4. Finish(r, "ok")
    BY <1>4
  <2> QED
    BY <1>3, <2>1, <2>2, <2>3, <2>4, FinishType
<1>5. CASE /\ cursor[r] < Len(decrypted[r])
           /\ cursor' = [cursor EXCEPT ![r] = @ + 1]
           /\ guards' = [guards EXCEPT ![r] = @ \ {k}]
           /\ UNCHANGED <<pc, res, available>>
  <2>1. available' \in 0 .. Permits /\ PermitInv'
    BY <1>5, CountSame
  <2>2. TypeOK'
    BY <1>1, <1>2, <1>3, <1>5, <2>1 DEF TypeInv, TypeOK
  <2>3. LoopInv'
    BY <1>1, <1>2, <1>5 DEF TypeInv, TypeOK, LoopInv
  <2> QED
    BY <2>1, <2>2, <2>3 DEF TypeInv
<1> QED
  BY <1>4, <1>5 DEF RingInstall

\* The other steps keep the types.
LEMMA OtherType ==
  /\ TypeInv /\ (\E r \in Requests : RingInactive(r) \/ Panic(r)) => TypeInv'
  /\ TypeInv /\ (\E s \in Signers : SignValidate(s) \/ SignDigest(s) \/ GetPublicKey(s) \/ SignDone(s)) => TypeInv'
  /\ TypeInv /\ UNCHANGED vars => TypeInv'
<1>1. ASSUME TypeInv, NEW r \in Requests, RingInactive(r) PROVE TypeInv'
  BY <1>1, FinishType
  DEF RingInactive, TypeInv, TypeOK, BlockingPc, Result, keyVars, signVars
<1>2. ASSUME TypeInv, NEW r \in Requests, Panic(r) PROVE TypeInv'
  <2>1. poisoned' \subseteq Keys /\ panics' \in 0 .. MaxPanics
    BY <1>2, ConstantsAssumption DEF Panic, TypeInv, TypeOK
  <2> QED
    BY <1>2, <2>1, FinishType DEF Panic, TypeInv, TypeOK, BlockingPc, Result, signVars
<1>3. ASSUME TypeInv, NEW s \in Signers, SignValidate(s) \/ SignDigest(s) \/ GetPublicKey(s) \/ SignDone(s)
      PROVE  TypeInv'
  <2>1. UNCHANGED <<reqVars, keyVars, panics>>
    BY <1>3 DEF SignValidate, SignDigest, GetPublicKey, SignDone
  <2>2. available' \in 0 .. Permits /\ PermitInv'
    BY <1>3, <2>1, CountSame DEF reqVars
  <2>3. LoopInv'
    BY <1>3, <2>1 DEF TypeInv, LoopInv, reqVars
  <2>4. /\ spc' \in [Signers -> {"idle", "validated", "signing", "publishing", "locked", "failed"}]
        /\ skey' \in [Signers -> Keys \cup {None}]
        /\ \A q \in Signers : spc'[q] # "idle" => skey'[q] \in Keys
    BY <1>3, ZenonT(40) DEF TypeInv, TypeOK, SignValidate, SignDigest, GetPublicKey, SignDone
  <2>5. TypeOK'
    BY <1>3, <2>1, <2>2, <2>4 DEF TypeInv, TypeOK, reqVars, keyVars
  <2> QED
    BY <2>2, <2>3, <2>5 DEF TypeInv
<1>4. ASSUME TypeInv, UNCHANGED vars PROVE TypeInv'
  <2>1. available' \in 0 .. Permits /\ PermitInv'
    BY <1>4, CountSame DEF vars, reqVars
  <2> QED
    BY <1>4, <2>1 DEF TypeInv, TypeOK, LoopInv, vars, reqVars, keyVars, signVars
<1> QED
  BY <1>1, <1>2, <1>3, <1>4

\* Every step keeps the type invariant.
LEMMA NextTypeInv == TypeInv /\ [Next]_vars => TypeInv'
  BY HandlerType, KeyStepType, RingScanType, RingLockType, RingInstallType, OtherType
  DEF Next, Step, Quiet

\* Type correctness of the key store and of the unlock handlers; in particular
\* a permit is never given back twice.
THEOREM TypeCorrect == Spec => []TypeOK
<1>1. TypeInv => TypeOK
  BY DEF TypeInv
<1> QED
  BY <1>1, InitTypeInv, NextTypeInv, PTL DEF Spec

\* At most Permits decryptions run at once, whoever disconnects.
THEOREM KdfBounded == Spec => []KdfBound
<1>1. TypeInv => KdfBound
  BY BlockingFinite, ConstantsAssumption DEF TypeInv, TypeOK, PermitInv, KdfBound
<1> QED
  BY <1>1, InitTypeInv, NextTypeInv, PTL DEF Spec

-----------------------------------------------------------------------------
(* Keys stay unlocked, so a key that was checked can still be used.        *)

\* No step takes key material away.
LEMMA Monotone == [Next]_vars => unlocked \subseteq unlocked'
  BY ZenonT(40) DEF Next, Step, Quiet, vars, keyVars, signVars, Reject, Submit, Disconnect, Panic, Acquire,
         KeyCheck, KeyDecrypt, KeyInstall, RingInactive, RingScan, RingLock, RingInstall,
         SignValidate, SignDigest, GetPublicKey, SignDone

\* Only its own steps move a signer.
LEMMA SignersOwn ==
  [Next]_vars => UNCHANGED <<spc, skey>>
                 \/ \E s \in Signers :
                      SignValidate(s) \/ SignDigest(s) \/ GetPublicKey(s) \/ SignDone(s)
  BY ZenonT(40) DEF Next, Step, Quiet, vars, keyVars, signVars, Reject, Submit, Disconnect, Panic, Acquire,
         KeyCheck, KeyDecrypt, KeyInstall, RingInactive, RingScan, RingLock, RingInstall

\* A signature request that passed validation never finds its key locked when
\* it comes to sign, however long the handler is suspended in between.
THEOREM NeverLockedAgain == Spec => []ValidatedNeverLocked
<1>1. Init => SignInv
  BY DEF Init, SignInv, SignerInv, ValidatedNeverLocked
<1>2. TypeInv /\ SignInv /\ [Next]_vars => SignInv'
  <2> SUFFICES ASSUME TypeInv, SignInv, [Next]_vars PROVE SignInv'
    OBVIOUS
  <2>1. unlocked \subseteq unlocked'
    BY Monotone
  <2>2. CASE UNCHANGED <<spc, skey>>
    BY <2>1, <2>2 DEF SignInv, SignerInv, ValidatedNeverLocked
  <2>3. ASSUME NEW s \in Signers, SignValidate(s) PROVE SignInv'
    BY <2>1, <2>3 DEF SignValidate, IsUnlocked, SignInv, SignerInv, ValidatedNeverLocked,
                      TypeInv, TypeOK
  <2>4. ASSUME NEW s \in Signers, SignDigest(s) PROVE SignInv'
    BY <2>1, <2>4 DEF SignDigest, SignInv, SignerInv, ValidatedNeverLocked, TypeInv, TypeOK
  <2>5. ASSUME NEW s \in Signers, SignDone(s) PROVE SignInv'
    BY <2>1, <2>5 DEF SignDone, SignInv, SignerInv, ValidatedNeverLocked, TypeInv, TypeOK
  <2>6. ASSUME NEW s \in Signers, GetPublicKey(s) PROVE SignInv'
    BY <2>1, <2>6 DEF GetPublicKey, SignInv, SignerInv, ValidatedNeverLocked, TypeInv, TypeOK
  <2> QED
    BY <2>2, <2>3, <2>4, <2>5, <2>6, SignersOwn
<1>3. SignInv => ValidatedNeverLocked
  BY DEF SignInv
<1> QED
  BY <1>1, <1>2, <1>3, InitTypeInv, NextTypeInv, PTL DEF Spec

-----------------------------------------------------------------------------
(* All or nothing.                                                         *)

\* What the invariant says of a request survives the steps of the others.
LEMMA OthersKept ==
  ASSUME NEW q \in Requests, RequestInv(q), unlocked \subseteq unlocked',
         pc'[q] = pc[q], req'[q] = req[q], cursor'[q] = cursor[q], decrypted'[q] = decrypted[q],
         failed'[q] = failed[q], res'[q] = res[q], installed'[q] = installed[q]
  PROVE  RequestInv(q)'
<1>1. ScanInv(q)'
  BY DEF RequestInv, ScanInv, Covered
<1>2. DecryptedInv(q)' /\ InstalledInv(q)'
  BY DEF RequestInv, DecryptedInv, InstalledInv
<1>3. WholeRing(q)'
  BY DEF RequestInv, WholeRing, IsRing
<1> QED
  BY <1>1, <1>2, <1>3 DEF RequestInv

\* A request that ends in an error before the installing loop has stored nothing.
LEMMA EndsInError ==
  ASSUME TypeInv, NEW r \in Requests, RequestInv(r), NEW code, code # "ok",
         pc[r] \notin {"ring_install", "done"},
         pc' = [pc EXCEPT ![r] = "done"], res' = [res EXCEPT ![r] = code],
         UNCHANGED <<installed, unlocked>>
  PROVE  RequestInv(r)'
<1>1. pc'[r] = "done" /\ res'[r] = code /\ installed'[r] = {}
  BY DEF TypeInv, TypeOK, RequestInv, InstalledInv
<1>2. ScanInv(r)' /\ DecryptedInv(r)' /\ InstalledInv(r)'
  BY <1>1 DEF ScanInv, DecryptedInv, InstalledInv, RingPc
<1>3. WholeRing(r)'
  BY <1>1 DEF WholeRing
<1> QED
  BY <1>2, <1>3 DEF RequestInv

\* The unlocked keys are accounted for as long as nothing is stored and the
\* bodies of the requests that stored something do not change.
LEMMA StoredKept ==
  ASSUME StoredOnceWithPassphrase, UNCHANGED <<installed, unlocked>>,
         \A q \in Requests : installed[q] # {} => req'[q] = req[q]
  PROVE  StoredOnceWithPassphrase'
  BY DEF StoredOnceWithPassphrase

\* Storing a locked, active key with a passphrase that opens it is accounted for.
LEMMA StoredOne ==
  ASSUME TypeInv, StoredOnceWithPassphrase, UNCHANGED req,
         \A q \in Requests : installed[q] \subseteq unlocked,
         NEW r \in Requests, NEW k \in Keys, k \notin unlocked,
         Active(k), req[r].pass \in Opens[k],
         unlocked' = unlocked \cup {k},
         installed' = [installed EXCEPT ![r] = installed[r] \cup {k}]
  PROVE  StoredOnceWithPassphrase'
<1>1. installed \in [Requests -> SUBSET Keys]
  BY DEF TypeInv, TypeOK
<1>2. /\ k \in installed'[r] /\ \A q \in Requests : installed[q] \subseteq installed'[q]
      /\ \A q \in Requests : installed'[q] \subseteq installed[q] \cup {k}
      /\ \A q \in Requests \ {r} : installed'[q] = installed[q]
  BY <1>1
<1>3. ASSUME NEW x \in unlocked'
      PROVE  Active(x) /\ \E q \in Requests : x \in installed'[q] /\ req'[q].pass \in Opens[x]
  <2>1. CASE x = k
    BY <1>2, <2>1
  <2>2. CASE x \in unlocked
    BY <1>2, <2>2 DEF StoredOnceWithPassphrase
  <2> QED
    BY <1>3, <2>1, <2>2
<1>4. ASSUME NEW r1 \in Requests, NEW r2 \in Requests, r1 # r2
      PROVE  installed'[r1] \cap installed'[r2] = {}
  BY <1>2, <1>4 DEF StoredOnceWithPassphrase
<1> QED
  BY <1>3, <1>4 DEF StoredOnceWithPassphrase, Active

\* The initial state.
LEMMA InitInd == Init => IndInv
<1> SUFFICES ASSUME Init PROVE IndInv
  OBVIOUS
<1>1. TypeInv
  BY InitTypeInv
<1>2. \A r \in Requests : RequestInv(r)
  BY DEF Init, RequestInv, ScanInv, DecryptedInv, InstalledInv, WholeRing, IsRing, RingPc
<1>3. StoredOnceWithPassphrase
  BY DEF Init, StoredOnceWithPassphrase
<1> QED
  BY <1>1, <1>2, <1>3 DEF IndInv

\* What each kind of step has to keep.
SafeStep == (\A q \in Requests : RequestInv(q)') /\ StoredOnceWithPassphrase'

\* A step of the handlers outside the blocking pool is safe.
LEMMA HandlerSafe ==
  ASSUME IndInv, NEW r \in Requests,
         Reject(r) \/ Submit(r) \/ Acquire(r) \/ Disconnect(r)
  PROVE  SafeStep
<1>1. UNCHANGED <<cursor, decrypted, failed, unlocked, installed>>
  BY DEF Reject, Submit, Acquire, Disconnect, keyVars
<1>2. \A q \in Requests \ {r} : pc'[q] = pc[q] /\ req'[q] = req[q] /\ res'[q] = res[q]
  BY DEF IndInv, TypeInv, TypeOK, Reject, Submit, Acquire, Disconnect, Goto
<1>3. \A q \in Requests \ {r} : RequestInv(q)'
  BY <1>1, <1>2, OthersKept DEF IndInv
<1>4. RequestInv(r) /\ TypeInv
  BY DEF IndInv
<1>5. RequestInv(r)'
  <2>1. CASE Reject(r)
    BY <1>1, <1>4, <2>1, EndsInError DEF Reject, Goto
  <2>2. CASE Submit(r)
    <3>1. /\ pc[r] = "new" /\ pc'[r] = "queued" /\ res'[r] = "none" /\ installed'[r] = {}
          /\ decrypted'[r] = << >>
      BY <1>1, <1>4, <2>2 DEF Submit, Goto, TypeInv, TypeOK, RequestInv, DecryptedInv, InstalledInv
    <3> QED
      BY <3>1 DEF RequestInv, ScanInv, DecryptedInv, InstalledInv, WholeRing, RingPc
  <2>3. CASE Acquire(r)
    <3>1. /\ pc'[r] \in {"key_check", "ring_scan"} /\ res'[r] = "none" /\ installed'[r] = {}
          /\ cursor'[r] = 1 /\ decrypted'[r] = << >>
      BY <1>1, <1>4, <2>3 DEF Acquire, Goto, TypeInv, TypeOK, LoopInv, RequestInv, DecryptedInv,
                              InstalledInv
    <3> QED
      BY <3>1 DEF RequestInv, ScanInv, DecryptedInv, InstalledInv, WholeRing, RingPc
  <2>4. CASE Disconnect(r) /\ UNCHANGED <<pc, res>>
    BY <1>1, <1>4, <2>4, OthersKept DEF Disconnect
  <2>5. CASE pc[r] = "queued" /\ Goto(r, "done") /\ res' = [res EXCEPT ![r] = "dropped"]
    BY <1>1, <1>4, <2>5, EndsInError DEF Goto
  <2> QED
    BY <2>1, <2>2, <2>3, <2>4, <2>5 DEF Disconnect
<1>6. StoredOnceWithPassphrase'
  <2>1. \A q \in Requests : installed[q] # {} => req'[q] = req[q]
    BY <1>2, <1>4 DEF Reject, Submit, Acquire, Disconnect, RequestInv, InstalledInv
  <2> QED
    BY <1>1, <2>1, StoredKept DEF IndInv
<1> QED
  BY <1>3, <1>5, <1>6 DEF SafeStep

\* A request that ends without storing anything is safe.
LEMMA ErrorSafe ==
  ASSUME IndInv, NEW r \in Requests, NEW code, code # "ok", Finish(r, code),
         pc[r] \in BlockingPc \ {"ring_install"},
         UNCHANGED <<req, unlocked, installed>>,
         \A q \in Requests \ {r} :
           cursor'[q] = cursor[q] /\ decrypted'[q] = decrypted[q] /\ failed'[q] = failed[q]
  PROVE  SafeStep
<1>1. RequestInv(r) /\ TypeInv
  BY DEF IndInv
<1>2. pc' = [pc EXCEPT ![r] = "done"] /\ res' = [res EXCEPT ![r] = code]
  BY DEF Finish, Goto
<1>3. RequestInv(r)'
  BY <1>1, <1>2, EndsInError DEF BlockingPc
<1>4. \A q \in Requests \ {r} : RequestInv(q)'
  <2>1. \A q \in Requests \ {r} : pc'[q] = pc[q] /\ res'[q] = res[q]
    BY <1>1, <1>2 DEF TypeInv, TypeOK
  <2> QED
    BY <2>1, OthersKept DEF IndInv
<1>5. StoredOnceWithPassphrase'
  BY StoredKept DEF IndInv
<1> QED
  BY <1>3, <1>4, <1>5 DEF SafeStep

\* Unlocking one key is safe.
LEMMA KeyStepSafe ==
  ASSUME IndInv, NEW r \in Requests, KeyCheck(r) \/ KeyDecrypt(r) \/ KeyInstall(r)
  PROVE  SafeStep
<1> DEFINE k == req[r].target
<1>1. RequestInv(r) /\ TypeInv /\ StoredOnceWithPassphrase
  BY DEF IndInv
<1>2. /\ UNCHANGED <<req, cursor, decrypted, failed>>
      /\ pc[r] \in {"key_check", "key_decrypt", "key_install"}
  BY DEF KeyCheck, KeyDecrypt, KeyInstall
<1>3. req[r] \in Request /\ k \in Keys /\ req[r].kind = "key"
  BY <1>1, <1>2, TargetKey DEF TypeInv, LoopInv, BlockingPc, RingPc
<1>4. CASE /\ \E code \in Result \ {"ok"} : Finish(r, code)
           /\ UNCHANGED <<unlocked, installed>>
  BY <1>2, <1>4, ErrorSafe DEF BlockingPc
<1>5. CASE /\ UNCHANGED <<res, unlocked, installed>>
           /\ \/ Active(k) /\ Goto(r, "key_decrypt")
              \/ Active(k) /\ req[r].pass \in Opens[k] /\ Goto(r, "key_install")
  <2>1. \A q \in Requests \ {r} : pc'[q] = pc[q]
    BY <1>1, <1>5 DEF Goto, TypeInv, TypeOK
  <2>2. \A q \in Requests \ {r} : RequestInv(q)'
    BY <1>2, <1>5, <2>1, OthersKept DEF IndInv
  <2>3. /\ pc'[r] \in {"key_decrypt", "key_install"} /\ res'[r] = "none" /\ installed'[r] = {}
        /\ Active(req'[r].target) /\ (pc'[r] = "key_install" => req'[r].pass \in Opens[req'[r].target])
    BY <1>1, <1>2, <1>5 DEF Goto, TypeInv, TypeOK, RequestInv, InstalledInv
  <2>4. RequestInv(r)'
    BY <2>3 DEF RequestInv, ScanInv, DecryptedInv, InstalledInv, WholeRing, RingPc, Active
  <2>5. StoredOnceWithPassphrase'
    BY <1>1, <1>2, <1>5, StoredKept
  <2> QED
    BY <2>2, <2>4, <2>5 DEF SafeStep
<1>6. CASE /\ pc[r] = "key_install" /\ k \notin unlocked
           /\ unlocked' = unlocked \cup {k}
           /\ installed' = [installed EXCEPT ![r] = {k}]
           /\ Finish(r, "ok")
  <2>1. installed[r] = {} /\ Active(k) /\ req[r].pass \in Opens[k]
    BY <1>1, <1>6 DEF RequestInv, InstalledInv, DecryptedInv
  <2>2. /\ pc' = [pc EXCEPT ![r] = "done"] /\ res' = [res EXCEPT ![r] = "ok"]
        /\ pc'[r] = "done" /\ installed'[r] = {k}
    BY <1>1, <1>6 DEF Finish, Goto, TypeInv, TypeOK
  <2>3. \A q \in Requests \ {r} : RequestInv(q)'
    <3>1. \A q \in Requests \ {r} : pc'[q] = pc[q] /\ res'[q] = res[q] /\ installed'[q] = installed[q]
      BY <1>1, <1>6, <2>2 DEF TypeInv, TypeOK
    <3> QED
      BY <1>2, <1>6, <3>1, OthersKept DEF IndInv
  <2>4. RequestInv(r)'
    <3>1. ~IsRing(r)'
      BY <1>2, <1>3 DEF IsRing
    <3> QED
      BY <1>6, <2>2, <3>1 DEF RequestInv, ScanInv, DecryptedInv, InstalledInv, WholeRing, RingPc
  <2>5. StoredOnceWithPassphrase'
    <3>1. \A q \in Requests : installed[q] \subseteq unlocked
      BY DEF IndInv, RequestInv, InstalledInv
    <3>2. installed' = [installed EXCEPT ![r] = installed[r] \cup {k}]
      BY <1>6, <2>1
    <3> HIDE DEF k
    <3> QED
      BY <1>1, <1>2, <1>3, <1>6, <2>1, <3>1, <3>2, StoredOne
  <2> QED
    BY <2>3, <2>4, <2>5 DEF SafeStep
<1>7. CASE KeyCheck(r)
  BY <1>4, <1>5, <1>7 DEF KeyCheck, keyVars, Result
<1>8. CASE KeyDecrypt(r)
  <2>1. Active(k)
    BY <1>1, <1>8 DEF KeyDecrypt, RequestInv, DecryptedInv
  <2> QED
    BY <1>4, <1>5, <1>8, <2>1 DEF KeyDecrypt, keyVars, Result
<1>9. CASE KeyInstall(r)
  BY <1>4, <1>6, <1>9 DEF KeyInstall, Result
<1> QED
  BY <1>7, <1>8, <1>9

\* The steps that neither unlock nor move a request are safe.
LEMMA OtherSafe ==
  /\ IndInv /\ (\E r \in Requests : RingInactive(r) \/ Panic(r)) => SafeStep
  /\ IndInv /\ (\E s \in Signers :
                   SignValidate(s) \/ SignDigest(s) \/ GetPublicKey(s) \/ SignDone(s)) => SafeStep
  /\ IndInv /\ UNCHANGED vars => SafeStep
<1>1. ASSUME IndInv, NEW r \in Requests, RingInactive(r) PROVE SafeStep
  BY <1>1, ErrorSafe DEF RingInactive, BlockingPc, keyVars
<1>2. ASSUME IndInv, NEW r \in Requests, Panic(r) PROVE SafeStep
  BY <1>2, ErrorSafe DEF Panic, BlockingPc
<1>3. ASSUME IndInv, UNCHANGED <<reqVars, unlocked, installed>> PROVE SafeStep
  <2>1. \A q \in Requests : RequestInv(q)'
    BY <1>3, OthersKept DEF IndInv, reqVars
  <2>2. StoredOnceWithPassphrase'
    BY <1>3, StoredKept DEF IndInv, reqVars
  <2> QED
    BY <2>1, <2>2 DEF SafeStep
<1> QED
  BY <1>1, <1>2, <1>3 DEF SignValidate, SignDigest, GetPublicKey, SignDone, keyVars, vars

\* The other requests are untouched by a keyring step that stores nothing.
LEMMA RingOthers ==
  ASSUME IndInv, NEW r \in Requests, UNCHANGED <<req, unlocked, installed>>,
         \A q \in Requests \ {r} :
           /\ pc'[q] = pc[q] /\ res'[q] = res[q] /\ cursor'[q] = cursor[q]
           /\ decrypted'[q] = decrypted[q] /\ failed'[q] = failed[q],
         RequestInv(r)'
  PROVE  SafeStep
<1>1. \A q \in Requests \ {r} : RequestInv(q)'
  BY OthersKept DEF IndInv
<1>2. StoredOnceWithPassphrase'
  BY StoredKept DEF IndInv
<1> QED
  BY <1>1, <1>2 DEF SafeStep

\* An appended key is among the elements of the longer sequence.
LEMMA LastAppended ==
  ASSUME NEW s \in Seq(Keys), NEW x \in Keys
  PROVE  \E j \in 1 .. Len(Append(s, x)) : Append(s, x)[j] = x
<1>1. Len(Append(s, x)) \in 1 .. Len(Append(s, x)) /\ Append(s, x)[Len(Append(s, x))] = x
  OBVIOUS
<1> QED
  BY <1>1

\* Scanning a member: every active member passed so far is unlocked, decrypted
\* or among the failures, whatever the other requests do; so when the scan ends
\* without a failure, the locked ones have all been decrypted.
LEMMA RingScanSafe ==
  ASSUME IndInv, NEW r \in Requests, RingScan(r)
  PROVE  SafeStep
<1> DEFINE g == req[r].target
           ks == RingKeys[g]
           k == ks[cursor[r]]
           tried == Active(k) /\ ~IsUnlocked(k)
           opens == req[r].pass \in Opens[k]
           opened == IF tried /\ opens THEN Append(decrypted[r], k) ELSE decrypted[r]
           missed == IF tried /\ ~opens THEN failed[r] \cup {k} ELSE failed[r]
           Passed(x) == x \in unlocked \/ (\E j \in 1 .. Len(opened) : opened[j] = x) \/ x \in missed
<1>1. RequestInv(r) /\ TypeInv /\ pc[r] = "ring_scan"
  BY DEF IndInv, RingScan
<1>2. /\ req[r] \in Request /\ g \in Rings /\ ks \in Seq(Keys)
      /\ cursor[r] \in 1 .. Len(ks) /\ k \in Keys
  BY <1>1, ScanKey
<1>3. UNCHANGED <<req, unlocked, installed>>
  BY DEF RingScan, keyVars
<1>4. /\ decrypted' = [decrypted EXCEPT ![r] = opened]
      /\ failed' = [failed EXCEPT ![r] = missed]
      /\ \/ cursor[r] = Len(ks) /\ AfterScan(r, opened, missed)
         \/ /\ cursor[r] < Len(ks)
            /\ cursor' = [cursor EXCEPT ![r] = @ + 1]
            /\ UNCHANGED <<pc, res, guards, available>>
  BY DEF RingScan
<1>5. decrypted'[r] = opened /\ failed'[r] = missed /\ decrypted[r] \in Seq(Keys)
  BY <1>1, <1>4 DEF TypeInv, TypeOK
<1>6. \A q \in Requests \ {r} :
        /\ pc'[q] = pc[q] /\ res'[q] = res[q] /\ cursor'[q] = cursor[q]
        /\ decrypted'[q] = decrypted[q] /\ failed'[q] = failed[q]
  BY <1>1, <1>4 DEF TypeInv, TypeOK, AfterScan, Finish, Goto
<1>7. \A j \in 1 .. Len(opened) : Active(opened[j]) /\ req[r].pass \in Opens[opened[j]]
  <2>1. \A j \in 1 .. Len(decrypted[r]) :
          Active(decrypted[r][j]) /\ req[r].pass \in Opens[decrypted[r][j]]
    BY <1>1 DEF RequestInv, DecryptedInv, RingPc
  <2>2. CASE tried /\ opens
    BY <1>2, <1>5, <2>1, <2>2
  <2>3. CASE ~(tried /\ opens)
    BY <2>1, <2>3
  <2> QED
    BY <2>2, <2>3
<1>8. \A i \in 1 .. cursor[r] : Active(ks[i]) => Passed(ks[i])
  <2>1. \A j \in 1 .. Len(decrypted[r]) :
          j \in 1 .. Len(opened) /\ opened[j] = decrypted[r][j]
    BY <1>2, <1>5
  <2>2. ASSUME NEW i \in 1 .. cursor[r] - 1, Active(ks[i]) PROVE Passed(ks[i])
    <3>1. Covered(r, ks[i], 1) \/ ks[i] \in failed[r]
      BY <1>1, <2>2 DEF RequestInv, ScanInv
    <3> QED
      BY <2>1, <3>1 DEF Covered
  <2>3. Active(k) => Passed(k)
    <3>1. CASE tried /\ opens
      <4>1. opened = Append(decrypted[r], k)
        BY <3>1
      <4>2. \E j \in 1 .. Len(Append(decrypted[r], k)) : Append(decrypted[r], k)[j] = k
        BY <1>2, <1>5, LastAppended
      <4> HIDE DEF k, opened, missed
      <4> QED
        BY <4>1, <4>2
    <3>2. CASE tried /\ ~opens
      BY <3>2
    <3>3. CASE ~tried
      BY <3>3 DEF IsUnlocked
    <3> QED
      BY <3>1, <3>2, <3>3
  <2>4. \A i \in 1 .. cursor[r] : i \in 1 .. cursor[r] - 1 \/ i = cursor[r]
    BY <1>2
  <2> HIDE DEF opened, missed, Passed
  <2> QED
    BY <2>2, <2>3, <2>4
<1> HIDE DEF opened, missed
<1>9. installed'[r] = {} /\ res[r] = "none"
  BY <1>1, <1>3 DEF RequestInv, InstalledInv
<1>10. CASE /\ cursor[r] < Len(ks)
            /\ cursor' = [cursor EXCEPT ![r] = @ + 1]
            /\ UNCHANGED <<pc, res>>
  <2>1. pc'[r] = "ring_scan" /\ cursor'[r] - 1 = cursor[r] /\ res'[r] = "none"
    BY <1>1, <1>9, <1>10 DEF TypeInv, TypeOK
  <2>2. ScanInv(r)'
    BY <1>3, <1>5, <1>8, <2>1 DEF ScanInv, Covered, Active
  <2>3. DecryptedInv(r)'
    BY <1>3, <1>5, <1>7, <2>1 DEF DecryptedInv, Active
  <2>4. InstalledInv(r)' /\ WholeRing(r)'
    BY <1>9, <2>1 DEF InstalledInv, WholeRing
  <2> QED
    BY <1>3, <1>6, <2>2, <2>3, <2>4, RingOthers DEF RequestInv
<1>11. CASE /\ missed # {} /\ cursor[r] = Len(ks)
            /\ Finish(r, IF opened = << >> THEN "invalid" ELSE "mismatch")
  BY <1>1, <1>3, <1>6, <1>11, ErrorSafe DEF BlockingPc
<1>12. CASE missed = {} /\ opened = << >> /\ cursor[r] = Len(ks) /\ Finish(r, "ok")
  <2>1. pc'[r] = "done" /\ res'[r] = "ok"
    BY <1>1, <1>12 DEF Finish, Goto, TypeInv, TypeOK
  <2>2. \A i \in 1 .. Len(ks) : Active(ks[i]) => ks[i] \in unlocked
    BY <1>8, <1>12
  <2>3. ActiveMembers(g) \subseteq unlocked
    BY <2>2 DEF ActiveMembers, Members
  <2>4. WholeRing(r)'
    BY <1>3, <2>1, <2>3 DEF WholeRing, ActiveMembers, Members, Active
  <2>5. ScanInv(r)' /\ DecryptedInv(r)' /\ InstalledInv(r)'
    BY <1>9, <2>1 DEF ScanInv, DecryptedInv, InstalledInv, RingPc
  <2> QED
    BY <1>3, <1>6, <2>4, <2>5, RingOthers DEF RequestInv
<1>13. CASE /\ missed = {} /\ cursor[r] = Len(ks)
            /\ Goto(r, "ring_lock") /\ UNCHANGED res
  <2>1. pc'[r] = "ring_lock" /\ res'[r] = "none"
    BY <1>1, <1>9, <1>13 DEF Goto, TypeInv, TypeOK
  <2>2. \A i \in 1 .. Len(ks) : Active(ks[i]) =>
          ks[i] \in unlocked \/ \E j \in 1 .. Len(opened) : opened[j] = ks[i]
    BY <1>8, <1>13
  <2>3. \A x \in ActiveMembers(g) : x \in unlocked \/ \E j \in 1 .. Len(opened) : opened[j] = x
    BY <2>2 DEF ActiveMembers, Members
  <2>4. ScanInv(r)'
    BY <1>3, <1>5, <2>1, <2>3 DEF ScanInv, Covered, ActiveMembers, Members, Active
  <2>5. DecryptedInv(r)'
    BY <1>3, <1>5, <1>7, <2>1 DEF DecryptedInv, Active
  <2>6. InstalledInv(r)' /\ WholeRing(r)'
    BY <1>9, <2>1 DEF InstalledInv, WholeRing
  <2> QED
    BY <1>3, <1>6, <2>4, <2>5, <2>6, RingOthers DEF RequestInv
<1> QED
  BY <1>4, <1>10, <1>11, <1>12, <1>13 DEF AfterScan

\* Taking a write lock is safe: the decrypted keys are still those of the scan.
LEMMA RingLockSafe ==
  ASSUME IndInv, NEW r \in Requests, RingLock(r)
  PROVE  SafeStep
<1>1. RequestInv(r) /\ TypeInv /\ pc[r] = "ring_lock"
  BY DEF IndInv, RingLock
<1>2. UNCHANGED <<req, decrypted, failed, unlocked, installed>>
  BY DEF RingLock, keyVars
<1>3. \A q \in Requests \ {r} : pc'[q] = pc[q] /\ res'[q] = res[q] /\ cursor'[q] = cursor[q]
  BY <1>1 DEF RingLock, TypeInv, TypeOK, Finish, Goto
<1>4. CASE Finish(r, "poisoned")
  BY <1>1, <1>2, <1>3, <1>4, ErrorSafe DEF BlockingPc
<1>5. CASE /\ UNCHANGED res
           /\ \/ pc' = pc
              \/ cursor' = [cursor EXCEPT ![r] = 1] /\ Goto(r, "ring_install")
  <2>1. /\ pc'[r] \in {"ring_lock", "ring_install"}
        /\ pc'[r] = "ring_install" => cursor'[r] = 1
        /\ res'[r] = "none" /\ installed'[r] = {}
    BY <1>1, <1>2, <1>5 DEF Goto, TypeInv, TypeOK, RequestInv, InstalledInv
  <2>2. ScanInv(r)'
    BY <1>1, <1>2, <2>1 DEF RequestInv, ScanInv, Covered
  <2>3. DecryptedInv(r)'
    BY <1>1, <1>2, <2>1 DEF RequestInv, DecryptedInv, RingPc
  <2>4. InstalledInv(r)' /\ WholeRing(r)'
    BY <2>1 DEF InstalledInv, WholeRing
  <2> QED
    BY <1>2, <1>3, <2>2, <2>3, <2>4, RingOthers DEF RequestInv
<1> QED
  BY <1>4, <1>5 DEF RingLock

\* Storing a key is safe: every active member is unlocked by now, or still to
\* come in the loop, which nothing can stop any more.
LEMMA RingInstallSafe ==
  ASSUME IndInv, NEW r \in Requests, RingInstall(r)
  PROVE  SafeStep
<1> DEFINE k == decrypted[r][cursor[r]]
           g == req[r].target
<1>1. /\ RequestInv(r) /\ TypeInv /\ StoredOnceWithPassphrase /\ pc[r] = "ring_install"
      /\ res[r] = "none"
  BY DEF IndInv, RingInstall, RequestInv, InstalledInv
<1>2. k \in Keys /\ cursor[r] \in 1 .. Len(decrypted[r]) /\ decrypted[r] \in Seq(Keys)
  BY <1>1, LockKey
<1>3. UNCHANGED <<req, decrypted, failed>>
  BY DEF RingInstall
<1>4. Active(k) /\ req[r].pass \in Opens[k]
  BY <1>1, <1>2 DEF RequestInv, DecryptedInv, RingPc
<1>5. /\ unlocked' = unlocked \cup {k}
      /\ \/ k \in unlocked /\ UNCHANGED <<unlocked, installed>>
         \/ /\ k \notin unlocked
            /\ installed' = [installed EXCEPT ![r] = installed[r] \cup {k}]
  BY DEF RingInstall
<1>6. \A q \in Requests \ {r} :
        pc'[q] = pc[q] /\ res'[q] = res[q] /\ cursor'[q] = cursor[q] /\ installed'[q] = installed[q]
  BY <1>1 DEF RingInstall, TypeInv, TypeOK, Finish, Goto
<1>7. \A q \in Requests \ {r} : RequestInv(q)'
  BY <1>3, <1>5, <1>6, OthersKept DEF IndInv
<1>8. StoredOnceWithPassphrase'
  <2>1. \A q \in Requests : installed[q] \subseteq unlocked
    BY DEF IndInv, RequestInv, InstalledInv
  <2>2. CASE UNCHANGED <<unlocked, installed>>
    BY <1>1, <1>3, <2>2, StoredKept
  <2> HIDE DEF k
  <2>3. CASE k \notin unlocked /\ installed' = [installed EXCEPT ![r] = installed[r] \cup {k}]
    BY <1>1, <1>2, <1>3, <1>4, <1>5, <2>1, <2>3, StoredOne
  <2> QED
    BY <1>5, <2>2, <2>3
<1>9. installed'[r] \subseteq unlocked'
  BY <1>1, <1>5 DEF TypeInv, TypeOK, RequestInv, InstalledInv
<1>10. \A x \in ActiveMembers(g) :
         x \in unlocked' \/ \E i \in cursor[r] + 1 .. Len(decrypted[r]) : decrypted[r][i] = x
  <2>1. \A x \in ActiveMembers(g) :
          x \in unlocked \/ \E i \in cursor[r] .. Len(decrypted[r]) : decrypted[r][i] = x
    BY <1>1 DEF RequestInv, ScanInv, Covered
  <2>2. \A i \in cursor[r] .. Len(decrypted[r]) :
          i = cursor[r] \/ i \in cursor[r] + 1 .. Len(decrypted[r])
    BY <1>2
  <2> QED
    BY <1>5, <2>1, <2>2
<1>11. RequestInv(r)'
  <2>1. CASE cursor[r] = Len(decrypted[r]) /\ Finish(r, "ok")
    <3>1. pc'[r] = "done" /\ res'[r] = "ok"
      BY <1>1, <2>1 DEF Finish, Goto, TypeInv, TypeOK
    <3>2. ActiveMembers(g) \subseteq unlocked'
      BY <1>2, <1>10, <2>1
    <3>3. WholeRing(r)'
      BY <1>3, <3>1, <3>2 DEF WholeRing, ActiveMembers, Members, Active
    <3> QED
      BY <1>9, <3>1, <3>3 DEF RequestInv, ScanInv, DecryptedInv, InstalledInv, RingPc
  <2>2. CASE cursor' = [cursor EXCEPT ![r] = @ + 1] /\ UNCHANGED <<pc, res>>
    <3>1. pc'[r] = "ring_install" /\ res'[r] = "none" /\ cursor'[r] = cursor[r] + 1
      BY <1>1, <2>2 DEF TypeInv, TypeOK
    <3>2. ScanInv(r)'
      BY <1>3, <1>10, <3>1 DEF ScanInv, Covered, ActiveMembers, Members, Active
    <3>3. DecryptedInv(r)'
      BY <1>1, <1>3, <3>1 DEF RequestInv, DecryptedInv, RingPc
    <3>4. InstalledInv(r)' /\ WholeRing(r)'
      BY <1>9, <3>1 DEF InstalledInv, WholeRing
    <3> QED
      BY <3>2, <3>3, <3>4 DEF RequestInv
  <2> QED
    BY <2>1, <2>2 DEF RingInstall
<1> QED
  BY <1>7, <1>8, <1>11 DEF SafeStep

\* Every step keeps the inductive invariant.
LEMMA NextInd == IndInv /\ [Next]_vars => IndInv'
<1> SUFFICES ASSUME IndInv, [Next]_vars PROVE IndInv'
  OBVIOUS
<1>1. TypeInv'
  BY NextTypeInv DEF IndInv
<1>2. SafeStep
  BY HandlerSafe, KeyStepSafe, RingScanSafe, RingLockSafe, RingInstallSafe, OtherSafe
  DEF Next, Step, Quiet
<1> QED
  BY <1>1, <1>2 DEF IndInv, SafeStep

\* The claim of the doc comment of unlock_keyring, for any keyrings, any number
\* of concurrent unlocks and any panics: a keyring unlock stores every active
\* member that was locked, or no key at all.
THEOREM RingAllOrNothing == Spec => []AllOrNothing
<1>1. IndInv => AllOrNothing
  BY DEF IndInv, RequestInv, AllOrNothing
<1> QED
  BY <1>1, InitInd, NextInd, PTL DEF Spec

\* No interleaving of the check, the decryption and the installation stores a
\* key twice, stores an inactive key or one its passphrase does not open.
THEOREM KeysStoredOnce == Spec => []StoredOnceWithPassphrase
<1>1. IndInv => StoredOnceWithPassphrase
  BY DEF IndInv
<1> QED
  BY <1>1, InitInd, NextInd, PTL DEF Spec

-----------------------------------------------------------------------------
(* The write guards.                                                       *)

\* A step of request r, of its handler or of its task.
RequestStep(r) == Reject(r) \/ Submit(r) \/ Disconnect(r) \/ Panic(r) \/ Step(r)
SignerStep(s) == SignValidate(s) \/ SignDigest(s) \/ GetPublicKey(s) \/ SignDone(s)

\* What a request keeps to itself.
Kept(q) ==
  /\ pc'[q] = pc[q] /\ req'[q] = req[q] /\ cursor'[q] = cursor[q]
  /\ decrypted'[q] = decrypted[q] /\ failed'[q] = failed[q] /\ outcome'[q] = outcome[q]
  /\ res'[q] = res[q] /\ guards'[q] = guards[q] /\ installed'[q] = installed[q]

\* A step is one of a request or leaves the requests and the keys alone.
LEMMA StepCases ==
  ASSUME [Next]_vars
  PROVE  (\E r \in Requests : RequestStep(r)) \/ UNCHANGED <<reqVars, keyVars>>
  BY DEF Next, Quiet, vars, RequestStep, SignValidate, SignDigest, GetPublicKey, SignDone

\* A request changes nothing of another one, but for the permits, the key
\* material and the locks they share.
LEMMA OwnSteps ==
  ASSUME TypeInv, NEW r \in Requests, RequestStep(r), NEW q \in Requests, q # r
  PROVE  Kept(q)
<1> USE DEF TypeInv, TypeOK, Kept, keyVars, Finish, Goto
<1>1. CASE Reject(r)
  BY <1>1 DEF Reject
<1>2. CASE Submit(r)
  BY <1>2 DEF Submit
<1>3. CASE Disconnect(r)
  BY <1>3 DEF Disconnect
<1>4. CASE Panic(r)
  BY <1>4 DEF Panic
<1>5. CASE Acquire(r)
  BY <1>5 DEF Acquire
<1>6. CASE KeyCheck(r)
  BY <1>6 DEF KeyCheck
<1>7. CASE KeyDecrypt(r)
  BY <1>7 DEF KeyDecrypt
<1>8. CASE KeyInstall(r)
  BY <1>8 DEF KeyInstall
<1>9. CASE RingInactive(r)
  BY <1>9 DEF RingInactive
<1>10. CASE RingScan(r)
  <2>1. /\ UNCHANGED <<req, installed>>
        /\ \E o : decrypted' = [decrypted EXCEPT ![r] = o]
        /\ \E o : failed' = [failed EXCEPT ![r] = o]
        /\ \E o : outcome' = [outcome EXCEPT ![r] = o]
    BY <1>10 DEF RingScan
  <2>2. /\ pc' = pc \/ \E o : pc' = [pc EXCEPT ![r] = o]
        /\ res' = res \/ \E o : res' = [res EXCEPT ![r] = o]
        /\ cursor' = cursor \/ \E o : cursor' = [cursor EXCEPT ![r] = o]
        /\ guards' = guards \/ \E o : guards' = [guards EXCEPT ![r] = o]
    BY <1>10 DEF RingScan, AfterScan
  <2> QED
    BY <2>1, <2>2
<1>11. CASE RingLock(r)
  BY <1>11 DEF RingLock
<1>12. CASE RingInstall(r)
  <2>1. /\ UNCHANGED <<req, decrypted, failed>>
        /\ pc' = pc \/ \E o : pc' = [pc EXCEPT ![r] = o]
        /\ res' = res \/ \E o : res' = [res EXCEPT ![r] = o]
        /\ cursor' = cursor \/ \E o : cursor' = [cursor EXCEPT ![r] = o]
        /\ \E o : guards' = [guards EXCEPT ![r] = o]
        /\ outcome' = outcome \/ \E o : outcome' = [outcome EXCEPT ![r] = o]
        /\ installed' = installed \/ \E o : installed' = [installed EXCEPT ![r] = o]
    BY <1>12 DEF RingInstall
  <2> QED
    BY <2>1
<1> QED
  BY <1>1, <1>2, <1>3, <1>4, <1>5, <1>6, <1>7, <1>8, <1>9, <1>10, <1>11, <1>12
  DEF RequestStep, Step

\* One more element at the end, or one less at the beginning, of a part of a
\* sequence.
LEMMA Images ==
  ASSUME NEW d, NEW c \in Nat \ {0}, NEW n \in Nat, c <= n
  PROVE  /\ {d[i] : i \in 1 .. c} = {d[i] : i \in 1 .. c - 1} \cup {d[c]}
         /\ {d[i] : i \in c .. n} = {d[c]} \cup {d[i] : i \in c + 1 .. n}
<1>1. 1 .. c = (1 .. c - 1) \cup {c} /\ c .. n = {c} \cup (c + 1 .. n)
  OBVIOUS
<1> QED
  BY <1>1

\* What the invariant says of the guards of a request survives what the others
\* do, unless they poison one of its keys.
LEMMA LockOthers ==
  ASSUME NEW q \in Requests, LockInv(q), Kept(q), guards[q] \cap poisoned' = {}
  PROVE  LockInv(q)'
  BY DEF LockInv, Kept, Locked, Pending, Distinct

\* A request that neither takes locks nor installs keys holds no guard.
LEMMA LockRest ==
  ASSUME NEW r \in Requests, guards'[r] = {}, pc'[r] \notin {"ring_lock", "ring_install"}
  PROVE  LockInv(r)'
  BY DEF LockInv

\* The guards of a request after one of its steps: none, those it had, the ones
\* it had and a free one more, or one less.
LEMMA LockOwn ==
  ASSUME TypeInv, GuardInv, NEW r \in Requests, RequestStep(r)
  PROVE  /\ LockInv(r)'
         /\ \A q \in Requests \ {r} : guards'[r] \cap guards[q] = {}
<1>1. LockInv(r) /\ \A q \in Requests \ {r} : guards[r] \cap guards[q] = {}
  BY DEF GuardInv, Exclusive
<1>2. /\ pc \in [Requests -> Pc] /\ cursor \in [Requests -> Nat \ {0}]
      /\ guards \in [Requests -> SUBSET Keys]
  BY DEF TypeInv, TypeOK
<1>3. ASSUME NEW code, Finish(r, code) PROVE guards'[r] = {} /\ LockInv(r)'
  BY <1>2, <1>3, LockRest DEF Finish, Goto
<1>4. ASSUME NEW l, Goto(r, l), l \notin {"ring_lock", "ring_install"}, UNCHANGED guards,
             pc[r] \notin {"ring_lock", "ring_install"}
      PROVE  guards'[r] = guards[r] /\ LockInv(r)'
  BY <1>1, <1>2, <1>4, LockRest DEF Goto, LockInv
<1>5. CASE Reject(r) \/ Submit(r) \/ Acquire(r)
  <2>1. \E l \in {"done", "queued", "key_check", "ring_scan"} : Goto(r, l)
    BY <1>5 DEF Reject, Submit, Acquire
  <2>2. UNCHANGED guards /\ pc[r] \notin {"ring_lock", "ring_install"}
    BY <1>5 DEF Reject, Submit, Acquire
  <2> QED
    BY <1>1, <1>4, <2>1, <2>2
<1>6. CASE Disconnect(r)
  <2>1. CASE UNCHANGED pc
    BY <1>1, <1>6, <2>1 DEF Disconnect, LockInv, Locked, Pending, Distinct, keyVars
  <2>2. CASE pc[r] = "queued" /\ Goto(r, "done")
    BY <1>1, <1>4, <1>6, <2>2 DEF Disconnect
  <2> QED
    BY <1>6, <2>1, <2>2 DEF Disconnect
<1>7. CASE Panic(r) \/ RingInactive(r)
  BY <1>3, <1>7 DEF Panic, RingInactive
<1>8. CASE KeyCheck(r) \/ KeyDecrypt(r) \/ KeyInstall(r)
  <2>1. \/ \E code : Finish(r, code)
        \/ /\ Goto(r, "key_decrypt") \/ Goto(r, "key_install")
           /\ UNCHANGED guards /\ pc[r] \in {"key_check", "key_decrypt"}
    BY <1>8 DEF KeyCheck, KeyDecrypt, KeyInstall
  <2> QED
    BY <1>1, <1>3, <1>4, <2>1
<1>9. CASE RingScan(r)
  <2>1. pc[r] = "ring_scan" /\ guards[r] = {}
    BY <1>1, <1>9 DEF RingScan, LockInv
  <2>2. \/ \E code : Finish(r, code)
        \/ UNCHANGED <<pc, guards>>
        \/ Goto(r, "ring_lock") /\ cursor' = [cursor EXCEPT ![r] = 1] /\ UNCHANGED guards
    BY <1>9 DEF RingScan, AfterScan
  <2>3. CASE UNCHANGED <<pc, guards>>
    BY <2>1, <2>3, LockRest
  <2>4. CASE Goto(r, "ring_lock") /\ cursor' = [cursor EXCEPT ![r] = 1] /\ UNCHANGED guards
    <3>1. pc'[r] = "ring_lock" /\ cursor'[r] = 1 /\ guards'[r] = {}
      BY <1>2, <2>1, <2>4 DEF Goto
    <3>2. Locked(r)' = {} /\ Distinct(r, 1, cursor[r] - 1)'
      BY <3>1 DEF Locked, Distinct
    <3> QED
      BY <3>1, <3>2 DEF LockInv
  <2> QED
    BY <1>3, <2>1, <2>2, <2>3, <2>4
<1>10. CASE RingLock(r)
  <2> DEFINE k == decrypted[r][cursor[r]]
             c == cursor[r]
             d == decrypted[r]
  <2>1. /\ pc[r] = "ring_lock" /\ decrypted' = decrypted /\ poisoned' = poisoned
        /\ \A q \in Requests : k \notin guards[q]
    BY <1>10 DEF RingLock, CanWrite, CanRead, keyVars
  <2>2. c \in 1 .. Len(d) /\ c \in Nat \ {0} /\ Len(d) \in Nat
    BY <1>2, <2>1, LockKey
  <2>3. CASE Finish(r, "poisoned")
    BY <1>3, <2>3
  <2>4. CASE k \notin poisoned /\ guards' = [guards EXCEPT ![r] = @ \cup {k}]
    <3>1. guards'[r] = guards[r] \cup {k}
      BY <1>2, <2>4
    <3>2. guards[r] = {d[i] : i \in 1 .. c - 1} /\ \A i, j \in 1 .. c - 1 : d[i] = d[j] => i = j
      BY <1>1, <2>1 DEF LockInv, Locked, Distinct
    <3>3. guards'[r] = {d[i] : i \in 1 .. c}
      BY <2>2, <3>1, <3>2, Images
    <3>4. \A i, j \in 1 .. c : d[i] = d[j] => i = j
      <4>1. \A i \in 1 .. c : i \in 1 .. c - 1 \/ i = c
        BY <2>2
      <4>2. \A i \in 1 .. c - 1 : d[i] # d[c]
        BY <2>1, <3>2
      <4> QED
        BY <3>2, <4>1, <4>2
    <3>5. guards'[r] \cap poisoned' = {} /\ \A q \in Requests \ {r} : guards'[r] \cap guards[q] = {}
      BY <1>1, <2>1, <2>4, <3>1 DEF LockInv
    <3>6. CASE c = Len(d) /\ cursor' = [cursor EXCEPT ![r] = 1] /\ Goto(r, "ring_install")
      <4>1. pc'[r] = "ring_install" /\ cursor'[r] = 1
        BY <1>2, <3>6 DEF Goto
      <4> QED
        BY <2>1, <3>3, <3>4, <3>5, <3>6, <4>1 DEF LockInv, Pending, Distinct
    <3>7. CASE cursor' = [cursor EXCEPT ![r] = @ + 1] /\ UNCHANGED pc
      <4>1. pc'[r] = "ring_lock" /\ cursor'[r] = c + 1 /\ cursor'[r] - 1 = c
        BY <1>2, <2>1, <3>7
      <4> QED
        BY <2>1, <3>3, <3>4, <3>5, <4>1 DEF LockInv, Locked, Distinct
    <3> QED
      BY <1>10, <2>4, <3>6, <3>7 DEF RingLock
  <2> QED
    BY <1>10, <2>3, <2>4 DEF RingLock
<1>11. CASE RingInstall(r)
  <2> DEFINE k == decrypted[r][cursor[r]]
             c == cursor[r]
             d == decrypted[r]
  <2>1. pc[r] = "ring_install" /\ decrypted' = decrypted /\ poisoned' = poisoned
    BY <1>11 DEF RingInstall
  <2>2. c \in 1 .. Len(d) /\ c \in Nat \ {0} /\ Len(d) \in Nat
    BY <1>2, <2>1, LockKey
  <2>3. CASE Finish(r, "ok")
    BY <1>3, <2>3
  <2>4. CASE /\ cursor' = [cursor EXCEPT ![r] = @ + 1]
             /\ guards' = [guards EXCEPT ![r] = @ \ {k}]
             /\ UNCHANGED pc
    <3>1. /\ pc'[r] = "ring_install" /\ cursor'[r] = c + 1 /\ guards'[r] = guards[r] \ {k}
      BY <1>2, <2>1, <2>4
    <3>2. guards[r] = {d[i] : i \in c .. Len(d)} /\ \A i, j \in c .. Len(d) : d[i] = d[j] => i = j
      BY <1>1, <2>1 DEF LockInv, Pending, Distinct
    <3>3. \A i \in c + 1 .. Len(d) : i \in c .. Len(d) /\ d[i] # d[c]
      BY <2>2, <3>2
    <3>4. guards'[r] = {d[i] : i \in c + 1 .. Len(d)}
      BY <2>2, <3>1, <3>2, <3>3, Images
    <3>5. \A i, j \in c + 1 .. Len(d) : d[i] = d[j] => i = j
      BY <3>2, <3>3
    <3>6. guards'[r] \subseteq guards[r]
      BY <3>1
    <3> QED
      BY <1>1, <2>1, <3>1, <3>4, <3>5, <3>6 DEF LockInv, Pending, Distinct
  <2> QED
    BY <1>11, <2>3, <2>4 DEF RingInstall
<1> QED
  BY <1>5, <1>6, <1>7, <1>8, <1>9, <1>10, <1>11 DEF RequestStep, Step

\* Only a panic poisons locks, and only those of the task that dies.
LEMMA PoisonsOwn ==
  ASSUME NEW r \in Requests, RequestStep(r)
  PROVE  poisoned' = poisoned \/ (Panic(r) /\ poisoned' = poisoned \cup guards[r])
  BY DEF RequestStep, Step, keyVars, Reject, Submit, Disconnect, Panic, Acquire, KeyCheck,
         KeyDecrypt, KeyInstall, RingInactive, RingScan, RingLock, RingInstall

\* Every step keeps the guards exclusive, distinct and unpoisoned.
LEMMA NextGuard == TypeInv /\ GuardInv /\ [Next]_vars => GuardInv'
<1> SUFFICES ASSUME TypeInv, GuardInv, [Next]_vars PROVE GuardInv'
  OBVIOUS
<1>1. CASE UNCHANGED <<reqVars, keyVars>>
  BY <1>1 DEF reqVars, keyVars, GuardInv, Exclusive, LockInv, Locked, Pending, Distinct
<1>2. ASSUME NEW r \in Requests, RequestStep(r) PROVE GuardInv'
  <2>1. LockInv(r)' /\ \A q \in Requests \ {r} : guards'[r] \cap guards[q] = {}
    BY <1>2, LockOwn
  <2>2. \A q \in Requests \ {r} : Kept(q) /\ guards'[q] = guards[q]
    BY <1>2, OwnSteps DEF Kept
  <2>3. \A q \in Requests \ {r} : LockInv(q) /\ guards[q] \cap guards[r] = {} /\ guards[q] \cap poisoned = {}
    BY DEF GuardInv, Exclusive, LockInv
  <2>4. \A q \in Requests \ {r} : guards[q] \cap poisoned' = {}
    BY <1>2, <2>3, PoisonsOwn
  <2>5. \A q \in Requests \ {r} : LockInv(q)'
    BY <2>2, <2>3, <2>4, LockOthers
  <2>6. Exclusive'
    BY <2>1, <2>2 DEF Exclusive, GuardInv
  <2> QED
    BY <2>1, <2>5, <2>6 DEF GuardInv
<1> QED
  BY <1>1, <1>2, StepCases

-----------------------------------------------------------------------------
(* The reports.                                                            *)

\* What the invariant says of the report of a request survives what the others
\* do: they unlock more keys.
LEMMA ReportOthers ==
  ASSUME NEW q \in Requests, ReportInv(q), Kept(q), unlocked \subseteq unlocked'
  PROVE  ReportInv(q)'
<1>1. /\ Scanned(q)' = Scanned(q) /\ Opened(q)' = Opened(q) /\ Pending(q)' = Pending(q)
      /\ IsRing(q)' = IsRing(q)
  BY DEF Kept, Scanned, Opened, Pending, IsRing
<1>2. ASSUME NEW k, NEW stored, ReportOn(q, k, stored)
      PROVE  /\ outcome'[q][k] = "unlocked" <=> k \in stored
             /\ outcome'[q][k] = "already" => k \in unlocked'
             /\ outcome'[q][k] = "skipped" <=> ~Active(k)
  BY <1>2 DEF ReportOn, Kept
<1>3. pc'[q] = "ring_scan" =>
        /\ Opened(q)' \cup failed'[q] \subseteq Scanned(q)'
        /\ \A k \in Scanned(q)' : ReportOn(q, k, Opened(q) \cup failed[q])'
  BY <1>1, <1>2 DEF ReportInv, ReportOn, Kept, Active
<1>4. pc'[q] = "ring_lock" =>
        /\ Opened(q)' \subseteq Members(req'[q].target)
        /\ \A k \in Members(req'[q].target) : ReportOn(q, k, Opened(q))'
  BY <1>1, <1>2 DEF ReportInv, ReportOn, Kept, Active
<1>5. pc'[q] = "ring_install" =>
        /\ installed'[q] \cap Pending(q)' = {}
        /\ \A k \in Members(req'[q].target) : ReportOn(q, k, installed[q] \cup Pending(q))'
  BY <1>1, <1>2 DEF ReportInv, ReportOn, Kept, Active
<1>6. IsRing(q)' /\ res'[q] = "ok" =>
        \A k \in Members(req'[q].target) : ReportOn(q, k, installed[q])'
  BY <1>1, <1>2 DEF ReportInv, ReportOn, Kept, Active
<1>7. pc'[q] \in {"new", "queued"} => failed'[q] = {}
  BY DEF ReportInv, Kept
<1> QED
  BY <1>3, <1>4, <1>5, <1>6, <1>7 DEF ReportInv, Members

\* There is nothing to say of a request without a report to come, or to be given.
LEMMA NoReport ==
  ASSUME NEW r \in Requests, res'[r] # "ok" \/ ~IsRing(r)',
         pc'[r] \notin {"new", "queued", "ring_scan", "ring_lock", "ring_install"}
  PROVE  ReportInv(r)'
  BY DEF ReportInv

\* The elements of a sequence after Append.
LEMMA AppendImage ==
  ASSUME NEW d \in Seq(Keys), NEW k \in Keys
  PROVE  {Append(d, k)[i] : i \in 1 .. Len(Append(d, k))} = {d[i] : i \in 1 .. Len(d)} \cup {k}
<1> DEFINE e == Append(d, k)
           n == Len(d) + 1
<1>1. /\ Len(e) = n /\ n \in Nat \ {0} /\ n - 1 = Len(d) /\ e[n] = k
      /\ \A i \in 1 .. n - 1 : e[i] = d[i]
  OBVIOUS
<1> HIDE DEF e, n
<1>2. {e[i] : i \in 1 .. n} = {e[i] : i \in 1 .. n - 1} \cup {e[n]}
  BY <1>1, Images
<1>3. {e[i] : i \in 1 .. n - 1} = {d[i] : i \in 1 .. n - 1}
  BY <1>1
<1> QED
  BY <1>1, <1>2, <1>3 DEF e

\* An iteration over the members reports on one more of them.
LEMMA ScanReport ==
  ASSUME IndInv, NEW r \in Requests, ReportInv(r), RingScan(r)
  PROVE  ReportInv(r)'
<1> DEFINE g == req[r].target
           ks == RingKeys[g]
           c == cursor[r]
           k == ks[c]
           tried == Active(k) /\ ~IsUnlocked(k)
           opens == req[r].pass \in Opens[k]
           opened == IF tried /\ opens THEN Append(decrypted[r], k) ELSE decrypted[r]
           missed == IF tried /\ ~opens THEN failed[r] \cup {k} ELSE failed[r]
           result == IF ~Active(k) THEN "skipped" ELSE IF tried THEN "unlocked" ELSE "already"
           S == {ks[i] : i \in 1 .. c - 1}
           Says(x, stored) ==
             /\ outcome'[r][x] = "unlocked" <=> x \in stored
             /\ outcome'[r][x] = "already" => x \in unlocked
             /\ outcome'[r][x] = "skipped" <=> ~Active(x)
<1>1. TypeInv /\ RequestInv(r) /\ pc[r] = "ring_scan"
  BY DEF IndInv, RingScan
<1>2. /\ req[r] \in Request /\ g \in Rings /\ ks \in Seq(Keys) /\ c \in 1 .. Len(ks)
      /\ c \in Nat \ {0} /\ Len(ks) \in Nat /\ k \in Keys /\ decrypted[r] \in Seq(Keys)
  BY <1>1, ScanKey DEF TypeInv, TypeOK
<1>3. /\ UNCHANGED <<req, unlocked, installed>>
      /\ decrypted' = [decrypted EXCEPT ![r] = opened]
      /\ failed' = [failed EXCEPT ![r] = missed]
      /\ outcome' = [outcome EXCEPT ![r] = [@ EXCEPT ![k] = result]]
  BY DEF RingScan, keyVars
<1>4. /\ decrypted'[r] = opened /\ failed'[r] = missed
      /\ outcome'[r] = [outcome[r] EXCEPT ![k] = result] /\ outcome[r] \in [Keys -> MemberResult]
  BY <1>1, <1>3 DEF TypeInv, TypeOK
<1>5. S \subseteq Keys /\ k \notin S
  <2>1. \A i \in 1 .. c - 1 : i \in 1 .. Len(ks) /\ i # c
    BY <1>2
  <2>2. \A i, j \in 1 .. Len(ks) : ks[i] = ks[j] => i = j
    BY <1>2, FromKeysAssumption DEF FromKeysOk
  <2> QED
    BY <1>2, <2>1, <2>2
<1>6. /\ Opened(r) \cup failed[r] \subseteq S
      /\ \A x \in S : ReportOn(r, x, Opened(r) \cup failed[r])
  BY <1>1 DEF ReportInv, Scanned
<1>7. Opened(r)' = {opened[i] : i \in 1 .. Len(opened)}
  <2> HIDE DEF k, opened, missed, result, S
  <2> QED
    BY <1>4 DEF Opened
<1>8. Opened(r)' \cup failed'[r] = (Opened(r) \cup failed[r]) \cup (IF tried THEN {k} ELSE {})
  <2>1. CASE tried /\ opens
    <3>1. opened = Append(decrypted[r], k) /\ missed = failed[r] /\ tried
      BY <2>1
    <3> HIDE DEF k, opened, missed, tried
    <3>2. {Append(decrypted[r], k)[i] : i \in 1 .. Len(Append(decrypted[r], k))} = Opened(r) \cup {k}
      BY <1>2, AppendImage DEF Opened
    <3>3. Opened(r)' = Opened(r) \cup {k} /\ failed'[r] = failed[r]
      BY <1>4, <1>7, <3>1, <3>2
    <3> QED
      BY <3>1, <3>3
  <2>2. CASE ~(tried /\ opens)
    <3>1. Opened(r)' = Opened(r)
      BY <1>7, <2>2 DEF Opened
    <3> QED
      BY <1>4, <2>2, <3>1
  <2> QED
    BY <2>1, <2>2
<1>9. \A x \in S \cup {k} : Says(x, Opened(r)' \cup failed'[r])
  <2> HIDE DEF k, S, opened, missed
  <2>1. Says(k, Opened(r)' \cup failed'[r])
    <3>1. outcome'[r][k] = result
      BY <1>2, <1>4
    <3>2. k \in Opened(r)' \cup failed'[r] <=> tried
      BY <1>5, <1>6, <1>8
    <3> QED
      BY <3>1, <3>2 DEF IsUnlocked
  <2>2. ASSUME NEW x \in S PROVE Says(x, Opened(r)' \cup failed'[r])
    <3>1. outcome'[r][x] = outcome[r][x] /\ x # k
      BY <1>2, <1>4, <1>5
    <3>2. x \in Opened(r)' \cup failed'[r] <=> x \in Opened(r) \cup failed[r]
      BY <1>8, <3>1
    <3> QED
      BY <1>6, <3>1, <3>2 DEF ReportOn
  <2> QED
    BY <2>1, <2>2
<1>10. Opened(r)' \cup failed'[r] \subseteq S \cup {k}
  BY <1>6, <1>8
<1>11. {ks[i] : i \in 1 .. c} = S \cup {k}
  BY <1>2, Images
<1>12. res[r] = "none" /\ installed[r] = {}
  BY <1>1 DEF RequestInv, InstalledInv
<1> HIDE DEF S, k, opened, missed, Says
<1>13. CASE cursor' = [cursor EXCEPT ![r] = @ + 1] /\ UNCHANGED <<pc, res>>
  <2>1. pc'[r] = "ring_scan" /\ res'[r] = "none" /\ cursor'[r] - 1 = c
    BY <1>1, <1>2, <1>12, <1>13 DEF TypeInv, TypeOK
  <2>2. Scanned(r)' = S \cup {k}
    BY <1>3, <1>11, <2>1 DEF Scanned
  <2>3. \A x \in Scanned(r)' : ReportOn(r, x, Opened(r) \cup failed[r])'
    BY <1>3, <1>9, <2>2 DEF ReportOn, Says, Active
  <2> QED
    BY <1>10, <2>1, <2>2, <2>3 DEF ReportInv
<1>14. CASE \E code : code # "ok" /\ Finish(r, code)
  <2>1. pc'[r] = "done" /\ res'[r] # "ok"
    BY <1>1, <1>14 DEF Finish, Goto, TypeInv, TypeOK
  <2> QED
    BY <2>1, NoReport
<1>15. c = Len(ks) => Members(req'[r].target) = S \cup {k}
  BY <1>3, <1>11 DEF Members
<1>16. CASE missed = {} /\ opened = << >> /\ c = Len(ks) /\ Finish(r, "ok")
  <2>1. pc'[r] = "done" /\ res'[r] = "ok"
    BY <1>1, <1>16 DEF Finish, Goto, TypeInv, TypeOK
  <2>2. Opened(r)' \cup failed'[r] = installed'[r]
    BY <1>3, <1>4, <1>7, <1>12, <1>16
  <2>3. \A x \in Members(req'[r].target) : ReportOn(r, x, installed[r])'
    BY <1>3, <1>9, <1>15, <1>16, <2>2 DEF ReportOn, Says, Active
  <2> QED
    BY <2>1, <2>3 DEF ReportInv, Members
<1>17. CASE missed = {} /\ c = Len(ks) /\ Goto(r, "ring_lock") /\ UNCHANGED res
  <2>1. pc'[r] = "ring_lock" /\ res'[r] = "none"
    BY <1>1, <1>12, <1>17 DEF Goto, TypeInv, TypeOK
  <2>2. Opened(r)' \cup failed'[r] = Opened(r)'
    BY <1>4, <1>17
  <2>3. \A x \in Members(req'[r].target) : ReportOn(r, x, Opened(r))'
    BY <1>3, <1>9, <1>15, <1>17, <2>2 DEF ReportOn, Says, Active
  <2>4. Opened(r)' \subseteq Members(req'[r].target)
    BY <1>10, <1>15, <1>17, <2>2
  <2> QED
    BY <2>1, <2>3, <2>4 DEF ReportInv, Members
<1> QED
  <2>1. \/ c = Len(ks) /\ AfterScan(r, opened, missed)
        \/ cursor' = [cursor EXCEPT ![r] = @ + 1] /\ UNCHANGED <<pc, res>>
    BY DEF RingScan, opened, missed, k
  <2> QED
    BY <1>13, <1>14, <1>16, <1>17, <2>1 DEF AfterScan

\* Taking a lock changes no report; with the last one, what was decrypted becomes
\* what is pending.
LEMMA LockReport ==
  ASSUME IndInv, NEW r \in Requests, ReportInv(r), RingLock(r)
  PROVE  ReportInv(r)'
<1>1. /\ TypeInv /\ pc[r] = "ring_lock" /\ res[r] = "none" /\ installed[r] = {}
      /\ UNCHANGED <<req, decrypted, outcome, unlocked, installed>>
  BY DEF IndInv, RequestInv, InstalledInv, RingLock, keyVars
<1>2. /\ Opened(r) \subseteq Members(req[r].target)
      /\ \A x \in Members(req[r].target) : ReportOn(r, x, Opened(r))
  BY <1>1 DEF ReportInv
<1>3. Opened(r)' = Opened(r)
  BY <1>1 DEF Opened
<1>4. CASE Finish(r, "poisoned")
  <2>1. pc'[r] = "done" /\ res'[r] = "poisoned"
    BY <1>1, <1>4 DEF Finish, Goto, TypeInv, TypeOK
  <2> QED
    BY <2>1, NoReport
<1>5. CASE UNCHANGED <<pc, res>>
  <2>1. \A x \in Members(req[r].target) : ReportOn(r, x, Opened(r))'
    BY <1>1, <1>2, <1>3 DEF ReportOn, Active
  <2> QED
    BY <1>1, <1>2, <1>3, <1>5, <2>1 DEF ReportInv, Members
<1>6. CASE cursor' = [cursor EXCEPT ![r] = 1] /\ Goto(r, "ring_install") /\ UNCHANGED res
  <2>1. pc'[r] = "ring_install" /\ res'[r] = "none" /\ cursor'[r] = 1 /\ installed'[r] = {}
    BY <1>1, <1>6 DEF Goto, TypeInv, TypeOK
  <2>2. Pending(r)' = Opened(r)
    BY <1>1, <2>1 DEF Pending, Opened
  <2>3. \A x \in Members(req[r].target) : ReportOn(r, x, installed[r] \cup Pending(r))'
    BY <1>1, <1>2, <2>1, <2>2 DEF ReportOn, Active
  <2> QED
    BY <1>1, <2>1, <2>3 DEF ReportInv, Members
<1> QED
  BY <1>4, <1>5, <1>6 DEF RingLock

\* An installation makes the report of its key true, or takes the key out of it.
LEMMA InstallReport ==
  ASSUME IndInv, NEW r \in Requests, LockInv(r), ReportInv(r), RingInstall(r)
  PROVE  ReportInv(r)'
<1> DEFINE d == decrypted[r]
           c == cursor[r]
           k == d[c]
           P == {d[i] : i \in c + 1 .. Len(d)}
<1>1. TypeInv /\ RequestInv(r) /\ pc[r] = "ring_install" /\ res[r] = "none"
  BY DEF IndInv, RequestInv, InstalledInv, RingInstall
<1>2. /\ d \in Seq(Keys) /\ c \in 1 .. Len(d) /\ c \in Nat \ {0} /\ Len(d) \in Nat /\ k \in Keys
      /\ UNCHANGED <<req, decrypted>> /\ unlocked \subseteq unlocked'
  BY <1>1, LockKey DEF RingInstall, TypeInv, TypeOK
<1>3. Active(k)
  BY <1>1, <1>2 DEF RequestInv, DecryptedInv, RingPc
<1>4. Pending(r) = {k} \cup P /\ k \notin P
  <2>1. Pending(r) = {k} \cup P
    BY <1>2, Images DEF Pending
  <2>2. \A i, j \in c .. Len(d) : d[i] = d[j] => i = j
    BY <1>1 DEF LockInv, Distinct
  <2>3. \A i \in c + 1 .. Len(d) : i \in c .. Len(d) /\ c \in c .. Len(d) /\ i # c
    BY <1>2
  <2> QED
    BY <2>1, <2>2, <2>3
<1>5. /\ installed[r] \cap ({k} \cup P) = {}
      /\ \A x \in Members(req[r].target) : ReportOn(r, x, installed[r] \cup ({k} \cup P))
  BY <1>1, <1>4 DEF ReportInv
<1>6. /\ installed \in [Requests -> SUBSET Keys] /\ outcome \in [Requests -> [Keys -> MemberResult]]
      /\ outcome[r] \in [Keys -> MemberResult]
  BY <1>1 DEF TypeInv, TypeOK
<1> HIDE DEF P, k
<1>7. Members(req[r].target) \subseteq Keys
  <2>1. req[r] \in Request /\ req[r].kind = "ring"
    BY <1>1 DEF TypeInv, TypeOK, LoopInv, BlockingPc, RingPc
  <2>2. RingKeys[req[r].target] \in Seq(Keys)
    BY <2>1, RequestType, ConstantsAssumption
  <2> QED
    BY <2>2 DEF Members
<1>8. installed'[r] \cap P = {} /\ \A x \in Members(req[r].target) :
        /\ outcome'[r][x] = "unlocked" <=> x \in installed'[r] \cup P
        /\ outcome'[r][x] = "already" => x \in unlocked'
        /\ outcome'[r][x] = "skipped" <=> ~Active(x)
  <2>1. CASE /\ k \in unlocked
             /\ outcome' = [outcome EXCEPT ![r] = [@ EXCEPT ![k] = "already"]]
             /\ UNCHANGED <<unlocked, installed>>
    <3>1. outcome'[r] = [outcome[r] EXCEPT ![k] = "already"]
      BY <1>6, <2>1
    <3>2. \A x \in Keys : outcome'[r][x] = IF x = k THEN "already" ELSE outcome[r][x]
      BY <1>2, <1>6, <3>1
    <3>3. \A x : x # k => (x \in installed'[r] \cup P <=> x \in installed[r] \cup ({k} \cup P))
      BY <2>1
    <3>4. k \notin installed'[r] \cup P
      BY <1>4, <1>5, <2>1
    <3> QED
      BY <1>3, <1>5, <1>7, <2>1, <3>2, <3>3, <3>4 DEF ReportOn
  <2>2. CASE /\ k \notin unlocked
             /\ unlocked' = unlocked \cup {k}
             /\ installed' = [installed EXCEPT ![r] = @ \cup {k}]
             /\ UNCHANGED outcome
    <3>1. installed'[r] = installed[r] \cup {k}
      BY <1>6, <2>2
    <3>2. installed'[r] \cup P = installed[r] \cup ({k} \cup P)
      BY <3>1
    <3> QED
      BY <1>4, <1>5, <2>2, <3>1, <3>2 DEF ReportOn
  <2> QED
    BY <2>1, <2>2 DEF RingInstall, k
<1>9. CASE c = Len(d) /\ Finish(r, "ok")
  <2>1. pc'[r] = "done" /\ res'[r] = "ok"
    BY <1>1, <1>9 DEF Finish, Goto, TypeInv, TypeOK
  <2>2. P = {}
    BY <1>2, <1>9 DEF P
  <2>3. \A x \in Members(req'[r].target) : ReportOn(r, x, installed[r])'
    BY <1>2, <1>8, <2>2 DEF ReportOn, Active
  <2> QED
    BY <2>1, <2>3 DEF ReportInv, Members
<1>10. CASE cursor' = [cursor EXCEPT ![r] = @ + 1] /\ UNCHANGED <<pc, res>>
  <2>1. pc'[r] = "ring_install" /\ res'[r] = "none" /\ cursor'[r] = c + 1
    BY <1>1, <1>10 DEF TypeInv, TypeOK
  <2>2. Pending(r)' = P
    BY <1>2, <2>1 DEF Pending, P
  <2>3. \A x \in Members(req'[r].target) : ReportOn(r, x, installed[r] \cup Pending(r))'
    BY <1>2, <1>8, <2>2 DEF ReportOn, Active
  <2> QED
    BY <1>8, <2>1, <2>2, <2>3 DEF ReportInv, Members
<1> QED
  BY <1>9, <1>10 DEF RingInstall

\* Every step keeps the reports of its request on the way to the truth.
LEMMA ReportOwn ==
  ASSUME IndInv, NEW r \in Requests, LockInv(r), ReportInv(r), RequestStep(r)
  PROVE  ReportInv(r)'
<1>1. TypeInv /\ RequestInv(r)
  BY DEF IndInv
<1>2. pc \in [Requests -> Pc] /\ res \in [Requests -> Result] /\ req \in [Requests -> Request \cup {None}]
  BY <1>1 DEF TypeInv, TypeOK
<1>3. pc[r] # "done" => res[r] = "none"
  BY <1>1 DEF RequestInv, InstalledInv
<1>4. ASSUME NEW code, code # "ok", Goto(r, "done"), res' = [res EXCEPT ![r] = code]
      PROVE  ReportInv(r)'
  BY <1>2, <1>4, NoReport DEF Goto
<1>5. ASSUME NEW code, code # "ok", Finish(r, code) PROVE ReportInv(r)'
  BY <1>4, <1>5 DEF Finish
<1>6. CASE Reject(r)
  BY <1>4, <1>6 DEF Reject
<1>7. CASE Submit(r)
  <2>1. pc[r] = "new" /\ pc'[r] = "queued" /\ res'[r] = "none" /\ failed' = failed
    BY <1>2, <1>3, <1>7 DEF Submit, Goto
  <2> QED
    BY <2>1 DEF ReportInv
<1>8. CASE Acquire(r)
  <2>1. /\ pc[r] = "queued" /\ pc'[r] \in {"key_check", "ring_scan"} /\ res'[r] = "none"
        /\ UNCHANGED <<cursor, decrypted, failed>>
    BY <1>2, <1>3, <1>8 DEF Acquire, Goto
  <2>2. cursor[r] = 1 /\ decrypted[r] = << >> /\ failed[r] = {}
    BY <1>1, <2>1 DEF TypeInv, LoopInv, RequestInv, DecryptedInv, ReportInv
  <2>3. Opened(r)' = {} /\ Scanned(r)' = {} /\ failed'[r] = {}
    BY <2>1, <2>2 DEF Opened, Scanned
  <2> QED
    BY <2>1, <2>3 DEF ReportInv
<1>9. CASE Disconnect(r)
  <2>1. CASE Goto(r, "done") /\ res' = [res EXCEPT ![r] = "dropped"]
    BY <1>4, <2>1
  <2>2. CASE UNCHANGED <<pc, res>>
    BY <1>9, <2>2, ReportOthers DEF Disconnect, Kept, keyVars
  <2> QED
    BY <1>9, <2>1, <2>2 DEF Disconnect
<1>10. CASE Panic(r) \/ RingInactive(r)
  BY <1>5, <1>10 DEF Panic, RingInactive
<1>11. CASE KeyCheck(r) \/ KeyDecrypt(r) \/ KeyInstall(r)
  <2>1. \/ \E code : code # "ok" /\ Finish(r, code)
        \/ pc[r] \in {"key_check", "key_decrypt"} /\ UNCHANGED res
           /\ (Goto(r, "key_decrypt") \/ Goto(r, "key_install"))
        \/ KeyInstall(r) /\ Finish(r, "ok")
    BY <1>11 DEF KeyCheck, KeyDecrypt, KeyInstall
  <2>2. CASE /\ pc[r] \in {"key_check", "key_decrypt"} /\ UNCHANGED res
             /\ Goto(r, "key_decrypt") \/ Goto(r, "key_install")
    BY <1>2, <1>3, <2>2, NoReport DEF Goto
  <2>3. CASE KeyInstall(r) /\ Finish(r, "ok")
    <3>1. pc[r] = "key_install" /\ req' = req /\ pc'[r] = "done"
      BY <1>2, <2>3 DEF KeyInstall, Finish, Goto
    <3>2. ~IsRing(r)'
      BY <1>1, <3>1 DEF TypeInv, LoopInv, BlockingPc, RingPc, IsRing
    <3> QED
      BY <3>1, <3>2, NoReport
  <2> QED
    BY <1>5, <2>1, <2>2, <2>3
<1> QED
  BY <1>6, <1>7, <1>8, <1>9, <1>10, <1>11, ScanReport, LockReport, InstallReport
  DEF RequestStep, Step

\* Every step keeps the invariant of the reports.
LEMMA NextReport ==
  ASSUME IndInv, GuardInv, \A q \in Requests : ReportInv(q), [Next]_vars
  PROVE  \A q \in Requests : ReportInv(q)'
<1>1. unlocked \subseteq unlocked' /\ TypeInv
  BY Monotone DEF IndInv
<1>2. CASE UNCHANGED <<reqVars, keyVars>>
  BY <1>1, <1>2, ReportOthers DEF Kept, reqVars, keyVars
<1>3. ASSUME NEW r \in Requests, RequestStep(r) PROVE \A q \in Requests : ReportInv(q)'
  <2>1. ReportInv(r)'
    BY <1>3, ReportOwn DEF GuardInv
  <2>2. \A q \in Requests \ {r} : ReportInv(q)'
    BY <1>1, <1>3, OwnSteps, ReportOthers
  <2> QED
    BY <2>1, <2>2
<1> QED
  BY <1>2, <1>3, StepCases

-----------------------------------------------------------------------------
(* One permit: nobody unlocks what another request has decrypted.          *)

\* With one permit, one request at a time is on the blocking pool.
LEMMA OneBlocking ==
  ASSUME TypeInv, Permits = 1, NEW q \in Blocking, NEW r \in Blocking
  PROVE  q = r
<1>1. Cardinality(Blocking) <= 1 /\ Cardinality(Blocking) \in Nat /\ IsFiniteSet(Blocking)
  BY BlockingFinite DEF TypeInv, TypeOK, PermitInv
<1>2. IsFiniteSet(Blocking \ {q}) /\ Cardinality(Blocking \ {q}) = Cardinality(Blocking) - 1
  BY <1>1, FS_RemoveElement
<1>3. Cardinality(Blocking \ {q}) \in Nat
  BY <1>2, FS_CardinalityType
<1>4. Cardinality(Blocking \ {q}) = 0
  BY <1>1, <1>2, <1>3
<1>5. Blocking \ {q} = {}
  BY <1>2, <1>4, FS_EmptySet
<1> QED
  BY <1>5

\* Only the installing steps store key material.
LEMMA StoresOnly ==
  ASSUME NEW r \in Requests, RequestStep(r), pc[r] \notin {"key_install", "ring_install"}
  PROVE  UNCHANGED <<unlocked, installed>>
  BY DEF RequestStep, Step, keyVars, Reject, Submit, Disconnect, Panic, Acquire, KeyCheck,
         KeyDecrypt, KeyInstall, RingInactive, RingScan, RingLock, RingInstall

\* Every step keeps the invariant of the single permit.
LEMMA NextAlone ==
  ASSUME IndInv, AloneInv, [Next]_vars
  PROVE  AloneInv'
<1> SUFFICES ASSUME Permits = 1, NEW r \in Requests, pc'[r] \in {"ring_scan", "ring_lock"}
             PROVE  Opened(r)' \cap unlocked' \subseteq poisoned'
  BY DEF AloneInv
<1>1. TypeInv /\ RequestInv(r) /\ pc \in [Requests -> Pc]
  BY DEF IndInv, TypeInv, TypeOK
<1>2. pc[r] \in {"ring_scan", "ring_lock"} => Opened(r) \cap unlocked \subseteq poisoned
  BY DEF AloneInv
<1>3. CASE UNCHANGED <<reqVars, keyVars>>
  BY <1>2, <1>3 DEF reqVars, keyVars, Opened
<1>4. ASSUME NEW q \in Requests, RequestStep(q), q # r
      PROVE  Opened(r)' \cap unlocked' \subseteq poisoned'
  <2>1. Kept(r)
    BY <1>1, <1>4, OwnSteps
  <2>2. r \in Blocking
    BY <2>1 DEF Kept, Blocking, BlockingPc
  <2>3. pc[q] \notin BlockingPc
    BY <1>1, <1>4, <2>2, OneBlocking DEF Blocking
  <2>4. unlocked' = unlocked /\ poisoned \subseteq poisoned'
    BY <1>4, <2>3, StoresOnly, PoisonsOwn DEF BlockingPc
  <2> QED
    BY <1>2, <2>1, <2>4 DEF Kept, Opened
<1>5. ASSUME RequestStep(r) PROVE Opened(r)' \cap unlocked' \subseteq poisoned'
  <2>1. ASSUME NEW code, Finish(r, code) PROVE FALSE
    BY <1>1, <2>1 DEF Finish, Goto
  <2>2. CASE Reject(r) \/ Submit(r) \/ Panic(r) \/ RingInactive(r) \/ KeyCheck(r)
             \/ KeyDecrypt(r) \/ KeyInstall(r)
    <3>1. Goto(r, "done") \/ Goto(r, "queued") \/ Goto(r, "key_decrypt") \/ Goto(r, "key_install")
      BY <2>2, <2>1 DEF Reject, Submit, Panic, RingInactive, KeyCheck, KeyDecrypt, KeyInstall
    <3> QED
      BY <1>1, <3>1 DEF Goto
  <2>3. CASE Acquire(r)
    <3>1. decrypted'[r] = << >>
      BY <1>1, <2>3 DEF Acquire, RequestInv, DecryptedInv
    <3> QED
      BY <3>1 DEF Opened
  <2>4. CASE Disconnect(r) \/ RingLock(r)
    <3>1. UNCHANGED <<decrypted, unlocked, poisoned>>
      BY <2>4 DEF Disconnect, RingLock, keyVars
    <3>2. pc[r] \in {"ring_scan", "ring_lock"}
      BY <1>1, <2>4 DEF Disconnect, RingLock, Goto, Finish
    <3> QED
      BY <1>2, <3>1, <3>2 DEF Opened
  <2>5. CASE RingScan(r)
    <3> DEFINE k == RingKeys[req[r].target][cursor[r]]
    <3>1. pc[r] = "ring_scan" /\ UNCHANGED <<unlocked, poisoned>>
      BY <2>5 DEF RingScan, keyVars
    <3>2. k \in Keys /\ decrypted \in [Requests -> Seq(Keys)] /\ decrypted[r] \in Seq(Keys)
      BY <1>1, <3>1, ScanKey DEF TypeInv, TypeOK
    <3>3. \/ decrypted' = [decrypted EXCEPT ![r] = decrypted[r]]
          \/ ~IsUnlocked(k) /\ decrypted' = [decrypted EXCEPT ![r] = Append(decrypted[r], k)]
      BY <2>5 DEF RingScan
    <3>4. \/ decrypted'[r] = decrypted[r]
          \/ ~IsUnlocked(k) /\ decrypted'[r] = Append(decrypted[r], k)
      BY <3>2, <3>3
    <3> HIDE DEF k
    <3>5. Opened(r)' = Opened(r) \/ (~IsUnlocked(k) /\ Opened(r)' = Opened(r) \cup {k})
      <4>1. CASE decrypted'[r] = decrypted[r]
        BY <4>1 DEF Opened
      <4>2. CASE ~IsUnlocked(k) /\ decrypted'[r] = Append(decrypted[r], k)
        <5>1. Opened(r)' = {Append(decrypted[r], k)[i] : i \in 1 .. Len(Append(decrypted[r], k))}
          BY <4>2 DEF Opened
        <5> QED
          BY <3>2, <4>2, <5>1, AppendImage DEF Opened
      <4> QED
        BY <3>4, <4>1, <4>2
    <3> QED
      BY <1>2, <3>1, <3>5 DEF IsUnlocked
  <2>6. CASE RingInstall(r)
    BY <1>1, <2>6 DEF RingInstall, Finish, Goto
  <2> QED
    BY <1>5, <2>2, <2>3, <2>4, <2>5, <2>6 DEF RequestStep, Step
<1> QED
  BY <1>3, <1>4, <1>5, StepCases

-----------------------------------------------------------------------------
(* The invariant of the store.                                             *)

\* The initial state.
LEMMA InitStore == Init => StoreInv
<1> SUFFICES ASSUME Init PROVE StoreInv
  OBVIOUS
<1>1. IndInv
  BY InitInd
<1>2. GuardInv
  BY DEF Init, GuardInv, LockInv, Exclusive
<1>3. \A r \in Requests : ReportInv(r)
  BY DEF Init, ReportInv
<1>4. AloneInv
  BY DEF Init, AloneInv
<1> QED
  BY <1>1, <1>2, <1>3, <1>4 DEF StoreInv

\* Every step keeps the invariant of the store.
LEMMA NextStore == StoreInv /\ [Next]_vars => StoreInv'
<1> SUFFICES ASSUME StoreInv, [Next]_vars PROVE StoreInv'
  OBVIOUS
<1>1. TypeInv /\ IndInv'
  BY NextInd DEF StoreInv, IndInv
<1>2. GuardInv'
  BY <1>1, NextGuard DEF StoreInv
<1>3. \A r \in Requests : ReportInv(r)'
  BY NextReport DEF StoreInv
<1>4. AloneInv'
  BY NextAlone DEF StoreInv
<1> QED
  BY <1>1, <1>2, <1>3, <1>4 DEF StoreInv

\* The per-key results of a keyring unlock, and its audit events, say what
\* happened, for any keyrings, any concurrent unlocks and any panics.
THEOREM ReportsTrue == Spec => []ReportIsTrue
<1>1. StoreInv => ReportIsTrue
  BY DEF StoreInv, ReportInv, ReportOn, ReportIsTrue
<1> QED
  BY <1>1, InitStore, NextStore, PTL DEF Spec

\* With the one permit of the admin API no dying unlock takes away a key that
\* could be used: the guards it poisons are of keys nobody has unlocked.
THEOREM UsableKeysStay == Spec => KeyStaysUsable
<1>1. StoreInv /\ [Next]_vars =>
        [Permits = 1 => \A k \in Keys : PublicKeyPem(k) => PublicKeyPem(k)']_vars
  <2> SUFFICES ASSUME StoreInv, [Next]_vars, Permits = 1, NEW k \in Keys, IsUnlocked(k)
               PROVE  IsUnlocked(k)'
    BY DEF PublicKeyPem
  <2>1. k \in unlocked' /\ k \in unlocked /\ k \notin poisoned
    BY Monotone DEF IsUnlocked
  <2>2. CASE UNCHANGED <<reqVars, keyVars>>
    BY <2>1, <2>2 DEF keyVars, IsUnlocked
  <2>3. ASSUME NEW r \in Requests, RequestStep(r) PROVE k \notin poisoned'
    <3>1. CASE poisoned' = poisoned
      BY <2>1, <3>1
    <3>2. CASE Panic(r) /\ poisoned' = poisoned \cup guards[r]
      <4>1. TypeInv /\ LockInv(r) /\ AloneInv
        BY DEF StoreInv, IndInv, GuardInv
      <4>2. CASE pc[r] # "ring_lock"
        BY <2>1, <3>2, <4>1, <4>2 DEF Panic, LockInv
      <4>3. CASE pc[r] = "ring_lock"
        <5>1. guards[r] = Locked(r) /\ Opened(r) \cap unlocked \subseteq poisoned
          BY <4>1, <4>3 DEF LockInv, AloneInv
        <5>2. cursor[r] \in 1 .. Len(decrypted[r]) /\ Len(decrypted[r]) \in Nat
          BY <4>1, <4>3, LockKey
        <5>3. 1 .. cursor[r] - 1 \subseteq 1 .. Len(decrypted[r])
          BY <5>2
        <5>4. Locked(r) \subseteq Opened(r)
          BY <5>3 DEF Locked, Opened
        <5> QED
          BY <2>1, <3>2, <5>1, <5>4
      <4> QED
        BY <4>2, <4>3
    <3> QED
      BY <2>3, <3>1, <3>2, PoisonsOwn
  <2> QED
    BY <2>1, <2>2, <2>3, StepCases DEF IsUnlocked
<1> QED
  BY <1>1, InitStore, NextStore, PTL DEF Spec, KeyStaysUsable

-----------------------------------------------------------------------------
(* The store implements KeyStoreSpec.                                      *)

\* The keys whose guard an installing request holds.
Held == {k \in Keys : \E r \in Requests : pc[r] = "ring_install" /\ k \in guards[r]}
ByRing == {k \in Keys : \E r \in Requests : IsRing(r) /\ k \in installed[r]}
ByKey == {k \in Keys : \E r \in Requests : ~IsRing(r) /\ k \in installed[r]}

\* The variables of the abstract store, and the keys its users can use.
LEMMA Mapping == TypeInv => Single = ByKey /\ Whole = ByRing \cup (Held \ unlocked)
<1> SUFFICES ASSUME TypeInv PROVE Single = ByKey /\ Whole = ByRing \cup (Held \ unlocked)
  OBVIOUS
<1>1. installed \in [Requests -> SUBSET Keys] /\ guards \in [Requests -> SUBSET Keys]
  BY DEF TypeInv, TypeOK
<1>2. Single = ByKey
  BY <1>1 DEF Single, ByKey
<1> DEFINE R == UNION {installed[r] : r \in {q \in Requests : IsRing(q)}}
           G == UNION {guards[r] : r \in Installing}
<1>3. Whole = R \cup (G \ unlocked)
  BY DEF Whole
<1>4. R = ByRing
  BY <1>1 DEF ByRing
<1>5. G = Held
  BY <1>1 DEF Held, Installing
<1> HIDE DEF R, G
<1> QED
  BY <1>2, <1>3, <1>4, <1>5

\* The same in the next state.
LEMMA MappingNext == TypeInv' => (Single = ByKey /\ Whole = ByRing \cup (Held \ unlocked))'
  BY Mapping, PTL

\* To its users a key is usable from the moment its keyring is sure to be installed.
LEMMA Usable ==
  ASSUME IndInv
  PROVE  Single \cup Whole = unlocked \cup Held
<1>1. TypeInv /\ unlocked \subseteq Keys
  BY DEF IndInv, TypeInv, TypeOK
<1>2. ByKey \cup ByRing = unlocked
  <2>1. \A k \in unlocked : \E r \in Requests : k \in installed[r]
    BY DEF IndInv, StoredOnceWithPassphrase
  <2>2. \A r \in Requests : installed[r] \subseteq unlocked
    BY DEF IndInv, RequestInv, InstalledInv
  <2> QED
    BY <1>1, <2>1, <2>2 DEF ByKey, ByRing
<1> QED
  BY <1>1, <1>2, Mapping

\* A step that stores nothing, and after which the installing requests hold what
\* they held, cannot be seen by the users of the store.
LEMMA Unseen ==
  ASSUME TypeInv, TypeInv', UNCHANGED <<installed, unlocked>>, Held' = Held,
         \A q \in Requests : installed[q] # {} => req'[q] = req[q]
  PROVE  Single' = Single /\ Whole' = Whole
<1>1. ByKey' = ByKey /\ ByRing' = ByRing
  BY DEF ByKey, ByRing, IsRing
<1>2. Single = ByKey /\ Whole = ByRing \cup (Held \ unlocked)
  BY Mapping
<1>3. Single' = ByKey' /\ Whole' = ByRing' \cup (Held' \ unlocked')
  BY MappingNext
<1> QED
  BY <1>1, <1>2, <1>3

\* Unlocking one key is UnlockKey when its material is stored.
LEMMA KeyInstallMaps ==
  ASSUME StoreInv, TypeInv', NEW r \in Requests, KeyInstall(r)
  PROVE  [Abstract!Next]_<<Single, Whole, poisoned>>
<1> DEFINE k == req[r].target
           p == req[r].pass
<1>1. /\ IndInv /\ TypeInv /\ RequestInv(r) /\ pc[r] = "key_install" /\ RequestStep(r)
      /\ UNCHANGED <<req, poisoned>>
  BY DEF StoreInv, IndInv, KeyInstall, RequestStep, Step
<1>2. k \in Keys /\ p \in Passphrases /\ Active(k) /\ p \in Opens[k] /\ ~IsRing(r)
  <2>1. req[r] \in Request /\ req[r].kind = "key"
    BY <1>1 DEF TypeInv, TypeOK, LoopInv, BlockingPc, RingPc
  <2> QED
    BY <1>1, <2>1, RequestType DEF RequestInv, DecryptedInv, IsRing
<1>3. Held' = Held
  <2>1. \A q \in Requests \ {r} : Kept(q)
    BY <1>1, OwnSteps
  <2>2. pc'[r] # "ring_install"
    BY <1>1 DEF KeyInstall, Finish, Goto, TypeInv, TypeOK
  <2> QED
    BY <1>1, <2>1, <2>2 DEF Held, Kept
<1>4. CASE UNCHANGED <<unlocked, installed>>
  BY <1>1, <1>3, <1>4, Unseen
<1>5. CASE /\ k \notin poisoned /\ k \notin unlocked
           /\ unlocked' = unlocked \cup {k}
           /\ installed' = [installed EXCEPT ![r] = {k}]
  <2>1. k \notin Held
    BY DEF KeyInstall, CanWrite, CanRead, Held
  <2>2. k \notin Single \cup Whole
    BY <1>1, <1>5, <2>1, Usable
  <2>3. \A q \in Requests : installed'[q] = IF q = r THEN {k} ELSE installed[q]
    BY <1>1, <1>5 DEF TypeInv, TypeOK
  <2>4. installed[r] = {} /\ \A q \in Requests : IsRing(q)' = IsRing(q)
    BY <1>1 DEF RequestInv, InstalledInv, IsRing
  <2> HIDE DEF k
  <2>5. ByKey' = ByKey \cup {k}
    BY <1>2, <2>3, <2>4 DEF ByKey
  <2>6. ByRing' = ByRing
    BY <1>2, <2>3, <2>4 DEF ByRing
  <2>7. Single' = Single \cup {k}
    BY <1>1, <2>5, Mapping, MappingNext
  <2>8. Whole' = Whole
    BY <1>1, <1>3, <1>5, <2>1, <2>6, Mapping, MappingNext
  <2>9. Abstract!UnlockKey(k, p)
    BY <1>1, <1>2, <1>5, <2>2, <2>7, <2>8
    DEF Abstract!UnlockKey, Abstract!usable, Abstract!Openable, Active
  <2> QED
    BY <1>2, <2>9 DEF Abstract!Next
<1> QED
  BY <1>4, <1>5 DEF KeyInstall

\* A keyring is unlocked in one step, UnlockRing, when its last lock is taken.
LEMMA RingLockMaps ==
  ASSUME StoreInv, StoreInv', NEW r \in Requests, RingLock(r)
  PROVE  [Abstract!Next]_<<Single, Whole, poisoned>>
<1> DEFINE g == req[r].target
           p == req[r].pass
<1>1. /\ IndInv /\ TypeInv /\ TypeInv' /\ RequestInv(r) /\ pc[r] = "ring_lock" /\ RequestStep(r)
      /\ UNCHANGED <<req, decrypted, unlocked, installed, poisoned>> /\ GuardInv
      /\ LockInv(r)' /\ ReportInv(r)
  BY DEF StoreInv, IndInv, GuardInv, RingLock, RequestStep, Step, keyVars
<1>2. \A q \in Requests \ {r} : Kept(q) /\ guards'[r] \cap guards[q] = {}
  BY <1>1, OwnSteps, LockOwn
<1>3. CASE pc'[r] # "ring_install"
  <2>1. Held' = Held
    BY <1>1, <1>2, <1>3 DEF Held, Kept
  <2> QED
    BY <1>1, <2>1, Unseen
<1>4. CASE pc'[r] = "ring_install"
  <2> DEFINE G == guards'[r]
             A == ActiveMembers(g)
  <2>1. cursor'[r] = 1
    BY <1>1, <1>4 DEF RingLock, Finish, Goto, TypeInv, TypeOK
  <2>2. G = Opened(r) /\ G \cap poisoned = {}
    BY <1>1, <1>4, <2>1 DEF LockInv, Pending, Opened
  <2>3. G \subseteq Keys /\ Held' = Held \cup G /\ G \cap Held = {}
    <3>1. G \subseteq Keys
      BY <1>1 DEF TypeInv, TypeOK
    <3> QED
      BY <1>1, <1>2, <1>4, <3>1 DEF Held, Kept
  <2>4. \A k \in G : k \in A /\ p \in Opens[k]
    <3>1. G \subseteq Members(g)
      BY <1>1, <2>2 DEF ReportInv
    <3>2. \A i \in 1 .. Len(decrypted[r]) : Active(decrypted[r][i]) /\ p \in Opens[decrypted[r][i]]
      BY <1>1 DEF RequestInv, DecryptedInv, RingPc
    <3> QED
      BY <2>2, <3>1, <3>2 DEF Opened, ActiveMembers
  <2>5. \A k \in A : k \in unlocked \/ k \in G
    BY <1>1, <2>2 DEF RequestInv, ScanInv, Covered, Opened
  <2>6. A = Abstract!RingActive(g)
    BY DEF Abstract!RingActive, ActiveMembers, Members, Active
  <2>7. g \in Rings /\ p \in Passphrases
    <3>1. req[r] \in Request /\ req[r].kind = "ring"
      BY <1>1 DEF TypeInv, TypeOK, LoopInv, BlockingPc, RingPc
    <3> QED
      BY <3>1, RequestType
  <2>8. \A k \in A : Active(k)
    BY DEF ActiveMembers
  <2> HIDE DEF G, A, g, p
  <2>9. Single \cup Whole = unlocked \cup Held
    BY <1>1, Usable
  <2>10. A \ (Single \cup Whole) = G \ unlocked
    BY <2>3, <2>4, <2>5, <2>9
  <2>11. ByKey' = ByKey /\ ByRing' = ByRing
    BY <1>1 DEF ByKey, ByRing, IsRing
  <2>12. Single' = Single /\ Whole' = Whole \cup (G \ unlocked)
    BY <1>1, <2>3, <2>11, Mapping, MappingNext
  <2>13. \A k \in A \ (Single \cup Whole) : Abstract!Openable(k, p)
    BY <2>2, <2>4, <2>8, <2>10 DEF Abstract!Openable, Active
  <2>14. Abstract!UnlockRing(g, p)
    BY <1>1, <2>6, <2>10, <2>12, <2>13 DEF Abstract!UnlockRing, Abstract!usable
  <2> QED
    BY <2>7, <2>14 DEF Abstract!Next
<1> QED
  BY <1>3, <1>4

\* The installing loop cannot be seen: its key was counted when its lock was taken.
LEMMA RingInstallMaps ==
  ASSUME StoreInv, TypeInv', NEW r \in Requests, RingInstall(r)
  PROVE  Single' = Single /\ Whole' = Whole /\ poisoned' = poisoned
<1> DEFINE d == decrypted[r]
           c == cursor[r]
           k == d[c]
<1>1. /\ IndInv /\ TypeInv /\ RequestInv(r) /\ pc[r] = "ring_install" /\ RequestStep(r)
      /\ UNCHANGED <<req, poisoned>> /\ GuardInv /\ LockInv(r)
  BY DEF StoreInv, IndInv, GuardInv, RingInstall, RequestStep, Step
<1>2. \A q \in Requests \ {r} : Kept(q) /\ guards[r] \cap guards[q] = {}
  BY <1>1, OwnSteps DEF GuardInv, Exclusive
<1>3. k \in Keys /\ c \in 1 .. Len(d) /\ Len(d) \in Nat
  BY <1>1, LockKey
<1>4. k \in guards[r] /\ k \in Held
  <2>1. guards[r] = Pending(r)
    BY <1>1 DEF LockInv
  <2>2. k \in guards[r]
    BY <1>3, <2>1 DEF Pending
  <2> QED
    BY <1>1, <1>3, <2>2 DEF Held
<1>5. Held' = Held \ {k}
  <2>1. CASE c = Len(d) /\ Finish(r, "ok")
    <3>1. pc'[r] = "done"
      BY <1>1, <2>1 DEF Finish, Goto, TypeInv, TypeOK
    <3>2. guards[r] = {k}
      BY <1>1, <1>3, <2>1 DEF LockInv, Pending
    <3> HIDE DEF k
    <3> QED
      BY <1>1, <1>2, <3>1, <3>2 DEF Held, Kept
  <2>2. CASE guards' = [guards EXCEPT ![r] = @ \ {k}] /\ UNCHANGED pc
    <3>1. guards'[r] = guards[r] \ {k} /\ pc'[r] = "ring_install"
      BY <1>1, <2>2 DEF TypeInv, TypeOK
    <3> HIDE DEF k
    <3> QED
      BY <1>1, <1>2, <1>4, <3>1 DEF Held, Kept
  <2> QED
    BY <2>1, <2>2 DEF RingInstall
<1>6. IsRing(r) /\ \A q \in Requests : IsRing(q)' = IsRing(q)
  <2>1. req[r] \in Request /\ req[r].kind = "ring"
    BY <1>1 DEF TypeInv, TypeOK, LoopInv, BlockingPc, RingPc
  <2> QED
    BY <1>1, <2>1, NoneAssumption DEF IsRing
<1> HIDE DEF k
<1>7. CASE k \in unlocked /\ UNCHANGED <<unlocked, installed>>
  <2>1. ByKey' = ByKey /\ ByRing' = ByRing
    BY <1>6, <1>7 DEF ByKey, ByRing
  <2> QED
    BY <1>1, <1>5, <1>7, <2>1, Mapping, MappingNext
<1>8. CASE /\ k \notin unlocked /\ unlocked' = unlocked \cup {k}
           /\ installed' = [installed EXCEPT ![r] = @ \cup {k}]
  <2>1. \A q \in Requests : installed'[q] = IF q = r THEN installed[q] \cup {k} ELSE installed[q]
    BY <1>1, <1>8 DEF TypeInv, TypeOK
  <2>2. ByKey' = ByKey
    BY <1>6, <2>1 DEF ByKey
  <2>3. ByRing' = ByRing \cup {k}
    BY <1>3, <1>6, <2>1 DEF ByRing
  <2> QED
    BY <1>1, <1>4, <1>5, <1>8, <2>2, <2>3, Mapping, MappingNext
<1> QED
  BY <1>7, <1>8 DEF RingInstall, k

\* Every other step of a request is unseen, or breaks locks.
LEMMA OtherMaps ==
  ASSUME StoreInv, TypeInv', NEW r \in Requests, RequestStep(r),
         ~KeyInstall(r), ~RingLock(r), ~RingInstall(r)
  PROVE  [Abstract!Next]_<<Single, Whole, poisoned>>
<1>1. IndInv /\ TypeInv /\ RequestInv(r) /\ pc \in [Requests -> Pc]
  BY DEF StoreInv, IndInv, TypeInv, TypeOK
<1>2. UNCHANGED <<unlocked, installed>>
  BY DEF RequestStep, Step, keyVars, Reject, Submit, Disconnect, Panic, Acquire, KeyCheck,
         KeyDecrypt, RingInactive, RingScan
<1>3. \A q \in Requests \ {r} : Kept(q)
  BY <1>1, OwnSteps
<1>4. Held' = Held
  <2>1. CASE Disconnect(r) /\ UNCHANGED pc
    BY <2>1 DEF Disconnect, Held
  <2>2. CASE pc[r] # "ring_install" /\ pc'[r] # "ring_install"
    BY <1>3, <2>2 DEF Held, Kept
  <2>3. CASE Reject(r) \/ Submit(r) \/ Acquire(r) \/ RingInactive(r) \/ Panic(r)
    BY <1>1, <2>2, <2>3 DEF Reject, Submit, Acquire, RingInactive, Panic, Finish, Goto
  <2>4. CASE KeyCheck(r) \/ KeyDecrypt(r)
    BY <1>1, <2>2, <2>4 DEF KeyCheck, KeyDecrypt, Finish, Goto
  <2>5. CASE RingScan(r)
    BY <1>1, <2>2, <2>5 DEF RingScan, AfterScan, Finish, Goto
  <2>6. CASE Disconnect(r) /\ pc[r] = "queued" /\ Goto(r, "done")
    BY <1>1, <2>2, <2>6 DEF Goto
  <2> QED
    BY <2>1, <2>3, <2>4, <2>5, <2>6 DEF RequestStep, Step, Disconnect
<1>5. \A q \in Requests : installed[q] # {} => req'[q] = req[q]
  <2>1. Submit(r) \/ UNCHANGED req
    BY DEF RequestStep, Step, Reject, Disconnect, Panic, Acquire, KeyCheck, KeyDecrypt,
           RingInactive, RingScan
  <2>2. Submit(r) => installed[r] = {}
    BY <1>1 DEF Submit, RequestInv, InstalledInv
  <2> QED
    BY <1>3, <2>1, <2>2 DEF Kept
<1>6. Single' = Single /\ Whole' = Whole
  BY <1>1, <1>2, <1>4, <1>5, Unseen
<1>7. poisoned' = poisoned \/ Abstract!Break
  <2>1. poisoned' \subseteq Keys
    BY DEF TypeInv, TypeOK
  <2>2. poisoned \subseteq poisoned'
    BY PoisonsOwn
  <2> QED
    BY <1>6, <2>1, <2>2 DEF Abstract!Break
<1> QED
  BY <1>6, <1>7 DEF Abstract!Next

\* The key store implements its abstract specification: a keyring is unlocked in
\* one step or not at all, whatever a reader sees in between, and material is
\* never taken away.
THEOREM StoreRefines == Spec => ImplementsKeyStore
<1>1. Init => Abstract!Init
  BY DEF Init, Abstract!Init, Single, Whole, Installing
<1>2. StoreInv /\ [Next]_vars /\ StoreInv' => [Abstract!Next]_<<Single, Whole, poisoned>>
  <2> SUFFICES ASSUME StoreInv, [Next]_vars, StoreInv'
               PROVE  [Abstract!Next]_<<Single, Whole, poisoned>>
    OBVIOUS
  <2>1. TypeInv /\ TypeInv'
    BY DEF StoreInv, IndInv
  <2>2. CASE UNCHANGED <<reqVars, keyVars>>
    BY <2>2 DEF reqVars, keyVars, Single, Whole, Installing, IsRing
  <2>3. ASSUME NEW r \in Requests, RequestStep(r)
        PROVE  [Abstract!Next]_<<Single, Whole, poisoned>>
    BY <2>1, <2>3, KeyInstallMaps, RingLockMaps, RingInstallMaps, OtherMaps
  <2> QED
    BY <2>2, <2>3, StepCases
<1> QED
  BY <1>1, <1>2, InitStore, NextStore, PTL DEF Spec, ImplementsKeyStore, Abstract!Spec
=============================================================================
