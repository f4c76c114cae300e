------------------------------ MODULE KeyUnlock ------------------------------
(***************************************************************************)
(* The signing keys of the server (src/key.rs, KeyStore and KeyMaterial)   *)
(* and the two handlers of the admin socket that unlock them               *)
(* (src/api.rs, unlock_key and unlock_keyring), together with the readers  *)
(* that use an unlocked key while an unlock is in progress.                *)
(*                                                                         *)
(* A request is a task with a program counter.  It waits for the unlock    *)
(* permit, then runs on the blocking pool, where it goes on after its      *)
(* client has disconnected.  Each key has a std::sync::RwLock; a write     *)
(* guard lives in `guards', a read guard is held by a signer that is       *)
(* signing.  Key material is never removed while the process lives.        *)
(***************************************************************************)
EXTENDS Integers, FiniteSets, Sequences

CONSTANTS
  Keys,         \* configured key ids
  Rings,        \* configured keyring names
  Requests,     \* unlock requests that may arrive at the admin socket
  Signers,      \* concurrent create_signature and get_public_key requests
  Passphrases,  \* non-empty passphrases an operator may type
  KeyState,     \* KeyState[k]: "active", "disabled" or "retired"
  RingKeys,     \* RingKeys[g]: the members of keyring g in their Keys order
  Opens,        \* Opens[k]: the passphrases that decrypt key k
  Permits,      \* permits of AdminState::unlock_permits (1 in the code)
  MaxPanics,    \* bound on the panics of blocking tasks
  None          \* no key, no request

VARIABLES
  pc,         \* pc[r]: where request r is
  req,        \* req[r]: what r asks for, once admitted
  cursor,     \* cursor[r]: position in the loop that r is running
  decrypted,  \* decrypted[r]: keys r has decrypted and not yet installed, in order
  failed,     \* failed[r]: members r's passphrase did not open
  outcome,    \* outcome[r][k]: the result r will report for member k
  res,        \* res[r]: the result of the request
  client,     \* client[r]: "connected" or "gone"
  guards,     \* guards[r]: keys whose write guard r holds
  available,  \* permits left in unlock_permits
  unlocked,   \* keys whose `unlocked' field is Some(..)
  poisoned,   \* keys whose RwLock is poisoned
  installed,  \* history: keys whose material r stored
  spc, skey,  \* the signers: program counter and key
  panics

reqVars == <<pc, req, cursor, decrypted, failed, outcome, res, client, guards, available>>
keyVars == <<unlocked, poisoned, installed>>
signVars == <<spc, skey>>
vars == <<reqVars, keyVars, signVars, panics>>

-----------------------------------------------------------------------------
(* Configuration.                                                          *)

\* The conditions under which KeyStore::from_keys returns Ok: every keyring
\* has members, all of them known, and no key is listed twice, be it in one
\* keyring or in two.
FromKeysOk ==
  /\ Keys # {}
  /\ \A g \in Rings : RingKeys[g] # << >>
  /\ \A g, h \in Rings : \A i \in 1 .. Len(RingKeys[g]), j \in 1 .. Len(RingKeys[h]) :
       RingKeys[g][i] = RingKeys[h][j] => g = h /\ i = j

ASSUME ConstantsAssumption ==
  /\ KeyState \in [Keys -> {"active", "disabled", "retired"}]
  /\ RingKeys \in [Rings -> Seq(Keys)]
  /\ Opens \in [Keys -> SUBSET Passphrases]
  /\ Permits \in Nat \ {0} /\ MaxPanics \in Nat
  /\ IsFiniteSet(Requests)
  /\ Keys \cap Rings = {}
  /\ None \notin Keys \cup Rings \cup Passphrases

ASSUME FromKeysAssumption == FromKeysOk

Active(k) == KeyState[k] = "active"
Members(g) == {RingKeys[g][i] : i \in 1 .. Len(RingKeys[g])}
ActiveMembers(g) == {k \in Members(g) : Active(k)}

-----------------------------------------------------------------------------
Request == [kind : {"key"}, target : Keys, pass : Passphrases]
      \cup [kind : {"ring"}, target : Rings, pass : Passphrases]

ASSUME NoneAssumption == None \notin Request

BlockingPc == {"key_check", "key_decrypt", "key_install",
               "ring_scan", "ring_lock", "ring_install"}
Pc == {"new", "queued", "done"} \cup BlockingPc
Result == {"none", "rejected", "dropped", "task_failed", "ok", "already",
           "inactive", "invalid", "mismatch", "poisoned"}
MemberResult == {"none", "unlocked", "already", "skipped"}

Blocking == {r \in Requests : pc[r] \in BlockingPc}

TypeOK ==
  /\ pc \in [Requests -> Pc]
  /\ req \in [Requests -> Request \cup {None}]
  /\ \A r \in Requests : pc[r] \in BlockingPc \cup {"queued"} => req[r] \in Request
  /\ cursor \in [Requests -> Nat \ {0}]
  /\ decrypted \in [Requests -> Seq(Keys)]
  /\ failed \in [Requests -> SUBSET Keys]
  /\ outcome \in [Requests -> [Keys -> MemberResult]]
  /\ res \in [Requests -> Result]
  /\ client \in [Requests -> {"connected", "gone"}]
  /\ guards \in [Requests -> SUBSET Keys]
  /\ available \in 0 .. Permits
  /\ unlocked \subseteq Keys
  /\ poisoned \subseteq Keys
  /\ installed \in [Requests -> SUBSET Keys]
  /\ spc \in [Signers -> {"idle", "validated", "signing", "publishing", "locked", "failed"}]
  /\ skey \in [Signers -> Keys \cup {None}]
  /\ \A s \in Signers : spc[s] # "idle" => skey[s] \in Keys
  /\ panics \in 0 .. MaxPanics

Init ==
  /\ pc = [r \in Requests |-> "new"]
  /\ req = [r \in Requests |-> None]
  /\ cursor = [r \in Requests |-> 1]
  /\ decrypted = [r \in Requests |-> << >>]
  /\ failed = [r \in Requests |-> {}]
  /\ outcome = [r \in Requests |-> [k \in Keys |-> "none"]]
  /\ res = [r \in Requests |-> "none"]
  /\ client = [r \in Requests |-> "connected"]
  /\ guards = [r \in Requests |-> {}]
  /\ available = Permits
  /\ unlocked = {} /\ poisoned = {}
  /\ installed = [r \in Requests |-> {}]
  /\ spc = [s \in Signers |-> "idle"]
  /\ skey = [s \in Signers |-> None]
  /\ panics = 0

-----------------------------------------------------------------------------
(* std::sync::RwLock: a write guard excludes every other guard.            *)

CanRead(k) == \A r \in Requests : k \notin guards[r]
CanWrite(k) ==
  CanRead(k) /\ \A s \in Signers : ~(spc[s] \in {"signing", "publishing"} /\ skey[s] = k)

\* KeyMaterial::is_unlocked: a poisoned lock reads as locked.
IsUnlocked(k) == k \in unlocked /\ k \notin poisoned

-----------------------------------------------------------------------------
(* The async part of the handlers.                                         *)

Goto(r, l) == pc' = [pc EXCEPT ![r] = l]

\* Mutant: the permit is forgotten.
MutantFinish(r, code) ==
  /\ Goto(r, "done")
  /\ res' = [res EXCEPT ![r] = code]
  /\ guards' = [guards EXCEPT ![r] = {}]
  /\ UNCHANGED available

\* The closure ends: its guards and its permit are dropped with it.
Finish(r, code) ==
  /\ Goto(r, "done")
  /\ res' = [res EXCEPT ![r] = code]
  /\ guards' = [guards EXCEPT ![r] = {}]
  /\ available' = available + 1

\* A request that is refused before it asks for the permit: wrong content
\* type, unknown key or keyring, malformed body, empty passphrase.
Reject(r) ==
  /\ pc[r] = "new"
  /\ Goto(r, "done")
  /\ res' = [res EXCEPT ![r] = "rejected"]
  /\ UNCHANGED <<req, cursor, decrypted, failed, outcome, client, guards, available,
                 keyVars, signVars, panics>>

\* A well-formed request for a configured key or keyring waits for the permit.
Submit(r) ==
  /\ pc[r] = "new"
  /\ \E q \in Request : req' = [req EXCEPT ![r] = q]
  /\ Goto(r, "queued")
  /\ UNCHANGED <<cursor, decrypted, failed, outcome, res, client, guards, available,
                 keyVars, signVars, panics>>

\* acquire_owned().await followed by spawn_blocking, with no await in between.
Acquire(r) ==
  /\ pc[r] = "queued"
  /\ available > 0
  /\ available' = available - 1
  /\ Goto(r, IF req[r].kind = "key" THEN "key_check" ELSE "ring_scan")
  /\ UNCHANGED <<req, cursor, decrypted, failed, outcome, res, client, guards,
                 keyVars, signVars, panics>>

\* Mutant: the permit belongs to the handler, and is dropped with it.
MutantDisconnect(r) ==
  /\ client[r] = "connected"
  /\ client' = [client EXCEPT ![r] = "gone"]
  /\ pc[r] \in BlockingPc
  /\ available' = available + 1
  /\ UNCHANGED <<pc, res, req, cursor, decrypted, failed, outcome, guards,
                 keyVars, signVars, panics>>

\* The client goes away and its handler future is dropped.  A queued request
\* disappears; a request already on the blocking pool runs to its end, and
\* its permit, moved into the closure, stays taken until then.
Disconnect(r) ==
  /\ client[r] = "connected"
  /\ client' = [client EXCEPT ![r] = "gone"]
  /\ \/ /\ pc[r] = "queued"
        /\ Goto(r, "done")
        /\ res' = [res EXCEPT ![r] = "dropped"]
     \/ /\ pc[r] \in BlockingPc
        /\ UNCHANGED <<pc, res>>
  /\ UNCHANGED <<req, cursor, decrypted, failed, outcome, guards, available,
                 keyVars, signVars, panics>>

-----------------------------------------------------------------------------
(* KeyMaterial::unlock                                                     *)

\* The state check and the check under the read guard, which is dropped
\* before the passphrase is tried.
KeyCheck(r) ==
  LET k == req[r].target IN
  /\ pc[r] = "key_check"
  /\ Active(k) => CanRead(k)
  /\ \/ ~Active(k) /\ Finish(r, "inactive")
     \/ Active(k) /\ k \in poisoned /\ Finish(r, "poisoned")
     \/ Active(k) /\ k \notin poisoned /\ k \in unlocked /\ Finish(r, "already")
     \/ /\ Active(k) /\ k \notin poisoned /\ k \notin unlocked
        /\ Goto(r, "key_decrypt")
        /\ UNCHANGED <<res, guards, available>>
  /\ UNCHANGED <<req, cursor, decrypted, failed, outcome, client, keyVars, signVars, panics>>

\* Mutant: a failed attempt also clears the key.
MutantKeyDecrypt(r) ==
  LET k == req[r].target IN
  /\ pc[r] = "key_decrypt"
  /\ \/ /\ req[r].pass \notin Opens[k] /\ Finish(r, "invalid")
        /\ unlocked' = unlocked \ {k}
     \/ /\ req[r].pass \in Opens[k]
        /\ Goto(r, "key_install")
        /\ UNCHANGED <<res, guards, available, unlocked>>
  /\ UNCHANGED <<req, cursor, decrypted, failed, outcome, client, poisoned, installed,
                 signVars, panics>>

\* KeyMaterial::decrypt: the KDF and the decryption, with no lock held.
KeyDecrypt(r) ==
  LET k == req[r].target IN
  /\ pc[r] = "key_decrypt"
  /\ \/ req[r].pass \notin Opens[k] /\ Finish(r, "invalid")
     \/ /\ req[r].pass \in Opens[k]
        /\ Goto(r, "key_install")
        /\ UNCHANGED <<res, guards, available>>
  /\ UNCHANGED <<req, cursor, decrypted, failed, outcome, client, keyVars, signVars, panics>>

\* Mutant: the check under the write guard is missing.
MutantKeyInstall(r) ==
  LET k == req[r].target IN
  /\ pc[r] = "key_install"
  /\ CanWrite(k)
  /\ unlocked' = unlocked \cup {k}
  /\ installed' = [installed EXCEPT ![r] = {k}]
  /\ Finish(r, "ok")
  /\ UNCHANGED <<req, cursor, decrypted, failed, outcome, client, poisoned, signVars, panics>>

\* KeyMaterial::install: the write guard is taken and dropped in one step, as
\* nothing between the two can block or fail.
KeyInstall(r) ==
  LET k == req[r].target IN
  /\ pc[r] = "key_install"
  /\ CanWrite(k)
  /\ \/ k \in poisoned /\ Finish(r, "poisoned") /\ UNCHANGED <<unlocked, installed>>
     \/ k \notin poisoned /\ k \in unlocked /\ Finish(r, "already")
        /\ UNCHANGED <<unlocked, installed>>
     \/ /\ k \notin poisoned /\ k \notin unlocked
        /\ unlocked' = unlocked \cup {k}
        /\ installed' = [installed EXCEPT ![r] = {k}]
        /\ Finish(r, "ok")
  /\ UNCHANGED <<req, cursor, decrypted, failed, outcome, client, poisoned, signVars, panics>>

-----------------------------------------------------------------------------
(* KeyStore::unlock_keyring                                                *)

\* Mutant: the keys that did open are kept when another one fails.
MutantAfterScan(r, opened, missed) ==
  IF opened = << >>
  THEN Finish(r, IF missed # {} THEN "invalid" ELSE "ok") /\ UNCHANGED cursor
  ELSE /\ Goto(r, "ring_lock")
       /\ cursor' = [cursor EXCEPT ![r] = 1]
       /\ UNCHANGED <<res, guards, available>>

\* What follows the loop over the members: any failure ends the request, and
\* otherwise the write locks of the decrypted keys are taken.
AfterScan(r, opened, missed) ==
  \/ /\ missed # {}
     /\ Finish(r, IF opened = << >> THEN "invalid" ELSE "mismatch")
     /\ UNCHANGED cursor
  \/ missed = {} /\ opened = << >> /\ Finish(r, "ok") /\ UNCHANGED cursor
  \/ /\ missed = {} /\ opened # << >>
     /\ Goto(r, "ring_lock")
     /\ cursor' = [cursor EXCEPT ![r] = 1]
     /\ UNCHANGED <<res, guards, available>>

\* One iteration of the loop over the members: an inactive key is skipped, an
\* unlocked one left alone, any other decrypted with the passphrase.
RingScan(r) ==
  LET g == req[r].target
      k == RingKeys[g][cursor[r]]
      tried == Active(k) /\ ~IsUnlocked(k)
      opens == req[r].pass \in Opens[k]
      opened == IF tried /\ opens THEN Append(decrypted[r], k) ELSE decrypted[r]
      missed == IF tried /\ ~opens THEN failed[r] \cup {k} ELSE failed[r]
      result == IF ~Active(k) THEN "skipped" ELSE IF tried THEN "unlocked" ELSE "already"
  IN
  /\ pc[r] = "ring_scan"
  /\ ActiveMembers(g) # {}
  /\ Active(k) => CanRead(k)
  /\ decrypted' = [decrypted EXCEPT ![r] = opened]
  /\ failed' = [failed EXCEPT ![r] = missed]
  /\ outcome' = [outcome EXCEPT ![r] = [@ EXCEPT ![k] = result]]
  /\ \/ cursor[r] = Len(RingKeys[g]) /\ AfterScan(r, opened, missed)
     \/ /\ cursor[r] < Len(RingKeys[g])
        /\ cursor' = [cursor EXCEPT ![r] = @ + 1]
        /\ UNCHANGED <<pc, res, guards, available>>
  /\ UNCHANGED <<req, client, keyVars, signVars, panics>>

\* KeyringUnlockError::NoActiveKeys
RingInactive(r) ==
  /\ pc[r] = "ring_scan"
  /\ ActiveMembers(req[r].target) = {}
  /\ Finish(r, "inactive")
  /\ UNCHANGED <<req, cursor, decrypted, failed, outcome, client, keyVars, signVars, panics>>

\* Mutant: installation starts when the first lock is taken.
MutantRingLock(r) ==
  LET k == decrypted[r][cursor[r]] IN
  /\ pc[r] = "ring_lock"
  /\ CanWrite(k)
  /\ k \notin poisoned
  /\ guards' = [guards EXCEPT ![r] = @ \cup {k}]
  /\ Goto(r, "ring_install")
  /\ UNCHANGED <<req, cursor, decrypted, failed, outcome, res, client, available,
                 keyVars, signVars, panics>>

\* The next write lock, in the order of the members.  A poisoned lock ends the
\* request and drops the guards taken so far.
RingLock(r) ==
  LET k == decrypted[r][cursor[r]] IN
  /\ pc[r] = "ring_lock"
  /\ CanWrite(k)
  /\ \/ k \in poisoned /\ Finish(r, "poisoned") /\ UNCHANGED cursor
     \/ /\ k \notin poisoned
        /\ guards' = [guards EXCEPT ![r] = @ \cup {k}]
        /\ \/ /\ cursor[r] = Len(decrypted[r])
              /\ cursor' = [cursor EXCEPT ![r] = 1]
              /\ Goto(r, "ring_install")
           \/ /\ cursor[r] < Len(decrypted[r])
              /\ cursor' = [cursor EXCEPT ![r] = @ + 1]
              /\ UNCHANGED pc
        /\ UNCHANGED <<res, available>>
  /\ UNCHANGED <<req, decrypted, failed, outcome, client, keyVars, signVars, panics>>

\* Mutant: the outcome is not corrected for a key unlocked meanwhile.
MutantRingInstall(r) ==
  LET k == decrypted[r][cursor[r]] IN
  /\ pc[r] = "ring_install"
  /\ unlocked' = unlocked \cup {k}
  /\ installed' = [installed EXCEPT ![r] = @ \cup ({k} \ unlocked)]
  /\ \/ cursor[r] = Len(decrypted[r]) /\ Finish(r, "ok") /\ UNCHANGED cursor
     \/ /\ cursor[r] < Len(decrypted[r])
        /\ cursor' = [cursor EXCEPT ![r] = @ + 1]
        /\ guards' = [guards EXCEPT ![r] = @ \ {k}]
        /\ UNCHANGED <<pc, res, available>>
  /\ UNCHANGED <<req, decrypted, failed, outcome, client, poisoned, signVars, panics>>

\* The next installation: the material is stored unless another request stored
\* it since the scan, and the key's guard is dropped at the end of the iteration.
RingInstall(r) ==
  LET k == decrypted[r][cursor[r]] IN
  /\ pc[r] = "ring_install"
  /\ \/ /\ k \in unlocked
        /\ outcome' = [outcome EXCEPT ![r] = [@ EXCEPT ![k] = "already"]]
        /\ UNCHANGED <<unlocked, installed>>
     \/ /\ k \notin unlocked
        /\ unlocked' = unlocked \cup {k}
        /\ installed' = [installed EXCEPT ![r] = @ \cup {k}]
        /\ UNCHANGED outcome
  /\ \/ cursor[r] = Len(decrypted[r]) /\ Finish(r, "ok") /\ UNCHANGED cursor
     \/ /\ cursor[r] < Len(decrypted[r])
        /\ cursor' = [cursor EXCEPT ![r] = @ + 1]
        /\ guards' = [guards EXCEPT ![r] = @ \ {k}]
        /\ UNCHANGED <<pc, res, available>>
  /\ UNCHANGED <<req, decrypted, failed, client, poisoned, signVars, panics>>

\* A panic of the blocking task, which reaches the handler as a JoinError.  It
\* can happen while a passphrase is tried and while the vector of guards grows;
\* the guards held then are poisoned as they are dropped.  The installing loop
\* only tests and stores an Option, and cannot panic.
Panic(r) ==
  /\ panics < MaxPanics
  /\ pc[r] \in {"key_decrypt", "ring_scan", "ring_lock"}
  /\ panics' = panics + 1
  /\ poisoned' = poisoned \cup guards[r]
  /\ Finish(r, "task_failed")
  /\ UNCHANGED <<req, cursor, decrypted, failed, outcome, client, unlocked, installed, signVars>>

-----------------------------------------------------------------------------
(* The readers: create_signature checks is_unlocked while it validates the *)
(* request and takes the read guard again, later, in sign_digest.          *)

SignValidate(s) ==
  /\ spc[s] = "idle"
  /\ \E k \in Keys :
       /\ Active(k) /\ CanRead(k) /\ IsUnlocked(k)
       /\ skey' = [skey EXCEPT ![s] = k]
  /\ spc' = [spc EXCEPT ![s] = "validated"]
  /\ UNCHANGED <<reqVars, keyVars, panics>>

SignDigest(s) ==
  LET k == skey[s] IN
  /\ spc[s] = "validated"
  /\ CanRead(k)
  /\ spc' = [spc EXCEPT ![s] = IF k \in poisoned THEN "failed"
                               ELSE IF k \in unlocked THEN "signing" ELSE "locked"]
  /\ UNCHANGED <<reqVars, keyVars, skey, panics>>

\* public_key_pem: available exactly while the key is unlocked.
PublicKeyPem(k) == IsUnlocked(k)

\* get_public_key encodes the public key under the read guard.  It asks neither
\* for the state of the key nor who the client is; a locked key is reported.
GetPublicKey(s) ==
  /\ spc[s] = "idle"
  /\ \E k \in Keys :
       /\ CanRead(k) /\ PublicKeyPem(k)
       /\ skey' = [skey EXCEPT ![s] = k]
  /\ spc' = [spc EXCEPT ![s] = "publishing"]
  /\ UNCHANGED <<reqVars, keyVars, panics>>

\* The signature or the public key is computed, or the error returned, and the
\* guard dropped.
SignDone(s) ==
  /\ spc[s] \in {"signing", "publishing", "locked", "failed"}
  /\ spc' = [spc EXCEPT ![s] = "idle"]
  /\ skey' = [skey EXCEPT ![s] = None]
  /\ UNCHANGED <<reqVars, keyVars, panics>>

-----------------------------------------------------------------------------
\* The steps the server takes by itself once a request is queued.
Step(r) ==
  \/ Acquire(r)
  \/ KeyCheck(r) \/ KeyDecrypt(r) \/ KeyInstall(r)
  \/ RingInactive(r) \/ RingScan(r) \/ RingLock(r) \/ RingInstall(r)

\* Every request has ended: nothing is left to happen at the admin socket.
Quiet == (\A r \in Requests : pc[r] = "done") /\ UNCHANGED vars

Next ==
  \/ \E r \in Requests :
       Reject(r) \/ Submit(r) \/ Disconnect(r) \/ Panic(r) \/ Step(r)
  \/ \E s \in Signers : SignValidate(s) \/ SignDigest(s) \/ GetPublicKey(s) \/ SignDone(s)
  \/ Quiet

Spec == Init /\ [][Next]_vars

\* A tokio semaphore serves its waiters in order and a futex RwLock lets no new
\* reader in while a writer waits, so a request that can go on again and again
\* goes on; a signer always finishes its signature.
Fairness ==
  /\ \A r \in Requests : SF_vars(Step(r))
  /\ \A s \in Signers : WF_vars(SignDigest(s)) /\ WF_vars(SignDone(s))

FairSpec == Spec /\ Fairness

-----------------------------------------------------------------------------
(* Properties.                                                             *)

IsRing(r) == req[r] # None /\ req[r].kind = "ring"

\* Where keyring request r has ended well, it left no active member locked;
\* where it has not, it stored nothing outside the installing loop.
WholeRing(r) == IsRing(r) =>
  /\ res[r] = "ok" => ActiveMembers(req[r].target) \subseteq unlocked
  /\ res[r] # "ok" /\ pc[r] # "ring_install" => installed[r] = {}

\* A keyring unlock is all or nothing (the doc comment of unlock_keyring and
\* the 409 reply "so none were unlocked"): a request that ends in an error, or
\* whose task dies, has stored no key, and one that succeeds leaves every
\* active member unlocked, whatever the other requests did meanwhile.
AllOrNothing == \A r \in Requests : WholeRing(r)

\* The per-key results of a successful keyring unlock, which are also its audit
\* events, say what really happened: "unlocked" for the keys this request
\* stored, "already" for those another request stored, "skipped" for the
\* inactive ones.
ReportIsTrue ==
  \A r \in Requests : IsRing(r) /\ res[r] = "ok" =>
    \A k \in Members(req[r].target) :
      /\ outcome[r][k] = "unlocked" <=> k \in installed[r]
      /\ outcome[r][k] = "already" => k \in unlocked
      /\ outcome[r][k] = "skipped" <=> ~Active(k)

\* Every unlocked key is active and was stored by exactly one request, with a
\* passphrase that decrypts it: no interleaving of check, decryption and
\* installation replaces material that is already in use.
StoredOnceWithPassphrase ==
  /\ \A k \in unlocked : Active(k) /\ \E r \in Requests :
       k \in installed[r] /\ req[r].pass \in Opens[k]
  /\ \A r1, r2 \in Requests : r1 # r2 => installed[r1] \cap installed[r2] = {}

\* At most Permits decryptions run at once, each with a KDF of up to 1 GiB,
\* also when clients disconnect and send their requests again.
KdfBound == Cardinality(Blocking) <= Permits

\* The key is checked twice by create_signature; between the two checks it may
\* not become locked again.
ValidatedNeverLocked == \A s \in Signers : spc[s] # "locked"

\* Once the public key of a key can be had, and the key be signed with, this stays
\* so for the life of the server, whichever unlocks run or die: with the one
\* permit of the admin API, the locks that a dying task poisons are those of keys
\* that nobody has unlocked.
KeyStaysUsable ==
  [][Permits = 1 => \A k \in Keys : PublicKeyPem(k) => PublicKeyPem(k)']_vars

\* To the users of the store a keyring is unlocked in one step, when its last
\* write lock is taken: from then on no reader gets past a guard before the
\* key behind it is installed.
Single == UNION {installed[r] : r \in {q \in Requests : ~IsRing(q)}}
Installing == {r \in Requests : pc[r] = "ring_install"}
Whole == (UNION {installed[r] : r \in {q \in Requests : IsRing(q)}})
         \cup ((UNION {guards[r] : r \in Installing}) \ unlocked)

Abstract == INSTANCE KeyStoreSpec WITH single <- Single, whole <- Whole, broken <- poisoned

\* The store implements KeyStoreSpec.
ImplementsKeyStore == Abstract!Spec

\* Every queued unlock request comes to an end: no request waits for ever for
\* the permit or for a lock, whichever keys are being unlocked or signed with.
UnlockTerminates == \A r \in Requests : pc[r] = "queued" ~> pc[r] = "done"

-----------------------------------------------------------------------------
(* The inductive invariant behind the safety properties.                   *)

RingPc == {"ring_scan", "ring_lock", "ring_install"}

\* Where a request is fits what it asks for, and its cursor is inside the
\* sequence it walks.
LoopInv ==
  \A r \in Requests :
    /\ pc[r] \in BlockingPc => req[r].kind = (IF pc[r] \in RingPc THEN "ring" ELSE "key")
    /\ pc[r] \in {"new", "queued"} => cursor[r] = 1
    /\ pc[r] = "ring_scan" => cursor[r] <= Len(RingKeys[req[r].target])
    /\ pc[r] \in {"ring_lock", "ring_install"} => cursor[r] <= Len(decrypted[r])

\* A permit is out for exactly the requests on the blocking pool.
PermitInv == available + Cardinality(Blocking) = Permits

TypeInv == TypeOK /\ LoopInv /\ PermitInv

\* What a keyring request has decrypted or failed to decrypt covers the active
\* members it has passed, but for those that are unlocked; it stores nothing
\* before it has all of them.
Covered(r, k, from) ==
  k \in unlocked \/ \E i \in from .. Len(decrypted[r]) : decrypted[r][i] = k

ScanInv(r) ==
  /\ pc[r] = "ring_scan" => \A i \in 1 .. cursor[r] - 1 :
       LET k == RingKeys[req[r].target][i] IN
       Active(k) => Covered(r, k, 1) \/ k \in failed[r]
  /\ pc[r] = "ring_lock" => \A k \in ActiveMembers(req[r].target) : Covered(r, k, 1)
  /\ pc[r] = "ring_install" => \A k \in ActiveMembers(req[r].target) : Covered(r, k, cursor[r])

\* Decrypted keys are active and open with the request's passphrase.
DecryptedInv(r) ==
  /\ pc[r] \in {"new", "queued"} => decrypted[r] = << >>
  /\ pc[r] \in RingPc => \A i \in 1 .. Len(decrypted[r]) :
       Active(decrypted[r][i]) /\ req[r].pass \in Opens[decrypted[r][i]]
  /\ pc[r] \in {"key_decrypt", "key_install"} => Active(req[r].target)
  /\ pc[r] = "key_install" => req[r].pass \in Opens[req[r].target]

\* What a request has stored is unlocked; a request in progress has no result
\* yet, and has stored nothing before the installing loop.
InstalledInv(r) ==
  /\ installed[r] \subseteq unlocked
  /\ pc[r] # "done" => res[r] = "none"
  /\ pc[r] \notin {"ring_install", "done"} => installed[r] = {}

RequestInv(r) == ScanInv(r) /\ DecryptedInv(r) /\ InstalledInv(r) /\ WholeRing(r)

IndInv == TypeInv /\ (\A r \in Requests : RequestInv(r)) /\ StoredOnceWithPassphrase

\* A validated signer's key is unlocked.
SignerInv == \A s \in Signers : spc[s] = "validated" => skey[s] \in unlocked

SignInv == SignerInv /\ ValidatedNeverLocked

-----------------------------------------------------------------------------
(* The invariant behind the reports, the refinement and KeyStaysUsable.    *)

Scanned(r) == {RingKeys[req[r].target][i] : i \in 1 .. cursor[r] - 1}
Opened(r) == {decrypted[r][i] : i \in 1 .. Len(decrypted[r])}
Locked(r) == {decrypted[r][i] : i \in 1 .. cursor[r] - 1}
Pending(r) == {decrypted[r][i] : i \in cursor[r] .. Len(decrypted[r])}
Distinct(r, from, to) ==
  \A i, j \in from .. to : decrypted[r][i] = decrypted[r][j] => i = j

\* A request holds the write guards of the keys it has locked and not yet
\* installed, and a key that is locked twice would block its own request.
LockInv(r) ==
  /\ pc[r] = "ring_lock" => guards[r] = Locked(r) /\ Distinct(r, 1, cursor[r] - 1)
  /\ pc[r] = "ring_install" =>
       guards[r] = Pending(r) /\ Distinct(r, cursor[r], Len(decrypted[r]))
  /\ pc[r] \notin {"ring_lock", "ring_install"} => guards[r] = {}
  /\ guards[r] \cap poisoned = {}

\* A write guard excludes the others.
Exclusive == \A q, r \in Requests : q # r => guards[q] \cap guards[r] = {}

\* What the report says of member k, given the keys that count as unlocked by r.
ReportOn(r, k, stored) ==
  /\ outcome[r][k] = "unlocked" <=> k \in stored
  /\ outcome[r][k] = "already" => k \in unlocked
  /\ outcome[r][k] = "skipped" <=> ~Active(k)

\* The report of a keyring request is ahead of what it says: before the installing
\* loop a key counts as unlocked once it was tried, in the loop as long as it is
\* still to come.
ReportInv(r) ==
  /\ pc[r] \in {"new", "queued"} => failed[r] = {}
  /\ pc[r] = "ring_scan" =>
       /\ Opened(r) \cup failed[r] \subseteq Scanned(r)
       /\ \A k \in Scanned(r) : ReportOn(r, k, Opened(r) \cup failed[r])
  /\ pc[r] = "ring_lock" =>
       /\ Opened(r) \subseteq Members(req[r].target)
       /\ \A k \in Members(req[r].target) : ReportOn(r, k, Opened(r))
  /\ pc[r] = "ring_install" =>
       /\ installed[r] \cap Pending(r) = {}
       /\ \A k \in Members(req[r].target) : ReportOn(r, k, installed[r] \cup Pending(r))
  /\ IsRing(r) /\ res[r] = "ok" =>
       \A k \in Members(req[r].target) : ReportOn(r, k, installed[r])

\* With one permit, what a keyring request has decrypted nobody else unlocks: a key
\* that is both decrypted and unlocked was tried because its lock is poisoned.
AloneInv ==
  Permits = 1 => \A r \in Requests :
    pc[r] \in {"ring_scan", "ring_lock"} => Opened(r) \cap unlocked \subseteq poisoned

GuardInv == (\A r \in Requests : LockInv(r)) /\ Exclusive

StoreInv == IndInv /\ GuardInv /\ (\A r \in Requests : ReportInv(r)) /\ AloneInv
=============================================================================
