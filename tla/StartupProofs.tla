---------------------------- MODULE StartupProofs ----------------------------
(***************************************************************************)
(* What a start establishes, for every configuration, every file and every *)
(* change of the files between two system calls.                           *)
(***************************************************************************)
EXTENDS Startup, FiniteSetTheorems, TLAPS

-----------------------------------------------------------------------------
(* The policies.                                                           *)

\* The checks that config.rs, auth.rs, authorization.rs and api.rs make, each on its
\* own, add up to the release gate.
LEMMA ChecksMakeGate ==
  ASSUME NEW conf, NEW c, NEW a, NEW k, NEW keys,
         ValidConfig(conf, keys), Resolves(conf, c, a), Authorize(conf, a, k), SigningContextOk(c)
  PROVE  ReleaseGate(conf, c, k)
<1> DEFINE i == conf.identity[a]
<1>1. a \in DOMAIN conf.identity /\ MatchesActions(i, c)
  BY DEF Resolves, Matching
<1>2. PICK p \in conf.policies : p.identity = a /\ ("*" \in p.keys \/ k \in p.keys)
  BY DEF Authorize
<1>3. i.kind = "actions" /\ i.repoId = c.repoId /\ (i.repo # None => Lower[i.repo] = Lower[c.repo])
  BY <1>1 DEF MatchesActions
<1>4. i.workflow # None /\ i.env # None
  BY <1>2, <1>3 DEF ValidConfig, ValidPolicy
<1>5. ValidIdentity(i)
  BY <1>1 DEF ValidConfig
<1>6. ValidateActionsIdentity(i)
  BY <1>3, <1>5 DEF ValidIdentity
<1>7. Constrained(i)
  BY <1>4 DEF Constrained
<1>8. i.workflow \in WorkflowPaths /\ i.env # Blank /\ (i.shas # None => i.shas # {})
  BY <1>6, <1>7 DEF ValidateActionsIdentity
<1>9. /\ c.event \in i.events
      /\ c.workflowRef = <<c.repo, i.workflow, c.ref>>
      /\ c.env = i.env
      /\ i.runner # None => c.runner = i.runner
      /\ i.shas \notin {None, {}} => c.sha # None /\ \E s \in i.shas : Lower[s] = Lower[c.sha]
  BY <1>1, <1>4 DEF MatchesActions
<1>10. c.refType = "tag" /\ c.ref \in TagRefs /\ c.protected \in {"true", "text_true"}
  BY DEF SigningContextOk, ClaimIsTrue
<1>11. \A b \in DOMAIN conf.identity : MatchesActions(conf.identity[b], c) => b = a
  BY DEF Resolves, Matching
<1>12. p.keys \cap {"*", k} # {}
  BY <1>2
<1> QED
  BY <1>1, <1>2, <1>3, <1>4, <1>8, <1>9, <1>10, <1>11, <1>12 DEF ReleaseGate

\* And the gate asks for nothing that the checks would refuse.
LEMMA GatePassesChecks ==
  ASSUME NEW conf, NEW c, NEW k, NEW keys,
         ValidConfig(conf, keys), ReleaseGate(conf, c, k)
  PROVE  \E a \in DOMAIN conf.identity :
           Resolves(conf, c, a) /\ Authorize(conf, a, k) /\ SigningContextOk(c)
<1>1. PICK a \in DOMAIN conf.identity :
        LET i == conf.identity[a] IN
        /\ \E p \in conf.policies : p.identity = a /\ p.keys \cap {"*", k} # {}
        /\ c.repoId = i.repoId
        /\ i.repo # None => Lower[c.repo] = Lower[i.repo]
        /\ i.workflow \in WorkflowPaths /\ c.workflowRef = <<c.repo, i.workflow, c.ref>>
        /\ c.event \in i.events
        /\ c.env = i.env /\ c.env \notin {None, Blank}
        /\ i.runner # None => c.runner = i.runner
        /\ i.shas # None => c.sha # None /\ \E s \in i.shas : Lower[s] = Lower[c.sha]
        /\ c.refType = "tag" /\ c.ref \in TagRefs /\ c.protected \in {"true", "text_true"}
        /\ \A b \in DOMAIN conf.identity : MatchesActions(conf.identity[b], c) => b = a
  BY DEF ReleaseGate
<1> DEFINE i == conf.identity[a]
<1>2. PICK p \in conf.policies : p.identity = a /\ p.keys \cap {"*", k} # {}
  BY <1>1
<1>3. ValidIdentity(i) /\ ValidPolicy(conf, keys, p)
  BY <1>2 DEF ValidConfig
<1>4. i.workflow # None /\ Constrained(i)
  BY <1>1, PathsAssumption DEF Constrained
<1>5. i.kind = "actions" /\ ValidateActionsIdentity(i)
  BY <1>3, <1>4 DEF ValidIdentity
<1>6. /\ i.events # None
      /\ i.refTypes # None => i.refTypes # {}
  BY <1>4, <1>5 DEF ValidateActionsIdentity
<1>7. i.refTypes # None => i.refTypes \subseteq {"tag"}
  BY <1>2, <1>3, <1>5 DEF ValidPolicy
<1>8. IF i.refTypes # None THEN c.refType \in i.refTypes ELSE c.refType = "tag"
  BY <1>1, <1>6, <1>7
<1>9. MatchesActions(i, c)
  BY <1>1, <1>5, <1>6, <1>8 DEF MatchesActions
<1>10. Resolves(conf, c, a)
  BY <1>1, <1>9 DEF Resolves, Matching
<1>11. Authorize(conf, a, k)
  BY <1>2 DEF Authorize
<1>12. SigningContextOk(c)
  BY <1>1 DEF SigningContextOk, ClaimIsTrue
<1> QED
  BY <1>10, <1>11, <1>12

\* The checks, taken together, are the gate: neither wider nor narrower.
THEOREM ChecksAreGate ==
  ASSUME NEW conf, NEW c, NEW k, NEW keys, ValidConfig(conf, keys)
  PROVE  (\E a \in DOMAIN conf.identity :
            Resolves(conf, c, a) /\ Authorize(conf, a, k) /\ SigningContextOk(c))
         <=> ReleaseGate(conf, c, k)
  BY ChecksMakeGate, GatePassesChecks

-----------------------------------------------------------------------------
(* Lemmas on the checks.                                                   *)

LEMMA ProductGrows ==
  ASSUME NEW a \in Nat, NEW b \in Nat, NEW k \in Nat, a >= b
  PROVE  a * k >= b * k
<1>1. a * k - b * k = (a - b) * k
  OBVIOUS
<1>2. (a - b) * k >= 0
  OBVIOUS
<1> QED
  BY <1>1, <1>2

\* The block size and the product of the other two bound the work.
LEMMA WorkBounded ==
  ASSUME NEW n \in Nat, NEW r \in Nat, NEW p \in Nat, r >= MinBlockSize, n * p >= MinCost
  PROVE  n * r * p >= MinCost * MinBlockSize
<1> DEFINE q == n * p
<1>0. q \in Nat /\ q >= MinCost /\ MinCost \in Nat /\ MinBlockSize \in Nat
  BY StartupAssumption
<1>1. n * r * p = q * r
  OBVIOUS
<1> HIDE DEF q
<1>2. q * r >= MinCost * r
  BY <1>0, ProductGrows
<1>3. r * MinCost >= MinBlockSize * MinCost
  BY <1>0, ProductGrows
<1>4. MinCost * r >= MinCost * MinBlockSize
  BY <1>0, <1>3
<1>5. q * r \in Nat /\ MinCost * r \in Nat /\ MinCost * MinBlockSize \in Nat
  BY <1>0
<1> QED
  BY <1>1, <1>2, <1>4, <1>5

\* The minimum needs a cost of at least 3, as there are so few lanes; so the work bounds
\* three times the blocks of the lanes.
LEMMA LanesBounded ==
  ASSUME NEW n \in Nat, NEW r \in Nat, NEW p \in 0 .. MaxLanes, n * p >= MinCost,
         n * r * p <= MaxWork
  PROVE  3 * (r * p) <= MaxWork
<1> DEFINE q == r * p
<1>1. p \in Nat /\ p <= MaxLanes /\ MaxLanes \in Nat /\ 2 * MaxLanes < MinCost /\ MinCost \in Nat
  BY StartupAssumption
<1>2. n >= 3
  <2> SUFFICES ASSUME n <= 2 PROVE FALSE
    OBVIOUS
  <2>1. 2 * p >= n * p
    BY <1>1, ProductGrows
  <2>2. n * p \in Nat /\ 2 * p \in Nat
    BY <1>1
  <2> QED
    BY <1>1, <2>1, <2>2
<1>3. q \in Nat /\ n * r * p = n * q
  BY <1>1
<1> HIDE DEF q
<1>4. n * q >= 3 * q
  BY <1>2, <1>3, ProductGrows
<1>5. n * q \in Nat /\ 3 * q \in Nat /\ MaxWork \in Nat
  BY <1>3, StartupAssumption
<1> QED
  BY <1>3, <1>4, <1>5 DEF q

LEMMA KdfSound ==
  ASSUME NEW c \in Contents, KdfAccepted(c.kdf)
  PROVE  CostBounded(c.kdf)
<1>1. CASE c.kdf.name = "scrypt"
  <2>1. c.kdf.n \in Nat /\ c.kdf.r \in Nat /\ c.kdf.p \in 0 .. MaxLanes /\ c.kdf.p \in Nat
    BY <1>1, StartupAssumption
  <2>2. /\ c.kdf.r >= MinBlockSize /\ c.kdf.n * c.kdf.p >= MinCost
        /\ c.kdf.n * c.kdf.r <= MaxBlocks /\ c.kdf.n * c.kdf.r * c.kdf.p <= MaxWork
    BY <1>1 DEF KdfAccepted
  <2>3. c.kdf.n * c.kdf.r * c.kdf.p >= MinCost * MinBlockSize
    BY <2>1, <2>2, WorkBounded
  <2>4. /\ c.kdf.n * c.kdf.r * c.kdf.p \in Nat
        /\ c.kdf.n * c.kdf.r \in Nat /\ c.kdf.r * c.kdf.p \in Nat
    BY <2>1
  <2>5. 3 * (c.kdf.r * c.kdf.p) <= MaxWork
    BY <2>1, <2>2, LanesBounded
  <2>6. 3 * ScryptBlocks(c.kdf) <= 3 * MaxBlocks + MaxWork
    <3> DEFINE x == c.kdf.n * c.kdf.r
               y == c.kdf.r * c.kdf.p
    <3>1. x \in Nat /\ y \in Nat /\ x <= MaxBlocks /\ 3 * y <= MaxWork
      BY <2>2, <2>4, <2>5
    <3>2. ScryptBlocks(c.kdf) = x + y
      BY DEF ScryptBlocks
    <3> HIDE DEF x, y
    <3> QED
      BY <3>1, <3>2, StartupAssumption
  <2> QED
    BY <1>1, <2>2, <2>3, <2>4, <2>6 DEF CostBounded
<1>2. CASE c.kdf.name # "scrypt"
  BY <1>2 DEF KdfAccepted, CostBounded
<1> QED
  BY <1>1, <1>2

\* What config.rs accepts, key.rs accepts.
LEMMA ValidatorsAgree ==
  ASSUME NEW c, NormalizeAndValidate(c)
  PROVE  FromKeysOk(c)
  BY DEF NormalizeAndValidate, ValidKeys, ValidRings, FromKeysOk

LEMMA DistinctMembers ==
  ASSUME NEW s, Len(s) \in Nat,
         \A i, j \in 1 .. Len(s) : s[i] = s[j] => i = j
  PROVE  Cardinality(Elems(s)) = Len(s)
<1> DEFINE f == [j \in 1 .. Len(s) |-> s[j]]
<1>1. f \in Bijection(1 .. Len(s), Elems(s))
  BY DEF Elems, Bijection, Injection, Surjection, IsInjective
<1>2. /\ IsFiniteSet(1 .. Len(s))
      /\ Cardinality(1 .. Len(s)) = IF 1 > Len(s) THEN 0 ELSE Len(s) - 1 + 1
  BY FS_Interval, 1 \in Int, Len(s) \in Int
<1>4. Cardinality(1 .. Len(s)) = Len(s)
  BY <1>2
<1>3. ExistsBijection(1 .. Len(s), Elems(s))
  BY <1>1 DEF ExistsBijection
<1> QED
  BY <1>2, <1>3, <1>4, FS_Bijection

-----------------------------------------------------------------------------
(* IndInv holds initially and is kept by every step.                       *)

LEMMA InitInd == Init => IndInv
  BY StartupAssumption DEF Init, IndInv, TypeOK, KeyFilesSound

LEMMA FailInd ==
  ASSUME IndInv, NEW reason \in {"config", "key", "credential"}, Fail(reason), phase # "up"
  PROVE  IndInv'
  BY DEF IndInv, TypeOK, KeyFilesSound, Fail, IsKey

LEMMA FileErrorInd ==
  ASSUME IndInv, FileError, phase # "up"
  PROVE  IndInv'
<1>1. CASE IsKey
  BY <1>1, FailInd DEF FileError
<1>2. CASE ~IsKey
  BY <1>2, FailInd DEF FileError
<1> QED
  BY <1>1, <1>2

LEMMA LoadInd == ASSUME IndInv, Load PROVE IndInv'
<1>1. PICK c \in Configs \cup {None} :
        \/ /\ c # None /\ NormalizeAndValidate(c)
           /\ phase' = "open" /\ config' = c /\ why' = "nothing"
           /\ UNCHANGED <<file, fd, loaded, claims>>
        \/ (c # None => ~NormalizeAndValidate(c)) /\ Fail("config")
  BY DEF Load
<1>2. phase = "down" /\ config = None
  BY DEF Load, IndInv, TypeOK
<1>3. CASE Fail("config")
  BY <1>2, <1>3, FailInd
<1>4. CASE /\ c # None /\ NormalizeAndValidate(c)
           /\ phase' = "open" /\ config' = c /\ why' = "nothing"
           /\ UNCHANGED <<file, fd, loaded, claims>>
  <2>1. c \in Configs /\ Len(c.keys) \in Nat
    BY <1>4, StartupAssumption
  <2>2. TypeOK'
    BY <1>2, <1>4, <2>1 DEF IndInv, TypeOK
  <2> QED
    BY <1>2, <1>4, <2>1, <2>2 DEF IndInv, TypeOK, KeyFilesSound
<1> QED
  BY <1>1, <1>3, <1>4

LEMMA OpenInd == ASSUME IndInv, Open PROVE IndInv'
<1>1. PICK i \in Inodes \cup {None} :
        \/ /\ i # None /\ i.kind # "symlink"
           /\ fd' = i /\ phase' = "fstat" /\ loaded' = None
           /\ UNCHANGED <<config, file, why, claims>>
        \/ FileError
  BY DEF Open
<1>2. phase = "open"
  BY DEF Open
<1>3. CASE FileError
  BY <1>2, <1>3, FileErrorInd
<1>4. CASE /\ i # None /\ fd' = i /\ phase' = "fstat" /\ loaded' = None
           /\ UNCHANGED <<config, file, why, claims>>
  BY <1>2, <1>4, StartupAssumption DEF IndInv, TypeOK, KeyFilesSound
<1> QED
  BY <1>1, <1>3, <1>4

\* The inode that is judged is the one that is open.
LEMMA FstatInd == ASSUME IndInv, Fstat PROVE IndInv'
<1>1. PICK len \in Lengths :
        \/ /\ MetadataOk(fd, len)
           /\ phase' = "read" /\ UNCHANGED <<config, file, fd, loaded, why, claims>>
        \/ FileError
  BY DEF Fstat
<1>2. phase = "fstat"
  BY DEF Fstat
<1>3. CASE FileError
  BY <1>2, <1>3, FileErrorInd
<1>4. CASE /\ MetadataOk(fd, len)
           /\ phase' = "read" /\ UNCHANGED <<config, file, fd, loaded, why, claims>>
  <2>1. IsKey' => Protected(fd)'
    BY <1>4 DEF MetadataOk, IsKey, Protected
  <2> QED
    BY <1>2, <1>4, <2>1 DEF IndInv, TypeOK, KeyFilesSound
<1> QED
  BY <1>1, <1>3, <1>4

LEMMA ReadInd == ASSUME IndInv, Read PROVE IndInv'
<1>1. PICK c \in Contents :
        \/ /\ ContentOk(c)
           /\ fd' = None
           /\ loaded' = IF IsKey THEN [from |-> fd, pem |-> c] ELSE None
           /\ phase' = IF file < Len(config.keys) THEN "open" ELSE IF IsKey THEN "keyrings" ELSE "up"
           /\ file' = IF IsKey THEN file + 1 ELSE file
           /\ UNCHANGED <<config, why, claims>>
        \/ FileError
  BY DEF Read
<1>2. phase = "read" /\ config # None /\ fd \in Inodes /\ claims = None /\ config \in Configs
  BY DEF Read, IndInv, TypeOK
<1>3. CASE FileError
  BY <1>2, <1>3, FileErrorInd
<1>4. CASE /\ ContentOk(c)
           /\ fd' = None
           /\ loaded' = IF IsKey THEN [from |-> fd, pem |-> c] ELSE None
           /\ phase' = IF file < Len(config.keys) THEN "open" ELSE IF IsKey THEN "keyrings" ELSE "up"
           /\ file' = IF IsKey THEN file + 1 ELSE file
           /\ UNCHANGED <<config, why, claims>>
  <2>1. Len(config.keys) \in Nat /\ file \in 1 .. Len(config.keys) + 1
    BY <1>2, StartupAssumption DEF IndInv, TypeOK
  <2>2. file' \in 1 .. Len(config.keys) + 1 /\ (phase' = "up" => ~IsKey)
    BY <1>4, <2>1 DEF IsKey
  <2>3. TypeOK'
    <3>1. phase' \in {"open", "keyrings", "up"}
      BY <1>4
    <3> QED
      BY <1>2, <1>4, <2>2, <3>1, StartupAssumption DEF IndInv, TypeOK
  <2>4. KeyFilesSound'
    <3>1. CASE ~IsKey
      BY <1>4, <3>1 DEF KeyFilesSound
    <3>2. CASE IsKey
      <4>1. Protected(fd) /\ c.len <= MaxFileBytes /\ KdfAccepted(c.kdf)
        BY <1>2, <1>4, <3>2 DEF IndInv, ContentOk, ReadLimited, KeyAccepted
      <4>2. /\ fd.kind = "regular" /\ fd.owner # "other"
            /\ fd.mode.group \notin {1, 2, 3, 5, 6, 7} /\ fd.mode.others = 0
        BY <4>1 DEF Protected
      <4>3. loaded'.from = fd /\ loaded'.pem = c
        BY <1>4, <3>2
      <4> QED
        BY <4>1, <4>2, <4>3, KdfSound DEF KeyFilesSound
    <3> QED
      BY <3>1, <3>2
  <2> QED
    BY <1>2, <1>4, <2>2, <2>3, <2>4 DEF IndInv
<1> QED
  BY <1>1, <1>3, <1>4

LEMMA FromKeysInd == ASSUME IndInv, FromKeys PROVE IndInv'
<1>1. phase = "keyrings" /\ config # None /\ FromKeysOk(config)
  BY ValidatorsAgree DEF FromKeys, IndInv, TypeOK
<1>2. /\ phase' = "open" /\ loaded' = None
      /\ UNCHANGED <<config, file, fd, why, claims>>
  BY <1>1 DEF FromKeys
<1> QED
  BY <1>1, <1>2 DEF IndInv, TypeOK, KeyFilesSound

LEMMA UpInd == ASSUME IndInv, Present \/ Judged \/ Stop PROVE IndInv'
<1>1. CASE Present
  BY <1>1 DEF Present, IndInv, TypeOK, KeyFilesSound, IsKey, Protected
<1>2. CASE Judged
  BY <1>2 DEF Judged, IndInv, TypeOK, KeyFilesSound, IsKey, Protected
<1>3. CASE Stop
  BY <1>3 DEF Stop, IndInv, TypeOK, KeyFilesSound
<1> QED
  BY <1>1, <1>2, <1>3

LEMMA StutterInd == ASSUME IndInv, UNCHANGED vars PROVE IndInv'
  BY DEF IndInv, TypeOK, KeyFilesSound, IsKey, Protected, vars

\* Every step of a start, and of the files around it, keeps what the properties need.
THEOREM Inductive == Spec => []IndInv
<1>1. IndInv /\ [Next]_vars => IndInv'
  BY LoadInd, OpenInd, FstatInd, ReadInd, FromKeysInd, UpInd, StutterInd DEF Next
<1> QED
  BY <1>1, InitInd, PTL DEF Spec

-----------------------------------------------------------------------------
(* What follows.                                                           *)

\* The types hold: in particular files are only judged while they are open.
THEOREM TypeCorrect == Spec => []TypeOK
<1>1. IndInv => TypeOK
  BY DEF IndInv
<1> QED
  BY <1>1, Inductive, PTL

\* Every key is from the file that was judged, whatever happens to the paths and the
\* files meanwhile; and what its key derivation takes in work and in memory is bounded by
\* what the limits of enforce_key_encryption_policy amount to.
THEOREM FilesSound == Spec => []KeyFilesSound
<1>1. IndInv => KeyFilesSound
  BY DEF IndInv
<1> QED
  BY <1>1, Inductive, PTL

\* No start fails for its keyrings, and a running service has the configuration the
\* rest relies on.
THEOREM Establishes == Spec => []ConfigEstablishes
<1>1. ASSUME IndInv PROVE ConfigEstablishes
  <2>1. ASSUME phase = "up"
        PROVE  /\ KeyIds(config) # {}
               /\ \A g \in Elems(config.rings) : Cardinality(Elems(g.keys)) = Len(g.keys)
               /\ \A g, h \in Elems(config.rings) : g.id # h.id => Elems(g.keys) \cap Elems(h.keys) = {}
               /\ config.sessionTtl \in 1 .. MaxSessionTtl
               /\ config.mode.others = 0
    <3>1. config \in Configs /\ NormalizeAndValidate(config)
      BY <1>1, <2>1 DEF IndInv, TypeOK
    <3>2. MembersOnce(config.rings) /\ DistinctIds(config.rings)
      BY <3>1 DEF NormalizeAndValidate, ValidRings
    <3>3. \A g \in Elems(config.rings) : Cardinality(Elems(g.keys)) = Len(g.keys)
      <4> TAKE g \in Elems(config.rings)
      <4>1. PICK i \in 1 .. Len(config.rings) : g = config.rings[i]
        BY DEF Elems
      <4>2. Len(g.keys) \in Nat
        BY <3>1, <4>1, StartupAssumption
      <4>3. \A m, n \in 1 .. Len(g.keys) : g.keys[m] = g.keys[n] => m = n
        BY <3>2, <4>1 DEF MembersOnce
      <4> QED
        BY <4>2, <4>3, DistinctMembers
    <3>4. \A g, h \in Elems(config.rings) : g.id # h.id => Elems(g.keys) \cap Elems(h.keys) = {}
      <4> SUFFICES ASSUME NEW g \in Elems(config.rings), NEW h \in Elems(config.rings),
                          NEW k \in Elems(g.keys) \cap Elems(h.keys)
                   PROVE  g.id = h.id
        OBVIOUS
      <4>1. PICK i, j \in 1 .. Len(config.rings) : g = config.rings[i] /\ h = config.rings[j]
        BY DEF Elems
      <4>2. PICK m \in 1 .. Len(g.keys), n \in 1 .. Len(h.keys) : k = g.keys[m] /\ k = h.keys[n]
        BY DEF Elems
      <4>3. i = j
        BY <3>2, <4>1, <4>2 DEF MembersOnce
      <4> QED
        BY <4>1, <4>3
    <3>5. KeyIds(config) # {}
      <4>1. config.keys \in Seq(Elems(config.keys)) /\ config.keys # << >>
        BY <3>1, StartupAssumption DEF NormalizeAndValidate, ValidKeys
      <4>2. config.keys[1] \in Elems(config.keys)
        BY <4>1 DEF Elems
      <4> QED
        BY <4>2 DEF KeyIds
    <3> QED
      BY <3>1, <3>3, <3>4, <3>5 DEF NormalizeAndValidate, ValidGithub, ValidServer, ModeOk
  <2> QED
    BY <1>1, <2>1 DEF ConfigEstablishes, IndInv
<1> QED
  BY <1>1, Inductive, PTL

\* The checks are the release gate, for every configuration that loads and every
\* token.
THEOREM Exact == Spec => []GateExact
<1>1. ASSUME IndInv PROVE GateExact
  <2> SUFFICES ASSUME claims # None, NEW k \in KeyIds(config)
               PROVE  (\E a \in DOMAIN config.identity :
                         Resolves(config, claims, a) /\ Authorize(config, a, k)
                         /\ SigningContextOk(claims))
                      <=> ReleaseGate(config, claims, k)
    BY DEF GateExact
  <2>1. ValidConfig(config, KeyIds(config))
    BY <1>1 DEF IndInv, TypeOK, NormalizeAndValidate
  <2> QED
    BY <2>1, ChecksAreGate
<1> QED
  BY <1>1, Inductive, PTL
=============================================================================
