------------------------------- MODULE Startup -------------------------------
(***************************************************************************)
(* The first half of a start of the service, run_server of src/main.rs up  *)
(* to the sockets: the configuration is read and validated by              *)
(* src/config.rs, the file of every key and the systemd credential are     *)
(* read by src/key.rs.                                                     *)
(* Any error ends the process.  AdminSocket has the other half.            *)
(*                                                                         *)
(* Files are not the process's own: between two system calls another       *)
(* process may put another file at a path, or write to the file that is    *)
(* open.  So each open finds any inode, each fstat any length and each     *)
(* read any content; only which inode a descriptor stands for, and the     *)
(* owner, type and mode of an inode, stay what they are.                   *)
(***************************************************************************)
EXTENDS SigningPolicy, Naturals, Sequences, FiniteSets

CONSTANTS
  Configs,        \* configuration files, some of them refused
  Inodes,         \* what the paths of the files may name
  Lengths,        \* sizes of files
  Contents,       \* what files may contain
  Claims,         \* claims of the OIDC tokens that are presented
  MaxSessionTtl,  \* MAX_OAUTH_SESSION_TTL_SECONDS
  MaxFileBytes,   \* MAX_PROTECTED_FILE_BYTES
  MinIterations, MaxIterations,  \* MIN_, MAX_PBKDF2_ITERATIONS
  MinBlockSize,   \* MIN_SCRYPT_BLOCK_SIZE
  MinCost,        \* MIN_SCRYPT_COST_TIMES_PARALLELISM
  MaxBlocks,      \* MAX_SCRYPT_MEMORY_BYTES, in blocks of 128 bytes
  MaxWork,        \* MAX_SCRYPT_WORK
  MaxLanes        \* the largest parallelization of a key file, which has 16 bits

Elems(s) == {s[j] : j \in 1 .. Len(s)}

ASSUME StartupAssumption ==
  /\ MaxSessionTtl \in Nat \ {0} /\ MaxFileBytes \in Nat \ {0}
  /\ MinIterations \in Nat /\ MaxIterations \in Nat /\ MinBlockSize \in Nat
  /\ MinCost \in Nat /\ MaxBlocks \in Nat /\ MaxWork \in Nat
  /\ MaxLanes \in Nat /\ 2 * MaxLanes < MinCost
  /\ Lengths \subseteq Nat
  /\ None \notin Configs \cup Inodes \cup Claims
  /\ \A c \in Configs :
       /\ c.keys \in Seq(Elems(c.keys))
       /\ \A g \in Elems(c.rings) : Len(g.keys) \in Nat
  /\ \A c \in Contents : c.kdf.name = "scrypt" =>
       c.kdf.n \in Nat /\ c.kdf.r \in Nat /\ c.kdf.p \in 0 .. MaxLanes

VARIABLES
  phase,   \* "down", the next system call of the start, "keyrings" or "up"
  config,  \* the configuration, or None
  file,    \* which file is read: the keys by their position, then the credential
  fd,      \* the inode that is open, or None
  loaded,  \* the key that was read last: its content and the inode it is from
  why,     \* what the last start failed for
  claims   \* a token that is being judged, or None

vars == <<phase, config, file, fd, loaded, why, claims>>

KeyIds(c) == {k.id : k \in Elems(c.keys)}

TypeOK ==
  /\ phase \in {"down", "open", "fstat", "read", "keyrings", "up"}
  /\ phase = "down" <=> config = None
  /\ IF config = None THEN file = 1 ELSE file \in 1 .. Len(config.keys) + 1
  /\ fd \in Inodes \cup {None} /\ (phase \in {"fstat", "read"} <=> fd # None)
  /\ loaded # None => loaded.from \in Inodes
  /\ why \in {"nothing", "config", "key", "keyrings", "credential"}
  /\ claims \in Claims \cup {None}

-----------------------------------------------------------------------------
(* The configuration.                                                      *)

\* A mode is its octal digits: those above 0777 as one, owner, group, others.
ModeOk(m) == m.above = 0 /\ m.owner \in {6, 7} /\ m.others = 0

\* normalize_and_validate: [Microtun] and [Server].
ValidServer(c) ==
  /\ c.known
  /\ c.loopback \/ c.allowNonLoopback
  /\ c.group # Blank
  /\ c.absolute
  /\ ModeOk(c.mode)

DistinctIds(s) == \A i, j \in 1 .. Len(s) : s[i].id = s[j].id => i = j

\* member_owner, keyring_by_key: no key is a member twice, of one keyring or of two.
MembersOnce(rings) ==
  \A i, j \in 1 .. Len(rings) :
    \A m \in 1 .. Len(rings[i].keys), n \in 1 .. Len(rings[j].keys) :
      rings[i].keys[m] = rings[j].keys[n] => i = j /\ m = n

\* normalize_and_validate: [[Key]].
ValidKeys(c) ==
  /\ c.keys # << >>
  /\ Blank \notin KeyIds(c) /\ DistinctIds(c.keys)
  /\ \A k \in Elems(c.keys) : ~k.credential

\* Mutant: a key that is in two keyrings is not noticed.
MutantValidRings(c) ==
  /\ \A g \in Elems(c.rings) : g.id # Blank /\ g.keys # << >> /\ Elems(g.keys) \subseteq KeyIds(c)
  /\ DistinctIds(c.rings) /\ \A g \in Elems(c.rings) : MembersOnce(<<g>>)

\* normalize_and_validate: [[Keyring]].
ValidRings(c) ==
  /\ \A g \in Elems(c.rings) : g.id # Blank /\ g.keys # << >> /\ Elems(g.keys) \subseteq KeyIds(c)
  /\ DistinctIds(c.rings) /\ MembersOnce(c.rings)

\* normalize_and_validate: [GitHub] and [GitHubActions].  URLs, versions, the client
\* id, the name of the credential and the audience are texts.
ValidGithub(c) ==
  /\ Blank \notin c.texts
  /\ c.sessionTtl \in 1 .. MaxSessionTtl
  /\ c.jwksTtl > 0

\* normalize_and_validate
NormalizeAndValidate(c) ==
  ValidServer(c) /\ ValidKeys(c) /\ ValidRings(c) /\ ValidGithub(c) /\ ValidConfig(c, KeyIds(c))

-----------------------------------------------------------------------------
Init ==
  /\ phase = "down" /\ config = None /\ file = 1 /\ fd = None
  /\ loaded = None /\ why = "nothing" /\ claims = None

\* run_server returns an error, and the process ends.
Fail(reason) ==
  /\ phase' = "down" /\ config' = None /\ file' = 1 /\ fd' = None /\ loaded' = None
  /\ why' = reason
  /\ UNCHANGED claims

\* Config::load.  None is a file that cannot be read or parsed.
Load ==
  /\ phase = "down"
  /\ \E c \in Configs \cup {None} :
       \/ /\ c # None /\ NormalizeAndValidate(c)
          /\ phase' = "open" /\ config' = c /\ why' = "nothing"
          /\ UNCHANGED <<file, fd, loaded, claims>>
       \/ /\ c # None => ~NormalizeAndValidate(c)
          /\ Fail("config")

IsKey == file <= Len(config.keys)
FileError == Fail(IF IsKey THEN "key" ELSE "credential")

\* open_no_follow.  None: there is no such file, it may not be read, or
\* CREDENTIALS_DIRECTORY is not set.
Open ==
  /\ phase = "open"
  /\ \E i \in Inodes \cup {None} :
       \/ /\ i # None /\ i.kind # "symlink"
          /\ fd' = i /\ phase' = "fstat" /\ loaded' = None
          /\ UNCHANGED <<config, file, why, claims>>
       \/ (i # None => i.kind = "symlink") /\ FileError

\* validate_protected_metadata with the mask 037: only the group may read besides.
Protected(i) ==
  /\ i.kind = "regular" /\ i.owner \in {"root", "service"}
  /\ i.mode.group \in {0, 4} /\ i.mode.others = 0

\* load_credential_from takes any regular file.
MetadataOk(i, len) ==
  /\ IF IsKey THEN Protected(i) ELSE i.kind = "regular"
  /\ len <= MaxFileBytes

\* Mutant: the metadata of the path, and not those of the open file.
MutantFstat ==
  /\ phase = "fstat"
  /\ \E i \in Inodes, len \in Lengths :
       \/ /\ MetadataOk(i, len)
          /\ phase' = "read" /\ UNCHANGED <<config, file, fd, loaded, why, claims>>
       \/ ~MetadataOk(i, len) /\ FileError

\* File::metadata, its checks, and the first check of read_limited.
Fstat ==
  /\ phase = "fstat"
  /\ \E len \in Lengths :
       \/ /\ MetadataOk(fd, len)
          /\ phase' = "read" /\ UNCHANGED <<config, file, fd, loaded, why, claims>>
       \/ ~MetadataOk(fd, len) /\ FileError

\* enforce_key_encryption_policy: the bounds on the key derivation.  The code
\* multiplies in 128 bits, so that nothing wraps around.
KdfAccepted(kdf) ==
  \/ /\ kdf.name = "pbkdf2" /\ kdf.prf \in {"sha256", "sha512"}
     /\ kdf.iterations \in MinIterations .. MaxIterations
  \/ /\ kdf.name = "scrypt"
     /\ kdf.r >= MinBlockSize /\ kdf.n * kdf.p >= MinCost
     /\ kdf.n * kdf.r <= MaxBlocks /\ kdf.n * kdf.r * kdf.p <= MaxWork

\* KeyMaterial::load after the read: one PEM block, PBES2, AES-256.
KeyAccepted(c) ==
  /\ c.blocks = 1 /\ c.label = "encrypted" /\ c.scheme = "pbes2" /\ c.cipher = "aes256"
  /\ KdfAccepted(c.kdf)

\* load_credential_from after the read, with the line ends stripped.
CredentialAccepted(c) == ~c.onlyLineEnds

\* read_limited reads one byte more than the limit, in case the file has grown.
ReadLimited(c) == c.utf8 /\ c.len <= MaxFileBytes

ContentOk(c) == ReadLimited(c) /\ IF IsKey THEN KeyAccepted(c) ELSE CredentialAccepted(c)

\* A key is read and kept, and after the last one they are indexed; the credential
\* is the last file, and with it Authenticator::new succeeds.
Read ==
  /\ phase = "read"
  /\ \E c \in Contents :
       \/ /\ ContentOk(c)
          /\ fd' = None
          /\ loaded' = IF IsKey THEN [from |-> fd, pem |-> c] ELSE None
          /\ phase' = IF file < Len(config.keys) THEN "open" ELSE IF IsKey THEN "keyrings" ELSE "up"
          /\ file' = IF IsKey THEN file + 1 ELSE file
          /\ UNCHANGED <<config, why, claims>>
       \/ ~ContentOk(c) /\ FileError

\* from_keys looks again at the keys it was given and at the keyrings.
FromKeysOk(c) ==
  /\ c.keys # << >> /\ DistinctIds(c.keys)
  /\ \A g \in Elems(c.rings) : g.keys # << >> /\ Elems(g.keys) \subseteq KeyIds(c)
  /\ MembersOnce(c.rings) /\ DistinctIds(c.rings)

\* KeyStore::from_keys
FromKeys ==
  /\ phase = "keyrings"
  /\ \/ /\ FromKeysOk(config)
        /\ phase' = "open" /\ loaded' = None
        /\ UNCHANGED <<config, file, fd, why, claims>>
     \/ ~FromKeysOk(config) /\ Fail("keyrings")

-----------------------------------------------------------------------------
(* The service runs: tokens are presented to it, and it is stopped.        *)

Present ==
  /\ phase = "up" /\ claims = None
  /\ claims' \in Claims
  /\ UNCHANGED <<phase, config, file, fd, loaded, why>>

Judged ==
  /\ claims # None
  /\ claims' = None
  /\ UNCHANGED <<phase, config, file, fd, loaded, why>>

Stop ==
  /\ phase = "up" /\ claims = None
  /\ phase' = "down" /\ config' = None /\ file' = 1
  /\ UNCHANGED <<fd, loaded, why, claims>>

Next == Load \/ Open \/ Fstat \/ Read \/ FromKeys \/ Present \/ Judged \/ Stop

Spec == Init /\ [][Next]_vars

-----------------------------------------------------------------------------
(* What a start establishes.                                               *)

\* What scrypt allocates, in blocks of 128 bytes: the table of one lane and a block of
\* every lane.
ScryptBlocks(kdf) == kdf.n * kdf.r + kdf.r * kdf.p

\* What it takes to try one passphrase.
CostBounded(kdf) ==
  IF kdf.name = "scrypt"
  THEN /\ kdf.n * kdf.r * kdf.p \in MinCost * MinBlockSize .. MaxWork
       /\ 3 * ScryptBlocks(kdf) <= 3 * MaxBlocks + MaxWork
  ELSE kdf.iterations \in MinIterations .. MaxIterations

\* A key that the service takes is from the very file that was found to be protected
\* from everybody but root and the service, although the path may name another file
\* by then, and it is no longer than the limit although the file may have grown
\* (read_protected_file, read_limited).  To try a passphrase on it takes no less work
\* than both minima make together, no more than the maximum, and a bounded amount of
\* memory.  That bound is not MAX_SCRYPT_MEMORY_BYTES, the 1 GiB of the comment at
\* src/api.rs:118: enforce_key_encryption_policy holds only the table of a lane to it,
\* while the blocks of the lanes are held by MAX_SCRYPT_WORK, up to a third of it.
KeyFilesSound ==
  loaded # None =>
    /\ loaded.from.kind = "regular" /\ loaded.from.owner # "other"
    /\ loaded.from.mode.group \notin {1, 2, 3, 5, 6, 7} /\ loaded.from.mode.others = 0
    /\ loaded.pem.len <= MaxFileBytes
    /\ CostBounded(loaded.pem.kdf)

\* config.rs and key.rs each check the keyrings.  What the first accepts the second
\* never refuses, so that a start fails only for its configuration or for a file; and
\* a running service has the configuration that the rest of the server relies on: it
\* has a key, unlock_keyring takes no lock twice and no two of them share one,
\* sessions end, and the socket for passphrases is closed to others.
ConfigEstablishes ==
  /\ why # "keyrings"
  /\ phase = "up" =>
       /\ KeyIds(config) # {}
       /\ \A g \in Elems(config.rings) : Cardinality(Elems(g.keys)) = Len(g.keys)
       /\ \A g, h \in Elems(config.rings) : g.id # h.id => Elems(g.keys) \cap Elems(h.keys) = {}
       /\ config.sessionTtl \in 1 .. MaxSessionTtl
       /\ config.mode.others = 0

\* With a configuration that Config::load accepts, the checks of auth.rs,
\* authorization.rs and api.rs together let a token sign with a key exactly when it
\* passes the release gate; and a key that no policy names is never granted.
GateExact ==
  claims # None =>
    \A k \in KeyIds(config) :
      (\E a \in DOMAIN config.identity :
         Resolves(config, claims, a) /\ Authorize(config, a, k) /\ SigningContextOk(claims))
      <=> ReleaseGate(config, claims, k)

\* What makes the three of them inductive: a configuration is only kept once it is
\* valid, and a key file is only read once it was found protected.
IndInv ==
  /\ TypeOK
  /\ config # None => config \in Configs /\ NormalizeAndValidate(config)
  /\ phase = "read" /\ IsKey => Protected(fd)
  /\ phase = "up" => loaded = None
  /\ claims # None => phase = "up"
  /\ why # "keyrings"
  /\ KeyFilesSound
=============================================================================
