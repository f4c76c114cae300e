# Verification of microtun-signer

microtun-signer is a service that signs firmware digests. This directory holds TLA+
modules that model its server and its command-line client, TLC configurations that check them on small instances,
and TLAPS proofs of the properties that matter most for every instance.

Source paths below are those of the repository (`src/auth.rs` and so on).

## 1. The system

| Part | State | Operations | What makes it hard |
|---|---|---|---|
| Key store (`key.rs`) | per key an `RwLock<Option<material>>`; keyrings | `unlock`, `unlock_keyring`, `is_unlocked`, `public_key_pem`, `sign_digest` | unlocks run on the blocking pool next to signatures; the KDF runs without a lock; locks are poisoned by panics |
| Admin API (`api.rs`, Unix socket) | one unlock permit | `unlock_key`, `unlock_keyring` | clients disconnect while the blocking task goes on |
| Device login (`auth.rs`) | tokens in flight, used tokens, sessions | `complete_github_device_oauth` | three calls to GitHub that may be lost or late, cancellation at each await, tables with limits, restarts |
| Exchange limiter (`api.rs`) | sliding window per address, permits | `admit` | the clock is read before the mutex is taken |
| OIDC tokens (`auth.rs`) | `seen_jtis` | `authenticate_github_actions`, `record_jti` | two clocks of different grain, preemption, a cache at its limit |
| OIDC keys (`auth.rs`) | `JwksCache`, refresh mutex | `jwk_for`, `fetch_jwks` | failing and abandoned fetches, key rotation, staleness |
| Identities and policies (`config.rs`, `auth.rs`, `authorization.rs`) | immutable | `normalize_and_validate`, `resolve_github_actions_identity`, `authorize` | one guarantee that is spread over four files |
| Signing API (`api.rs`) | none of its own | `create_signature` | everything above changes while a request is in progress |
| Configuration and key loading (`config.rs`, `key.rs`) | none | `Config::load`, `enforce_key_encryption_policy`, `read_protected_file`, `load_systemd_credential` | files that others may replace or write to between open, fstat and read; keyrings are validated twice, by two files |
| CLI (`client.rs`, `session_cache.rs`) | one session file per server | `sign`, `unlock`, `public-key` | several processes share the file without a lock; two clocks count one lifetime; `unlock` finds the server by a path that changes hands |
| Server (`main.rs`) | TCP port, admin socket file | `run_server`, `bind_admin_socket`, `AdminSocketGuard`, shutdown | a new server starts while the old one stops or after it was killed; the path has no lock |

The parts interact through calls and shared state in one process. `create_signature`
authenticates (a session made by the device login, or an OIDC token checked with a key
of the JWKS cache and recorded in `seen_jtis`), asks the policies, and reads the key
store, which the admin API changes. Nothing is persisted by the server: a restart locks
all keys and forgets sessions, used tokens and jtis.

Correct means, part by part:

* a keyring is unlocked wholly or not at all, each key's material is stored once, and
  the report of an unlock is true; passphrases are tried one at a time;
* a device token yields at most one session, only for an eligible account, and only once
  GitHub has revoked it;
* an OIDC token is used once; a withdrawn verification key is soon refused; GitHub is
  not flooded; nobody waits for ever;
* a signature is only made for a token that passes the release gate of the
  configuration, or for a live session of an account the policies allow;
* a token is used up by the first request it authenticates, whatever the answer to that
  request is, and tokens of strangers take no room in the server. (That a key exists and
  is unlocked is no secret: `GET /v1/public-key/{key_id}` tells it to anybody.)
* a CLI command asks for at most one login, and a stale session file never fails it;
* a start takes only sound key files and a configuration that the rest relies on;
* a server that serves has its socket at the path, for the right group; a stop answers
  the unlocks that were accepted, and ends; what a killed server leaves does no harm.

PROJECT.json lists the hazards behind these statements, each at its line.

## 2. Modules

| Module | Models |
|---|---|
| `KeyStoreSpec` | abstract: the set of keys that can sign, which grows by one key or by a whole keyring |
| `KeyUnlock` | admin handlers and key store, lock by lock; implements `KeyStoreSpec` |
| `DeviceOAuth` | the exchange of a device token for a session |
| `OidcReplay` | one-time use of OIDC tokens |
| `JwksCache` | verification keys |
| `ExchangeLimiter` | admission to the exchange |
| `SigningPolicy` | identities, policies, the release gate (pure operators) |
| `Startup` | `run_server` up to the sockets: the configuration, the key files, the credential; then tokens for `SigningPolicy` to judge |
| `AdminSocket` | the rest of `run_server`: port, admin socket, shutdown; the CLI's `unlock` |
| `SigningApi` | `create_signature`; composes `KeyStoreSpec`, `SigningPolicy`, and one-step versions of the exchange, the replay cache and the key lookup |
| `CliSession` | the CLI's `sign` and the session file that its invocations share |
| `MC...` | instances for TLC |
| `...Proofs` | theorems: one module per component, but for `OidcProofs` (`OidcReplay` and `JwksCache`, whose names are distinct for this reason) and `StartupProofs` (`Startup` and the operators of `SigningPolicy`) |

### How state and actions correspond to the code

An action is the code between two points at which another actor can interfere: an
await, a lock, or a place where a thread can be preempted with consequences.

*KeyUnlock.* `unlocked` and `poisoned` are the `RwLock`s, `guards[r]` the write guards a
request holds, `available` the semaphore. `Submit`, `Acquire`, `Disconnect` are the
handler; `KeyCheck`, `KeyDecrypt`, `KeyInstall` are `KeyMaterial::unlock`; `RingScan`
(one member per step), `RingLock` (one lock per step) and `RingInstall` (one key per
step) are `unlock_keyring`. `Panic` is a panic of the blocking task where it is possible
at all. `SignValidate` and `SignDigest` are the two looks a signing request takes at a
key; `GetPublicKey` and `PublicKeyPem` are a public key lookup, which holds a read lock while it encodes. A passphrase is a model value and `Opens[k]` the ones that decrypt key `k`.

*DeviceOAuth.* `pc` walks through `complete_github_device_oauth`; each call to GitHub is
sent, acted on (external actions `Github...`) and comes back or fails, so that an answer
can be lost after GitHub has acted. `orphans` are revocations that nobody waits for any
more. `DropGuard` is the `Drop` of `DeviceTokenUseGuard`, which every way out of an
exchange runs. A token's class says what GitHub knows of it.

*OidcReplay.* Time is in ticks, `Tps` to the second: `Instant` shows ticks, `unix_now`
seconds. Validation, the reading of the clocks and the recording are three steps. `Restart` forgets
all jtis and attempts, at any point; `NoReplayBeforeDeadline` speaks of one life, which is
all that the code promises.

*JwksCache.* `holder` is the `jwks_refresh` mutex. `Refresh` is everything from the mutex
to the fetch, `StoreKeys`/`FetchFails` its end, `Answer` the end of `jwk_for`. `clock` is
its time and `stage` where a request is.

*ExchangeLimiter.* `stamp` is the instant read before the mutex. The fallback of
`checked_sub` is not modelled: on Linux an `Instant` can always go back one window.
`limited` is the one error `RateLimited`, which a source gets that has used up its limit,
and also a new source that finds the table full of recent ones, although the text of the
answer speaks of "this source".

*SigningPolicy.* `ValidConfig` is `normalize_and_validate` for identities and policies, given
the ids of the keys,
`MatchesActions` and `Resolves` the resolution of a token, `Authorize` the policies,
`SigningContextOk` is `validate_signing_context`. A text that validators refuse is
`Blank`; `sign` is the only `PolicyAction`. Identities are a function and the keys of a
policy a set, so that three errors of a configuration cannot be written down here:
duplicate or malformed identity ids, empty or duplicate actions, a key listed twice in a policy. `ReleaseGate` is the reference: what an
administrator may rely on, without the code's order of checks.

*Startup.* `phase` is the next system call. `Load` is `Config::load` with all of
`normalize_and_validate`; `Open`, `Fstat` and `Read` are `open_no_follow`, the metadata
checks and `read_limited` with what follows, for each key in turn and last for the
credential; `FromKeys` is `KeyStore::from_keys`. Other processes are not actors: each open
finds any inode, each fstat any length, each read any content. The owner, type and mode
of an open inode are taken to stay. `ScryptBlocks` is what a derivation allocates: the
table of a lane and one block for each of up to `MaxLanes` lanes. Modes are octal digits, key derivations are records
with the code's own bounds as constants. `loaded` is only the key read last, since keys
do not depend on each other; `why` tells what a start failed for. A FIFO at the path of a
key, on which `open` would wait, is refused here at `Fstat`: the wait itself is left out.

*AdminSocket.* `port` has one owner; `file` is whatever is at the path, and every call of
`bind_admin_socket` and of the guard is a step on it. `pc` walks through `run_server`;
`Signal` to `Exit` are the way down: each router drops its listener and drains
(axum's graceful shutdown, modelled from its use), the guard stats and removes, and the runtime waits for blocking
tasks. `overlapped` is history: the server prepared the path while another one's guard
was still to come. Clients `Resolve` the path, ask for a passphrase, `Connect` to whoever
listens by then, and hang up at a `Timeout`. Assumed: servers at one path have
one configuration, hence one port; `UMask=0077` of the unit makes a new socket
private; nobody puts a foreign file there while a server starts. That systemd removes
the runtime directory between two runs is left out: it only makes the path cleaner.

*SigningApi.* `Arrive`, `SessionLookup`, `TokenRejected`, `TokenResolved`, `Validate`,
`Sign`, `SignFails`, `Cancel` are the handler. The handler suspends only while it
authenticates, so that `Cancel` exists only there; `record_jti` comes after the last
await, so that a dropped request never spends a token. `judged` is history: tokens whose
request was answered after it was authenticated (`Judge`). `Restart` loads a configuration
of `Configs` anew. Audit events are left out. Entries of `seen_jtis` do not expire here;
when they do is the subject of `OidcReplay`.

*CliSession.* `pc` walks through `sign`. `Open` and `Load` are `session_cache::load`, which
removes by path what it has judged by descriptor; `Store` and `Commit` are `store`, up to
and with the rename; `Remove` is `remove`. `LoginApproved` is the device flow up to the
exchange, `Mint` the server's part, `Serve` and `Reply` the signing request. Every error
and an interruption at any point is `Abort`. Credentials from the command line or the
runner are sent without any of this. Constants `Timeout` and `Margin` are the API client's
30 seconds and `EXPIRY_SAFETY_MARGIN_SECONDS`; the module assumes what makes the code
right, `Timeout <= Margin`. That a process is stopped between the answer and the clock it
reads in `store`, or that a wall clock is set, is left out.

## 3. Runs

| Run | Shows | Bounds |
|---|---|---|
| `key_unlock` | `KdfBound`, `KeyStaysUsable` (no panic takes away a key that was unlocked), `UnlockTerminates` with the code's one permit | 4 keys, 2 keyrings (one with no active member), 2 passphrases, 2 requests, 1 panic |
| `key_race` | `AllOrNothing`, `ReportIsTrue`, `StoredOnceWithPassphrase`, `ValidatedNeverLocked`, and that `KeyUnlock` implements `KeyStoreSpec`, with two permits: the guarantees do not rest on the semaphore | 3 requests |
| `device_oauth` | `OneSessionPerToken`, `SpentTokensRevoked`, `SessionsEligible`, `InFlightExact`, `TablesBounded`, `TokenReleased` | 3 tokens (one of an account without 2FA), 2 exchanges, tables with 1 entry, 2 instants, any number of restarts |
| `oidc_replay` | `NoReplayBeforeDeadline`, `SeenBounded` | 2 tokens, a clock beyond both deadlines |
| `oidc_boundary` | a violation of `JtiSingleUse`, see below | no preemption |
| `jwks_cache` | `ServedKeyRecent`, `FetchesSpaced`, `WaitersAnswered` (a waiter gets the refresh mutex, unless its client has left) | 2 keys, 2 requests, 4 instants, keys usable for one instant after their lifetime |
| `jwks_staleness` | a violation of `StaleKeysAsDocumented`, see below | 1 key, 1 request, a lifetime shorter than the staleness |
| `exchange_limiter` | `RateHolds`, `RefusalJustified`, `TableBounded` | 2 sources, table of 1, 2 requests, limit 2, window 3, stall 1; so a refusal for either reason happens |
| `startup` | `KeyFilesSound`, `ConfigEstablishes`, `GateExact`: the code's checks are exactly the release gate | all 3888 ways to write the release identity beside another one or none (most are refused), every other setting at and beyond its limits, 14 inodes, key derivations at and next to each limit, with up to 65535 lanes, all tokens within two claims of a release's |
| `admin_socket` | `SocketKept`, `NeverWrongGroup`, `NothingAbandoned`, `LeftoversHarmless`, `StopEnds` | 2 servers, 2 clients, a group, 3 starts, 1 kill; the path free, stale or foreign at first |
| `signing_api` | `TokenSignatureGated`, `SessionSignatureGated`, `TokenJudgedOnce`, `ForeignTokensNotRecorded` | 2 keys, 3 tokens, a session, 2 lives with different configurations, one request at a time |
| `cli_session` | `OneLogin`, `LoadedNotExpired`, `StaleFileRetried`, `InvocationEnds` | 2 invocations and the file of an earlier one, a clock beyond the end of a session, 1 restart |

Two concurrent requests, two keys in a ring that differ in their passphrases, tables
with one entry and clocks that reach past every deadline are the smallest instances in
which each hazard happens: every property has a mutant, a plausible bug in the named
code, that violates it within these bounds. `signing_api` has one request because
requests share nothing in this module but `spent`, whose races are `OidcReplay`'s; its
proofs hold for any number.

`KeyUnlock` assumes of its keyrings what `from_keys` has checked, that no key is in two of
them or twice in one; `ConfigEstablishes` in `startup` shows that nothing else gets there.
The classes of device tokens that `device_oauth` leaves out (another application's,
without the scope, of an account that is not configured) are covered by its proofs.

`TypeOK` of every module is proved, for every instance. `jwks_cache` and
`exchange_limiter` check it as well, because there it also says who holds the refresh
mutex and where the permits are. Deadlock is checked in every run.

`SocketKept` and `LeftoversHarmless` except a server that prepared the path before the
guard of its predecessor had run: that guard removes whatever socket it finds
(`AdminSocketGuard::drop`), and the successor then serves without a path. The unit never
starts a service before the last one has ended, so that this takes a server started by hand.

### Fairness

* `UnlockTerminates`: the blocking pool runs a task that was spawned, the semaphore of
  tokio serves its waiters in order, and locks are released by tasks that run.
* `TokenReleased`: weak fairness of the steps of an exchange, each await being bounded
  by the 8 second timeout of the HTTP client.
* `WaitersAnswered`: tokio's mutex serves its waiters in order (strong fairness of taking
  it, which other requests may do in between), and a fetch ends by its timeout.
* `InvocationEnds`: weak fairness of an invocation's steps, failure being one of them:
  requests have a timeout and polling ends when the device code expires.
* `StopEnds`: weak fairness of the way down and of the admin handlers: a process that is
  not killed goes on, a decryption ends, an answer ends its connection. A request to the
  public API may last for ever, so that the property speaks of servers that have none.

No fairness is assumed of GitHub, of clients or of the clock.

### Findings

*One-time tokens (`oidc_boundary`).* `record_jti` keeps a jti for whole seconds from the instant of its use, up to a point
inside the second `exp + leeway`; jsonwebtoken accepts the token during the whole of
that second. In between the token can be used again, unlike the comment "One-time use"
and the test `github_actions_jti_is_single_use` say. `NoReplayBeforeDeadline` is the
guarantee that does hold, up to the start of that second. Keeping entries for one second more
would close the gap.

*Stale keys (`jwks_staleness`).* The comment on `JWKS_MAX_STALENESS` (`src/auth.rs:38`) says
that fetched keys remain usable for that long "after their last successful fetch";
`jwk_for` adds the time to live to it (`src/auth.rs:747`). `ServedKeyRecent` is the bound
that the code keeps.

Met on the way, and without a run of its own: `src/api.rs:118` says that "scrypt may use up
to 1 GiB", which `MAX_SCRYPT_MEMORY_BYTES` is meant for. The policy holds 128·N·r bytes to it, but
scrypt also keeps 128·r·p bytes for its lanes, which only `MAX_SCRYPT_WORK` bounds: a key
file with N=4, r=512, p=65535 is accepted (it is one of the `startup` run) and takes about
4 GiB to open. `KeyFilesSound` therefore states the bound that follows from all limits
together, and not 1 GiB.

## 4. Proofs

Everything below is proved for all values of the constants, from the ASSUMEs of the
modules (which TLC evaluates in each run): types of the constants, `None` distinct from
real values, what `KeyStore::from_keys` has checked, limits positive, durations natural numbers.

* `KeyUnlockProofs`: `TypeCorrect`, `KdfBounded`, `NeverLockedAgain`, `RingAllOrNothing`,
  `KeysStoredOnce`. `KdfBound` needs that permits and blocking tasks add up
  (`PermitInv`). `AllOrNothing` is not inductive: `IndInv` adds, per request, what the
  scan has covered so far (`ScanInv`: the members before the cursor are inactive,
  unlocked, decrypted or failed), that what it has decrypted is active and opens with
  its passphrase (`DecryptedInv`), and that it stores nothing before the installing loop
  and what it stored stays (`InstalledInv`). As no key is ever locked again, the locked
  members of the scan can only become fewer while the request waits for locks.

  `ReportsTrue`, `UsableKeysStay` and `StoreRefines` need more (`StoreInv`), as they are
  about the locks. A request holds the guards of exactly the keys it has locked and not
  yet installed, no two requests hold the same one, and no key is locked twice
  (`LockInv`, `Exclusive`). The report is written before what it reports has happened:
  `ReportInv` says that a member reported as unlocked is one that was tried, then one
  that is still to be installed, then one that was installed. With one permit, a key
  that a keyring request has decrypted is not unlocked by anybody else, unless its lock
  was poisoned before (`AloneInv`): so a panic with guards held costs no usable key.
  For the refinement, a key counts as unlocked in `KeyStoreSpec` when its keyring
  request takes its last guard (`RingLockMaps`: one step there for the whole keyring);
  the installation of each key is then a stutter (`RingInstallMaps`), because the guard
  hides the key from readers until it is stored.
* `DeviceOAuthProofs`: all safety properties of `DeviceOAuth`. The invariant says that
  in-flight entries and running exchanges are in bijection (`Exclusive`), and that an
  exchange past its revocation has a token that GitHub no longer knows and that gave no
  session before (`RevokedBeforeMint`, `PassedUnspent`): a second exchange of such a
  token cannot pass GitHub's check, even after a restart.
* `OidcProofs`: `NoReplay`. An entry about to be made outlives the deadline
  although it is computed from two clocks (`UntilCoversDeadline`), so an accepted token
  stays recorded until then (`RecordedUntilDeadline`). `CacheBounded` counts the
  entries: pruning only removes some, and the limit is tested after it (`CacheInv`).
  Of the verification keys: `JwksTypeCorrect`, `ServedKeysRecent`, `FetchesAreSpaced`,
  from `JwksInv`. What a fetch brings was published after the fetch was sent, and it is
  stored within the timeout (`FetchInv`); hence a cached key was published at most one
  timeout before it was stored (`CachedInv`), and later rotations only make that instant
  later. That is the bound with the sum that `jwk_for` computes. The interval between fetches rests on `last_attempt` being set with the mutex
  held and before the fetch.
* `ExchangeLimiterProofs`: `TypeCorrect`, `RateLimited`, `TableStaysBounded`,
  `RefusalsJustified`. Requests enter the table out of the order of their stamps, so the
  queue of a source is not sorted, and `pop_front` may leave stale stamps behind a
  fresh one. What helps is that the queue and the history of counted attempts end with
  the same attempts, one by one and at most a stall apart (`Aligned`). What the queue
  has lost was counted too long ago to matter for the rate; what is behind a fresh
  front was counted after it, hence recently enough for a refusal. `PopStaleDrops` says
  what the popping loop removes, `DropQueue`, `DropHistory`, `CountOne` and `Later` that
  each change keeps the two aligned. The permits are counted with the admitted requests
  (`PermitTaken`, `PermitBack`), the sources in `RoomForSource`. A refusal because of the
  full table comes after pruning, so that every source in it has a fresh stamp
  (`PrunedFresh`), hence an attempt counted within the window and a stall (`FreshCounted`).
* `SigningApiProofs`: `TokensGated` and `SessionsGated`, from `ChecksMakeGate`;
  `RequestInv` carries the result of each stage to the next while keys, sessions and
  configurations change; `SessionsInv` ties each session to the life, account and
  instant it was minted for. That a signature comes from `Sign` alone is `LateReplies`.
  `JudgedOnce` needs `JudgedInv`: a token past authentication is spent, has not been
  answered and is with one request only; judged tokens stay spent. `ForeignKeptOut` is inductive by itself, as a restart empties the
  cache together with the configuration.
* `CliSessionProofs`: `LoginOnce`, `MarginSuffices`, `StaleRetried`. A file counts its
  session at most a margin longer than the server (`FilesLate`), because an answer is at
  most a timeout old when it is stored (`AnswerInTime`). The flags of an invocation tell
  whose session it holds (`OwnSession`), and a refused session is never accepted again,
  as no token is handed out twice (`RefusedForGood`).
* `StartupProofs`: `FilesSound`, `Establishes`, `Exact`. The invariant says that a
  configuration is kept only once it is valid and that a key file is read only once the
  open inode was found protected. That an accepted scrypt has the minimal work is a
  product of two bounds (`WorkBounded`); that its lanes take at most a third of the maximal
  work follows from the minimal cost, as a parallelization has 16 bits (`LanesBounded`). `ChecksAreGate` is about `SigningPolicy` alone:
  with a valid configuration, resolution, authorization and context check together are
  equivalent to the release gate; each direction is a lemma (`ChecksMakeGate`,
  `GatePassesChecks`).
* `AdminSocketProofs`: `Kept`, `GroupSafe`, `AllAnswered`, `StartsOver`. What protects the
  path is the port: from its bind on, a server is alone on the way up (`PortInv`).
  As long as no guard is still to come, the path holds what the server's last step
  made of it (`PathInv`); the group is set before the mode, on whatever is there
  (`GroupInv`); a drained server gets no new client (`DrainedInv`).

Every invariant, action property and refinement that a passing run checks is proved.
Only model-checked are the liveness properties, `UnlockTerminates`, `TokenReleased`,
`WaitersAnswered`, `StopEnds` and `InvocationEnds`: fairness is beyond the prover. The
inductive invariants were checked by TLC as well before they were proved.

## 5. Not modelled

* Parsing and encoding of requests, configuration files, PEM, DER and tokens: these
  succeed or fail. So do the cryptographic operations.
* Audit events: best effort, no state depends on them.
* The CLI's `public-key`: one request, whose answer is written to a file.
* The wall clock being set, by an administrator or by NTP.
* Packaging, units and CI, except where a module assumes what the unit sets.

## 6. Plan

The safety properties of all runs are proved. Next: lemmas towards the liveness
properties that are plain invariants (who can make the next step in each state), and
the link between `SigningApi`'s one-step replay cache and exchange and the modules that
detail them, as refinements.
