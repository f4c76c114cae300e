------------------------------ MODULE MCStartup ------------------------------
(* Starts with every way to write the release identity of a repository     *)
(* that may have a second identity, and tokens that differ from a          *)
(* release's in at most two claims; and, with one good identity, every     *)
(* other setting at and beyond its limits.  Files have every protection,   *)
(* and key encryptions at and next to their limits.                        *)
EXTENDS Startup, TLC

MCLower == [t \in {"own/fw", "Own/FW", "aa", "AA", "bb"} |->
              CASE t = "Own/FW" -> "own/fw" [] t = "AA" -> "aa" [] OTHER -> t]

Unset == [kind |-> "actions", user |-> None, login |-> None, repoId |-> None, repo |-> None,
          workflow |-> None, events |-> None, refTypes |-> None, env |-> None,
          runner |-> None, shas |-> None]

Everywhere == [Unset EXCEPT !.repoId = "7"]
Release == [Everywhere EXCEPT !.workflow = "release.yml", !.events = {"push"}, !.env = "rel"]
Nightly == [Release EXCEPT !.env = "nightly", !.refTypes = {"tag", "branch"}]
Account == [Unset EXCEPT !.kind = "account", !.user = "5"]

\* What an administrator may write for the release identity, some of it refused.
Written ==
  [kind : {"actions"}, user : {None}, login : {None}, repoId : {"7"},
   repo : {None, "Own/FW"},
   workflow : {None, "release.yml", "../release.yml"},
   events : {None, {"push"}, {"push", Blank}},
   refTypes : {None, {"tag"}, {"tag", "branch"}},
   env : {None, "rel", Blank},
   runner : {None, "hosted"},
   shas : {None, {}, {"AA"}, {"short"}}]

Policy(a, keys) == [identity |-> a, keys |-> keys]
Key(id) == [id |-> id, credential |-> FALSE]
Ring(id, keys) == [id |-> id, keys |-> keys]
Mode(above, owner, group, others) ==
  [above |-> above, owner |-> owner, group |-> group, others |-> others]

Base ==
  [identity |-> "rel" :> Release, policies |-> {Policy("rel", {"k1"})},
   known |-> TRUE, loopback |-> TRUE, allowNonLoopback |-> FALSE, group |-> None,
   absolute |-> TRUE, mode |-> Mode(0, 6, 6, 0),
   keys |-> <<Key("k1"), Key("k2")>>, rings |-> <<Ring("g1", <<"k1", "k2">>)>>,
   texts |-> {"text"}, sessionTtl |-> MaxSessionTtl, jwksTtl |-> 1]

\* The release identity alone, and next to a second one of the same repository that
\* may not sign.
Identities ==
  {"rel" :> i : i \in Written}
  \cup {("rel" :> i) @@ ("other" :> o) : i \in Written, o \in {Nightly, Everywhere}}

\* Accounts: two of one user, one with the fields of a workflow, one without a user.
Accounts ==
  {("rel" :> Release) @@ ("a" :> Account) @@ ("b" :> o) :
     o \in {Account, [Account EXCEPT !.user = "6"], [Account EXCEPT !.env = "rel"],
            [Account EXCEPT !.user = None]}}

RingLists ==
  {<<>>, <<Ring("g1", <<"k1">>), Ring("g2", <<"k2">>)>>,
   <<Ring("g1", <<"k1">>), Ring("g2", <<"k1">>)>>, <<Ring("g1", <<"k1", "k1">>)>>,
   <<Ring("g1", <<"k1">>), Ring("g1", <<"k2">>)>>, <<Ring("g1", <<>>)>>,
   <<Ring("g1", <<"k9">>)>>, <<Ring(Blank, <<"k1">>)>>}

KeyLists ==
  {<<>>, <<Key("k1"), Key("k1")>>, <<Key("k1"), Key(Blank)>>,
   <<Key("k1"), [Key("k2") EXCEPT !.credential = TRUE]>>}

Modes == {Mode(a, o, g, e) : a \in {0, 1}, o \in {4, 6, 7}, g \in {0, 6}, e \in {0, 4}}

PolicySets ==
  {{}, {Policy("rel", {})}, {Policy("rel", {"k9"})}, {Policy("nobody", {"k1"})},
   {Policy("rel", {"*"})}, {Policy("rel", {"k2"}), Policy("rel", {"k1"})}}

MCConfigs ==
  {[Base EXCEPT !.identity = f] : f \in Identities \cup Accounts \cup {<<>>}}
  \cup {[Base EXCEPT !.policies = p] : p \in PolicySets}
  \cup {[Base EXCEPT !.rings = g] : g \in RingLists}
  \cup {[Base EXCEPT !.keys = k] : k \in KeyLists}
  \cup {[Base EXCEPT !.mode = m] : m \in Modes}
  \cup {[Base EXCEPT !.loopback = FALSE, !.allowNonLoopback = b] : b \in BOOLEAN}
  \cup {[Base EXCEPT !.sessionTtl = n] : n \in {0, 1, MaxSessionTtl + 1}}
  \cup {[Base EXCEPT !.known = FALSE], [Base EXCEPT !.absolute = FALSE],
        [Base EXCEPT !.group = "operators"], [Base EXCEPT !.group = Blank],
        [Base EXCEPT !.texts = {"text", Blank}], [Base EXCEPT !.jwksTtl = 0]}

MCInodes ==
  [kind : {"regular"}, owner : {"root", "service", "other"},
   mode : {Mode(0, 6, 0, 0), Mode(0, 6, 4, 0), Mode(0, 6, 6, 0), Mode(0, 6, 4, 4)}]
  \cup [kind : {"symlink", "directory"}, owner : {"root"}, mode : {Mode(0, 7, 0, 0)}]

Scrypt(n, r, p) == [name |-> "scrypt", n |-> n, r |-> r, p |-> p]
Pbkdf2(prf, n) == [name |-> "pbkdf2", prf |-> prf, iterations |-> n]

\* At the limits: OWASP's two settings, 1 GiB, the most work, the most lanes; and just
\* outside them.
Kdfs ==
  {Scrypt(2^17, 8, 1), Scrypt(2^14, 8, 8), Scrypt(2^20, 8, 16), Scrypt(2^14, 8, 1024),
   Scrypt(2^17, 7, 2), Scrypt(2^14, 8, 7), Scrypt(2^20, 9, 1), Scrypt(2^14, 8, 1025),
   Scrypt(2^16, 128, 17), Scrypt(4, 512, 65535), Scrypt(4, 513, 65535), Scrypt(2, 1024, 65535),
   Pbkdf2("sha256", 600000), Pbkdf2("sha512", 50000000), Pbkdf2("sha1", 600000),
   Pbkdf2("sha256", 599999), Pbkdf2("sha256", 50000001), [name |-> "other"]}

Pem ==
  [utf8 |-> TRUE, len |-> 1, blocks |-> 1, label |-> "encrypted", scheme |-> "pbes2",
   cipher |-> "aes256", kdf |-> Scrypt(2^17, 8, 1), onlyLineEnds |-> FALSE]

MCContents ==
  {[Pem EXCEPT !.kdf = k] : k \in Kdfs}
  \cup {[Pem EXCEPT !.len = n] : n \in Lengths} \cup {[Pem EXCEPT !.blocks = n] : n \in {0, 2}}
  \cup {[Pem EXCEPT !.utf8 = FALSE], [Pem EXCEPT !.label = "other"],
        [Pem EXCEPT !.scheme = "pbes1"], [Pem EXCEPT !.cipher = "aes128"],
        [Pem EXCEPT !.blocks = 0, !.onlyLineEnds = TRUE]}

GoodClaims == [repoId |-> "7", repo |-> "own/fw", event |-> "push", refType |-> "tag",
               ref |-> "refs/tags/v1", workflowRef |-> <<"own/fw", "release.yml", "refs/tags/v1">>,
               env |-> "rel", runner |-> "hosted", sha |-> "aa", protected |-> "true"]

AllClaims ==
  [repoId : {"7", "8"}, repo : {"own/fw", "Own/FW"}, event : {"push", "pull_request"},
   refType : {"tag", "branch"}, ref : {"refs/tags/v1", "refs/tags/", "refs/heads/v1"},
   workflowRef : {"own/fw"} \X {"release.yml", "other.yml"} \X {"refs/tags/v1", "refs/heads/v1"},
   env : {"rel", "nightly", None}, runner : {"hosted", None}, sha : {"aa", "bb", None},
   protected : {"true", "text_true", "false", "text_false", "absent"}]

MCClaims == {c \in AllClaims : Cardinality({f \in DOMAIN c : c[f] # GoodClaims[f]}) <= 2}
=============================================================================
