---------------------------- MODULE SigningPolicy ----------------------------
(***************************************************************************)
(* Who may sign with which key: the identities and policies a              *)
(* configuration may have (src/config.rs, normalize_and_validate and       *)
(* validate_actions_identity), how a GitHub Actions token is resolved to   *)
(* an identity (src/auth.rs, matches_github_actions_identity), what a      *)
(* policy grants (src/authorization.rs) and what a signing request from    *)
(* GitHub Actions must show besides (src/api.rs,                           *)
(* validate_signing_context).                                              *)
(*                                                                         *)
(* A configuration is a record: identity is a function from identity ids   *)
(* to identities, policies a set.  An absent option is None.  `sign' is    *)
(* the only PolicyAction, so that a policy is an identity and its keys.    *)
(***************************************************************************)
CONSTANTS
  Lower,          \* Lower[t]: text t as eq_ignore_ascii_case sees it
  WorkflowPaths,  \* paths of files below .github/workflows/
  CommitShas,     \* full commit hashes
  TagRefs,        \* refs that name a tag under refs/tags/
  Blank,          \* a text that the validators refuse, blank or malformed
  None            \* an option that is not set

ASSUME PathsAssumption == None \notin WorkflowPaths

-----------------------------------------------------------------------------
(* Configuration.                                                          *)

Constrained(i) ==
  \E option \in {"workflow", "events", "refTypes", "env", "runner", "shas"} : i[option] # None

\* validate_actions_identity
ValidateActionsIdentity(i) ==
  Constrained(i) =>
    /\ i.workflow \in WorkflowPaths
    /\ i.events # None /\ i.events # {} /\ Blank \notin i.events
    /\ i.refTypes # None => i.refTypes # {} /\ Blank \notin i.refTypes
    /\ i.env # Blank /\ i.runner # Blank
    /\ i.shas # None => i.shas # {} /\ i.shas \subseteq CommitShas

\* An account has a user id and no workflow fields, Actions the reverse.
ValidIdentity(i) ==
  \/ /\ i.kind = "account"
     /\ i.user \notin {None, Blank} /\ i.login # Blank
     /\ i.repoId = None /\ i.repo = None /\ ~Constrained(i)
  \/ /\ i.kind = "actions"
     /\ i.repoId \notin {None, Blank} /\ i.user = None /\ i.login = None
     /\ i.repo # Blank
     /\ ValidateActionsIdentity(i)

\* A policy names an identity and keys that exist; an Actions identity that may
\* sign is bound to a workflow, to an environment and to tags.
ValidPolicy(config, keys, p) ==
  LET i == config.identity[p.identity] IN
  /\ p.identity \in DOMAIN config.identity
  /\ p.keys # {} /\ p.keys \subseteq keys \cup {"*"}
  /\ i.kind = "actions" =>
       /\ i.workflow # None /\ i.env # None
       /\ i.refTypes # None => i.refTypes \subseteq {"tag"}

\* normalize_and_validate, the part on identities and policies; keys are the ids of
\* the configured keys.
ValidConfig(config, keys) ==
  /\ DOMAIN config.identity # {} /\ config.policies # {}
  /\ \A a \in DOMAIN config.identity : ValidIdentity(config.identity[a])
  /\ \A a, b \in DOMAIN config.identity :
       /\ config.identity[a].kind = "account" /\ config.identity[b].kind = "account"
       /\ config.identity[a].user = config.identity[b].user
       => a = b
  /\ \A p \in config.policies : ValidPolicy(config, keys, p)

-----------------------------------------------------------------------------
(* Authentication.                                                         *)

\* Mutant: the environment is compared only when the token has one.
MutantMatchesActions(i, c) ==
  /\ i.kind = "actions" /\ i.repoId = c.repoId
  /\ i.repo # None => Lower[i.repo] = Lower[c.repo]
  /\ i.workflow # None =>
       /\ i.events # None /\ c.event \in i.events
       /\ IF i.refTypes # None THEN c.refType \in i.refTypes ELSE c.refType = "tag"
       /\ c.workflowRef = <<c.repo, i.workflow, c.ref>>
       /\ i.env # None /\ c.env # None => c.env = i.env
       /\ i.runner # None => c.runner = i.runner
       /\ i.shas \notin {None, {}} => c.sha # None /\ \E s \in i.shas : Lower[s] = Lower[c.sha]

\* matches_github_actions_identity.  workflow_ref is put together from the
\* repository and the ref of the token and the path of the identity.
MatchesActions(i, c) ==
  /\ i.kind = "actions" /\ i.repoId = c.repoId
  /\ i.repo # None => Lower[i.repo] = Lower[c.repo]
  /\ i.workflow # None =>
       /\ i.events # None /\ c.event \in i.events
       /\ IF i.refTypes # None THEN c.refType \in i.refTypes ELSE c.refType = "tag"
       /\ c.workflowRef = <<c.repo, i.workflow, c.ref>>
       /\ i.env # None => c.env = i.env
       /\ i.runner # None => c.runner = i.runner
       /\ i.shas \notin {None, {}} => c.sha # None /\ \E s \in i.shas : Lower[s] = Lower[c.sha]

Matching(config, c) ==
  {a \in DOMAIN config.identity : MatchesActions(config.identity[a], c)}

\* resolve_github_actions_identity: two matching identities are no identity.
Resolves(config, c, a) == Matching(config, c) = {a}

-----------------------------------------------------------------------------
(* Authorization.                                                          *)

\* Authorizer::authorize
Authorize(config, a, k) ==
  \E p \in config.policies : p.identity = a /\ ("*" \in p.keys \/ k \in p.keys)

\* claim_is_true: GitHub sends a boolean or a string.
ClaimIsTrue(v) == v \in {"true", "text_true"}

\* Mutant: a tag is enough.
MutantSigningContextOk(c) == c.refType = "tag" /\ c.ref \in TagRefs

\* validate_signing_context
SigningContextOk(c) == c.refType = "tag" /\ ClaimIsTrue(c.protected) /\ c.ref \in TagRefs

-----------------------------------------------------------------------------
\* What the configuration promises its administrator, said without the code's
\* order of checks: the token comes from a protected tag, from the configured
\* workflow file of the repository, run for an event the identity allows, in the
\* environment that guards releases, on the runners and at the commits it is
\* pinned to if it is; the identity may use the key, and nobody else's identity
\* fits the token.
ReleaseGate(config, c, k) ==
  \E a \in DOMAIN config.identity :
    LET i == config.identity[a] IN
    /\ \E p \in config.policies : p.identity = a /\ p.keys \cap {"*", k} # {}
    /\ c.repoId = i.repoId
    /\ i.repo # None => Lower[c.repo] = Lower[i.repo]
    /\ i.workflow \in WorkflowPaths /\ c.workflowRef = <<c.repo, i.workflow, c.ref>>
    /\ c.event \in i.events
    /\ c.env = i.env /\ c.env \notin {None, Blank}
    /\ i.runner # None => c.runner = i.runner
    /\ i.shas # None => c.sha # None /\ \E s \in i.shas : Lower[s] = Lower[c.sha]
    /\ c.refType = "tag" /\ c.ref \in TagRefs /\ c.protected \in {"true", "text_true"}
    /\ \A b \in DOMAIN config.identity : MatchesActions(config.identity[b], c) => b = a
=============================================================================
