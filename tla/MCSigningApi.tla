---------------------------- MODULE MCSigningApi ----------------------------
(* An instance of SigningApi: the release identity of one repository, and   *)
(* the accounts of two maintainers.                                         *)
EXTENDS SigningApi, TLC

MCKeys == {"k1", "k2"}
MCKeyState == [k \in MCKeys |-> IF k = "k1" THEN "active" ELSE "retired"]
MCRingKeys == "g1" :> <<"k1", "k2">>
MCOpens == [k \in MCKeys |-> {"p1"}]
MCLower == [t \in {"own/fw", "Own/FW", "aa", "AA", "bb"} |->
              CASE t = "Own/FW" -> "own/fw" [] t = "AA" -> "aa" [] OTHER -> t]

Unset == [kind |-> "actions", user |-> None, login |-> None, repoId |-> None, repo |-> None,
          workflow |-> None, events |-> None, refTypes |-> None, env |-> None,
          runner |-> None, shas |-> None]

Account(u) == [Unset EXCEPT !.kind = "account", !.user = u]
Everywhere == [Unset EXCEPT !.repoId = "7"]
Release == [Everywhere EXCEPT !.workflow = "release.yml", !.events = {"push"}, !.env = "rel"]

Policy(a, keys) == [identity |-> a, keys |-> keys]

GoodClaims == [repoId |-> "7", repo |-> "own/fw", event |-> "push", refType |-> "tag",
               ref |-> "refs/tags/v1", workflowRef |-> <<"own/fw", "release.yml", "refs/tags/v1">>,
               env |-> "rel", runner |-> "hosted", sha |-> "aa", protected |-> "true"]

\* The release configuration, the one that followed when Ann had left, and one that
\* Config::load refuses.
ReleaseConfig ==
  [identity |-> ("rel" :> Release) @@ ("ann" :> Account("1")),
   policies |-> {Policy("rel", {"k1"}), Policy("ann", {"*"})}]
LaterConfig ==
  [identity |-> ("rel" :> Release) @@ ("bob" :> Account("2")),
   policies |-> {Policy("bob", {"k2"})}]
BrokenConfig ==
  [identity |-> "rel" :> Everywhere, policies |-> {Policy("rel", {"*"})}]

MCConfigs == {ReleaseConfig, LaterConfig, BrokenConfig}
MCClaims == {GoodClaims, [GoodClaims EXCEPT !.protected = "text_false"],
             [GoodClaims EXCEPT !.env = None]}

=============================================================================
