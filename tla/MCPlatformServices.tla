--------------------------- MODULE MCPlatformServices ---------------------------
(* PlatformServices for TLC: for each service, what it is sound to ask of it *)
(* and what it must refuse.                                                  *)
EXTENDS PlatformServices, TLC

CONSTANTS p1, p2, k1, k2, a1, a2

MCCtUsdConfigs ==
    {[collateral |-> 2, minted |-> 1, price |-> 1], [collateral |-> 1, minted |-> 1, price |-> 2]}

Attested(price) == [oracle |-> TRUE, price |-> price, signed |-> TRUE]

(* Enough, one unsigned, one without a price.                                *)
MCAttestationLists ==
    {<<Attested(1), Attested(2), Attested(1)>>,
     <<Attested(2), [Attested(1) EXCEPT !.signed = FALSE], Attested(1)>>,
     <<Attested(0), Attested(2), Attested(1), Attested(2)>>}

(* In the second session p2 is no participant.                               *)
MCSessionMembers == {<<p1, p2>>, <<p1, p1>>}

MCShadowBlocks ==
    {[number |-> 1, fork |-> "a", txs |-> 1], [number |-> 1, fork |-> "b", txs |-> 0],
     [number |-> 2, fork |-> "a", txs |-> 2]}

---------------------------------------------------------------------------
Claim(who, artifact, base, impact, quality) ==
    [who |-> who, artifact |-> artifact, base |-> base, impact |-> impact, quality |-> quality,
     number |-> "finite", evidenced |-> TRUE]

(* The first alone reaches 28.8 of the 40 units a month, the second 60; the     *)
(* third takes 28.8 away.                                                    *)
MCClaimRequests ==
    {Claim(k1, a1, 12, 200, 120), Claim(k1, a2, 12, 200, 250), Claim(k1, a1, 12, -200, 120),
     [Claim(k2, a2, 8, 0, 0) EXCEPT !.number = "infinite"],
     [Claim(k1, a1, 12, 200, 120) EXCEPT !.evidenced = FALSE]}

MCEnvironments == {Gates, Gates \ {"governanceRatified"}}

Vote(proposal, choice, finite) ==
    [kind |-> "vote", proposal |-> proposal, choice |-> choice, finite |-> finite]

MCSidlRequests ==
    {Vote("seeded", "yes", TRUE), Vote("seeded", "no", FALSE), Vote("named", "yes", TRUE),
     [kind |-> "tally", proposal |-> "named"],
     [kind |-> "challenge", mandate |-> "m"], [kind |-> "pay", mandate |-> "m"]}

---------------------------------------------------------------------------
MCPermissions == [x \in Services |-> IF x = "dashboard" THEN {"int", "r", "w"} ELSE {"int", "r"}]

JwtConfig(mode, ttl, skew) == [mode |-> mode, ttl |-> ttl, skew |-> skew, complete |-> TRUE]

MCJwtConfigs ==
    {JwtConfig("legacy", 2, 1), JwtConfig("dual", 3, 1), JwtConfig("jwt", 2, 0), JwtConfig("jwt", 4, 1)}

AuthRequest(bearer, token, admin, key, external) ==
    [bearer |-> bearer, token |-> token, admin |-> admin, service |-> key, external |-> external]

NoBearer == [kind |-> "none"]

BearerJwt(sub, scopes) ==
    [kind |-> "jwt",
     jwt |-> [good |-> TRUE, sub |-> sub, scopes |-> scopes, iat |-> 1, nbf |-> 1, exp |-> 3]]

\* A token may be made with a lifetime that is already over: the service does
\* not look at the sign of it.
MCTokenTtls == {-1, 2}

MCAuthRequests ==
    {AuthRequest(NoBearer, 0, "good", "none", "none"), AuthRequest(NoBearer, 0, "bad", "nexus", "known"),
     AuthRequest(NoBearer, 0, "bad", "bad", "known"), AuthRequest(NoBearer, 1, "good", "none", "none"),
     AuthRequest([kind |-> "malformed"], 1, "good", "nexus", "known"),
     AuthRequest([kind |-> "token", token |-> 1], 0, "none", "none", "none"),
     AuthRequest(BearerJwt("nexus", {"int", "r"}), 0, "good", "none", "none"),
     AuthRequest(BearerJwt("nexus", {"int", "w"}), 0, "none", "none", "none")}

---------------------------------------------------------------------------
Task(dependsOn, required, attempts) ==
    [dependsOn |-> dependsOn, required |-> required, attempts |-> attempts, timeout |-> 1]

Graph(nodes) ==
    [id |-> "g", root |-> 1, nodes |-> nodes,
     limits |-> [nodes |-> 3, depth |-> 3, retries |-> 1, timeout |-> 1]]

(* A chain and a fork of tasks; a cycle, and more retries than are allowed.   *)
MCTaskGraphs ==
    {Graph(<<Task({}, TRUE, 1), Task({1}, TRUE, 2), Task({2}, FALSE, 1)>>),
     Graph(<<Task({3}, TRUE, 1), Task({3}, TRUE, 2), Task({}, FALSE, 1)>>),
     Graph(<<Task({2}, TRUE, 1), Task({1}, TRUE, 1)>>), Graph(<<Task({}, TRUE, 3)>>)}

TaskResult(graph, task, attempt, status, answer) ==
    [graph |-> graph, task |-> task, attempt |-> attempt, status |-> status, answer |-> answer,
     error |-> status # "SUCCEEDED", digest |-> TRUE]

MCSwarmResults ==
    {TaskResult("g", 1, 1, "SUCCEEDED", "x"), TaskResult("g", 1, 1, "SUCCEEDED", "y"),
     TaskResult("g", 2, 1, "FAILED", "x"), TaskResult("g", 2, 2, "SUCCEEDED", "x"),
     TaskResult("g", 2, 1, "SUCCEEDED", "x"), TaskResult("g", 2, 2, "FAILED", "x"),
     TaskResult("g", 3, 1, "CANCELLED", "x"), TaskResult("g", 3, 1, "SUCCEEDED", "x"),
     TaskResult("h", 3, 1, "SUCCEEDED", "x"), [TaskResult("g", 3, 1, "FAILED", "x") EXCEPT !.digest = FALSE]}

ContextEntry(id, key, token, precedence, captured, stale, expires) ==
    [id |-> id, key |-> key, token |-> token, precedence |-> precedence, captured |-> captured,
     stale |-> stale, expires |-> expires]

Repo == ContextEntry(1, 1, "repo", 600, 0, 1, 2)
Given == ContextEntry(2, 1, "task", 700, 0, 2, 0)
RepoLater == ContextEntry(3, 1, "repo", 600, 1, 0, 0)
OtherKey == ContextEntry(4, 2, "repo", 300, 0, 2, 0)
Unlisted == ContextEntry(5, 1, "bad", 700, 0, 0, 0)

Reversed == ContextEntry(6, 2, "task", 700, 1, 1, 0)

MCContextEntries == {Repo, Given, RepoLater, OtherKey, Unlisted, Reversed}

MCContextPackages == {{Repo}, {Given, OtherKey}, {RepoLater}, {Repo, OtherKey}, {RepoLater, Unlisted},
                      {Repo, Reversed}}

Offers(priority, version, traits) ==
    [priority |-> priority, offers |-> [x \in {"build"} |-> [version |-> version, traits |-> traits]]]

MCAgentOffers ==
    <<Offers(2, <<1, 2, 3>>, {"x"}), Offers(1, <<0, 2, 3>>, {"x"}), Offers(1, <<0, 0, 2>>, {}),
      Offers(0, <<0, 3, 0>>, {"x"}), [priority |-> 0, offers |-> <<>>]>>

Requirement(ranges, traits) == [capability |-> "build", ranges |-> ranges, traits |-> traits]

Bound(op, version) == [op |-> op, version |-> version]

MCTaskRequirements ==
    {{}, {Requirement({Bound("^", <<0, 2, 1>>)}, {"x"})}, {Requirement({Bound("^", <<0, 0, 2>>)}, {})},
     {Requirement({Bound("^", <<1, 0, 0>>), Bound("<", <<1, 3, 0>>)}, {})},
     {Requirement({Bound("~", <<1, 2, 0>>), Bound("<=", <<1, 2, 3>>)}, {})},
     {Requirement({Bound(">", <<2, 0, 0>>)}, {})},
     {Requirement({Bound("=", <<0, 3, 0>>)}, {}),
      Requirement({Bound(">=", <<0, 2, 0>>), Bound("*", <<0, 0, 0>>)}, {})}}

---------------------------------------------------------------------------
File(content) == [kind |-> "file", is |-> content]
Text(text) == [form |-> "text", text |-> text]
SkillFile(name) == File([form |-> "skill", name |-> name])
Entry(path, required, priority) == [path |-> path, required |-> required, priority |-> priority]
ManifestFile(entries) == File([form |-> "manifest", supported |-> TRUE, entries |-> entries])
Registered(id, status, default) == [id |-> id, path |-> id, status |-> status, default |-> default]
RegistryFile(skills) == File([form |-> "registry", skills |-> skills])

MCFirstDisk ==
    [manifest |-> ManifestFile(<<Entry("instructions", TRUE, 1), Entry("guide", FALSE, 2)>>),
     registry |-> RegistryFile(<<Registered("s1", "active", TRUE), Registered("s2", "active", FALSE)>>),
     instructions |-> File(Text("a")), guide |-> File(Text("g")),
     s1 |-> SkillFile("s1"), s2 |-> SkillFile("s2")]

NoFiles ==
    {[kind |-> "missing", is |-> Text("none")], [kind |-> "directory", is |-> Text("none")],
     [kind |-> "outside", is |-> Text("o")]}

MCDiskChanges ==
    [path : {"instructions", "guide", "s1", "registry", "manifest"}, file : NoFiles]
    \cup [path : {"instructions", "guide"}, file : {File(Text("b"))}]
    \cup {[path |-> "s1", file |-> SkillFile("s2")]}
    \cup [path : {"manifest"}, file : {
        ManifestFile(<<Entry("instructions", TRUE, 1), Entry("guide", TRUE, 2)>>),
        ManifestFile(<<Entry("instructions", TRUE, 1), Entry("guide", FALSE, 1)>>),
        ManifestFile(<<Entry("guide", TRUE, 1)>>)}]
    \cup {[path |-> "manifest", file |-> [MCFirstDisk["manifest"] EXCEPT !.kind = "outside"]]}
    \cup [path : {"registry"}, file : {
        RegistryFile(<<Registered("s1", "deprecated", FALSE), Registered("s2", "active", TRUE)>>),
        RegistryFile(<<Registered("s1", "deprecated", TRUE)>>)}]

Asked(skills, chosen, optional) == [skills |-> skills, chosen |-> chosen, optional |-> optional]

MCSkillRequests ==
    {Asked(<<>>, FALSE, TRUE), Asked(<<>>, FALSE, FALSE),
     Asked(<<"s1", "s2">>, TRUE, TRUE), Asked(<<"s1", "s1">>, TRUE, FALSE)}

(* The second text of the manifest declares a file that is hidden.           *)
MCDeclared ==
    [text \in {1, 2} |->
        [required |-> {"rules"}, optional |-> IF text = 1 THEN {"guide"} ELSE {"guide", "hidden"}]]

MCEnlisted == [text \in {1} |-> {"s1"}]

MCFirstTexts == [p \in {"manifest", "registry", "rules", "guide", "hidden", "s1"} |-> 1]

MCOverwrites == [path : {"manifest", "rules"}, text : {2}]

(* Two callers give the rules and the skill under each other's keys; one of     *)
(* them has no more to give than the files that must be there.               *)
MCPlacements ==
    LET must == {"manifest", "registry", "rules", "s1"} IN
    {[p \in must \cup {"guide", "in"} |-> p],
     [p \in must |-> IF p = "rules" THEN "s1" ELSE IF p = "s1" THEN "rules" ELSE p]}

(* Where every rule is in force more may be done.                            *)
MCMaxActs == [rules \in SUBSET Guards |-> IF rules = Guards THEN 2 ELSE 1]

---------------------------------------------------------------------------
Call(route, auth, valid, header, fails) ==
    [route |-> route, auth |-> auth, valid |-> valid, header |-> header, fails |-> fails]

(* Of each route, what it answers in a way of its own.                       *)
MCRouteCalls ==
    {Call("checkout", 200, TRUE, "missing", "no"), Call("checkout", 200, TRUE, "accepted", "no"),
     Call("checkout", 200, TRUE, "accepted", "write"), Call("checkout", 200, TRUE, "invalid", "no"),
     Call("votes", 401, TRUE, "missing", "no"), Call("votes", 200, FALSE, "missing", "no"),
     Call("mandate", 401, TRUE, "missing", "no"), Call("mandate", 200, FALSE, "missing", "no"),
     Call("frame-vote", 200, TRUE, "missing", "no"), Call("tally", 200, TRUE, "missing", "read")}

MCKeyTerms == {[active |-> 0, previous |-> 1], [active |-> 2, previous |-> 0]}

MCOutcomes ==
    {[metric |-> "validation", service |-> "s1", outcome |-> "success"],
     [metric |-> "write-failures", stage |-> "lock", category |-> "busy"]}
=============================================================================
