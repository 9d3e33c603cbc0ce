---------------------------- MODULE PlatformServices ----------------------------
(***************************************************************************)
(* The services of the platform beside the service-key registry and the     *)
(* verifier bridges, with the properties they have in common.  Each keeps    *)
(* state of its own, in a process, a file or a repository, and none calls    *)
(* another: an execution of the platform is an interleaving of one execution  *)
(* of each, and a property of one service holds in the platform when it holds *)
(* in the executions of that service alone.  The initial state therefore      *)
(* chooses the service that runs.                                           *)
(***************************************************************************)
EXTENDS
    OpVaults, CtUsdVaults, ArkVutxos, HoldInvoices, BitVmxIntents, Covenants,
    TaprootAssets, SilentPayments, MuSig2Sessions,
    EventDelivery, SupportMail, ShadowMonitor,
    ClaimsLedger, SidlStore, M2MTokens,
    SwarmResults, SwarmContext, SwarmDelegation, DiscoveryTrust,
    RevenueObservation, AgentDiscovery, BranchPromotion,
    SidlMetrics, KnowledgeBase

VARIABLE service

EngineVars == <<ovVars, cuVars, arVars, hiVars, bxVars, coVars, taVars, spVars, muVars>>
LedgerVars == <<clVars, siVars, kbVars>>
GateVars == <<tkVars, roVars, bpVars>>
AgentVars == <<swVars, scVars, sdVars, dsVars, dtVars>>
FeedVars == <<edVars, smVars, shVars, mxVars>>

vars == <<service, EngineVars, LedgerVars, GateVars, AgentVars, FeedVars>>

PlatformService ==
    {"opvault", "ctusd", "ark", "invoices", "bitvmx", "covenants", "assets", "silent", "musig2",
     "events", "mail", "shadow", "claims", "sidl", "tokens", "results", "context", "delegation",
     "revenue", "discovery", "trust", "promotion", "metrics", "knowledge"}

(* What a service that does not run starts with is of no importance.         *)
Unchosen(name, value, choices) == service # name => value = CHOOSE c \in choices : TRUE

Init ==
    /\ service \in PlatformService
    /\ OvInit /\ CuInit /\ ArInit /\ HiInit /\ BxInit /\ CoInit /\ TaInit /\ SpInit /\ MuInit
    /\ EdInit /\ SmInit /\ ShInit /\ ClInit /\ SidlInit /\ TkInit
    /\ SwInit /\ ScInit /\ SdInit /\ RoInit /\ DsInit /\ DtInit /\ BpInit /\ MxInit /\ KbInit
    /\ Unchosen("shadow", shChain, ShadowBlocks)
    /\ Unchosen("sidl", siWorkers, WorkerSets)
    /\ Unchosen("tokens", tkConfig, JwtConfigs)
    /\ Unchosen("results", swGraph, {g \in TaskGraphs : ValidGraph(g)})
    /\ Unchosen("delegation", sdRequirements, TaskRequirements)
    /\ Unchosen("trust", dtAnchor, Discoveries(FirstTexts))
    /\ Unchosen("promotion", bpRules, SUBSET Guards)
    /\ Unchosen("metrics", mxDocuments, FirstDocuments)

In(name, A) == service = name /\ A

Rests(name, its) == service # name => UNCHANGED its

EnginesStep ==
    /\ \/ In("opvault", OvNext) \/ In("ctusd", CuNext) \/ In("ark", ArNext)
       \/ In("invoices", HiNext) \/ In("bitvmx", BxNext) \/ In("covenants", CoNext)
       \/ In("assets", TaNext) \/ In("silent", SpNext) \/ In("musig2", MuNext)
    /\ Rests("opvault", ovVars) /\ Rests("ctusd", cuVars) /\ Rests("ark", arVars)
    /\ Rests("invoices", hiVars) /\ Rests("bitvmx", bxVars) /\ Rests("covenants", coVars)
    /\ Rests("assets", taVars) /\ Rests("silent", spVars) /\ Rests("musig2", muVars)
    /\ UNCHANGED <<service, LedgerVars, GateVars, AgentVars, FeedVars>>

LedgersStep ==
    /\ In("claims", ClNext) \/ In("sidl", SidlNext) \/ In("knowledge", KbNext)
    /\ Rests("claims", clVars) /\ Rests("sidl", siVars) /\ Rests("knowledge", kbVars)
    /\ UNCHANGED <<service, EngineVars, GateVars, AgentVars, FeedVars>>

GatesStep ==
    /\ In("tokens", TkNext) \/ In("revenue", RoNext) \/ In("promotion", BpNext)
    /\ Rests("tokens", tkVars) /\ Rests("revenue", roVars) /\ Rests("promotion", bpVars)
    /\ UNCHANGED <<service, EngineVars, LedgerVars, AgentVars, FeedVars>>

AgentsStep ==
    /\ \/ In("results", SwNext) \/ In("context", ScNext)
       \/ In("delegation", SdNext) \/ In("discovery", DsNext) \/ In("trust", DtNext)
    /\ Rests("results", swVars) /\ Rests("context", scVars)
    /\ Rests("delegation", sdVars) /\ Rests("discovery", dsVars) /\ Rests("trust", dtVars)
    /\ UNCHANGED <<service, EngineVars, LedgerVars, GateVars, FeedVars>>

FeedsStep ==
    /\ In("events", EdNext) \/ In("mail", SmNext) \/ In("shadow", ShNext) \/ In("metrics", MxNext)
    /\ Rests("events", edVars) /\ Rests("mail", smVars) /\ Rests("shadow", shVars) /\ Rests("metrics", mxVars)
    /\ UNCHANGED <<service, EngineVars, LedgerVars, GateVars, AgentVars>>

Next == EnginesStep \/ LedgersStep \/ GatesStep \/ AgentsStep \/ FeedsStep

Spec == Init /\ [][Next]_vars

---------------------------------------------------------------------------
While(name, P) == service = name => P

(* Every variable has its type. *)
TypeOK ==
    /\ While("opvault", OvTypeOK) /\ While("ctusd", CuTypeOK) /\ While("ark", ArTypeOK)
    /\ While("invoices", HiTypeOK) /\ While("bitvmx", BxTypeOK) /\ While("covenants", CoTypeOK)
    /\ While("assets", TaTypeOK) /\ While("silent", SpTypeOK) /\ While("musig2", MuTypeOK)
    /\ While("events", EdTypeOK) /\ While("mail", SmTypeOK) /\ While("shadow", ShTypeOK)
    /\ While("claims", ClTypeOK) /\ While("sidl", SidlTypeOK) /\ While("tokens", TkTypeOK)
    /\ While("results", SwTypeOK) /\ While("context", ScTypeOK) /\ While("delegation", SdTypeOK)
    /\ While("revenue", RoTypeOK) /\ While("discovery", DsTypeOK) /\ While("trust", DtTypeOK)
    /\ While("promotion", BpTypeOK) /\ While("metrics", MxTypeOK) /\ While("knowledge", KbTypeOK)

(* The settlement engines: value leaves a vault, an output or an invoice     *)
(* once, after what it waits for, and a session signs with what its          *)
(* participants gave.                                                       *)
EnginesSound ==
    /\ While("opvault", OvSound) /\ While("ctusd", CuSound) /\ While("ark", ArSound)
    /\ While("invoices", HiSound) /\ While("bitvmx", BxSound) /\ While("covenants", CoSound)
    /\ While("assets", TaSound) /\ While("silent", SpSound) /\ While("musig2", MuSound)

(* The ledgers kept in files: contribution units stay within their caps and   *)
(* are paid once, votes and settlements that were confirmed are counted,      *)
(* whatever the processes that share the file do, and the relations of the     *)
(* knowledge store lead to entries and back.                                 *)
LedgersSound ==
    /\ While("claims", ClSound /\ ClTrailExplains)
    /\ While("sidl", SidlTrailExplains /\ SidlAckedKept)
    /\ While("knowledge", KbSound)

(* What stands before a privileged effect lets through only what it should:  *)
(* tokens of the Gateway, revenue observations and promotions to a branch.   *)
GatesSound == While("tokens", TkSound) /\ While("revenue", RoSound) /\ While("promotion", BpSound)

(* What the agents of a swarm agree on: the result of a graph, the context    *)
(* that is handed over, the agent that got the task, the skills discovered,   *)
(* and what of the repository is trusted.                                    *)
AgentsSound ==
    /\ While("results", SwSound) /\ While("context", ScSound)
    /\ While("delegation", SdSound) /\ While("discovery", DsSound) /\ While("trust", DtSound)

(* What is delivered to others, through every fault the daemons meet: events, *)
(* issues and answers to mail, blocks and transactions of a rollup, and what   *)
(* a scrape of the metrics shows of the requests and of the registry.         *)
FeedsSound ==
    /\ While("events", EdSound) /\ While("mail", SmSound) /\ While("shadow", ShSound)
    /\ While("metrics", MxSound)

(* What is final stays: no step of any service takes back a terminal state, a *)
(* settlement, an acceptance or a mark, no counter falls, and no script that   *)
(* works alone takes back what another one saved.                            *)
FinalStep ==
    /\ While("opvault", OvFinal) /\ While("ctusd", CuFinal) /\ While("ark", ArFinal)
    /\ While("invoices", HiFinal) /\ While("bitvmx", BxFinal) /\ While("covenants", CoFinal)
    /\ While("assets", TaFinal) /\ While("silent", SpFinal) /\ While("musig2", MuFinal)
    /\ While("events", EdFinal) /\ While("mail", SmFinal) /\ While("shadow", ShFinal)
    /\ While("claims", ClFinal) /\ While("sidl", SidlNothingLost) /\ While("tokens", TkFinal)
    /\ While("results", SwFinal) /\ While("context", ScFinal) /\ While("delegation", SdFinal)
    /\ While("revenue", RoFinal) /\ While("discovery", DsFinal) /\ While("trust", DtFinal)
    /\ While("promotion", BpFinal) /\ While("metrics", MxFinal) /\ While("knowledge", KbFinal)

(* Every step of the platform is one of those.                               *)
PlatformFinal == [][FinalStep]_vars
=============================================================================
