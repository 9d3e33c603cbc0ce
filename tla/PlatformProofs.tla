------------------------------ MODULE PlatformProofs ------------------------------
(***************************************************************************)
(* Proofs about the platform as a whole, from what EngineProofs and             *)
(* ServiceProofs prove of its services.                                      *)
(***************************************************************************)
EXTENDS PlatformServices, EngineProofs, ServiceProofs

(***************************************************************************)
(* From a service to the platform: whatever else the platform can run, the     *)
(* service that runs takes its own steps only.                              *)
(***************************************************************************)
LEMMA ServiceStays == [Next]_vars => service' = service
  BY DEF Next, EnginesStep, LedgersStep, GatesStep, AgentsStep, FeedsStep, vars

LEMMA OwnNext ==
    ASSUME Next
    PROVE  /\ service = "opvault" => OvNext
           /\ service = "ctusd" => CuNext
           /\ service = "ark" => ArNext
           /\ service = "invoices" => HiNext
           /\ service = "bitvmx" => BxNext
           /\ service = "covenants" => CoNext
           /\ service = "assets" => TaNext
           /\ service = "silent" => SpNext
           /\ service = "musig2" => MuNext
           /\ service = "claims" => ClNext
           /\ service = "sidl" => SidlNext
           /\ service = "knowledge" => KbNext
           /\ service = "tokens" => TkNext
           /\ service = "revenue" => RoNext
           /\ service = "promotion" => BpNext
           /\ service = "results" => SwNext
           /\ service = "context" => ScNext
           /\ service = "delegation" => SdNext
           /\ service = "discovery" => DsNext
           /\ service = "trust" => DtNext
           /\ service = "events" => EdNext
           /\ service = "mail" => SmNext
           /\ service = "shadow" => ShNext
           /\ service = "metrics" => MxNext
  <1>1. CASE EnginesStep
    BY <1>1 DEF EnginesStep, In
  <1>2. CASE LedgersStep
    BY <1>2 DEF LedgersStep, In
  <1>3. CASE GatesStep
    BY <1>3 DEF GatesStep, In
  <1>4. CASE AgentsStep
    BY <1>4 DEF AgentsStep, In
  <1>5. CASE FeedsStep
    BY <1>5 DEF FeedsStep, In
  <1> QED
    BY <1>1, <1>2, <1>3, <1>4, <1>5 DEF Next

LEMMA OwnSteps ==
    ASSUME [Next]_vars
    PROVE  /\ service = "opvault" => [OvNext]_ovVars
           /\ service = "ctusd" => [CuNext]_cuVars
           /\ service = "ark" => [ArNext]_arVars
           /\ service = "invoices" => [HiNext]_hiVars
           /\ service = "bitvmx" => [BxNext]_bxVars
           /\ service = "covenants" => [CoNext]_coVars
           /\ service = "assets" => [TaNext]_taVars
           /\ service = "silent" => [SpNext]_spVars
           /\ service = "musig2" => [MuNext]_muVars
           /\ service = "claims" => [ClNext]_clVars
           /\ service = "sidl" => [SidlNext]_siVars
           /\ service = "knowledge" => [KbNext]_kbVars
           /\ service = "tokens" => [TkNext]_tkVars
           /\ service = "revenue" => [RoNext]_roVars
           /\ service = "promotion" => [BpNext]_bpVars
           /\ service = "results" => [SwNext]_swVars
           /\ service = "context" => [ScNext]_scVars
           /\ service = "delegation" => [SdNext]_sdVars
           /\ service = "discovery" => [DsNext]_dsVars
           /\ service = "trust" => [DtNext]_dtVars
           /\ service = "events" => [EdNext]_edVars
           /\ service = "mail" => [SmNext]_smVars
           /\ service = "shadow" => [ShNext]_shVars
           /\ service = "metrics" => [MxNext]_mxVars
  <1>1. CASE UNCHANGED vars
    BY <1>1 DEF vars, EngineVars, LedgerVars, GateVars, AgentVars, FeedVars
  <1>2. CASE Next
    BY <1>2, OwnNext
  <1> QED
    BY <1>1, <1>2

(* The invariant of the service that runs, by the parts of the platform.        *)
EnginesInv ==
    /\ While("opvault", OvInv) /\ While("ctusd", CuInv) /\ While("ark", ArInv)
    /\ While("invoices", HiInv) /\ While("bitvmx", BxInv) /\ While("covenants", CoInv)
    /\ While("assets", TaInv) /\ While("silent", SpInv) /\ While("musig2", MuInv)

LedgersInv == While("claims", ClInv) /\ While("sidl", SidlInv) /\ While("knowledge", KbInv)

GatesInv == While("tokens", TkInv) /\ While("revenue", RoInv) /\ While("promotion", BpInv)

AgentsInv ==
    /\ While("results", SwInv) /\ While("context", ScInv) /\ While("delegation", SdInv)
    /\ While("discovery", DsInv) /\ While("trust", DtInv)

FeedsInv ==
    /\ While("events", EdInv) /\ While("mail", SmInv) /\ While("shadow", ShInv)
    /\ While("metrics", MxInv)

LEMMA EnginesInitInv == Init => EnginesInv
  BY OvInitInv, CuInitInv, ArInitInv, HiInitInv, BxInitInv, CoInitInv, TaInitInv, SpInitInv, MuInitInv
  DEF Init, EnginesInv, While

LEMMA EnginesStepInv == EnginesInv /\ [Next]_vars => EnginesInv'
  <1> SUFFICES ASSUME EnginesInv, [Next]_vars PROVE EnginesInv'
    OBVIOUS
  <1>1. service' = service
    BY ServiceStays
  <1>2. CASE service = "opvault"
    BY <1>1, <1>2, OwnSteps, OvStepInv DEF EnginesInv, While
  <1>3. CASE service = "ctusd"
    BY <1>1, <1>3, OwnSteps, CuStepInv DEF EnginesInv, While
  <1>4. CASE service = "ark"
    BY <1>1, <1>4, OwnSteps, ArStepInv DEF EnginesInv, While
  <1>5. CASE service = "invoices"
    BY <1>1, <1>5, OwnSteps, HiStepInv DEF EnginesInv, While
  <1>6. CASE service = "bitvmx"
    BY <1>1, <1>6, OwnSteps, BxStepInv DEF EnginesInv, While
  <1>7. CASE service = "covenants"
    BY <1>1, <1>7, OwnSteps, CoStepInv DEF EnginesInv, While
  <1>8. CASE service = "assets"
    BY <1>1, <1>8, OwnSteps, TaStepInv DEF EnginesInv, While
  <1>9. CASE service = "silent"
    BY <1>1, <1>9, OwnSteps, SpStepInv DEF EnginesInv, While
  <1>10. CASE service = "musig2"
    BY <1>1, <1>10, OwnSteps, MuStepInv DEF EnginesInv, While
  <1>11. CASE service \notin {"opvault", "ctusd", "ark", "invoices", "bitvmx", "covenants", "assets", "silent", "musig2"}
    BY <1>1, <1>11 DEF EnginesInv, While
  <1> QED
    BY <1>2, <1>3, <1>4, <1>5, <1>6, <1>7, <1>8, <1>9, <1>10, <1>11

LEMMA EnginesInvSound == EnginesInv => EnginesSound
  BY OvInvSound, CuInvSound, ArInvSound, HiInvSound, BxInvSound, CoInvSound, TaInvSound, SpInvSound,
     MuInvSound
  DEF EnginesInv, EnginesSound, While

(* Theorem: in every execution of the platform, value leaves a vault, an       *)
(* output or an invoice of the engines once, after what it waits for, and a     *)
(* session signs with what its participants gave (EnginesSound).             *)
THEOREM PlatformEnginesSound == Spec => []EnginesSound
  BY EnginesInitInv, EnginesStepInv, EnginesInvSound, PTL DEF Spec

LEMMA LedgersInitInv == Init => LedgersInv
  BY ClInitInv, SidlInitInv, KbInitInv
  DEF Init, LedgersInv, While

LEMMA LedgersStepInv == LedgersInv /\ [Next]_vars => LedgersInv'
  <1> SUFFICES ASSUME LedgersInv, [Next]_vars PROVE LedgersInv'
    OBVIOUS
  <1>1. service' = service
    BY ServiceStays
  <1>2. CASE service = "claims"
    BY <1>1, <1>2, OwnSteps, ClStepInv DEF LedgersInv, While
  <1>3. CASE service = "sidl"
    BY <1>1, <1>3, OwnSteps, SidlStepInv DEF LedgersInv, While
  <1>4. CASE service = "knowledge"
    BY <1>1, <1>4, OwnSteps, KbStepInv DEF LedgersInv, While
  <1>5. CASE service \notin {"claims", "sidl", "knowledge"}
    BY <1>1, <1>5 DEF LedgersInv, While
  <1> QED
    BY <1>2, <1>3, <1>4, <1>5

LEMMA LedgersInvSound == LedgersInv => LedgersSound
  BY ClInvSound, SidlInvSound, KbInvSound
  DEF LedgersInv, LedgersSound, While

(* Theorem: in every execution of the platform, contribution units stay within   *)
(* their caps and are paid once, votes and settlements that were confirmed are    *)
(* counted, and the relations of the knowledge store lead to entries and back     *)
(* (LedgersSound).                                                           *)
THEOREM PlatformLedgersSound == Spec => []LedgersSound
  BY LedgersInitInv, LedgersStepInv, LedgersInvSound, PTL DEF Spec

LEMMA GatesInitInv == Init => GatesInv
  BY TkInitInv, RoInitInv, BpInitInv
  DEF Init, GatesInv, While

LEMMA GatesStepInv == GatesInv /\ [Next]_vars => GatesInv'
  <1> SUFFICES ASSUME GatesInv, [Next]_vars PROVE GatesInv'
    OBVIOUS
  <1>1. service' = service
    BY ServiceStays
  <1>2. CASE service = "tokens"
    BY <1>1, <1>2, OwnSteps, TkStepInv DEF GatesInv, While
  <1>3. CASE service = "revenue"
    BY <1>1, <1>3, OwnSteps, RoStepInv DEF GatesInv, While
  <1>4. CASE service = "promotion"
    BY <1>1, <1>4, OwnSteps, BpStepInv DEF GatesInv, While
  <1>5. CASE service \notin {"tokens", "revenue", "promotion"}
    BY <1>1, <1>5 DEF GatesInv, While
  <1> QED
    BY <1>2, <1>3, <1>4, <1>5

LEMMA GatesInvSound == GatesInv => GatesSound
  BY TkInvSound, RoInvSound, BpInvSound
  DEF GatesInv, GatesSound, While

(* Theorem: in every execution of the platform, what stands before a privileged *)
(* effect lets through only what it should: tokens of the Gateway, revenue      *)
(* observations and promotions to a branch (GatesSound).                     *)
THEOREM PlatformGatesSound == Spec => []GatesSound
  BY GatesInitInv, GatesStepInv, GatesInvSound, PTL DEF Spec

LEMMA AgentsInitInv == Init => AgentsInv
  BY SwInitInv, ScInitInv, SdInitInv, DsInitInv, DtInitInv
  DEF Init, AgentsInv, While

LEMMA AgentsStepInv == AgentsInv /\ [Next]_vars => AgentsInv'
  <1> SUFFICES ASSUME AgentsInv, [Next]_vars PROVE AgentsInv'
    OBVIOUS
  <1>1. service' = service
    BY ServiceStays
  <1>2. CASE service = "results"
    BY <1>1, <1>2, OwnSteps, SwStepInv DEF AgentsInv, While
  <1>3. CASE service = "context"
    BY <1>1, <1>3, OwnSteps, ScStepInv DEF AgentsInv, While
  <1>4. CASE service = "delegation"
    BY <1>1, <1>4, OwnSteps, SdStepInv DEF AgentsInv, While
  <1>5. CASE service = "discovery"
    BY <1>1, <1>5, OwnSteps, DsStepInv DEF AgentsInv, While
  <1>6. CASE service = "trust"
    BY <1>1, <1>6, OwnSteps, DtStepInv DEF AgentsInv, While
  <1>7. CASE service \notin {"results", "context", "delegation", "discovery", "trust"}
    BY <1>1, <1>7 DEF AgentsInv, While
  <1> QED
    BY <1>2, <1>3, <1>4, <1>5, <1>6, <1>7

LEMMA AgentsInvSound == AgentsInv => AgentsSound
  BY SwInvSound, ScInvSound, SdInvSound, DsInvSound, DtInvSound
  DEF AgentsInv, AgentsSound, While

(* Theorem: in every execution of the platform, the report on a graph of tasks is *)
(* what the results say, the context that is handed over is what the snapshot     *)
(* had, the agent that has a task met what was asked and both sides agree on its  *)
(* state, a discovery tells what was in the repository, and an agent is given     *)
(* only what was trusted (AgentsSound).                                      *)
THEOREM PlatformAgentsSound == Spec => []AgentsSound
  BY AgentsInitInv, AgentsStepInv, AgentsInvSound, PTL DEF Spec

LEMMA FeedsInitInv == Init => FeedsInv
  BY EdInitInv, SmInitInv, ShInitInv, MxInitInv
  DEF Init, FeedsInv, While

LEMMA FeedsStepInv == FeedsInv /\ [Next]_vars => FeedsInv'
  <1> SUFFICES ASSUME FeedsInv, [Next]_vars PROVE FeedsInv'
    OBVIOUS
  <1>1. service' = service
    BY ServiceStays
  <1>2. CASE service = "events"
    BY <1>1, <1>2, OwnSteps, EdStepInv DEF FeedsInv, While
  <1>3. CASE service = "mail"
    BY <1>1, <1>3, OwnSteps, SmStepInv DEF FeedsInv, While
  <1>4. CASE service = "shadow"
    BY <1>1, <1>4, OwnSteps, ShStepInv DEF FeedsInv, While
  <1>5. CASE service = "metrics"
    BY <1>1, <1>5, OwnSteps, MxStepInv DEF FeedsInv, While
  <1>6. CASE service \notin {"events", "mail", "shadow", "metrics"}
    BY <1>1, <1>6 DEF FeedsInv, While
  <1> QED
    BY <1>2, <1>3, <1>4, <1>5, <1>6

LEMMA FeedsInvSound == FeedsInv => FeedsSound
  BY EdInvSound, SmInvSound, ShInvSound, MxInvSound
  DEF FeedsInv, FeedsSound, While

(* Theorem: in every execution of the platform, events, issues and answers to   *)
(* mail, and blocks and transactions of a rollup are delivered through every     *)
(* fault the daemons meet, and what a scrape of the metrics shows agrees with      *)
(* itself and with the registry (FeedsSound).                                *)
THEOREM PlatformFeedsSound == Spec => []FeedsSound
  BY FeedsInitInv, FeedsStepInv, FeedsInvSound, PTL DEF Spec

(* The invariant of the platform.                                            *)
PlatformInv == EnginesInv /\ LedgersInv /\ GatesInv /\ AgentsInv /\ FeedsInv

LEMMA PlatformInitInv == Init => PlatformInv
  BY EnginesInitInv, LedgersInitInv, GatesInitInv, AgentsInitInv, FeedsInitInv DEF PlatformInv

LEMMA PlatformStepInv == PlatformInv /\ [Next]_vars => PlatformInv'
  BY EnginesStepInv, LedgersStepInv, GatesStepInv, AgentsStepInv, FeedsStepInv DEF PlatformInv

LEMMA PlatformStepFinal == PlatformInv /\ Next => FinalStep
  <1> SUFFICES ASSUME PlatformInv, Next PROVE FinalStep
    OBVIOUS
  <1>1. service = "opvault" => OvFinal
    BY OwnNext, OvStepFinal DEF PlatformInv, EnginesInv, While
  <1>2. service = "ctusd" => CuFinal
    BY OwnNext, CuStepFinal DEF PlatformInv, EnginesInv, While
  <1>3. service = "ark" => ArFinal
    BY OwnNext, ArStepFinal DEF PlatformInv, EnginesInv, While
  <1>4. service = "invoices" => HiFinal
    BY OwnNext, HiStepFinal DEF PlatformInv, EnginesInv, While
  <1>5. service = "bitvmx" => BxFinal
    BY OwnNext, BxStepFinal DEF PlatformInv, EnginesInv, While
  <1>6. service = "covenants" => CoFinal
    BY OwnNext, CoStepFinal DEF PlatformInv, EnginesInv, While
  <1>7. service = "assets" => TaFinal
    BY OwnNext, TaStepFinal DEF PlatformInv, EnginesInv, While
  <1>8. service = "silent" => SpFinal
    BY OwnNext, SpStepFinal
  <1>9. service = "musig2" => MuFinal
    BY OwnNext, MuStepFinal DEF PlatformInv, EnginesInv, While
  <1>10. service = "claims" => ClFinal
    BY OwnNext, ClStepInv DEF PlatformInv, LedgersInv, While
  <1>11. service = "sidl" => SidlNothingLost
    BY OwnNext, SidlStepInv DEF PlatformInv, LedgersInv, While
  <1>12. service = "knowledge" => KbFinal
    BY OwnNext, KbStepFinal DEF PlatformInv, LedgersInv, While
  <1>13. service = "tokens" => TkFinal
    BY OwnNext, TkStepFinal DEF PlatformInv, GatesInv, While
  <1>14. service = "revenue" => RoFinal
    BY OwnNext, RoStepFinal DEF PlatformInv, GatesInv, While
  <1>15. service = "promotion" => BpFinal
    BY OwnNext, BpStepFinal DEF PlatformInv, GatesInv, While
  <1>16. service = "results" => SwFinal
    BY OwnNext, SwStepFinal DEF PlatformInv, AgentsInv, While
  <1>17. service = "context" => ScFinal
    BY OwnNext, ScStepFinal DEF PlatformInv, AgentsInv, While
  <1>18. service = "delegation" => SdFinal
    BY OwnNext, SdStepFinal DEF PlatformInv, AgentsInv, While
  <1>19. service = "discovery" => DsFinal
    BY OwnNext, DsStepFinal DEF PlatformInv, AgentsInv, While
  <1>20. service = "trust" => DtFinal
    BY OwnNext, DtStepFinal
  <1>21. service = "events" => EdFinal
    BY OwnNext, EdStepFinal DEF PlatformInv, FeedsInv, While
  <1>22. service = "mail" => SmFinal
    BY OwnNext, SmStepFinal DEF PlatformInv, FeedsInv, While
  <1>23. service = "shadow" => ShFinal
    BY OwnNext, ShStepFinal DEF PlatformInv, FeedsInv, While
  <1>24. service = "metrics" => MxFinal
    BY OwnNext, MxStepInv DEF PlatformInv, FeedsInv, While
  <1> QED
    BY <1>1, <1>2, <1>3, <1>4, <1>5, <1>6, <1>7, <1>8, <1>9, <1>10, <1>11, <1>12, <1>13, <1>14, <1>15,
       <1>16, <1>17, <1>18, <1>19, <1>20, <1>21, <1>22, <1>23, <1>24 DEF FinalStep, While

(* Theorem: in every execution of the platform, what is final stays: no step of  *)
(* any service takes back a terminal state, a settlement, an acceptance or a      *)
(* mark, no counter falls, and no script that works alone takes back what another  *)
(* one saved (PlatformFinal).                                                *)
THEOREM PlatformStepsFinal == Spec => PlatformFinal
  <1>1. PlatformInv /\ [Next]_vars => [FinalStep]_vars
    BY PlatformStepFinal
  <1> QED
    BY <1>1, PlatformInitInv, PlatformStepInv, PTL DEF Spec, PlatformFinal

(* The types of the service that runs, beside its invariant.                   *)
PlatformTypes ==
    /\ While("ark", ArTypes) /\ While("invoices", HiTypes) /\ While("bitvmx", BxTypes)
    /\ While("covenants", CoTypes) /\ While("assets", TaTypes) /\ While("silent", SpTypeOK)
    /\ While("musig2", MuTypes) /\ While("shadow", ShTypes) /\ While("context", ScTypes)
    /\ While("delegation", SdTypes) /\ While("trust", DtTypes)

LEMMA PlatformInitTypes == Init => PlatformTypes
  BY ArInitTypes, HiInitTypes, BxInitTypes, CoInitTypes, TaInitTypes, SpInitTypes, MuInitTypes,
     ShInitTypes, ScInitTypes, SdInitTypes, DtInitTypes
  DEF Init, PlatformTypes, While

LEMMA PlatformStepTypes == PlatformInv /\ PlatformTypes /\ [Next]_vars => PlatformTypes'
  <1> SUFFICES ASSUME PlatformInv, PlatformTypes, [Next]_vars PROVE PlatformTypes'
    OBVIOUS
  <1>1. service' = service
    BY ServiceStays
  <1>2. CASE service = "ark"
    BY <1>1, <1>2, OwnSteps, ArStepTypes DEF PlatformInv, EnginesInv, PlatformTypes, While
  <1>3. CASE service = "invoices"
    BY <1>1, <1>3, OwnSteps, HiStepTypes DEF PlatformInv, EnginesInv, PlatformTypes, While
  <1>4. CASE service = "bitvmx"
    BY <1>1, <1>4, OwnSteps, BxStepTypes DEF PlatformInv, EnginesInv, PlatformTypes, While
  <1>5. CASE service = "covenants"
    BY <1>1, <1>5, OwnSteps, CoStepTypes DEF PlatformInv, EnginesInv, PlatformTypes, While
  <1>6. CASE service = "assets"
    BY <1>1, <1>6, OwnSteps, TaStepTypes DEF PlatformInv, EnginesInv, PlatformTypes, While
  <1>7. CASE service = "silent"
    BY <1>1, <1>7, OwnSteps, SpStepTypes DEF PlatformTypes, While
  <1>8. CASE service = "musig2"
    BY <1>1, <1>8, OwnSteps, MuStepTypes DEF PlatformInv, EnginesInv, PlatformTypes, While
  <1>9. CASE service = "shadow"
    BY <1>1, <1>9, OwnSteps, ShStepTypes DEF PlatformInv, FeedsInv, PlatformTypes, While
  <1>10. CASE service = "context"
    BY <1>1, <1>10, OwnSteps, ScStepTypes DEF PlatformInv, AgentsInv, PlatformTypes, While
  <1>11. CASE service = "delegation"
    BY <1>1, <1>11, OwnSteps, SdStepTypes DEF PlatformInv, AgentsInv, PlatformTypes, While
  <1>12. CASE service = "trust"
    BY <1>1, <1>12, OwnSteps, DtStepTypes DEF PlatformTypes, While
  <1>13. CASE service \notin {"ark", "invoices", "bitvmx", "covenants", "assets", "silent", "musig2", "shadow",
                             "context", "delegation", "trust"}
    BY <1>1, <1>13 DEF PlatformTypes, While
  <1> QED
    BY <1>2, <1>3, <1>4, <1>5, <1>6, <1>7, <1>8, <1>9, <1>10, <1>11, <1>12, <1>13

LEMMA PlatformTyped == PlatformInv /\ PlatformTypes => TypeOK
  <1> SUFFICES ASSUME PlatformInv, PlatformTypes PROVE TypeOK
    OBVIOUS
  <1>1. service = "opvault" => OvTypeOK
    BY OvInvTypeOK DEF PlatformInv, EnginesInv, While
  <1>2. service = "ctusd" => CuTypeOK
    BY CuInvSound DEF PlatformInv, EnginesInv, While
  <1>3. service = "ark" => ArTypeOK
    BY ArInvTypeOK DEF PlatformInv, EnginesInv, PlatformTypes, While
  <1>4. service = "invoices" => HiTypeOK
    BY HiInvTypeOK DEF PlatformInv, EnginesInv, PlatformTypes, While
  <1>5. service = "bitvmx" => BxTypeOK
    BY BxInvTypeOK DEF PlatformInv, EnginesInv, PlatformTypes, While
  <1>6. service = "covenants" => CoTypeOK
    BY CoInvTypeOK DEF PlatformInv, EnginesInv, PlatformTypes, While
  <1>7. service = "assets" => TaTypeOK
    BY TaInvTypeOK DEF PlatformInv, EnginesInv, PlatformTypes, While
  <1>8. service = "silent" => SpTypeOK
    BY DEF PlatformTypes, While
  <1>9. service = "musig2" => MuTypeOK
    BY MuInvTypeOK DEF PlatformInv, EnginesInv, PlatformTypes, While
  <1>10. service = "claims" => ClTypeOK
    BY ClInvSound DEF PlatformInv, LedgersInv, While
  <1>11. service = "sidl" => SidlTypeOK
    BY SidlInvSound DEF PlatformInv, LedgersInv, While
  <1>12. service = "knowledge" => KbTypeOK
    BY KbInvTypeOK DEF PlatformInv, LedgersInv, While
  <1>13. service = "tokens" => TkTypeOK
    BY TkInvSound DEF PlatformInv, GatesInv, While
  <1>14. service = "revenue" => RoTypeOK
    BY RoInvSound DEF PlatformInv, GatesInv, While
  <1>15. service = "promotion" => BpTypeOK
    BY BpInvSound DEF PlatformInv, GatesInv, While
  <1>16. service = "results" => SwTypeOK
    BY SwInvTypeOK DEF PlatformInv, AgentsInv, While
  <1>17. service = "context" => ScTypeOK
    BY ScInvTypeOK DEF PlatformInv, AgentsInv, PlatformTypes, While
  <1>18. service = "delegation" => SdTypeOK
    BY SdInvTypeOK DEF PlatformInv, AgentsInv, PlatformTypes, While
  <1>19. service = "discovery" => DsTypeOK
    BY DsInvTypeOK DEF PlatformInv, AgentsInv, While
  <1>20. service = "trust" => DtTypeOK
    BY DtInvTypeOK DEF PlatformInv, AgentsInv, PlatformTypes, While
  <1>21. service = "events" => EdTypeOK
    BY EdInvTypeOK DEF PlatformInv, FeedsInv, While
  <1>22. service = "mail" => SmTypeOK
    BY SmInvTypeOK DEF PlatformInv, FeedsInv, While
  <1>23. service = "shadow" => ShTypeOK
    BY ShInvTypeOK DEF PlatformInv, FeedsInv, PlatformTypes, While
  <1>24. service = "metrics" => MxTypeOK
    BY MxInvSound DEF PlatformInv, FeedsInv, While
  <1> QED
    BY <1>1, <1>2, <1>3, <1>4, <1>5, <1>6, <1>7, <1>8, <1>9, <1>10, <1>11, <1>12, <1>13, <1>14, <1>15,
       <1>16, <1>17, <1>18, <1>19, <1>20, <1>21, <1>22, <1>23, <1>24 DEF TypeOK, While

(* Theorem: in every execution of the platform, the variables of the service      *)
(* that runs have their types, its counters within their bounds (TypeOK).       *)
THEOREM PlatformTypeOK == Spec => []TypeOK
  BY PlatformInitInv, PlatformStepInv, PlatformInitTypes, PlatformStepTypes, PlatformTyped, PTL DEF Spec
=============================================================================
