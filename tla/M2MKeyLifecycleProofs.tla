----------------------- MODULE M2MKeyLifecycleProofs -----------------------
(* Proofs about M2MKeyLifecycle, for every set of services, every windows,   *)
(* grace periods and lifetimes, and every bound of the clock.                *)
EXTENDS M2MKeyLifecycle, FiniteSetTheorems, WellFoundedInduction, TLAPS

(***************************************************************************)
(* The two computations of a mutation.                                      *)
(***************************************************************************)

\* The end of a grace period is an instant, no later than what was asked for.
LEMMA GraceUntilBound ==
  ASSUME now \in Nat, NEW record \in ServiceRecord, NEW grace \in Nat
  PROVE  /\ GraceUntil(record, grace) \in Nat
         /\ GraceUntil(record, grace) <= now + grace
  BY DEF GraceUntil, ServiceRecord

\* The effective deadline is the earlier of the two that a previous key has.
LEMMA EffectiveUntilMeaning ==
  ASSUME NEW record \in ServiceRecord, NEW t \in Nat,
         EffectiveUntil(record.previous) # 0
  PROVE  /\ EffectiveUntil(record.previous) \in Nat
         /\ t < EffectiveUntil(record.previous)
              <=> t < record.previous.grace /\ InTime(t, record.previous.expires)
  BY DEF EffectiveUntil, Earlier, InTime, ServiceRecord

(***************************************************************************)
(* Type correctness.                                                        *)
(***************************************************************************)

LEMMA InitType == Init => TypeOK
  <1> SUFFICES ASSUME Init PROVE TypeOK
    OBVIOUS
  <1>1. minted \in Nat
    BY ServicesType, FS_CardinalityType DEF Init
  <1>2. PICK hash \in [Services -> 1..minted] :
          service = [s \in Services |-> [gen |-> 1, hash |-> hash[s], expires |-> 0,
                                         previous |-> NoPrevious]]
    BY DEF Init
  <1>3. \A s \in Services : hash[s] \in 1..minted
    BY <1>2
  <1>4. service \in [Services -> ServiceRecord]
    BY <1>1, <1>2, <1>3 DEF ServiceRecord, NoPrevious
  <1>5. \A s \in Services : /\ service[s].hash \in 1..minted
                            /\ service[s].previous.hash < service[s].hash
                            /\ service[s].previous.gen # 0 => service[s].previous.hash # 0
                            /\ service[s].previous.gen < service[s].gen
    BY <1>1, <1>2, <1>3 DEF NoPrevious
  <1>6. now \in 1..MaxTime
    BY LimitsType DEF Init
  <1>8. evaluated \in BOOLEAN
    BY DEF Init
  <1>7. rotatedOut \subseteq Services \X Nat \X Nat
    BY DEF Init
  <1> QED
    BY <1>1, <1>4, <1>5, <1>6, <1>7, <1>8 DEF TypeOK

LEMMA RotateType ==
  ASSUME TypeOK, NEW s \in Services, NEW grace \in Graces, NEW lifetime \in Lifetimes,
         Rotate(s, grace, lifetime)
  PROVE  TypeOK'
  <1> DEFINE record == service[s]
             new == [gen |-> record.gen + 1, hash |-> minted + 1,
                     expires |-> IF lifetime = 0 THEN 0 ELSE now + lifetime,
                     previous |-> [gen |-> record.gen, hash |-> record.hash,
                                   expires |-> record.expires,
                                   grace |-> GraceUntil(record, grace)]]
  <1>1. now \in Nat /\ minted \in Nat /\ grace \in Nat /\ lifetime \in Nat
        /\ record \in ServiceRecord
    BY GracesType, LifetimeType, LimitsType DEF TypeOK
  <1>2. GraceUntil(record, grace) \in Nat
    BY <1>1, GraceUntilBound
  <1>3. new \in ServiceRecord
    BY <1>1, <1>2 DEF ServiceRecord
  <1>4. service' = [service EXCEPT ![s] = new] /\ minted' = minted + 1
        /\ UNCHANGED <<now, notified, crossings>>
        /\ rotatedOut' = rotatedOut \cup {<<s, record.hash, now + grace>>}
        /\ evaluated' = FALSE
    BY DEF Rotate
  <1>5. service' \in [Services -> ServiceRecord]
    BY <1>3, <1>4 DEF TypeOK
  <1>6. ASSUME NEW t \in Services
        PROVE  /\ service'[t].hash \in 1..minted'
               /\ service'[t].previous.hash < service'[t].hash
               /\ service'[t].previous.gen # 0 => service'[t].previous.hash # 0
               /\ service'[t].previous.gen < service'[t].gen
    <2>1. CASE t = s
      <3>1. service'[t] = new
        BY <1>4, <2>1 DEF TypeOK
      <3> QED
        BY <1>1, <1>4, <3>1 DEF TypeOK, ServiceRecord
    <2>2. CASE t # s
      <3>1. service'[t] = service[t]
        BY <1>4, <2>2 DEF TypeOK
      <3> QED
        BY <1>1, <1>4, <3>1 DEF TypeOK
    <2> QED
      BY <2>1, <2>2
  <1>7. rotatedOut' \subseteq Services \X Nat \X Nat
    <2>1. record.hash \in Nat /\ now + grace \in Nat
      BY <1>1 DEF ServiceRecord
    <2> QED
      BY <1>4, <2>1 DEF TypeOK
  <1>8. now' \in 1..MaxTime /\ minted' \in Nat
    BY <1>1, <1>4 DEF TypeOK
  <1>9. evaluated' \in BOOLEAN
    BY <1>4
  <1> QED
    BY <1>5, <1>6, <1>7, <1>8, <1>9 DEF TypeOK

LEMMA RollbackType ==
  ASSUME TypeOK, NEW s \in Services, Rollback(s)
  PROVE  TypeOK'
  <1> DEFINE record == service[s]
             new == [gen |-> record.gen + 1, hash |-> record.previous.hash,
                     expires |-> EffectiveUntil(record.previous),
                     previous |-> NoPrevious]
  <1>1. now \in Nat /\ minted \in Nat /\ record \in ServiceRecord
    BY LimitsType DEF TypeOK
  <1>2. EffectiveUntil(record.previous) \in Nat
    BY <1>1 DEF EffectiveUntil, Earlier, ServiceRecord
  <1>3. new \in ServiceRecord
    BY <1>1, <1>2 DEF ServiceRecord, NoPrevious
  <1>4. service' = [service EXCEPT ![s] = new] /\ record.previous.gen # 0
        /\ UNCHANGED <<now, minted, rotatedOut, notified, crossings>>
        /\ evaluated' = FALSE
    BY DEF Rollback
  <1>5. service' \in [Services -> ServiceRecord]
    BY <1>3, <1>4 DEF TypeOK
  <1>6. ASSUME NEW t \in Services
        PROVE  /\ service'[t].hash \in 1..minted'
               /\ service'[t].previous.hash < service'[t].hash
               /\ service'[t].previous.gen # 0 => service'[t].previous.hash # 0
               /\ service'[t].previous.gen < service'[t].gen
    <2>1. CASE t = s
      <3>1. service'[t] = new
        BY <1>4, <2>1 DEF TypeOK
      <3> QED
        BY <1>1, <1>4, <3>1 DEF TypeOK, ServiceRecord, NoPrevious
    <2>2. CASE t # s
      <3>1. service'[t] = service[t]
        BY <1>4, <2>2 DEF TypeOK
      <3> QED
        BY <1>1, <1>4, <3>1 DEF TypeOK
    <2> QED
      BY <2>1, <2>2
  <1>7. now' \in 1..MaxTime /\ minted' \in Nat /\ rotatedOut' \subseteq Services \X Nat \X Nat
    BY <1>4 DEF TypeOK
  <1>8. evaluated' \in BOOLEAN
    BY <1>4
  <1> QED
    BY <1>5, <1>6, <1>7, <1>8 DEF TypeOK

LEMMA NextType == TypeOK /\ [Next]_vars => TypeOK'
  <1> SUFFICES ASSUME TypeOK, [Next]_vars PROVE TypeOK'
    OBVIOUS
  <1>1. CASE Tick
    <2>1. now' \in 1..MaxTime
      BY <1>1, LimitsType DEF Tick, TypeOK
    <2>2. UNCHANGED <<service, minted, rotatedOut>>
      BY <1>1 DEF Tick
    <2>3. evaluated' \in BOOLEAN
      BY <1>1 DEF Tick
    <2> QED
      BY <2>1, <2>2, <2>3 DEF TypeOK
  <1>2. ASSUME NEW s \in Services, NEW grace \in Graces, NEW lifetime \in Lifetimes,
               Rotate(s, grace, lifetime)
        PROVE  TypeOK'
    BY <1>2, RotateType
  <1>3. ASSUME NEW s \in Services, Rollback(s) PROVE TypeOK'
    BY <1>3, RollbackType
  <1>4. CASE Evaluate
    BY <1>4 DEF Evaluate, TypeOK
  <1>5. CASE UNCHANGED vars
    BY <1>5 DEF vars, TypeOK
  <1> QED
    BY <1>1, <1>2, <1>3, <1>4, <1>5 DEF Next

\* The registry never holds a record that is not one: in particular a previous
\* key is always of an earlier generation and every hash is of a minted secret.
THEOREM TypeCorrect == Spec => []TypeOK
  BY InitType, NextType, PTL DEF Spec

(***************************************************************************)
(* What a step may do to the secrets that exist.                            *)
(***************************************************************************)

\* No step gives a secret an instant at which it had not been acceptable.
LEMMA StepGainsNothing ==
  ASSUME TypeOK, [Next]_vars,
         NEW s \in Services, NEW h \in 1..minted, NEW t \in Nat,
         Accepts(service'[s], h, t)
  PROVE  Accepts(service[s], h, t)
  <1>1. now \in Nat /\ minted \in Nat /\ service[s] \in ServiceRecord
    BY LimitsType DEF TypeOK
  <1>2. CASE service'[s] = service[s]
    BY <1>2
  <1>3. ASSUME NEW grace \in Graces, NEW lifetime \in Lifetimes, Rotate(s, grace, lifetime)
        PROVE  Accepts(service[s], h, t)
    <2>1. /\ service'[s].hash = minted + 1
          /\ service'[s].previous.hash = service[s].hash
          /\ service'[s].previous.expires = service[s].expires
      BY <1>3 DEF Rotate, TypeOK
    <2> QED
      BY <1>1, <2>1 DEF Accepts
  <1>4. ASSUME Rollback(s) PROVE Accepts(service[s], h, t)
    <2>1. /\ service[s].previous.gen # 0
          /\ now < EffectiveUntil(service[s].previous)
          /\ service'[s].hash = service[s].previous.hash
          /\ service'[s].expires = EffectiveUntil(service[s].previous)
          /\ service'[s].previous.gen = 0
      BY <1>4 DEF Rollback, TypeOK, NoPrevious
    <2>2. EffectiveUntil(service[s].previous) \in Nat
      BY <1>1 DEF EffectiveUntil, Earlier, ServiceRecord
    <2>3. EffectiveUntil(service[s].previous) # 0
      BY <1>1, <2>1, <2>2
    <2>4. h = service[s].previous.hash /\ t < EffectiveUntil(service[s].previous)
      BY <2>1, <2>3 DEF Accepts, InTime
    <2> QED
      BY <1>1, <2>1, <2>3, <2>4, EffectiveUntilMeaning DEF Accepts
  <1>5. CASE Tick \/ Evaluate \/ UNCHANGED vars
    BY <1>2, <1>5 DEF Tick, Evaluate, vars
  <1>6. ASSUME NEW r \in Services \ {s}, NEW grace \in Graces, NEW lifetime \in Lifetimes,
               Rotate(r, grace, lifetime)
        PROVE  service'[s] = service[s]
    BY <1>6 DEF Rotate, TypeOK
  <1>7. ASSUME NEW r \in Services \ {s}, Rollback(r) PROVE service'[s] = service[s]
    BY <1>7 DEF Rollback, TypeOK
  <1> QED
    BY <1>2, <1>3, <1>4, <1>5, <1>6, <1>7 DEF Next

\* No sequence of rotations and rollbacks brings a key back or stretches the
\* window of a rollback's target (rotate, rollback, validateServiceSecret).
THEOREM SecretsGainNothing == Spec => NoSecretGains
  <1> DEFINE Gain == \A s \in Services, h \in 1..minted, t \in now..MaxTime :
                       Accepts(service'[s], h, t) => Accepts(service[s], h, t)
  <1>1. ASSUME TypeOK, [Next]_vars PROVE Gain
    <2>1. now..MaxTime \subseteq Nat
      BY <1>1, LimitsType DEF TypeOK
    <2> QED
      BY <1>1, <2>1, StepGainsNothing
  <1>2. TypeOK /\ [Next]_vars => [Gain]_vars
    BY <1>1
  <1> QED
    BY <1>2, TypeCorrect, PTL DEF Spec, NoSecretGains

(***************************************************************************)
(* A secret that was rotated out.  RotatedOutRefused speaks of the present  *)
(* instant; what is inductive speaks of every instant to come, and of       *)
(* secrets that were minted before.                                         *)
(***************************************************************************)

RefusedForGood ==
  \A r \in rotatedOut :
    /\ r[2] \in 1..minted
    /\ \A t \in Nat : t >= now /\ Accepts(service[r[1]], r[2], t) => t < r[3]

LEMMA StepRefusedForGood ==
  TypeOK /\ RefusedForGood /\ [Next]_vars => RefusedForGood'
  <1> SUFFICES ASSUME TypeOK, RefusedForGood, [Next]_vars,
                      NEW r \in rotatedOut'
               PROVE  /\ r[2] \in 1..minted'
                      /\ \A t \in Nat : t >= now' /\ Accepts(service'[r[1]], r[2], t)
                                          => t < r[3]
    BY DEF RefusedForGood
  <1>1. now \in Nat /\ now' \in Nat /\ now' >= now /\ minted \in Nat /\ minted' \in Nat
        /\ minted' >= minted
    BY LimitsType DEF TypeOK, Next, Tick, Rotate, Rollback, Evaluate, vars
  <1>2. CASE r \in rotatedOut
    <2>1. r[1] \in Services
      BY <1>2 DEF TypeOK
    <2>2. r[2] \in 1..minted
      BY <1>2 DEF RefusedForGood
    <2>3. ASSUME NEW t \in Nat, t >= now', Accepts(service'[r[1]], r[2], t)
          PROVE  t < r[3]
      <3>1. Accepts(service[r[1]], r[2], t)
        BY <2>1, <2>2, <2>3, StepGainsNothing
      <3>2. t >= now
        BY <1>1, <2>3
      <3> QED
        BY <1>2, <2>3, <3>1, <3>2 DEF RefusedForGood
    <2> QED
      BY <1>1, <2>2, <2>3
  <1>3. CASE r \notin rotatedOut
    <2>1. PICK s \in Services, grace \in Graces, lifetime \in Lifetimes :
            Rotate(s, grace, lifetime)
      BY <1>3 DEF Next, Tick, Rollback, Evaluate, vars
    <2>2. r = <<s, service[s].hash, now + grace>>
      BY <1>3, <2>1 DEF Rotate
    <2>3. service[s] \in ServiceRecord /\ service[s].hash \in 1..minted /\ grace \in Nat
      BY GracesType DEF TypeOK
    <2>4. /\ service'[s].hash = minted + 1
          /\ service'[s].previous.grace = GraceUntil(service[s], grace)
      BY <2>1 DEF Rotate, TypeOK
    <2>5. GraceUntil(service[s], grace) \in Nat /\ GraceUntil(service[s], grace) <= now + grace
      BY <1>1, <2>3, GraceUntilBound
    <2>6. ASSUME NEW t \in Nat, Accepts(service'[s], service[s].hash, t)
          PROVE  t < now + grace
      BY <1>1, <2>3, <2>4, <2>5, <2>6 DEF Accepts
    <2> QED
      BY <1>1, <2>2, <2>3, <2>6
  <1> QED
    BY <1>2, <1>3

\* A secret that was rotated out is refused from the end of the grace period on,
\* whatever is rotated and rolled back in between.
THEOREM RotatedOutStaysRefused == Spec => []RotatedOutRefused
  <1>1. Init => RefusedForGood
    BY DEF Init, RefusedForGood
  <1>2. TypeOK /\ RefusedForGood => RotatedOutRefused
    BY LimitsType DEF TypeOK, RefusedForGood, RotatedOutRefused
  <1> QED
    BY <1>1, <1>2, TypeCorrect, StepRefusedForGood, PTL DEF Spec

(***************************************************************************)
(* A change of generation and the consumers of the active key.              *)
(***************************************************************************)

\* The active secret outlives a rotation as the previous one, the target of a
\* rollback outlives it as the active one.
LEMMA StepConsumerSurvives ==
  ASSUME TypeOK, [Next]_vars, NEW s \in Services,
         Accepts(service[s], service[s].hash, now),
         service'[s].gen # service[s].gen
  PROVE  \E h \in 1..minted : Accepts(service[s], h, now) /\ Accepts(service'[s], h, now)
  <1>1. /\ now \in Nat \ {0} /\ minted \in Nat /\ service[s] \in ServiceRecord
        /\ service[s].hash \in 1..minted
        /\ service[s].previous.hash < service[s].hash
        /\ service[s].previous.gen # 0 => service[s].previous.hash # 0
    BY LimitsType DEF TypeOK
  <1>2. InTime(now, service[s].expires)
    BY <1>1 DEF Accepts, ServiceRecord
  <1>3. ASSUME NEW grace \in Graces, NEW lifetime \in Lifetimes, Rotate(s, grace, lifetime)
        PROVE  Accepts(service'[s], service[s].hash, now)
    <2>1. /\ service'[s].previous.gen = service[s].gen
          /\ service'[s].previous.hash = service[s].hash
          /\ service'[s].previous.expires = service[s].expires
          /\ service'[s].previous.grace = GraceUntil(service[s], grace)
      BY <1>3 DEF Rotate, TypeOK
    <2>2. service[s].gen # 0 /\ service[s].expires \in Nat /\ grace \in Nat \ {0}
      BY <1>1, GracesType DEF ServiceRecord
    <2>3. now < GraceUntil(service[s], grace)
      BY <1>1, <1>2, <2>2 DEF InTime, GraceUntil
    <2> QED
      BY <1>2, <2>1, <2>2, <2>3 DEF Accepts
  <1>4. ASSUME Rollback(s)
        PROVE  /\ service[s].previous.hash \in 1..minted
               /\ Accepts(service[s], service[s].previous.hash, now)
               /\ Accepts(service'[s], service[s].previous.hash, now)
    <2>1. /\ service[s].previous.gen # 0
          /\ now < EffectiveUntil(service[s].previous)
          /\ service'[s].hash = service[s].previous.hash
          /\ service'[s].expires = EffectiveUntil(service[s].previous)
      BY <1>4 DEF Rollback, TypeOK
    <2>2. EffectiveUntil(service[s].previous) \in Nat
      BY <1>1 DEF EffectiveUntil, Earlier, ServiceRecord
    <2>3. EffectiveUntil(service[s].previous) # 0
      BY <1>1, <2>1, <2>2
    <2>4. service[s].previous.hash \in 1..minted
      BY <1>1, <2>1 DEF ServiceRecord
    <2>5. Accepts(service[s], service[s].previous.hash, now)
      BY <1>1, <2>1, <2>3, EffectiveUntilMeaning DEF Accepts
    <2>6. Accepts(service'[s], service[s].previous.hash, now)
      BY <2>1 DEF Accepts, InTime
    <2> QED
      BY <2>4, <2>5, <2>6
  <1>5. ASSUME NEW r \in Services \ {s}, NEW grace \in Graces, NEW lifetime \in Lifetimes,
               Rotate(r, grace, lifetime)
        PROVE  FALSE
    BY <1>5 DEF Rotate, TypeOK
  <1>6. ASSUME NEW r \in Services \ {s}, Rollback(r) PROVE FALSE
    BY <1>6 DEF Rollback, TypeOK
  <1>7. ~(Tick \/ Evaluate \/ UNCHANGED vars)
    BY DEF Tick, Evaluate, vars
  <1> QED
    BY <1>1, <1>3, <1>4, <1>5, <1>6, <1>7 DEF Next

\* Whoever changes the generation of a service, some secret that was accepted
\* until then is still accepted after (rotate, rollback).
THEOREM ConsumersSurvive == Spec => SomeConsumerSurvives
  <1> DEFINE Survives ==
        \A s \in Services :
          Accepts(service[s], service[s].hash, now) /\ service'[s].gen # service[s].gen
          => \E h \in 1..minted : Accepts(service[s], h, now) /\ Accepts(service'[s], h, now)
  <1>1. TypeOK /\ [Next]_vars => [Survives]_vars
    BY StepConsumerSurvives
  <1> QED
    BY <1>1, TypeCorrect, PTL DEF Spec, SomeConsumerSurvives

(***************************************************************************)
(* Expiry events.  What is inductive: every event is of markers that are    *)
(* recorded in notificationState.                                           *)
(***************************************************************************)

EventsRecorded == crossings \in Seq(SUBSET notified)

LEMMA StepOneEvent ==
  EventsRecorded /\ OneEventPerCrossing /\ [Next]_vars
    => EventsRecorded' /\ OneEventPerCrossing'
  <1> SUFFICES ASSUME EventsRecorded, OneEventPerCrossing, [Next]_vars
               PROVE  EventsRecorded' /\ OneEventPerCrossing'
    OBVIOUS
  <1>1. CASE UNCHANGED <<notified, crossings>>
    BY <1>1 DEF EventsRecorded, OneEventPerCrossing
  <1>2. CASE Evaluate
    <2>1. Candidates \cap notified = {} /\ notified' = notified \cup Candidates
      BY <1>2 DEF Evaluate, Candidates
    <2>2. \A i \in 1..Len(crossings) : crossings[i] \subseteq notified
      BY DEF EventsRecorded
    <2>3. CASE crossings' = Append(crossings, Candidates)
      <3>1. crossings \in Seq(SUBSET notified')
        BY <2>1 DEF EventsRecorded
      <3>2. EventsRecorded'
        BY <2>1, <2>3, <3>1 DEF EventsRecorded
      <3>3. OneEventPerCrossing'
        <4> SUFFICES ASSUME NEW i \in 1..Len(crossings'), NEW j \in 1..Len(crossings'), i < j
                     PROVE  crossings'[i] \cap crossings'[j] = {}
          BY <2>3, <3>1 DEF OneEventPerCrossing
        <4>1. i \in 1..Len(crossings) /\ crossings'[i] = crossings[i]
          BY <2>3, <3>1
        <4>2. CASE j \in 1..Len(crossings)
          BY <2>3, <3>1, <4>1, <4>2 DEF OneEventPerCrossing
        <4>3. CASE j = Len(crossings) + 1
          <5>1. crossings'[j] = Candidates
            BY <2>3, <3>1, <4>3
          <5> QED
            BY <2>1, <2>2, <4>1, <5>1
        <4> QED
          BY <2>3, <3>1, <4>2, <4>3
      <3> QED
        BY <3>2, <3>3
    <2>4. CASE crossings' = crossings
      BY <2>1, <2>4 DEF EventsRecorded, OneEventPerCrossing
    <2> QED
      BY <1>2, <2>3, <2>4 DEF Evaluate
  <1> QED
    BY <1>1, <1>2 DEF Next, Tick, Rotate, Rollback, vars

\* However often and by whomever the thresholds are evaluated, a crossing is
\* reported once (persistExpiryThresholds, findExpiryThresholds).
THEOREM CrossingsReportedOnce == Spec => []OneEventPerCrossing
  <1>1. Init => EventsRecorded /\ OneEventPerCrossing
    BY DEF Init, EventsRecorded, OneEventPerCrossing
  <1> QED
    BY <1>1, StepOneEvent, PTL DEF Spec

(***************************************************************************)
(* What an evaluation leaves behind.                                        *)
(***************************************************************************)

\* Array.find finds a window when there is one that contains the time left.
LEMMA SomeWindowFound ==
  ASSUME NEW deadline, Inside(deadline) # {}, ~(deadline <= now)
  PROVE  \E i \in Inside(deadline) : Windows[i] \in Crossed(deadline)
  <1> DEFINE S == Inside(deadline)
  <1>1. S \subseteq Nat
    BY WindowsType DEF Inside
  <1>2. PICK m \in S : \A n \in S : <<n, m>> \notin OpToRel(<, Nat)
    BY <1>1, NatLessThanWellFounded, WFMin
  <1>3. \A n \in S : m <= n
    <2> HIDE DEF S
    <2>1. \A n \in S : ~(n < m)
      BY <1>1, <1>2 DEF OpToRel
    <2> SUFFICES ASSUME NEW n \in S PROVE m <= n
      OBVIOUS
    <2>2. m \in Nat /\ n \in Nat
      BY <1>1
    <2> QED
      BY <2>1, <2>2
  <1>4. m \in {j \in Inside(deadline) : \A k \in Inside(deadline) : j <= k}
    BY <1>2, <1>3
  <1> QED
    BY <1>2, <1>4 DEF Crossed

\* The markers of every watched deadline are recorded by an evaluation.
LEMMA EvaluationRecords ==
  ASSUME Evaluate, NEW w \in Watched, w[4] # 0, NEW c \in Crossed(w[4])
  PROVE  <<w[1], w[2], w[3], c>> \in notified'
  <1> DEFINE m == <<w[1], w[2], w[3], c>>
  <1>1. m \in UNION {{<<v[1], v[2], v[3], d>> : d \in Crossed(v[4])} :
                       v \in {u \in Watched : u[4] # 0}}
    OBVIOUS
  <1>2. m \in Candidates \/ m \in notified
    BY <1>1 DEF Candidates
  <1> QED
    BY <1>2 DEF Evaluate

LEMMA StepAnnounced ==
  TypeOK /\ DeadlinesAnnounced /\ [Next]_vars => DeadlinesAnnounced'
  <1> SUFFICES ASSUME TypeOK, DeadlinesAnnounced, [Next]_vars PROVE DeadlinesAnnounced'
    OBVIOUS
  <1>1. CASE UNCHANGED vars
    BY <1>1 DEF DeadlinesAnnounced, Watched, Inside, EffectiveUntil, vars
  <1>2. CASE Evaluate
    <2>1. /\ now' = now /\ Watched' = Watched
          /\ \A d : Inside(d)' = Inside(d)
      BY <1>2 DEF Evaluate, Watched, Inside, EffectiveUntil
    <2> SUFFICES ASSUME NEW w \in Watched, w[4] # 0
                 PROVE  /\ w[4] <= now => <<w[1], w[2], w[3], 0>> \in notified'
                        /\ w[4] > now /\ Inside(w[4]) # {}
                             => \E i \in Inside(w[4]) : <<w[1], w[2], w[3], Windows[i]>> \in notified'
      BY <2>1 DEF DeadlinesAnnounced
    <2>2. ASSUME w[4] <= now PROVE <<w[1], w[2], w[3], 0>> \in notified'
      <3>1. 0 \in Crossed(w[4])
        BY <2>2 DEF Crossed
      <3> QED
        BY <1>2, <3>1, EvaluationRecords
    <2>3. ASSUME w[4] > now, Inside(w[4]) # {}
          PROVE  \E i \in Inside(w[4]) : <<w[1], w[2], w[3], Windows[i]>> \in notified'
      <3>0. now \in Nat /\ w[4] \in Nat
        BY DEF TypeOK, Watched, ServiceRecord, EffectiveUntil, Earlier
      <3>1. PICK i \in Inside(w[4]) : Windows[i] \in Crossed(w[4])
        BY <2>3, <3>0, SomeWindowFound
      <3> QED
        BY <1>2, <3>1, EvaluationRecords
    <2> QED
      BY <2>2, <2>3
  <1>3. CASE evaluated' = FALSE
    BY <1>3 DEF DeadlinesAnnounced
  <1> QED
    BY <1>1, <1>2, <1>3 DEF Next, Tick, Rotate, Rollback

\* After an evaluation no watched deadline is without a marker: it is marked
\* expired once it has passed, and with some window as long as it is inside one
\* (findExpiryThresholds, persistExpiryThresholds).
THEOREM EvaluationMissesNone == Spec => []DeadlinesAnnounced
  <1>1. Init => DeadlinesAnnounced
    BY DEF Init, DeadlinesAnnounced
  <1> QED
    BY <1>1, TypeCorrect, StepAnnounced, PTL DEF Spec
=============================================================================
