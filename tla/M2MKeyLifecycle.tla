--------------------------- MODULE M2MKeyLifecycle ---------------------------
(***************************************************************************)
(* The keys in the M2M service-key registry over time: rotation with a      *)
(* grace period, rollback, validation of a presented secret, and the expiry *)
(* thresholds that listMetadata records.  Each mutation is one committed    *)
(* transaction, as M2MRegistry and M2MNeonRegistry provide it.              *)
(* Services do not read each other's records.                               *)
(*                                                                         *)
(* Instants are natural numbers after 0; 0 stands for null ("no expiry").   *)
(* A secret is known by the number of its minting, which also stands for    *)
(* its hash.                                                                *)
(***************************************************************************)
EXTENDS Naturals, Sequences, FiniteSets

CONSTANTS
  Services,       \* rotatable services with a configured key
  Windows,        \* the threshold windows, in the order of EXPIRY_THRESHOLDS
  Graces,         \* grace periods an operator may ask for
  Lifetimes,      \* lifetimes an operator may ask for; 0 asks for no expiry
  MaxTime,        \* bound: the last instant of the clock
  MaxGeneration   \* bound: the last generation of a service

ASSUME ServicesType == IsFiniteSet(Services)
ASSUME WindowsType  == Windows \in Seq(Nat \ {0})
ASSUME GracesType   == Graces \subseteq Nat \ {0}
ASSUME LifetimeType == Lifetimes \subseteq Nat
ASSUME LimitsType   == MaxTime \in Nat \ {0} /\ MaxGeneration \in Nat \ {0}

VARIABLES
  now,        \* the wall clock
  service,    \* the record of each service
  minted,     \* secrets minted so far
  rotatedOut, \* history: <<service, secret, end of the grace period asked for>>
  notified,   \* notificationState: the markers <<service, generation, role, window>>
  crossings,  \* the SERVICE_KEY_EXPIRY_THRESHOLD_CROSSED events, per transaction
  evaluated   \* history: did the last step evaluate the thresholds?

vars == <<now, service, minted, rotatedOut, notified, crossings, evaluated>>

\* EXPIRY_THRESHOLDS for the runs: 30d, 7d, 24h and 1h on a short clock.
ScaledWindows == <<4, 3, 2, 1>>

NoPrevious == [gen |-> 0, hash |-> 0, expires |-> 0, grace |-> 0]

\* One record of the registry document; previous.gen = 0 when there is none.
ServiceRecord ==
  [gen: Nat \ {0}, hash: Nat, expires: Nat,
   previous: [gen: Nat, hash: Nat, expires: Nat, grace: Nat]]

Earlier(a, b) == IF a <= b THEN a ELSE b

\* effectivePreviousDeadline
EffectiveUntil(previous) ==
  IF previous.expires = 0 THEN previous.grace
  ELSE Earlier(previous.grace, previous.expires)

\* isBeforeNow(deadline, t), where a null deadline never passes.
InTime(t, deadline) == deadline = 0 \/ t < deadline

\* Mutant: the grace deadline of a previous secret is not looked at.
AcceptsAfterGrace(record, h, t) ==
  \/ h = record.hash /\ InTime(t, record.expires)
  \/ /\ record.previous.gen # 0 /\ h = record.previous.hash
     /\ InTime(t, record.previous.expires)

\* validateServiceSecret: would secret h of the record be valid at instant t?
Accepts(record, h, t) ==
  \/ h = record.hash /\ InTime(t, record.expires)
  \/ /\ record.previous.gen # 0 /\ h = record.previous.hash
     /\ t < record.previous.grace /\ InTime(t, record.previous.expires)

----------------------------------------------------------------------------

\* Bootstrap gives every configured service generation 1, which never expires;
\* nothing keeps two services from being configured with one secret.
Init ==
  /\ now = 1
  /\ minted = Cardinality(Services)
  /\ \E hash \in [Services -> 1..minted] :
       service = [s \in Services |-> [gen |-> 1, hash |-> hash[s], expires |-> 0,
                                      previous |-> NoPrevious]]
  /\ rotatedOut = {} /\ notified = {} /\ crossings = <<>> /\ evaluated = FALSE

Tick ==
  /\ now < MaxTime
  /\ now' = now + 1
  /\ evaluated' = FALSE
  /\ UNCHANGED <<service, minted, rotatedOut, notified, crossings>>

\* Mutant: a key without an expiry is taken for one that expires before the
\* grace period ends.
GraceUntilNull(record, grace) ==
  IF record.expires < now + grace THEN record.expires ELSE now + grace

\* The grace period asked for, capped by the expiry of the key it is for.
GraceUntil(record, grace) ==
  IF record.expires # 0 /\ record.expires < now + grace THEN record.expires
  ELSE now + grace

\* Mutant: the key rotated out is recorded under the new generation.
RotateMislabelled(s, grace, lifetime) ==
  LET record == service[s]
  IN /\ record.gen < MaxGeneration
     /\ service' = [service EXCEPT ![s] =
          [gen |-> record.gen + 1, hash |-> minted + 1,
           expires |-> IF lifetime = 0 THEN 0 ELSE now + lifetime,
           previous |-> [gen |-> record.gen + 1, hash |-> record.hash,
                         expires |-> record.expires,
                         grace |-> GraceUntil(record, grace)]]]
     /\ minted' = minted + 1
     /\ rotatedOut' = rotatedOut \cup {<<s, record.hash, now + grace>>}
     /\ evaluated' = FALSE
     /\ UNCHANGED <<now, notified, crossings>>

Rotate(s, grace, lifetime) ==
  LET record == service[s]
  IN /\ record.gen < MaxGeneration
     /\ service' = [service EXCEPT ![s] =
          [gen |-> record.gen + 1, hash |-> minted + 1,
           expires |-> IF lifetime = 0 THEN 0 ELSE now + lifetime,
           previous |-> [gen |-> record.gen, hash |-> record.hash,
                         expires |-> record.expires,
                         grace |-> GraceUntil(record, grace)]]]
     /\ minted' = minted + 1
     /\ rotatedOut' = rotatedOut \cup {<<s, record.hash, now + grace>>}
     /\ evaluated' = FALSE
     /\ UNCHANGED <<now, notified, crossings>>

\* Mutant: the restored secret gets back the expiry it was created with.
RollbackRestoringExpiry(s) ==
  LET record == service[s]
  IN /\ record.gen < MaxGeneration
     /\ record.previous.gen # 0
     /\ now < EffectiveUntil(record.previous)
     /\ service' = [service EXCEPT ![s] =
          [gen |-> record.gen + 1, hash |-> record.previous.hash,
           expires |-> record.previous.expires, previous |-> NoPrevious]]
     /\ evaluated' = FALSE
     /\ UNCHANGED <<now, minted, rotatedOut, notified, crossings>>

\* The window is checked again under the lock; the previous secret comes back
\* for what was left of it, and the active one is dropped.
Rollback(s) ==
  LET record == service[s]
  IN /\ record.gen < MaxGeneration
     /\ record.previous.gen # 0
     /\ now < EffectiveUntil(record.previous)
     /\ service' = [service EXCEPT ![s] =
          [gen |-> record.gen + 1, hash |-> record.previous.hash,
           expires |-> EffectiveUntil(record.previous), previous |-> NoPrevious]]
     /\ evaluated' = FALSE
     /\ UNCHANGED <<now, minted, rotatedOut, notified, crossings>>

----------------------------------------------------------------------------
(* Expiry thresholds *)

\* The deadlines that are watched: <<service, generation, role, deadline>>.
Watched ==
  {<<s, service[s].gen, "active", service[s].expires>> : s \in Services}
  \cup {<<s, service[s].previous.gen, "previous", EffectiveUntil(service[s].previous)>> :
          s \in {t \in Services : service[t].previous.gen # 0}}

\* The windows that contain the time left before a deadline.
Inside(deadline) == {i \in 1..Len(Windows) : deadline <= now + Windows[i]}

\* Mutant: a deadline has expired only after its instant.
CrossedLate(deadline) ==
  IF deadline < now THEN {0}
  ELSE {Windows[i] : i \in {j \in Inside(deadline) : \A k \in Inside(deadline) : j <= k}}

\* Array.find: the first window of the list, in the order of the list; an
\* expired deadline has the threshold 0.
Crossed(deadline) ==
  IF deadline <= now THEN {0}
  ELSE {Windows[i] : i \in {j \in Inside(deadline) : \A k \in Inside(deadline) : j <= k}}

\* Mutant: the markers that were recorded before are not filtered out.
CandidatesUnfiltered ==
  UNION {{<<w[1], w[2], w[3], c>> : c \in Crossed(w[4])} : w \in {v \in Watched : v[4] # 0}}

\* findExpiryThresholds
Candidates ==
  {m \in UNION {{<<w[1], w[2], w[3], c>> : c \in Crossed(w[4])} :
                  w \in {v \in Watched : v[4] # 0}} : m \notin notified}

\* listMetadata persists a marker and an event for each new crossing, in one
\* transaction, or nothing when there is none.
Evaluate ==
  /\ notified' = notified \cup Candidates
  /\ crossings' = IF Candidates = {} THEN crossings ELSE Append(crossings, Candidates)
  /\ evaluated' = TRUE
  /\ UNCHANGED <<now, service, minted, rotatedOut>>

Next ==
  \/ Tick
  \/ \E s \in Services, grace \in Graces, lifetime \in Lifetimes : Rotate(s, grace, lifetime)
  \/ \E s \in Services : Rollback(s)
  \/ Evaluate

Spec == Init /\ [][Next]_vars

----------------------------------------------------------------------------
(* Properties *)

\* The state is one the registry document can hold: a record names secrets that
\* were minted, and its previous key is older, in generation and by its secret.
TypeOK ==
  /\ now \in 1..MaxTime
  /\ minted \in Nat
  /\ service \in [Services -> ServiceRecord]
  /\ \A s \in Services : /\ service[s].hash \in 1..minted
                         /\ service[s].previous.hash < service[s].hash
                         /\ service[s].previous.gen # 0 => service[s].previous.hash # 0
                         /\ service[s].previous.gen < service[s].gen
  /\ rotatedOut \subseteq Services \X Nat \X Nat
  /\ evaluated \in BOOLEAN

\* No secret gains acceptance: whatever is rotated and rolled back, a secret
\* that exists is valid at a later instant only if it already was to be valid
\* at that instant.  So a rotated-out or expired key never comes back, and a
\* rollback cannot stretch its target's window (rotate, rollback).
NoSecretGains ==
  [][\A s \in Services, h \in 1..minted, t \in now..MaxTime :
       Accepts(service'[s], h, t) => Accepts(service[s], h, t)]_vars

\* A change of generation does not lock the consumers of a valid active key out:
\* some secret that was valid stays valid, the active one through the grace
\* period of a rotation, the target through a rollback.
SomeConsumerSurvives ==
  [][\A s \in Services :
       Accepts(service[s], service[s].hash, now) /\ service'[s].gen # service[s].gen
       => \E h \in 1..minted : Accepts(service[s], h, now) /\ Accepts(service'[s], h, now)]_vars

\* A secret that was rotated out is refused from the end of the grace period
\* that was asked for, also when it was rolled back to and rotated out again in
\* the meantime.
RotatedOutRefused ==
  \A r \in rotatedOut : Accepts(service[r[1]], r[2], now) => now < r[3]

\* A crossing is reported by one event, however often it is evaluated.
OneEventPerCrossing ==
  \A i, j \in 1..Len(crossings) : i # j => crossings[i] \cap crossings[j] = {}

\* Once the thresholds are evaluated, every deadline that has passed is marked
\* expired, and every one inside the widest window is marked with a window.
DeadlinesAnnounced ==
  evaluated => \A w \in {v \in Watched : v[4] # 0} :
    /\ w[4] <= now => <<w[1], w[2], w[3], 0>> \in notified
    /\ w[4] > now /\ Inside(w[4]) # {}
         => \E i \in Inside(w[4]) : <<w[1], w[2], w[3], Windows[i]>> \in notified

\* Once the thresholds are evaluated, every window a deadline is inside of has
\* its marker: each of 30d, 7d, 24h and 1h is a threshold to be crossed.
EveryThresholdMarked ==
  evaluated => \A w \in {v \in Watched : v[4] > now} : \A i \in Inside(w[4]) :
    (\A j \in Inside(w[4]) : Windows[i] <= Windows[j])
      => <<w[1], w[2], w[3], Windows[i]>> \in notified
=============================================================================
