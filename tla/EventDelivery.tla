------------------------------ MODULE EventDelivery ------------------------------
(***************************************************************************)
(* The event delivery runtime of the gateway: a batch of events is sorted by  *)
(* sequence number and delivered one after the other, and the number of the   *)
(* last one processed says where the next batch goes on.  The runtime awaits   *)
(* every delivery, and nothing keeps two batches from being under way.        *)
(***************************************************************************)
EXTENDS Integers, Sequences, FiniteSets

CONSTANTS
    Batchers,       \* callers of processBatch
    Feed,           \* sequence numbers of the events of the feed; each is one event
    MaxRetries,     \* MAX_RETRIES
    MaxBatches      \* bound on the batches of one behaviour

ASSUME DeliveryAssumption == Feed \subseteq Nat \ {0} /\ MaxRetries \in Nat \ {0} /\ MaxBatches \in Nat

VARIABLES
    edLast,         \* last_sequence_processed
    edRecords,      \* delivery_records: event -> a record, by its place in edObjects
    edObjects,      \* the records made so far, also those that were replaced
    edBatch,        \* per caller, the events of its batch it has not come to
    edSending,      \* per caller, the delivery it awaits
    edSent,         \* history: deliveries that succeeded, per event
    edBatches,      \* counts the batches
    edOverlap       \* history: two batches were under way at once

edVars == <<edLast, edRecords, edObjects, edBatch, edSending, edSent, edBatches, edOverlap>>

NoDelivery == [event |-> 0, object |-> 0]

EdInit ==
    /\ edLast = 0 /\ edRecords = <<>> /\ edObjects = <<>>
    /\ edBatch = [b \in Batchers |-> {}]
    /\ edSending = [b \in Batchers |-> NoDelivery]
    /\ edSent = [e \in Feed |-> 0]
    /\ edBatches = 0 /\ edOverlap = FALSE

(* A sorted batch is the set of its events, of which the least is next.       *)
NextEvent(events) == CHOOSE e \in events : \A o \in events : e <= o

UnderWay(b) == edBatch[b] # {} \/ edSending[b] # NoDelivery

ProcessBatch(b, events) ==
    /\ ~UnderWay(b) /\ edBatches < MaxBatches
    /\ edBatch' = [edBatch EXCEPT ![b] = events]
    /\ edBatches' = edBatches + 1
    /\ edOverlap' = (edOverlap \/ \E o \in Batchers : UnderWay(o))
    /\ UNCHANGED <<edLast, edRecords, edObjects, edSending, edSent>>

AlreadyProcessed(e) == e <= edLast

SkipEvent(b) ==
    /\ edSending[b] = NoDelivery /\ edBatch[b] # {}
    /\ AlreadyProcessed(NextEvent(edBatch[b]))
    /\ edBatch' = [edBatch EXCEPT ![b] = @ \ {NextEvent(@)}]
    /\ UNCHANGED <<edLast, edRecords, edObjects, edSending, edSent, edBatches, edOverlap>>

(* The record is looked up before the adapter is called; a new one is stored  *)
(* only when the adapter has answered.                                      *)
BeginDelivery(b) ==
    /\ edSending[b] = NoDelivery /\ edBatch[b] # {}
    /\ LET e == NextEvent(edBatch[b])  known == e \in DOMAIN edRecords IN
        /\ ~AlreadyProcessed(e)
        /\ edSending' = [edSending EXCEPT ![b] =
            [event |-> e, object |-> IF known THEN edRecords[e] ELSE Len(edObjects) + 1]]
        /\ edObjects' = IF known THEN edObjects
                        ELSE Append(edObjects, [status |-> "pending", retries |-> 0])
    /\ edBatch' = [edBatch EXCEPT ![b] = @ \ {NextEvent(@)}]
    /\ UNCHANGED <<edLast, edRecords, edSent, edBatches, edOverlap>>

Attempted(record, delivered) ==
    IF delivered THEN [record EXCEPT !.status = "delivered"]
    ELSE [status |-> IF record.retries + 1 <= MaxRetries THEN "retrying" ELSE "failed",
          retries |-> record.retries + 1]

(* The mark moves whether the adapter took the event or not, and to its        *)
(* number wherever the mark stood.                                          *)
EndDelivery(b, delivered) ==
    LET e == edSending[b].event  o == edSending[b].object IN
    /\ edSending[b] # NoDelivery
    /\ edObjects' = [edObjects EXCEPT ![o] = Attempted(@, delivered)]
    /\ edRecords' = [x \in DOMAIN edRecords \cup {e} |-> IF x = e THEN o ELSE edRecords[x]]
    /\ edSent' = [edSent EXCEPT ![e] = IF delivered THEN @ + 1 ELSE @]
    /\ edLast' = e
    /\ edSending' = [edSending EXCEPT ![b] = NoDelivery]
    /\ UNCHANGED <<edBatch, edBatches, edOverlap>>

EdNext ==
    \E b \in Batchers :
        \/ \E events \in SUBSET Feed \ {{}} : ProcessBatch(b, events)
        \/ SkipEvent(b) \/ BeginDelivery(b)
        \/ \E delivered \in BOOLEAN : EndDelivery(b, delivered)

---------------------------------------------------------------------------
EdTypeOK ==
    /\ edLast \in Feed \cup {0} /\ edBatches \in 0 .. MaxBatches /\ edOverlap \in BOOLEAN
    /\ DOMAIN edRecords \subseteq Feed
    /\ \A e \in DOMAIN edRecords : edRecords[e] \in DOMAIN edObjects
    /\ \A o \in DOMAIN edObjects : edObjects[o].status \in {"pending", "delivered", "retrying", "failed"}
    /\ \A e \in Feed : edSent[e] \in Nat

RecordOf(e) == edObjects[edRecords[e]]

(* The mark is at an event that was tried, and what was delivered has a       *)
(* record.  While no two batches overlapped, an event is tried once, failed or  *)
(* not, and never again: it is delivered at most once, and its record says so.  *)
EdSound ==
    /\ edLast # 0 => edLast \in DOMAIN edRecords
    /\ \A e \in Feed : edSent[e] > 0 => e \in DOMAIN edRecords
    /\ ~edOverlap => \A e \in DOMAIN edRecords :
        /\ e <= edLast
        /\ RecordOf(e) = IF edSent[e] = 1 THEN [status |-> "delivered", retries |-> 0]
                                          ELSE [status |-> "retrying", retries |-> 1]

(* The mark goes back only when two batches overlapped, and no record of an     *)
(* event is ever given up without another one.                               *)
EdFinal ==
    /\ edLast' < edLast => edOverlap
    /\ DOMAIN edRecords \subseteq DOMAIN edRecords'
=============================================================================
