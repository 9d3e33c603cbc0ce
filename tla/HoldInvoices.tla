------------------------------- MODULE HoldInvoices -------------------------------
(***************************************************************************)
(* The asynchronous payment engine: hold invoices by payment hash, which a   *)
(* payment makes held, and the preimage settled, unless they are canceled or  *)
(* expire first.  Expiry is noticed only when somebody looks.  Identifiers    *)
(* stand for preimages and for their hashes, which determine each other.     *)
(***************************************************************************)
EXTENDS EngineBounds

CONSTANT MaxInvoices        \* bound on the invoices made in one behaviour

ASSUME HoldInvoicesAssumption == MaxInvoices \in Nat

VARIABLES hiInvoices, hiNow, hiMade

hiVars == <<hiInvoices, hiNow, hiMade>>

HiInit == hiInvoices = [h \in EngineIds |-> Nothing] /\ hiNow = 0 /\ hiMade = 0

\* Mutant: only an invoice nobody pays for expires.
CheckExpiryUnheld(r) ==
    IF r.state = "created" /\ r.expires <= hiNow THEN [r EXCEPT !.state = "expired"] ELSE r

CheckExpiry(r) ==
    IF r.state \in {"created", "held"} /\ r.expires <= hiNow THEN [r EXCEPT !.state = "expired"] ELSE r

(* An invoice for a preimage used before takes the place of the older one.   *)
CreateHoldInvoice(h, ttl) ==
    /\ hiMade < MaxInvoices
    /\ HasRoom(hiInvoices)
    /\ hiInvoices' = [hiInvoices EXCEPT ![h] = CheckExpiry(
        [state |-> "created", id |-> hiMade + 1, expires |-> hiNow + ttl, heldAt |-> -1, settledAt |-> -1])]
    /\ hiMade' = hiMade + 1
    /\ UNCHANGED hiNow

(* A call that finds the invoice expired records that before it throws.      *)
Held(r) == IF r.state = "created" THEN [r EXCEPT !.state = "held", !.heldAt = hiNow] ELSE r

HoldHtlc(h) ==
    /\ hiInvoices[h] # Nothing
    /\ hiInvoices' = [hiInvoices EXCEPT ![h] = Held(CheckExpiry(@))]
    /\ UNCHANGED <<hiNow, hiMade>>

(* Settled by the preimage of this hash only.                                *)
Settled(r, h, preimage) ==
    IF r.state = "held" /\ preimage = h THEN [r EXCEPT !.state = "settled", !.settledAt = hiNow] ELSE r

SettleHoldInvoice(h, preimage) ==
    /\ hiInvoices[h] # Nothing
    /\ hiInvoices' = [hiInvoices EXCEPT ![h] = Settled(CheckExpiry(@), h, preimage)]
    /\ UNCHANGED <<hiNow, hiMade>>

(* Cancelling does not look at the time.                                     *)
CancelHoldInvoice(h) ==
    /\ InState(hiInvoices, h, {"created", "held"})
    /\ hiInvoices' = [hiInvoices EXCEPT ![h].state = "canceled"]
    /\ UNCHANGED <<hiNow, hiMade>>

GetInvoice(h) ==
    /\ hiInvoices[h] # Nothing
    /\ hiInvoices' = [hiInvoices EXCEPT ![h] = CheckExpiry(@)]
    /\ UNCHANGED <<hiNow, hiMade>>

HiTick == hiNow < MaxEngineTime /\ hiNow' = hiNow + 1 /\ UNCHANGED <<hiInvoices, hiMade>>

HiNext ==
    \/ \E h \in EngineIds :
        \/ \E ttl \in {0, EngineTtl} : CreateHoldInvoice(h, ttl)
        \/ HoldHtlc(h) \/ CancelHoldInvoice(h) \/ GetInvoice(h)
        \/ \E preimage \in EngineIds : SettleHoldInvoice(h, preimage)
    \/ HiTick

---------------------------------------------------------------------------
HiTypeOK ==
    /\ hiNow \in Moments /\ hiMade \in 0..MaxInvoices
    /\ \A h \in Stored(hiInvoices) : LET r == hiInvoices[h] IN
        /\ r.state \in {"created", "held", "settled", "canceled", "expired"}
        /\ r.heldAt \in Moments \cup {-1} /\ r.settledAt \in Moments \cup {-1}

(* A settled invoice was paid before it was settled, and both happened before *)
(* it expired; an invoice that was never paid is never settled; nothing has    *)
(* expired before its time.                                                 *)
HiSound ==
    \A h \in Stored(hiInvoices) : LET r == hiInvoices[h] IN
        /\ r.state = "settled" <=> r.settledAt # -1
        /\ r.settledAt # -1 => r.heldAt # -1 /\ r.heldAt <= r.settledAt /\ r.settledAt < r.expires
        /\ r.heldAt # -1 => r.heldAt < r.expires
        /\ r.state = "expired" => r.expires <= hiNow

(* An invoice is settled, canceled or expired for ever, until an invoice with  *)
(* the same preimage takes its place.                                        *)
HiFinal ==
    \A h \in Stored(hiInvoices) :
        /\ hiInvoices'[h] # Nothing
        /\ hiInvoices[h].state \in {"settled", "canceled", "expired"} =>
            hiInvoices'[h] = hiInvoices[h] \/ hiInvoices'[h].id > hiInvoices[h].id
=============================================================================
