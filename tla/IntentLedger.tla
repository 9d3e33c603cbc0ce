------------------------------ MODULE IntentLedger ------------------------------
(***************************************************************************)
(* What the ZKCP bridge promises of its intents: terms are fixed when an    *)
(* intent is opened; it is verified before it is paid; a payment is final   *)
(* until the record is dropped; only what is over is dropped, and only then *)
(* may the identifier be opened again, with other terms.                    *)
(***************************************************************************)
CONSTANTS Intents, Terms

VARIABLE intent

None == [status |-> "none"]

Over == {i \in Intents : intent[i].status \in {"paid", "failed", "unsupported"}}

Init == intent = [i \in Intents |-> None]

Move(i, from, to) ==
    /\ intent[i].status = from
    /\ intent' = [intent EXCEPT ![i].status = to]

Verify(i) == Move(i, "pending", "verified")

Pay(i) == Move(i, "verified", "paid")

GiveUp(i) == \E to \in {"failed", "unsupported"} : Move(i, "pending", to)

Dropped(gone) == [i \in Intents |-> IF i \in gone THEN None ELSE intent[i]]

Drop == \E gone \in SUBSET Over : intent' = Dropped(gone)

Open(i, terms) ==
    \E gone \in SUBSET Over :
        /\ Dropped(gone)[i] = None
        /\ intent' = [Dropped(gone) EXCEPT ![i] = [status |-> "pending", terms |-> terms]]

Next ==
    \/ \E i \in Intents : Verify(i) \/ Pay(i) \/ GiveUp(i)
    \/ \E i \in Intents, terms \in Terms : Open(i, terms)
    \/ Drop

Spec == Init /\ [][Next]_intent
=============================================================================
