---------------------------- MODULE MCVerifierBridges ----------------------------
(* VerifierBridges for TLC: sound requests and answers, and each with one    *)
(* thing wrong.                                                              *)
EXTENDS VerifierBridges, TLC

CONSTANTS
    prod, test, none,   \* an authoritative backend, another one, UNAVAILABLE_BACKEND
    c1, c2, i1, i2, t1, t2, s1, s2, p1, p2, p3

CallSymmetry == Permutations(Calls)

MCWirings == {<<prod, prod>>, <<prod, test>>, <<test, NoIdentity>>, <<none, none>>}

Input(name, index) == [name |-> name, index |-> index, size |-> 1, form |-> "ok", bound |-> TRUE]

Sound(digest) ==
    [shape |-> "ok", backend |-> prod, provenance |-> "production",
     proof |-> [form |-> "ok", bound |-> TRUE],
     inputs |-> <<Input("a", 0), Input("b", 1)>>, inputsBound |-> TRUE, digest |-> digest]

(* One defect each, in the order the code looks for them.                    *)
Defective == LET q == Sound("d1") IN {
    [q EXCEPT !.shape = "not_object"], [q EXCEPT !.shape = "oversized"],
    [q EXCEPT !.shape = "malformed"], [q EXCEPT !.backend = NoIdentity],
    [q EXCEPT !.backend = test], [q EXCEPT !.provenance = "forged"],
    [q EXCEPT !.proof.form = "malformed"], [q EXCEPT !.proof.form = "oversized"],
    [q EXCEPT !.proof.form = "undecodable"], [q EXCEPT !.proof.bound = FALSE],
    [q EXCEPT !.inputs = @ \o <<Input("c", 2), Input("d", 3)>>],
    [q EXCEPT !.inputs[1].size = 3], [q EXCEPT !.inputs[1].size = 2, !.inputs[2].size = 2],
    [q EXCEPT !.inputs[2].form = "malformed"], [q EXCEPT !.inputs[2].form = "undecodable"],
    [q EXCEPT !.inputs[2].index = 2], [q EXCEPT !.inputs[2].name = "a"],
    [q EXCEPT !.inputs[2].bound = FALSE], [q EXCEPT !.inputsBound = FALSE]}

---------------------------------------------------------------------------
Answer(digest, backend) ==
    [form |-> "ok", digest |-> digest, status |-> "valid", verified |-> TRUE,
     backend |-> backend, provenance |-> "production", failure |-> "none"]

(* Sound, then one defect each; the last two are honest refusals.            *)
Answers(digests) ==
    {Answer(d, prod) : d \in digests} \cup
    LET r == Answer(CHOOSE d \in digests : TRUE, prod) IN {
        [r EXCEPT !.form = "thrown"], [r EXCEPT !.form = "malformed"], [r EXCEPT !.form = "long_error"],
        [r EXCEPT !.backend = test], [r EXCEPT !.backend = none], [r EXCEPT !.backend = NoIdentity],
        [r EXCEPT !.provenance = "test"], [r EXCEPT !.provenance = "forged"],
        [r EXCEPT !.verified = FALSE], [r EXCEPT !.status = "invalid"],
        [r EXCEPT !.failure = "proof_invalid"], [r EXCEPT !.backend = test, !.provenance = "test"],
        [r EXCEPT !.status = "unavailable", !.verified = FALSE, !.failure = "backend_unavailable"],
        [r EXCEPT !.status = "invalid", !.verified = FALSE, !.failure = "proof_invalid"]}

(* Those that a bridge treats in different ways.                             *)
FewAnswers(digests) ==
    {r \in Answers(digests) :
        r.form \in {"ok", "thrown"} /\ r.failure # "proof_invalid"
        /\ (r.provenance = "production" => r.backend # NoIdentity /\ (r.status = "valid") = r.verified)}

---------------------------------------------------------------------------
ZkRequest(i, terms) ==
    [kind |-> "verify", shape |-> "ok", backend |-> prod, provenance |-> "production",
     proof |-> [form |-> "ok", bound |-> TRUE], inputs |-> <<Input("a", 0)>>,
     inputsBound |-> TRUE, digest |-> <<i, terms>>,
     proofTerms |-> terms, inputTerms |-> terms, statement |-> <<"statement", i, terms>>,
     domain |-> <<"domain", i, terms>>, system |-> "zk"]

MCZkRequests ==
    {[kind |-> "watch"], ZkRequest(i1, t1)} \cup
    LET q == ZkRequest(i1, t1) IN
        {[q EXCEPT !.domain = <<"statement", i1, t1>>]}

MCZkResults == Answers({<<i1, t1>>, <<i2, t1>>})

Payment(i, terms) ==
    [form |-> "ok", status |-> "observed", detected |-> TRUE, provenance |-> "production",
     failure |-> "none",
     observation |-> [form |-> "ok", id |-> i, terms |-> terms, exact |-> TRUE, observer |-> prod,
                      provenance |-> "production", bound |-> TRUE]]

MCPayments ==
    {Payment(i1, t1), Payment(i1, t2), Payment(i2, t1)} \cup
    LET p == Payment(i1, t1) IN {
        [p EXCEPT !.form = "thrown"], [p EXCEPT !.form = "malformed"], [p EXCEPT !.form = "long_error"],
        [p EXCEPT !.status = "not_observed"], [p EXCEPT !.detected = FALSE],
        [p EXCEPT !.status = "not_observed", !.detected = FALSE, !.failure = "payment_not_observed"],
        [p EXCEPT !.failure = "payment_not_observed"], [p EXCEPT !.provenance = "test"],
        [p EXCEPT !.provenance = "test", !.observation.provenance = "test"],
        [p EXCEPT !.observation.form = "malformed"], [p EXCEPT !.observation.form = "oversized"],
        [p EXCEPT !.observation.exact = FALSE], [p EXCEPT !.observation.bound = FALSE],
        [p EXCEPT !.observation.observer = test]}

---------------------------------------------------------------------------
With(q, f) == [x \in DOMAIN q \cup DOMAIN f |-> IF x \in DOMAIN f THEN f[x] ELSE q[x]]

Profile == [taps |-> 2, required |-> 2, signers |-> {s1, s2}]

FloorRequest(profile) == [kind |-> "verify", profile |-> profile]

MCFloorRequests ==
    {With(Sound("d1"), FloorRequest(Profile)),
     With(Sound("d2"), FloorRequest([taps |-> 1, required |-> 1, signers |-> {s1}])),
     With(Sound("d1"), FloorRequest(NoProfile)),
     With(Sound("d1"), FloorRequest([Profile EXCEPT !.taps = 1])),
     With(Sound("d1"), FloorRequest([Profile EXCEPT !.signers = {s1}])),
     With(Sound("d1"), FloorRequest([Profile EXCEPT !.taps = 0]))} \cup
    {With(q, FloorRequest(Profile)) : q \in Defective}

MCFloorResults == FewAnswers({"d1", "d2"})

Signed(p, signer, value) ==
    [form |-> "ok", status |-> "valid", verified |-> TRUE, failure |-> "none", backend |-> prod,
     provenance |-> "production",
     attestation |-> [proof |-> p, signer |-> signer, value |-> value, backend |-> prod,
                      provenance |-> "production"]]

MCSignResults ==
    {Signed(i1, s, "v1") : s \in {s1, s2}} \cup {Signed(i2, s1, "v1")} \cup
    LET r == Signed(i1, s1, "v1") IN {
        [r EXCEPT !.form = "thrown"], [r EXCEPT !.status = "invalid", !.verified = FALSE],
        [r EXCEPT !.provenance = "simulated", !.attestation.provenance = "simulated"],
        [r EXCEPT !.backend = test, !.attestation.backend = test],
        [r EXCEPT !.attestation.value = "v2"], [r EXCEPT !.failure = "proof_invalid"]}

---------------------------------------------------------------------------
MCProofRequests ==
    {With(Sound("d1"), [height |-> 0]), With(Sound("d2"), [height |-> 0]),
     With(Sound("d1"), [height |-> 2]), With(Sound("d1"), [height |-> -1])} \cup
    {With(q, [height |-> 0]) : q \in {d \in Defective : d.backend = test \/ ~d.proof.bound}}

MCProofResults == FewAnswers({"d1", "d2"})

---------------------------------------------------------------------------
(* A smaller world, for the run that looks at whole behaviours.              *)
LiveZkRequests == {[kind |-> "watch"], ZkRequest(i1, t1)}

LiveAnswers(digest) == {Answer(digest, prod), [Answer(digest, prod) EXCEPT !.form = "thrown"]}

LiveZkResults == LiveAnswers(<<i1, t1>>)

LivePayments == {Payment(i1, t1), [Payment(i1, t1) EXCEPT !.form = "thrown"]}

LiveFloorRequests ==
    {With(Sound("d1"), FloorRequest(Profile)), With(Sound("d1"), FloorRequest([Profile EXCEPT !.taps = 0]))}

LiveSignResults == {Signed(i1, s1, "v1"), [Signed(i1, s1, "v1") EXCEPT !.form = "thrown"]}

LiveProofRequests == {With(Sound(d), [height |-> 0]) : d \in {"d1", "d2"}}

LiveDigestResults == LiveAnswers("d1")

LiveWirings == {<<prod, prod>>, <<none, none>>}
=============================================================================
