------------------------------- MODULE AskTwin -------------------------------
(***************************************************************************)
(* ask_twin over the evidence of EvidenceIngest: retrieval, the call to    *)
(* the reasoning gateway with the local reasoner behind it, and what the   *)
(* answer is worth.  Retrieval is any ranking of the newest records, for   *)
(* BM25 orders them by text; an answer is the set of identifiers it has in *)
(* brackets.  What is measured and retrieved is read before the gateway is *)
(* awaited, and used after it.                                             *)
(***************************************************************************)
EXTENDS EvidenceIngest, Integers

CONSTANTS
    Gateways,       \* a set of Booleans: is oneai_core_url configured?
    HitLimit,       \* limit=5
    CandidateLimit, \* CANDIDATE_LIMIT
    Invented        \* a bracketed text that is no identifier of a record

VARIABLES
    asked           \* the question under way, and its answer

NoAnswer == [confidence |-> 0, provisional |-> FALSE, cited |-> {},
             claims |-> <<>>, mode |-> "none", model_backed |-> FALSE]
Unasked == [pc |-> "idle", gateway |-> FALSE, hits |-> <<>>, backing |-> {}, behind |-> FALSE,
            late |-> FALSE, answer |-> NoAnswer]

AskInit ==
    /\ EvidenceInit
    /\ \E configured \in Gateways : asked = [Unasked EXCEPT !.gateway = configured]

\* search_evidence: the best of the newest records, or none that matches.
Rankings == UNION {[1 .. n -> {i \in DOMAIN filed : i > Len(filed) - CandidateLimit}]
                   : n \in 0 .. HitLimit}

\* _supports_activity is a matter of wording: any of the hits may name the
\* worst of the late activities.  The project may be behind its baseline and
\* have late activities, or not.  To bound the runs, the question comes when
\* the last upload has begun.
ask_twin ==
    /\ asked.pc = "idle" /\ \A u \in Upload : upload[u].pc # "idle"
    /\ \E hits \in {h \in Rankings : IsInjective(h)} : \E backing \in SUBSET ToSet(hits) :
       \E behind, late \in BOOLEAN :
          asked' = [asked EXCEPT !.pc = IF asked.gateway THEN "awaiting" ELSE "local",
                                 !.hits = hits, !.backing = backing,
                                 !.behind = behind, !.late = late]
    /\ UNCHANGED evidenceVars

IdOf(i) == filed[i].hash.id
Supplied == {IdOf(asked.hits[k]) : k \in DOMAIN asked.hits}

verify_citations_of_table(cited) == cited \ {IdOf(i) : i \in DOMAIN filed}

\* What is cited and was not supplied.
verify_citations(cited) == cited \ Supplied

\* Claims from the state that was read before the call.
Claim(said, supported, ids) ==
    IF said THEN <<[supported |-> supported, evidence_ids |-> ids]>> ELSE <<>>

_build_claims ==
    LET hits == asked.hits
        claims == Claim(asked.behind, TRUE, {})
                  \o Claim(asked.late, asked.backing # {}, asked.backing)
                  \o Claim(hits # <<>>, TRUE, {hits[k] : k \in {1} \cap DOMAIN hits})
    IN  IF claims = <<>> THEN Claim(TRUE, FALSE, {}) ELSE claims

\* Parts of 10 000.  The share of supported claims is not rounded on its own.
Scaled(base, claims) ==
    LET backed == Cardinality({k \in DOMAIN claims : claims[k].supported})
    IN  (base * (60 * Len(claims) + 40 * backed)) \div Len(claims)

\* The last part of ask_twin, from the reasoner's text on.
Answer(base, mode, cited) ==
    LET unverified == verify_citations(cited)
        claims == _build_claims
        scaled == Scaled(base, claims)
        confidence == IF asked.hits = <<>> THEN Min({base * 100, 4000})
                      ELSE IF unverified # {} THEN Min({scaled, 4500}) ELSE scaled
    IN  /\ asked' = [asked EXCEPT !.pc = "answered",
                !.answer = [confidence |-> confidence, provisional |-> asked.hits = <<>>,
                            cited |-> cited, claims |-> claims, mode |-> mode,
                            model_backed |-> mode = "gateway"]]
        /\ UNCHANGED evidenceVars

Citable == {IdOf(i) : i \in DOMAIN filed} \cup {Invented}

\* The gateway answers with some text; of what it cites, one is looked at ...
GatewayAnswers ==
    /\ asked.pc = "awaiting"
    /\ \E cited \in {{}} \cup {{id} : id \in Citable} : Answer(75, "gateway", cited)

\* ... or fails or says nothing, and the local reasoner answers.  It quotes
\* the first records, and a record may have brackets of its own.
LocalBase == IF asked.hits = <<>> THEN 30 ELSE 62

FallsBack ==
    /\ asked.pc = "awaiting"
    /\ \E cited \in {{}} \cup (IF asked.hits = <<>> THEN {} ELSE {{Invented}}) :
          Answer(LocalBase, "degraded-local-fallback", cited)

AnswersLocally ==
    /\ asked.pc = "local"
    /\ \E cited \in {{}} \cup (IF asked.hits = <<>> THEN {} ELSE {{Invented}}) :
          Answer(LocalBase, "demonstrative-local", cited)

\* One question is asked; a behaviour ends with its answer.
AskNext ==
    \/ EvidenceNext /\ asked.pc # "answered" /\ UNCHANGED asked
    \/ ask_twin \/ GatewayAnswers \/ FallsBack \/ AnswersLocally

AskSpec == AskInit /\ [][AskNext]_<<evidenceVars, asked>>
-----------------------------------------------------------------------------
\* Confidence is in parts of 10 000.
Parts == 10000

AskTypeOK ==
    /\ asked.pc \in {"idle", "local", "awaiting", "answered"}
    /\ ToSet(asked.hits) \subseteq DOMAIN filed
    /\ asked.answer.confidence \in 0 .. Parts

\* An answer is worth what stands behind it, whatever is filed and measured
\* while the gateway thinks: without records it is provisional and at most
\* 0.4; with a citation that was not supplied it is at most 0.45; an
\* unsupported claim costs it; it is called a model's only when the model
\* spoke; and what it points at is a record.
ConfidenceIsEarned ==
    asked.pc = "answered" =>
        LET a == asked.answer
            base == IF a.model_backed THEN 7500 ELSE 6200 IN
        /\ a.provisional <=> asked.hits = <<>>
        /\ a.provisional => a.confidence <= 4000
        /\ ~(a.cited \subseteq Supplied) => a.confidence <= 4500
        /\ (\E k \in DOMAIN a.claims : ~a.claims[k].supported) => a.confidence < base
        /\ a.confidence > 6200 => a.model_backed
        /\ a.model_backed => asked.gateway /\ a.mode = "gateway"
        /\ \A k \in DOMAIN a.claims : a.claims[k].evidence_ids \subseteq ToSet(asked.hits)
=============================================================================
