CONSTANTS
    EvidenceIds = {e1, e2}
    Hypotheses = {h1}
    Conclusions = {c1}
    NoEvidence = NoEvidence
    NoConclusion = NoConclusion
    NotPremise = NotPremise
    MaxTransitions = 4
SPECIFICATION Spec
INVARIANT RejectedNeedsReopen
