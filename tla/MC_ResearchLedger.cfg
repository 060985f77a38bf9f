CONSTANTS
    EvidenceIds = {e1, e2}
    Hypotheses = {h1, h2}
    Conclusions = {c1}
    NoEvidence = NoEvidence
    NoConclusion = NoConclusion
    NotPremise = NotPremise
    MaxTransitions = 4
SYMMETRY Symmetry
SPECIFICATION Spec
INVARIANTS
    HistoryExplainsState
    ReopenCitesNewEvidence
    CitationsStayRegistered
PROPERTIES
    InvalidStaysInvalid
