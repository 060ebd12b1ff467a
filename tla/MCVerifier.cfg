\* Every preset and its variants against every family, with evidence that
\* deviates from an honest provider's in up to two respects.
SPECIFICATION Spec
CONSTANTS
    Policies <- MCPolicies
    Routes <- MCRoutes
    References <- MCReferences
    Evidences <- MCEvidences
    NoReference = NoReference
    Nothing = Nothing
    Now = 3
CHECK_DEADLOCK FALSE
INVARIANTS
    VerdictProven
    LifeBounded
    VerdictsMonotone
