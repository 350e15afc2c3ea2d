\* Two publisher processes, two generations and four signed plans.
SPECIFICATION Spec
CONSTANTS
    Publishers = {p1, p2}
    g1 = g1
    g2 = g2
    Generations = {g1, g2}
    Plans <- SignedPlans
    NoGeneration = NoGeneration
    NoPlan = NoPlan
    NoJournal = NoJournal
    NoIntent = NoIntent
    NoReply = NoReply
    Nobody = Nobody
SYMMETRY Interchangeable
INVARIANT ReconcileAccepts
INVARIANT StateNamesCurrent
INVARIANT RepliesAreTrue
PROPERTY AttestedIsCurrent
PROPERTY ImplementsPublication
