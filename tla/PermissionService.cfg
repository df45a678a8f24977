SPECIFICATION Spec
CONSTANTS
    Request <- Requests
    User = {u1, u2}
    Session <- Sessions
    Resource <- Files
    SessionOf <- SessionOfRequest
    ResourcesOf <- FilesOf
    SaveOf <- Saves
    RulesOf <- Rules
    Removable = {"s1"}
    MaxAnswers = 2
INVARIANT GrantWasDue
INVARIANT NobodyIsStuck
INVARIANT OutcomeIsAnnounced
INVARIANT AnswersAreCarriedOut
PROPERTY SweepIsComplete
SYMMETRY Users
CHECK_DEADLOCK FALSE
