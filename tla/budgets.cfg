CONSTANTS
    SearchBudget = 12
    ReadTimeout = 3
    DistillBudget = 3
    AttemptTimeout = 1
    MaxAttempts = 5
    MaxDelay = 3
    MaxRetries = 2
    ProxyTimeout = 13
    StopGrace = 13
    MaxTurns = 1
    MaxRounds = 2
SPECIFICATION Spec
INVARIANTS AnswersInTime ShutdownSparesAnswers BudgetsHold
