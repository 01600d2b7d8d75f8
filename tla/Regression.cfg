SPECIFICATION Spec
CONSTANTS
    Disks <- SomeDisks
    Commands <- SomeCommands
    Initial <- Letter
    Spelling <- Alphabet
    Suites <- SomeSuites
    Tails <- SomeTails
    MaxRuns = 2
    Missing = Missing
INVARIANTS ComparisonShown ListingsAgree ReportsOfLastSuccess
