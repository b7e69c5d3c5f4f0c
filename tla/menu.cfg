SPECIFICATION Spec
CONSTANTS
    MaxOptions = 3
    Stray <- MCStray
INVARIANTS TypeOK CountsAgree SelectionInRange LockExplained
PROPERTIES ResultsDesignate
