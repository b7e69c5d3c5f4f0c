SPECIFICATION Spec
CONSTANTS
    Threads = {t1, t2}
    NoThread = NoThread
    Kinds = {"Random", "SecureRandom"}
    Ops = {"nextInt", "nextIntBelow", "nextDouble", "nextGuassian",
           "nextBytes", "setSeed"}
    MaxCalls = 2
    MaxRounds = 2
INVARIANTS TypeOK ValuesInOrder CachedSinceSeed OnlyGuassianBlocks
PROPERTIES CallsReturn
CHECK_DEADLOCK FALSE
