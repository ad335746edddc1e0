SPECIFICATION FairSpec
CONSTANTS
    Thread = {t1, t2, t3, t4}
    Nobody = Nobody
INVARIANTS
    TypeOK
    MutualExclusion
    NoSleeperForgotten
PROPERTIES
    ImplementsCountingSemaphore
    EverySleeperWoken
