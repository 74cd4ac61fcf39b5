SPECIFICATION MemFairSpec
CONSTANTS
    owned = owned
    own = own
    foreign = foreign
    Facts <- MCFacts
    SourceOf <- MCSources
    Durable <- MCFacts
    MaxDay = 2
    Retention = 1
INVARIANTS KnowledgeIsVetted FreshLogsStay PrunedWhenHealthy
PROPERTIES MemoryKept FactsArePromoted
