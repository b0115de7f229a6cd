\* Two overlapping batches, two events, three disruptions; no symmetry
SPECIFICATION FairSpec
CONSTANTS
    NumEvents = 2
    Ticks = {t1, t2}
    Limit = 1
    KafkaConfigured = {TRUE, FALSE}
    MaxDisruptions = 3
INVARIANTS
    PublishedIsInTopic
    DuplicatesAreBounded
PROPERTIES
    StopIsFinal
    RowsSettle
