\* Three streams against the shutdown of their server; no symmetry
SPECIFICATION FairSpec
CONSTANTS
    Streams = {c1, c2, c3}
    KafkaConfigured = TRUE
    RedisConfigured = TRUE
INVARIANTS
    GaugeCountsOpenStreams
    ConsumersEndWithStreams
PROPERTIES
    ShutdownEnds
\* The process ends.
CHECK_DEADLOCK FALSE
