SPECIFICATION UnattendedSpec
CONSTANTS
    Consumers = {c1}
    Prefetch = 1
    Bodies = {m}
    MaxMessages = 1
PROPERTIES
    ConsumesForever
CHECK_DEADLOCK FALSE
