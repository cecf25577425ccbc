CONSTANTS
    SiemModes <- MCDefaultMode
    MaxRetries = 3
    MaxEmitters = 3
SPECIFICATION SiemSpec
PROPERTY
    EveryEmitterSends
CHECK_DEADLOCK FALSE
