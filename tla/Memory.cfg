SPECIFICATION Spec
CONSTANTS
    port1_size <- MCPort1
    port2_size <- MCPort2
    port1_is_ram = FALSE
    port2_is_ram = TRUE
    Conf <- MCConf
    Probe <- MCProbe
INVARIANTS
    TypeOK
    OnlyConfigured
    InArrays
    WritesReadBack
PROPERTIES
    UnconfiguredIsGone
