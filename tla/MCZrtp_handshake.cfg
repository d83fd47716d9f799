SPECIFICATION FairLossySpec
CONSTANTS
    DH3KProtocol = DH3KProtocol
    EC25Protocol = EC25Protocol
    DH3k = DH3KProtocol
    Protocols <- MCProtocols
    Allowed <- MCAllowed
    Keys = {k1, k2}
    None = None
    Failed = Failed
    MAX_RETRANSMIT_COUNT = 45
INVARIANT ZrtpTypeOK
PROPERTIES AgreesOnSecret HelloTimeoutOnlyBeforeHello HandshakeCompletes
CHECK_DEADLOCK FALSE
