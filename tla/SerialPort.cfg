SPECIFICATION FairSpec
CONSTANTS
    PRO_MAX_BUFFER_SIZE = 12
    START = 2
    ValidIds = {1}
    Packets <- TwoPackets
    Leds <- OneLed
    Faults = {"short", "lose", "read"}
    MaxFaults = 3
    MaxWire = 7
INVARIANTS WedgedOnlyByHeader CleanPacketArrives
PROPERTIES Resynchronises
