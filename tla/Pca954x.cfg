CONSTANTS
    Channels = {c1, c2}
    Mux = mux
    Fan = fan
    Device = device
SPECIFICATION FairSpec
INVARIANTS
    MuxInv
PROPERTIES
    KeepaliveServed
