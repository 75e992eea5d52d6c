SPECIFICATION Spec
CONSTANTS
    Window = 3
    SeqRekeyLimit = 5
    SeqMod = 7
    MaxEpoch = 2
    ForgedSeq = {6}
    MaxWire = 3
CONSTRAINT WireBound
INVARIANTS
    WindowExact
    NumbersNeverReused
    FreshFramesPass
PROPERTY AtMostOnceDelivery
