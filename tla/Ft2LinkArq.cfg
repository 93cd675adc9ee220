SPECIFICATION Spec
CONSTANTS
    m1 = m1
    NoMessage = NoMessage
    Messages <- OneLong
    Length <- LengthOfOne
    Frames = 4
    Window = 2
    BitmapWidth = 2
    MaxAttempts = 2
    MaxRetries = 3
    MaxAir = 3
INVARIANTS TransferInv AckedIsHeld DeliveredMeansHanded
PROPERTIES DeliveryKept Settles
CHECK_DEADLOCK FALSE
