\* Two initializations, and so two polling tasks that may overlap; one byte
\* fills each of the driver's buffers.
SPECIFICATION Spec
CONSTANTS
    Java = Java
    Pollers = {p1, p2}
    RxSize = 1
    TxSize = 1
\* After the last initialization nothing is left to do.
CHECK_DEADLOCK FALSE
INVARIANTS
    NotificationOwed
PROPERTIES
    ByteAnnounced
    ReadyAnnounced
