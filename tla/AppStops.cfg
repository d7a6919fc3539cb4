\* Ctrl-C at any moment, also while the device is set up, a TTY that cannot be
\* opened or configured, writes that fail, a modem that is unplugged, answers that
\* come in one piece, in two, without a response, or not at all, and two URCs.  An
\* answer and one URC fit into the receive buffer, a second URC fills it.  After a
\* URC that stays in the buffer nothing may happen any more.
SPECIFICATION FairSpec
CONSTANTS
    RxCapacity = 3
    MaxUrcs = 2
    MaxEvents = 2
INVARIANTS NoCallAfterLoop CallsEndBeforeDestruction DescriptorOwned
PROPERTIES CtrlCStops SendsOn ArrivedIsRead DestructorReturns
CHECK_DEADLOCK FALSE
