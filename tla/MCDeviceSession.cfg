SPECIFICATION Spec
CONSTANTS
    MaxEvents = 1
    MaxInputs = 3
    MaxRequests = 1
    Choices = {"full", "readonly"}
    Batches = 2
    Reports = 2
INVARIANTS DeadStaysSilent AckedWritten CancelledSessionOver
PROPERTIES BufferOwned Settles
CHECK_DEADLOCK FALSE
