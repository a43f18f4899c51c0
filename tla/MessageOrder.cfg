SPECIFICATION Spec
CONSTANTS Number = 5 MaxWaiting = 5
INVARIANTS NothingIsLost AcceptedInOrder GapsAreReported
PROPERTY Resequences
