SPECIFICATION Spec
CONSTANTS
    Scripts <- MCScripts
    MaxMessages = 4
INVARIANTS StartedInOrder AnsweredOnce InitializedForAll
PROPERTY Answered
CHECK_DEADLOCK FALSE
