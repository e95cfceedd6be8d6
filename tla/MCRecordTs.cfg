SPECIFICATION RecordSpec
CONSTANTS
    c1 = c1
    c2 = c2
    c3 = c3
    Calls <- MCCalls
    Stamps <- MCStamps
INVARIANTS
    RecordTypeOK
    ExactWhenDone
