\* Any clock, crashes in acquire, two peers, two operations, two intents.
SPECIFICATION Spec
CONSTANTS
    p1 = p1  p2 = p2  s1 = s1 
    o1 = o1  o2 = o2  i1 = i1  i2 = i2  e1 = e1 
    None = None
    Owner <- MCOwner
    Session <- MCSession
    Op <- MCOp
    Intent <- MCIntent
    Evidence <- MCEvidence
    LeaseSeconds <- MCLease
    MaxClock = 2
    MaxGeneration = 3
INVARIANTS AnchorBrackets
PROPERTIES TakeoverBarrier FreshGeneration ImplementsLedger
SYMMETRY MCSymmetry
