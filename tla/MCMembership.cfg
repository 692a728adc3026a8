SPECIFICATION FairSpec
CONSTANTS
    s1 = s1  s2 = s2  s3 = s3  s4 = s4
    x1 = x1  x2 = x2
    Servers = {s1, s2, s3, s4}
    Info <- Restarted
    NULL = NULL
    Event = Event
    Worlds <- Cases
INVARIANTS TypeOK AgreeWhenQuiet MasterLives 
 
CHECK_DEADLOCK FALSE
