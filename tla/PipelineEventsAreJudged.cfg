SPECIFICATION FairSpec
CONSTANTS
    s1 = s1
    s2 = s2
    f1 = f1
    f2 = f2
    t1 = t1
    e1 = e1
    e2 = e2
    NoNode = NoNode
    Nobody = Nobody
    Event <- OrphanEvent
    Emitter = {e1}
    Emits <- OrphanEmits
    Projector = {p1}
PROPERTY
    EventsAreJudged
