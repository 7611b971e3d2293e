SPECIFICATION FairSpec
CONSTANTS
    Workers = {w1, w2}
    Main = Main
    t1 = t1
    t2 = t2
    t3 = t3
    t4 = t4
    c1 = c1
    c2 = c2
    Tasks = {t1, t2, t3, t4, c1}
    NoTask = NoTask
    Child <- OneChild
    QUEUE_CAPACITY = 2
INVARIANTS JoinedMeansDrained NoLostWakeup
PROPERTIES ImplementsFifo AcceptedTasksRun DestructorReturns
