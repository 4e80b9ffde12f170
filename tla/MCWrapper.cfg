CONSTANT MaxTasks = 4
SPECIFICATION FairSpec
INVARIANTS TypeOK ConnectedIsServed NotUnderATask
PROPERTY GetsConnected
