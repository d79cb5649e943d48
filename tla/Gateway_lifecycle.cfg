SPECIFICATION FairSpec
CONSTANTS
  None=None
  TaskId={i1,i2,i3}
  Capacity=2
  BindKey={b1,b2}
  Address={a1,a2}
  Config<-OwnAddress
INVARIANTS TasksConsistent ActiveMatchesStore ReturnsDrained
PROPERTY RemovedBindCloses
