SPECIFICATION FairSpec
CONSTANTS
  None=None
  Stale=Stale
  Type={t1,t2}
  Window=2
  Capacity=2
  MaxBackoff=3
  Name={n1,n2}
  TypeOf<-AllOfOneType
  MaxVersion=2
INVARIANT AcceptedServed
PROPERTIES NeverOlder Converges BecomesReady
