SPECIFICATION FairSpec
CONSTANTS
  t1 = t1
  t2 = t2
  m1 = m1
  m2 = m2
  NoMsg = NoMsg
  Thread = {t1, t2}
  Msg = {m1, m2}
  Size = 2
INVARIANTS TypeOK NoLostWakeup
PROPERTIES ImplementsFifo CallReturns
