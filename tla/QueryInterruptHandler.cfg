CONSTANTS
  Threads = {t1, t2}
  PipeCapacity = 2
  BufferSize = 1
  MaxSignals = 3
SPECIFICATION FairSpec
INVARIANTS TypeOK NoStaleCancel NoLostInterrupt FenceIsSound PipeOutlivesUsers
PROPERTIES InterruptTakesEffect TeardownEnds
