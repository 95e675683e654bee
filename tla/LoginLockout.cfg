\* One client and account, two logins in flight, both stores: locks of 2, 4 and 8
\* ticks are possible, the window is 2, and a Redis call takes up to 1.
SPECIFICATION FairSpec
CONSTANTS
  None = None
  Keys = {k1}
  Requests = {r1, r2}
  MaxFailures = 3
  Window = 2
  BaseLock = 2
  MaxLock = 32
  CleanupInterval = 2
  MaxLag = 1
INVARIANTS TypeOK GuessesBounded LocksProportionate
PROPERTIES LocksLast LocksEnd
