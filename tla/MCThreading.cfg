CONSTANTS
  Thread = {t1, t2, t3}
  NULL = NULL
  Faults = {"pthread_create", "usleep", "lock", "unlock"}
CHECK_DEADLOCK FALSE
SPECIFICATION FairSpec
INVARIANT TypeOK
INVARIANT MutexFollowsThread
INVARIANT SuccessIsTrue
INVARIANT DataOutlivesThread
PROPERTY ThreadsReturn
