CONSTANTS
  t1 = t1
  t2 = t2
  t3 = t3
  Threads = {t1, t2, t3}
  invalid_thread_id = invalid_thread_id
  hash_thread_id <- Hash
  INITIAL_IMPLICIT_PRODUCER_HASH_SIZE = 2
  MaxFailures = 1
SPECIFICATION Spec
INVARIANTS OneProducerEach FreeSlot OnTheList
PROPERTY CallReturns
