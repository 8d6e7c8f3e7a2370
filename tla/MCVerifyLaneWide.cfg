SPECIFICATION Spec
CHECK_DEADLOCK FALSE
CONSTANTS
  sync = sync
  events = events
  batch = batch
  Sync = {sync}
  Events = {events}
  Batch = {batch}
  Files = 2
  Limit = 1
  QueueLimit = 2
  MaxHangs = 1
INVARIANTS
  WorkloadBound
