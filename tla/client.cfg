SPECIFICATION FairSpec
CONSTANTS
  Tasks = {1, 2}
  MaxRetries = 1
INVARIANTS TypeOK RateLimited RotatedOnce LoginKept
PROPERTIES CallsEnd
