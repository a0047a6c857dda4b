SPECIFICATION Spec
CONSTANTS
  a1 = a1
  a2 = a2
  a3 = a3
  a4 = a4
  lan = lan
  s1 = s1
  s2 = s2
  Addr <- Addrs
  Port = {1, 2}
  Routable = {a1, a2, a3, a4}
  Source = {s1, s2}
  Heard <- Announcements
  ADDRMAN_NEW_BUCKET_COUNT = 3
  ADDRMAN_NEW_BUCKET_SIZE = 1
  ADDRMAN_TRIED_BUCKET_COUNT = 2
  ADDRMAN_TRIED_BUCKET_SIZE = 2
  ADDRMAN_NEW_BUCKETS_PER_ADDRESS = 2
  ADDRMAN_TRIED_ENTRIES_INSPECT_ON_EVICT = 2
  ADDRMAN_GETADDR_MAX_PCT = 25
  ADDRMAN_GETADDR_MAX = 2
  GetNewBucket <- NewBuckets
  GetTriedBucket <- TriedBuckets
  MaxId = 4
INVARIANT IndexesExact PlacesExact BucketsBounded
PROPERTY TriedKept RestartKeeps
