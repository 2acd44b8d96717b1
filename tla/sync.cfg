SPECIFICATION VizSpec
CONSTANTS
  c1 = c1
  c2 = c2
  a = a
  b = b
  Absent = Absent
  Caller = {c1, c2}
  Key = {a, b}
  Data = {1}
  Capacity = 2
  StoreFails = TRUE
  MaxWaiting = 1
  Owner <- OwnKeys
INVARIANTS TypeOK NewestIsLast StalePageIsDue
PROPERTIES CallsReturn PageCatchesUp
CHECK_DEADLOCK FALSE
