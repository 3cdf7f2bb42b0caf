SPECIFICATION AmountsSpec
CONSTANTS
  Items = {s1, s2, s3}
  Users = {u1, u2}
  Rates = {14, 330, 9995}
  Quantities = {1, 7}
  Discounts = {0, 5, 1005, 33333, 50000, 99999, 100000, 100010}
  RoundedDown = {1005}
  Null = Null
SYMMETRY Identities
INVARIANTS AmountsInv CsvAddsUp
CHECK_DEADLOCK FALSE
