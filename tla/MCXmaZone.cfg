CONSTANTS
  ALIGN = 2
  FIXED = 2
  SIZE_BITS = 5
  Internal = {1, 21}
  External = {19}
  Requests = {0, 3, 4, 6, 9}
SPECIFICATION Spec
INVARIANT StaysInTheZone
