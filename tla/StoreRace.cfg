SPECIFICATION StoreSpec
CONSTANTS
  Updates = {u1, u2, u3}
  Readers = {t1, t2}
  Objects = {o1, o2, o3, o4, o5, o6, o7, o8, o9}
  NoObject = NoObject
  NoUpdate = NoUpdate
SYMMETRY StoreSymmetry
CHECK_DEADLOCK FALSE
INVARIANTS NoConcurrentAccess
