CONSTANTS
  Txns = {t1, t2, t3, t4}
  Resources = {r1}
SPECIFICATION LockSpec
SYMMETRY Symmetry
INVARIANTS LockTypeOK HoldersCompatible WaiterIsBlocked ServedInOrder
