CONSTANTS
  Txns = {t1, t2}
  Resources = {r1}
SPECIFICATION LockSpec
INVARIANT GrantedNeverConflict
