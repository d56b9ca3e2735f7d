SPECIFICATION Spec
CONSTANTS
  Releases = {r1, r2}
  Mutations = {m1, m2}
  Receipts = {o1, o2}
  NoReceipt = NoReceipt
  NoMutation = NoMutation
  NoAttestation = NoAttestation
  NoUse = NoUse
  MaxTime = 1
  MaxAge = 0
  MaxBuild = 2
INVARIANTS
    
    AboutOneRelease
    
SYMMETRY Symmetry
