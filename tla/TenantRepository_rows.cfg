CONSTANTS
  Tenant = {t1, t2}
  Id = {i1, i2}
  Value = {v1, v2}
  Handler = {h1, h2}
  Absent = Absent
  NotSaving = NotSaving
SPECIFICATION Spec
SYMMETRY Symmetry
INVARIANTS OthersAreInvisible HeldIsOwn
 
