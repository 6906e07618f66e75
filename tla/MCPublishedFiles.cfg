SPECIFICATION Spec
CONSTANTS
  p1 = p1  p2 = p2  p3 = p3
  Procs = {p1, p2, p3}
  Foreign = Foreign  Old = Old  Odd = Odd  Absent = Absent
SYMMETRY Interchangeable
INVARIANTS
  PublishedWhole
  ReportsTrue
PROPERTY
  OutputKept
