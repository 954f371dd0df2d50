SPECIFICATION MCSpec
SYMMETRY Symmetry
CONSTANTS
  Entries = {e1, e2}
  Versions <- MCVersions
  orig = orig
  edit = edit
  Absent = Absent
  Torn = Torn
  EditLen = 2
  StoredLen <- MCStoredLen
  Outcomes <- MCTextOutcomes
  Reproducible <- MCReproducible
  Embedded = FALSE
  Faults <- MCFaults
INVARIANTS
  UntouchedVerifies
