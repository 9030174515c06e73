SPECIFICATION Spec
CONSTANTS
  a1 = a1
  a2 = a2
  a3 = a3
  a4 = a4
  e1 = e1
  e2 = e2
  w1 = w1
  w2 = w2
  NoFile = NoFile
  Artifacts <- ThreeArtifacts
  Editors <- OneEditor
  Workers <- OneWorker
  PurgeBatch = 1
  Hit <- EditWindow
SYMMETRY Symmetry
\* A deleted resource with nothing left in flight stops.
CHECK_DEADLOCK FALSE
INVARIANT DoneIsSwapped
