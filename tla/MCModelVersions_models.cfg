SPECIFICATION Spec

CONSTANTS
  None = None
  Model = {m1, m2, m3}
  Taxonomy = {t1, t2}
  MaxActivations = 4

SYMMETRY Symmetry

INVARIANTS
  TypeOK
  ServedModelsKeepTheirArtifacts
  OneOfEach
  PredictionsKeepTheirVersion
  ServerLeavesNoFiles

PROPERTIES
  ReplacedModelStays

CHECK_DEADLOCK FALSE
