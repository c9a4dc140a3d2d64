\* Entities 0..1 (two live at once, ids reused after a load), two runs' worth
\* of mesh catalogues.
SPECIFICATION Spec
CONSTANTS
  Cube = "cube"
  Sensor = "sensor"
  Broken = "broken"
  Plain = {"Transform"}
  MeshRenderer = "MeshRenderer"
  Bounds = "AABB"
  WriteOnly = {"ParticleSystem"}
  Values = {"v0", "v1"}
  Default = "v0"
  MaxID = 1
  MeshNames = {"cube", "sensor", "broken"}
  EmptyMeshes = {"broken"}
  Catalogues <- MCCatalogues
CONSTRAINT
  Bounded
INVARIANTS
  TypeOK
  PoolsConsistent
  ActiveComplete
  MeshesResolve
PROPERTIES
  ImplementsStore
