SPECIFICATION Spec
CONSTANTS
    Directories <- MCDirectories
    Primitives <- MCPrimitives
    IconTypes <- MCIconTypes
    MaxEntities = 2
    MaxKnown = 3
INVARIANTS CatalogueCoherent UploadedOnce SameModel
