SPECIFICATION Spec
CONSTANTS
  MaxConversionDepth = 4
  MaxNesting = 1
  MaxArrayElements = 4
  NoAlias = NoAlias
  NoVersion = NoVersion
  RejectUnknown = FALSE
  Versions <- MCVersions
  Changes <- MCChanges
  Tree <- Trees
  Nodes <- AllNodes
  Validated <- ValidateObject
  Populated <- PopulateRequest
  ArrayElements <- CountArrayItems
  Shallow <- NestedWithin
  SchemaOf <- JsonSchemas
  Admitted <- Admits
  Texts <- ScalarTexts
  Types <- MCTypes
  Root <- MCRoot
  Values <- MCValues
  RawParameters <- MCRawParameters
CHECK_DEADLOCK FALSE
INVARIANTS
  AcceptedIsBuilt
  ValidatedIsAccepted
  StrictIsJsonSchema
