SPECIFICATION InvSpec
CONSTANTS
  JsonSchema <- MCJsonSchema
  IsInvokable <- MCIsInvokable
  Accepts <- MCAccepts
  JsonToVal <- MCJsonToVal
  ValToJson <- MCValToJson
  HasType <- MCHasType
  CollectRefs <- MCCollectRefs
  Substitute <- MCSubstitute
  TemplateSchema <- MCTemplateSchema
  Align <- MCAlign
  Coerce <- MCCoerce
  Says <- MCSays
  Whole <- MCWhole
  MaxU64 = 3
  MinS64 <- MinusTwo
  MaxS64 = 1
  Presentable <- MCPresentable
  Types <- MCTypes
  Depth <- MCDepth
  Schemas <- MCSchemas
  Jsons <- MCJsons
  Vals <- MCVals
  Templates <- MCTemplates
  None = None
  Setups <- MCSetups
  Messages <- MCMessages
  Results <- MCResults
INVARIANTS
  ConformingRequestIsInvoked
  ArgumentsCarryTheRequest
  ResultsAreAnswered
CHECK_DEADLOCK FALSE
