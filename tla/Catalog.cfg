SPECIFICATION Spec
CONSTANTS
  Sessions = {1, 2}
  Scenarios = {"default", "edge"}
  Default = "default"
  Sources = {"users", "orders", "users2"}
  NameOf <- MCNameOf
  Parents <- MCParents
  Version <- MCVersion
  MaxCalls = 3
  MayFail = TRUE
  Closing = {2}
INVARIANT TypeOK
PROPERTIES
  StubsSettle
  StubsConverge
  GeneratedShown
  ActualRestored
  DataGenerated
  ScenarioDropped
