SPECIFICATION FairSpec
CONSTANTS
  ann = ann
  bob = bob
  Agents <- MCAgents
  NoAgent = NoAgent
  FileNames <- MCAgents
  FileName <- Apart
  Pairs <- MCPairs
  Registries <- MCRegistries
  Window = 2
  NoFile = NoFile
  Redelivers = TRUE
  Mixes <- MCMixes
  MaxEvents = 3
INVARIANTS Kept HeldBack DriftExact
PROPERTIES RateLimited AgentsProposed
