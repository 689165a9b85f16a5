SPECIFICATION Spec
CONSTANTS
  Names <- MCNames
  CardTypes = {"creature", "artifact", "instant", "land"}
  Supertypes = {"legendary", "basic"}
  Rarities = {"common", "rare"}
  ChunkSize = 2
  CardsPerBatch = 3
  MaxRequests = 5
  Files <- MovedFiles
  Loaded = {"rebear", "legend", "forest"}
  Tagged <- MCTagged
  Inventories <- MCInventories
  Stock <- MCStock
  Queries <- MCQueries
  MaxPageSize = 2
  Answers <- MCAnswers
  MaxRounds = 2
INVARIANTS EachAnswerLands
CHECK_DEADLOCK FALSE
