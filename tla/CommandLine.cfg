SPECIFICATION Spec
CONSTANTS
  Missing = Missing
  Pieces <- HelloPieces
  Parrots <- MCParrots
  PresetMap <- MCPresetMap
  CorpusLayers <- MCCorpusLayers
  Catalog <- MCCatalog
  Traffic <- MCTraffic
  Visitors <- MCVisitors
  Leftovers <- MCLeftovers
  Shipped <- MCShipped
  Sessions <- MCSessions
  Genuine <- MCGenuine
  Exports <- MCExports
  Dials <- MCDials
  Hellos <- MCHellos
  Blocks <- MCBlocks
  Files <- MCFiles
  MaxFiles = 1
INVARIANTS
  TypeOK
  NoFalseConflict
  MixUpIsReported
  CaptureIsCoherent
  MutationsAreCaught
  CompareFlagsAreCritical
  TableIsNewestThatFit
  SignaturesIgnoreOrder
