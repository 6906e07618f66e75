SPECIFICATION Spec
CONSTANTS
  None = None  root = root  dir = dir  other = other
  fileA = fileA  fileB = fileB  fileC = fileC  fileD = fileD
  big = big  fifo = fifo  dirLink = dirLink  fileLink = fileLink  outLink = outLink
  Root = root
  Dirs = {root, dir, other}
  Files = {fileA, fileB, fileC, fileD, big}
  BigFiles = {big}
  Fifos = {fifo}
  Links = {dirLink, fileLink, outLink}
  Target <- Targets
  MayHold <- Places
  Cases <- AllCases
  MaxURILength = 14
  MaxLabel = 2
  MaxMetadataSize = 71
INVARIANTS
  ParseExact
  QuietExact
  ServedJustified
PROPERTY
  OpenEnds
