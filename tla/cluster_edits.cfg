CONSTANTS
  Ranges <- MCRanges
  Pub = "pub"
  SGNames = {"sg"}
  LbSG = "sg"
  BastionSG = "sg"
  Foreign = "other"
  ReusedId <- MCReusedId
  FirstId = 6
  Specs <- GrowingSpec
  Mode <- MCMode
  Configs <- Varied
  MaxFaults = 1
  MaxEdits = 1
SPECIFICATION Spec
INVARIANTS RecordedIsBuilt TornDown NoDuplicates NoBlackHole ReusedKept
