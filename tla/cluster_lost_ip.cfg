CONSTANTS
  Ranges <- MCRanges
  Pub = "pub"
  SGNames = {"sg"}
  LbSG = "sg"
  BastionSG = "sg"
  Foreign = "other"
  ReusedId <- MCReusedId
  FirstId = 6
  Specs <- FixedSpec
  Mode <- MCMode
  Configs <- Standard
  MaxFaults = 0
  MaxEdits = 0
SPECIFICATION Spec
INVARIANTS PublicIpsReleased
