CONSTANTS
    Ops <- MCAllOps
    MaxOwed = 2
    SectorBytes = 2
    Crc <- MCCrc
    AppLength <- MCAppLength
    Stage3Size = 16
    Stage2Words = 2
    WritableSectors = {0}
SPECIFICATION FairSpec
INVARIANTS ParserInv EveryFailureExcused SuccessIsTrue
PROPERTIES OnlyWhatIsAsked CallsEnd
