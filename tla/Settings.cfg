SPECIFICATION Spec
CONSTANTS
    mtu = mtu
    name = name
    Field <- MCField
    Value <- MCValue
    Legal <- MCLegal
    Usual <- MCUsual
    Factory <- MCFactory
    Initial <- MCInitial
    Blank = Blank
    Torn = Torn
    None = None
    MaxStops = 3
INVARIANTS TypeOK OneCopyGood BothCopiesGood RamIsSaved
PROPERTY ImplementsRegister
