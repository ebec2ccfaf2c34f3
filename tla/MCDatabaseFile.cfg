SPECIFICATION Spec
CONSTANTS
    Request = {r1}
    Writer = {r1}
    Import = {i1, i2}
    Main = Main
    Export = {}
    Page = {h, p}
    Header = h
    Archives = {"old", "current"}
    MaxCrashes = 2
    None = None
SYMMETRY Symmetry
INVARIANTS
    TypeOK
    ImportsAloneAreWhole
    PoolServesLiveFile
    AnsweredImportsAreUpgraded
    StartsUnlessCutOff
PROPERTIES
    CommitsAreAtomic
CONSTRAINT
    QuietOnceDisturbed
