SPECIFICATION Spec
CONSTANTS
    Request = {r1}
    Writer = {r1}
    Import = {i1}
    Main = Main
    Export = {e1}
    Page = {h, p}
    Header = h
    Archives = {"unique"}
    MaxCrashes = 1
    None = None
INVARIANTS
    ExportsAloneAreWhole
PROPERTIES
    AllAreAnswered
