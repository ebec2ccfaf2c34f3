SPECIFICATION Spec
CONSTANTS
    Request = {r1}
    Writer = {r1}
    Import = {i1}
    Main = Main
    Export = {}
    Page = {h, p}
    Header = h
    Archives = {"garbage", "current"}
    MaxCrashes = 0
    None = None
INVARIANTS
    LiveFileIsWhole
