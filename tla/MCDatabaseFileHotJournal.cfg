SPECIFICATION Spec
CONSTANTS
    Request = {r1, r2}
    Writer = {r1}
    Import = {i1}
    Main = Main
    Export = {}
    Page = {h, p}
    Header = h
    Archives = {"current"}
    MaxCrashes = 0
    None = None
INVARIANTS
    LiveFileIsWhole
