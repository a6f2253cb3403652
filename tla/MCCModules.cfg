\* Every order of declarations, lookups and assignments.
SPECIFICATION Spec
CONSTANTS
    Modules = {"C", "lib"}
    Code = {"f", "g"}
    Data = {"v", "w"}
    Names = {"f", "v", "w"}
    Exports <- MCExports
    Values = {0, 1}
    None = None
    MaxDecls = 3
INVARIANTS
    AsDeclared
PROPERTIES
    ConstKept
