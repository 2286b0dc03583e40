\* One night recorded, a crash before its catalog entry.
CONSTANTS
    Code = {c1}
    Build = {b1, b2}
    Absent = Absent
    MaxNight = 3
SPECIFICATION Spec
SYMMETRY Symmetry
INVARIANT CatalogCannotDrift
