\* Three nights in any order, two builds of each, any number of runs; one fund, as
\* no property relates the trails of two.
CONSTANTS
    Code = {c1}
    Build = {b1, b2}
    Absent = Absent
    MaxNight = 3
SPECIFICATION Spec
SYMMETRY Symmetry
INVARIANTS TypeOK ListedNightsLoad PointsOfRecordedNights
PROPERTIES NightStands ListingGrows RevalidationIsSound
