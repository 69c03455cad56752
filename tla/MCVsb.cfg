SPECIFICATION Spec
CONSTANTS
    Lengths <- MCLengths
    Strings <- MCStrings
    IntMax = 2147483647
    MaxText = 4200
INVARIANTS TypeOK NothingLost
