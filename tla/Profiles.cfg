SPECIFICATION ProfilesSpec
CONSTANTS
    a = a  b = b  e = e  d = d  s = s  x = x  y = y  z = z
    None = None
    Calls = {c1, c2}
    Commands = {ax, ay}
    Names = {a, b, e}
    Place <- MCPlace
    DisplayNames <- MCDisplayNames
    Refused <- MCRefused
    BuiltIn <- MCBuiltIn
    InitialLocal <- MCInitialLocal
    Abilities = {x, y, z}
    AbilitiesOf <- MCAbilitiesOf
    Size <- MCSize
    MaxProfiles = 1
    MaxAbilities = 2
    MaxAbilitiesSize = 3
    MaxStarts = 2
    MaxExpiries = 1
SYMMETRY MCSymmetry
INVARIANTS ResolvedAsMeant SizesCounted
CHECK_DEADLOCK FALSE
