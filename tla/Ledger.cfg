CONSTANTS
    TWD = TWD
    USD = USD
    KWD = KWD
    Clients = {c1, c2}
    Rows = {a, b, d}
    NoRow = NoRow
    Currencies = {TWD, USD}
    Exponent <- MCExponent
    Themes = {light}
    Unset = Unset
    Amounts = {7, 4242}
    MaxAmount = 5000
    FirstCurrency = TWD
    FirstTheme = light
SPECIFICATION Spec
INVARIANTS
    AmountsInRange
    FamiliesShareCurrency
PROPERTIES
    MixedOnlyByStaleWrites
    MajorUnitsKeptUnlessStale
SYMMETRY BothSymmetry
