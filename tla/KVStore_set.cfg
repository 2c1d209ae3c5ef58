SPECIFICATION Spec
CONSTANTS
    Keys = {k1, k2}
    MaxNumber = 1
    Seconds = {0, 1}
    Text = Text
    EmptyString = EmptyString
    Blank = Blank
    Exponent = Exponent
    NaN = NaN
    Null = Null
PROPERTY SetKeysAreFound
