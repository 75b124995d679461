SPECIFICATION Spec
CONSTANTS
    p1 = p1
    p2 = p2
    a = a
    b = b
    Upload = Upload
    Nothing = Nothing
    Files = {1, 2}
    Bytes = {a, b}
    Passes = {p1, p2}
    ExtensionOf <- OddAndPdf
    MaxEvents = 1
SYMMETRY Symmetry
INVARIANT NamedBlobsWereStored
PROPERTY EndedPassCovers
