SPECIFICATION Spec
CONSTANTS
    w1 = w1
    w2 = w2
    w3 = w3
    None = None
    Writers = {w1, w2, w3}
    BytesOf <- Marks
    LengthOf <- Lengths
    MaxKills = 2
INVARIANTS TypeOK ReturnMeansStored SomeWriterReturns
PROPERTIES WriteOnceInTurn
