CONSTANTS
    Quantities <- SomeQuantities
    Prices = {1, 33, 1825}
    MaxLines = 2
    MaxDays = 9
    Numbers <- SomeNumbers
SPECIFICATION Spec
INVARIANTS FiguresAreNearest ReferenceCatchesMistakes
CHECK_DEADLOCK FALSE
