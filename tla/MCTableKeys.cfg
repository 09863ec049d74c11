CONSTANTS
    SIZE = 3
    Item = {x}
    NoItem = NoItem
SPECIFICATION Spec
INVARIANT HasKeyIsExact
