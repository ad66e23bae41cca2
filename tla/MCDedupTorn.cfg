SPECIFICATION Spec
CONSTANTS
    Text = {1, 2, 3, 4}
    Hash <- MCHash
    Capacity = 2
    Dim = 2
    Writer = {w1, w2}
    Reader = {r1}
    Zero = 0
INVARIANT HitIsAWholeVector
