SPECIFICATION DirtySpec
CONSTANTS
    a = a
    b = b
    Pages = {1}
    HotPages = {1}
    Members = {a, b}
    Values = {0}
    Zero = 0
    NoPage = 0
INVARIANT NoProgressIsReal
