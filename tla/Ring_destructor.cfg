SPECIFICATION Spec
CONSTANTS
    a1 = a1
    a2 = a2
    b1 = b1
    A = A
    B = B
    Objs = {a1}
    Thread <- TwoThreads
    Fds = {0, 1, 2}
    RegMax = 2
    Rings = {1, 2, 3, 4}
    FILE = FILE
    NONE = NONE
PROPERTIES DestructorAsserts
