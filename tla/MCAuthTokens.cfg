SPECIFICATION Spec
CONSTANTS
    Workers = {w1, w2}
    Jtis = {j1, j2, j3}
    RefreshLife = 1
    PreAuthLife = 1
    None = None
SYMMETRY Symmetry
INVARIANTS BurnedStaysDenied LateRequestsMintNothing SingleUseIfSerial
