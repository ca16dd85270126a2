SPECIFICATION Spec
CONSTANTS
    Units = {root, a, b, c, d}
    Root = root
    NoUnit = NoUnit
    Txs = {t1, t2}
    NoTx = NoTx
    MaxDepth = 2
    MaxNodes = 4
SYMMETRY Symm
INVARIANT TypeOK
INVARIANT ClosureExact
INVARIANT ForestWhole
INVARIANT ScopesAgree
PROPERTY ActsAtomically
