SPECIFICATION Spec
CONSTANTS
    Nodes <- MCNodes
    Key <- MCKey
INVARIANTS Balanced WalksAgree
PROPERTIES Implements
