CONSTANTS
    Letters = {"a", "b"}
    Root <- MCRoot
    User <- MCUser
    MaxLength = 7
SPECIFICATION PathSpec
INVARIANTS StaysInside Canonical AcceptsInside
