SPECIFICATION Spec
CONSTANTS
    Slots = {s1, s2, s3}
    Blocks = {block1, block2}
    Callables = {small, small2, large, large2}
    InlineTypes = {small, small2}
    \* Copying this one throws, in inline storage.
    MayThrow = {small2}
    Null = Null
INVARIANTS CallablesOwned
PROPERTIES ImplementsBox
