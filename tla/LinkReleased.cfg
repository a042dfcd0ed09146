CONSTANTS
    MaxOpens <- MCMaxOpens
    MaxOps <- MCMaxOps
SPECIFICATION Spec
INVARIANT
    LinkReleased
