CONSTANTS
    Raw <- MCRaw
    FieldLen = 19
SPECIFICATION Spec
INVARIANT TypeOK
INVARIANT HeaderSymbolNormalForm
CHECK_DEADLOCK FALSE
