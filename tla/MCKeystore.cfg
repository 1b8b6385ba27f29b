\* Blocks of four bytes, so that a password and the salt with its counter are
\* shorter and longer than a block.
SPECIFICATION Loading
CONSTANTS
    Block = 4
    DigestLen = 2
    LenField = 1
    Word = 256
    KeyLen = 2
    MaxNesting = 4
    Lower <- MCLower
    Cases <- MCCases
INVARIANTS IntegrityFirst RightPasswordsSign SignerIsTheKeys BlameIsTrue ChainIsLinked
