SPECIFICATION Spec
CONSTANTS
    Texts     <- MCTexts
    Fragments <- MCFragments
    WORD_BIN_LEN  = 2
    TokenChars    = {"a"}
    GrammarLength = 5
INVARIANTS ReadsGrammar BuildsForms PrintedReadsBack
PROPERTY Terminates
\* read_expressions returns.
CHECK_DEADLOCK FALSE
