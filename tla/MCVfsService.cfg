SPECIFICATION FullSpec
CONSTANTS
    a = a
    b = b
    x = x
    y = y
    noun = noun
    verb = verb
    Uris <- const_Uris
    Text <- const_Text
    Missing = Missing
    Colourings <- const_Colourings
    NoTokens = NoTokens
    MaxResults = 3
INVARIANTS
    TypeOK
    OpenDocumentsAreTheEditors
    FsTextWasOnDisk
    HeldTokensPaintTheAnswer
PROPERTIES
    ImplementsStore
