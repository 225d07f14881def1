SPECIFICATION MCSpec
CONSTANTS
    Hosts = {h1, h2}
    MaxLines = 5
    MaxOptions = 3
    MaxAppLines = 2
SYMMETRY Symmetry
INVARIANTS
    TypeOK AcceptsWellFormed RaisesOnlyThere AppFindsHost
    SectionIsLegal OptionsAreSent
CHECK_DEADLOCK FALSE
