CONSTANTS
    Size = 11
    Top = 9
    PushTop = 4
    MaxPushed = 3
SPECIFICATION ListSpec
INVARIANTS ListExact
PROPERTIES ExactWhenApart
