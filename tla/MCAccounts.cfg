\* Two connections, two sign-ups for one name, three refresh tokens.
SPECIFICATION Spec
CONSTANTS
    c1 = c1
    c2 = c2
    Conn <- MCConn
    Value = {x}
    Signups <- MCSignups
    Menus <- MCMenus
    MaxUser = 2
    MaxToken = 3
    Mortal = {1}
INVARIANTS Registered FamilyBound HandedOutValid
PROPERTIES RequestsEnd
