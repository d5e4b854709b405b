SPECIFICATION Spec
CONSTANTS
    greenhouse = greenhouse
    indeed = indeed
    ref = ref
    users = users
    home = home
    open = open
    first = first
    second = second
    NoToken = NoToken
    Nowhere = Nowhere
    Ats <- MCAts
    Token = {ref, users}
    BadToken = {users}
    Page <- MCPage
    Sites <- MCSites
    MaxHops = 2
CHECK_DEADLOCK FALSE
INVARIANTS
    NothingSeenIsLost
    OnePageMore
    ProbeIsThorough
