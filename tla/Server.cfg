\* Two clients, requests in pieces, silent clients, SIGINT and restarts.
SPECIFICATION FairSpec
CONSTANTS
    admin = admin
    ann = ann
    p1 = p1
    p2 = p2
    c1 = c1
    c2 = c2
    Clients = {c1, c2}
    Names = {admin, ann}
    Passwords = {p1, p2}
    None = None
    Signature <- MCSignature
    Admin <- MCAdmin
    MAX_USERS = 2
    LISTEN_BACKLOG = 2
INVARIANTS
    TypeOK
    ProvedLoginsStand
    RegistrationHonoured
PROPERTIES
    WholeRequestsUnderstood
    EveryConnectionEnds
