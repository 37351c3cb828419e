------------------------------- MODULE Server -------------------------------
(***************************************************************************)
(* The HTTP server of c-server/src: the accept loop (server.c), the parser *)
(* (http.c), the routes and their handlers (router.c), the accounts        *)
(* (database.c), the tokens (auth.c) and SIGINT (main.c).                  *)
(*                                                                         *)
(*  - One thread serves one connection at a time: accept, ONE recv, the    *)
(*    handler, the answer, close.  What it does after recv returned only   *)
(*    SIGINT can cut short, and then nothing of it is left: Receive is one *)
(*    step, and Interrupt stands for a signal anywhere in it.              *)
(*  - A request arrives in pieces: part of its header, the whole header,   *)
(*    everything.                                                          *)
(*  - A password stands for its hash, a token for its signed text and the  *)
(*    base64url characters of its signature.                               *)
(*  - jwt_verify never gets past the signature (see Verifies), so what the *)
(*    handlers of the protected routes do with a verified token, and the   *)
(*    expiry of tokens, is no behaviour of this server; storage.c and      *)
(*    logs.c are module AppStore.  /api/sql/execute is module SqlEngine.   *)
(*  - proved is a ghost: the names and passwords that this process has     *)
(*    answered a login with 200.  told is one too: those it has answered a *)
(*    registration with 201.                                               *)
(***************************************************************************)
EXTENDS Codec, FiniteSets

CONSTANTS Clients, Names, Passwords, None,
          Signature,      \* of the token of each name: 32 bytes
          Admin,          \* the account db_init makes: name, password
          MAX_USERS,
          LISTEN_BACKLOG

Account == [name : Names, password : Passwords]

ASSUME ConstantsAssumption ==
    /\ None \notin Clients \cup Account
    /\ Admin \in Account
    /\ MAX_USERS \in Nat \ {0} /\ LISTEN_BACKLOG \in Nat \ {0}
    /\ Signature \in [Names -> [1 .. 32 -> Byte]]
    /\ \A m, n \in Names : Signature[m] = Signature[n] => m = n

\* The signature of each name as a token spells it, and the bytes that each
\* such spelling decodes to.
Spelled == [n \in Names |-> base64url_encode(Signature[n])]
Decoded == [s \in {Spelled[n] : n \in Names} |-> base64url_decode(s)]

Token == [name : Names, signature : DOMAIN Decoded]

\* What a request asks for: a route that reads no body, the two that do, one
\* with auth_required (all of those begin alike), a path not in the table.
WithBody == {"/api/auth/register", "/api/auth/login"}
Paths    == WithBody \cup {"/health", "/api/storage", "/nowhere"}

\* The header lines: none behind the request line, some without a token, a
\* token in the last line, a token with another line behind it.
HeaderLines == {"none", "plain", "token last", "token"}

Request == [path : Paths, lines : HeaderLines, body : Account \cup {None},
            token : Token \cup {None}]

ASSUME NoneAssumption == None \notin Request \cup Token

Pieces == {"nothing", "part of the header", "header", "everything"}

VARIABLES up,          \* the process runs
          users,       \* the users of database.c, in their order
          backlog,     \* connections not accepted yet, in their order
          client_fd,   \* the client being served
          conn,        \* of each client: "idle", "open", "hung up", "closed"
          request,     \* what it sends on this connection
          arrived,     \* how much of that has reached the server
          status,      \* the status of the answer; 0 without one
          granted,     \* the tokens that logins have given the clients
          told, proved

vars == <<up, users, backlog, client_fd, conn, request, arrived, status, granted,
          told, proved>>

TypeOK ==
    /\ up \in BOOLEAN
    /\ users \in Seq(Account) /\ Len(users) <= MAX_USERS
    /\ backlog \in Seq(Clients) /\ Len(backlog) <= LISTEN_BACKLOG
    /\ client_fd \in Clients \cup {None}
    /\ conn \in [Clients -> {"idle", "open", "hung up", "closed"}]
    /\ request \in [Clients -> Request \cup {None}]
    /\ arrived \in [Clients -> Pieces]
    /\ status \in [Clients -> {0, 200, 201, 400, 401, 404}]
    /\ granted \subseteq Token
    /\ told \subseteq Account /\ proved \subseteq Account
-----------------------------------------------------------------------------
(* The accounts and the tokens. *)

\* Mutant: the newest account of a name instead of the first.
FoundLast(us, name) ==
    LET places == {i \in 1 .. Len(us) : us[i].name = name}
    IN  IF places = {} THEN None
        ELSE us[CHOOSE i \in places : \A j \in places : i >= j]

\* The account db_get_user_by_username finds, the first of the name.
Found(us, name) ==
    LET places == {i \in 1 .. Len(us) : us[i].name = name}
    IN  IF places = {} THEN None
        ELSE us[CHOOSE i \in places : \A j \in places : i <= j]

\* db_insert_user: where there is room, whoever has the name.
HasRoom(us)         == Len(us) < MAX_USERS
Insert(us, account) == IF HasRoom(us) THEN Append(us, account) ELSE us

\* The comparison of handle_login.
Matches(us, account) == Found(us, account.name) = account

jwt_create(name) ==
    [name |-> name, signature |-> Spelled[name]]

\* jwt_verify: the signature decodes to the bytes that signing gives.
Verifies(t) == Decoded[t.signature] = Signature[t.name]
-----------------------------------------------------------------------------
(* The clients. *)

\* The requests clients make: a body where one is read, on the protected route
\* a token that was granted, on the others none.
Requests ==
    [path : WithBody, lines : {"plain"}, body : Account \cup {None}, token : {None}]
    \cup [path : {"/health"}, lines : {"none", "plain"}, body : {None}, token : {None}]
    \cup [path : {"/nowhere", "/api/storage"}, lines : {"plain"}, body : {None}, token : {None}]
    \cup [path : {"/api/storage"}, lines : {"token", "token last"}, body : {None},
          token : granted]

Connect(c) ==
    /\ up /\ conn[c] = "idle"
    /\ Len(backlog) < LISTEN_BACKLOG
    /\ backlog' = Append(backlog, c)
    /\ conn' = [conn EXCEPT ![c] = "open"]
    /\ UNCHANGED <<up, users, client_fd, request, arrived, status, granted, told, proved>>

Send(c, r, p) ==
    /\ conn[c] = "open" /\ request[c] = None
    /\ p = "header" => r.body # None   \* without a body that is everything
    /\ request' = [request EXCEPT ![c] = r]
    /\ arrived' = [arrived EXCEPT ![c] = p]
    /\ UNCHANGED <<up, users, backlog, client_fd, conn, status, granted, told, proved>>

SendRest(c) ==
    /\ conn[c] = "open" /\ arrived[c] \in {"part of the header", "header"}
    /\ arrived' = [arrived EXCEPT ![c] = "everything"]
    /\ UNCHANGED <<up, users, backlog, client_fd, conn, request, status, granted, told,
                   proved>>

HangUp(c) ==
    /\ conn[c] = "open" /\ request[c] = None
    /\ conn' = [conn EXCEPT ![c] = "hung up"]
    /\ UNCHANGED <<up, users, backlog, client_fd, request, arrived, status, granted, told,
                   proved>>

\* The client has seen the end of its connection.
Leave(c) ==
    /\ conn[c] = "closed"
    /\ conn' = [conn EXCEPT ![c] = "idle"]
    /\ status' = [status EXCEPT ![c] = 0]
    /\ UNCHANGED <<up, users, backlog, client_fd, request, arrived, granted, told, proved>>
-----------------------------------------------------------------------------
(* The server. *)

Accept ==
    /\ up /\ client_fd = None /\ backlog # <<>>
    /\ client_fd' = Head(backlog) /\ backlog' = Tail(backlog)
    /\ UNCHANGED <<up, users, conn, request, arrived, status, granted, told, proved>>

\* parse_headers needs an end of line behind the request line, and the header
\* it is given has none behind its last line.
HeadersParse(c) == request[c].lines # "none"

\* http_parse on what one recv returned: the header must end in it.
Parsed(c) == arrived[c] \in {"header", "everything"} /\ HeadersParse(c)

\* Mutant: the body is read only behind a token line.
BodyBehindToken(c) ==
    IF arrived[c] = "everything" /\ request[c].lines = "token" THEN request[c].body ELSE None

\* The body is what arrived with the header.
Body(c) == IF arrived[c] = "everything" THEN request[c].body ELSE None

\* The last header line is cut off with the empty line and never read.
AuthToken(c) == IF request[c].lines = "token" THEN request[c].token ELSE None

\* recv has something to return: bytes, or the end of the connection.
Readable(c) == client_fd = c /\ (arrived[c] # "nothing" \/ conn[c] = "hung up")

Served(c, path) == Readable(c) /\ Parsed(c) /\ request[c].path = path

\* Mutant: the connection is not closed behind the answer.
RespondOnly(c, code) ==
    /\ client_fd' = None
    /\ status' = [status EXCEPT ![c] = IF conn[c] = "open" THEN code ELSE 0]
    /\ UNCHANGED <<up, backlog, conn, request, arrived>>

\* The answer and the close; to a client that hung up no answer gets through.
Respond(c, code) ==
    /\ client_fd' = None
    /\ conn' = [conn EXCEPT ![c] = "closed"]
    /\ status' = [status EXCEPT ![c] = IF conn[c] = "open" THEN code ELSE 0]
    /\ request' = [request EXCEPT ![c] = None]
    /\ arrived' = [arrived EXCEPT ![c] = "nothing"]
    /\ UNCHANGED <<up, backlog>>

BadRequest(c) ==
    /\ Readable(c) /\ ~Parsed(c)
    /\ Respond(c, 400)
    /\ UNCHANGED <<users, granted, told, proved>>

NotFound(c) ==
    /\ Served(c, "/nowhere")
    /\ Respond(c, 404)
    /\ UNCHANGED <<users, granted, told, proved>>

handle_health(c) ==
    /\ Served(c, "/health")
    /\ Respond(c, 200)
    /\ UNCHANGED <<users, granted, told, proved>>

\* json_get_string finds the fields of the handler in the body.
HasFields(account) == account # None

\* Mutants: the table is not checked for room; its answer is not looked at.
RegisterUnbounded(c) ==
    LET account == Body(c)
        stored  == account # None
    IN  /\ Served(c, "/api/auth/register")
        /\ users' = IF stored THEN Append(users, account) ELSE users
        /\ told' = IF stored THEN told \cup {account} ELSE told
        /\ Respond(c, IF stored THEN 201 ELSE 400)
        /\ UNCHANGED <<granted, proved>>

RegisterUnchecked(c) ==
    LET account == Body(c)
        stored  == account # None /\ Len(users) < MAX_USERS
    IN  /\ Served(c, "/api/auth/register")
        /\ users' = IF stored THEN Append(users, account) ELSE users
        /\ told' = IF account # None THEN told \cup {account} ELSE told
        /\ Respond(c, IF account # None THEN 201 ELSE 400)
        /\ UNCHANGED <<granted, proved>>

handle_register(c) ==
    LET account == Body(c)
        stored  == HasFields(account) /\ HasRoom(users)
    IN  /\ Served(c, "/api/auth/register")
        /\ users' = IF stored THEN Insert(users, account) ELSE users
        /\ told' = IF stored THEN told \cup {account} ELSE told
        /\ Respond(c, IF stored THEN 201 ELSE 400)
        /\ UNCHANGED <<granted, proved>>

handle_login(c) ==
    LET account == Body(c)
        good    == HasFields(account) /\ Matches(users, account)
    IN  /\ Served(c, "/api/auth/login")
        /\ granted' = IF good THEN granted \cup {jwt_create(account.name)} ELSE granted
        /\ proved' = IF good THEN proved \cup {account} ELSE proved
        /\ Respond(c, IF ~HasFields(account) THEN 400 ELSE IF good THEN 200 ELSE 401)
        /\ UNCHANGED <<users, told>>

verify_token(c) == AuthToken(c) # None /\ Verifies(AuthToken(c))

\* A protected route: no token, or one that does not verify.
Refuse(c) ==
    /\ Served(c, "/api/storage")
    /\ ~verify_token(c)
    /\ Respond(c, 401)
    /\ UNCHANGED <<users, granted, told, proved>>

Receive(c) ==
    \/ BadRequest(c) \/ NotFound(c) \/ handle_health(c)
    \/ handle_register(c) \/ handle_login(c) \/ Refuse(c)

\* SIGINT: exit closes every connection and loses every account.
Interrupt ==
    /\ up /\ up' = FALSE
    /\ users' = <<>> /\ backlog' = <<>> /\ client_fd' = None
    /\ conn' = [c \in Clients |-> IF conn[c] = "idle" THEN "idle" ELSE "closed"]
    /\ request' = [c \in Clients |-> None]
    /\ arrived' = [c \in Clients |-> "nothing"]
    /\ told' = {} /\ proved' = {}
    /\ UNCHANGED <<status, granted>>

\* What db_init leaves.
db_init == <<Admin>>

\* main up to server_run: an empty backlog, the same secret as before.
Start ==
    /\ ~up /\ up' = TRUE
    /\ users' = db_init
    /\ UNCHANGED <<backlog, client_fd, conn, request, arrived, status, granted, told, proved>>

Init ==
    /\ up = FALSE /\ users = <<>> /\ backlog = <<>> /\ client_fd = None
    /\ conn = [c \in Clients |-> "idle"]
    /\ request = [c \in Clients |-> None]
    /\ arrived = [c \in Clients |-> "nothing"]
    /\ status = [c \in Clients |-> 0]
    /\ granted = {}
    /\ told = {} /\ proved = {}

Next ==
    \/ \E c \in Clients :
        \/ Connect(c) \/ SendRest(c) \/ HangUp(c) \/ Leave(c) \/ Receive(c)
        \/ \E r \in Requests, p \in Pieces \ {"nothing"} : Send(c, r, p)
    \/ Accept \/ Interrupt \/ Start

Spec == Init /\ [][Next]_vars

\* The loop of server_run goes on while the process runs; nothing is assumed of
\* the clients.
Fairness == WF_vars(Accept) /\ \A c \in Clients : WF_vars(Receive(c))

FairSpec == Spec /\ Fairness
-----------------------------------------------------------------------------
(* Properties. *)

\* A name and password that have logged in once log in whenever they are sent
\* again while the process runs, whoever registers in between, with the same
\* name or at the full table (database.c: 50-83, router.c: 140-234).
ProvedLoginsStand == \A account \in proved : Matches(users, account)

\* Who was told 201 can log in, unless the name had an account with another
\* password: registration does not look (router.c: 168, database.c: 50).
RegistrationHonoured ==
    \A account \in told :
        \/ Matches(users, account)
        \/ Found(users, account.name) \in Account \ {account}

\* A request with all its fields and a line behind the request line that had
\* arrived whole when the server came to it is not called a bad request, unless
\* the table is full.  A request whose end comes later is (http.c: 137).
WholeRequestsUnderstood ==
    [][\A c \in Clients :
        /\ client_fd = c /\ arrived[c] = "everything" /\ request[c].lines # "none"
        /\ request[c].path \in WithBody => request[c].body # None
        /\ client_fd' = None
        => status'[c] # 400 \/ Len(users) = MAX_USERS]_vars

\* Everyone who connects gets to the end of the connection, however many are
\* before, unless some client stays connected and silent for ever: there is no
\* timeout on recv (server.c: 86-107).
Silent(c) == client_fd = c /\ conn[c] = "open" /\ arrived[c] = "nothing"

EveryConnectionEnds ==
    (\A c \in Clients : []<>~Silent(c)) =>
        \A c \in Clients : conn[c] \in {"open", "hung up"} ~> conn[c] \in {"closed", "idle"}

\* A token that a login gave, sent to a protected route in a header line that
\* is read, is not answered with 401 (auth.h: 25, router.c: 113-124).
TokensAreAccepted ==
    [][\A c \in Clients :
        /\ client_fd = c /\ client_fd' = None /\ up'
        /\ Parsed(c) /\ request[c].path = "/api/storage" /\ AuthToken(c) # None
        => status'[c] # 401]_vars
=============================================================================
