---------------------------- MODULE ServerProofs ----------------------------
(***************************************************************************)
(* Accounts and answers of the server, for every set of clients, names and *)
(* passwords, every size of the table and of the backlog, and every way of *)
(* spelling signatures.                                                    *)
(*                                                                         *)
(* The argument: the table only grows while the process runs, so the first *)
(* account of a name, which is what a login looks at, stays the first      *)
(* (FirstStays).  That what is appended is an account at all rests on      *)
(* Asked: the server reads a body only of a client that has sent one.      *)
(*                                                                         *)
(* The storage and the log that AppContext holds for the handlers, for     *)
(* every capacity, key and value.  That the array is a map needs that no   *)
(* key is in it twice while no key was cut: then what a search from the    *)
(* front finds is what any search finds, and the last item may take the    *)
(* place of a deleted one.                                                 *)
(***************************************************************************)
EXTENDS Server, AppStore, SequenceLemmas

Codes == {0, 200, 201, 400, 401, 404}

\* What has arrived of a client is of a request it has made.
Asked == \A c \in Clients : arrived[c] # "nothing" => request[c] # None

\* A process that does not run serves nobody and has promised nothing.
Fresh == ~up => client_fd = None /\ told = {} /\ proved = {}

ServerInv == TypeOK /\ Asked /\ Fresh /\ ProvedLoginsStand /\ RegistrationHonoured

InUse == {"open", "hung up"}

\* A connection waits in one place, the backlog or the server's hands, as long as it
\* is in use, and an answer lies only at a connection that is closed.
QueueInv ==
    /\ \A i \in 1 .. Len(backlog) : conn[backlog[i]] \in InUse /\ backlog[i] # client_fd
    /\ \A i, j \in 1 .. Len(backlog) : backlog[i] = backlog[j] => i = j
    /\ \A c \in Clients : client_fd = c => conn[c] \in InUse
    /\ \A c \in Clients : conn[c] # "closed" => status[c] = 0
-----------------------------------------------------------------------------
(* The first account of a name. *)

\* What db_get_user_by_username finds is the account at the first place of the name.
LEMMA FoundAt ==
    ASSUME NEW us \in Seq(Account), NEW name,
           NEW i \in 1 .. Len(us), us[i].name = name,
           \A j \in 1 .. Len(us) : us[j].name = name => i <= j
    PROVE  Found(us, name) = us[i]
<1> DEFINE places == {k \in 1 .. Len(us) : us[k].name = name}
<1>1. i \in places /\ \A j \in places : i <= j
  OBVIOUS
<1>2. \A k \in places : (\A j \in places : k <= j) => k = i
  BY <1>1
<1>3. (CHOOSE k \in places : \A j \in places : k <= j) = i
  BY <1>1, <1>2
<1> QED BY <1>1, <1>3 DEF Found

\* A name that is found has a first place; one that is not has none.
LEMMA FoundFirst ==
    ASSUME NEW us \in Seq(Account), NEW name, Found(us, name) # None
    PROVE  \E i \in 1 .. Len(us) :
               /\ us[i].name = name
               /\ \A j \in 1 .. Len(us) : us[j].name = name => i <= j
<1> DEFINE places == {k \in 1 .. Len(us) : us[k].name = name}
<1>1. places # {} /\ places \subseteq Nat
  BY DEF Found
<1>2. PICK i \in places : \A j \in places : i <= j
  BY <1>1, HasLeast
<1> QED BY <1>2

\* Registering behind it changes nothing for a name that is found.
LEMMA FirstStays ==
    ASSUME NEW us \in Seq(Account), NEW account \in Account, NEW name,
           Found(us, name) # None
    PROVE  Found(Append(us, account), name) = Found(us, name)
<1> DEFINE more == Append(us, account)
<1>1. PICK i \in 1 .. Len(us) :
          us[i].name = name /\ \A j \in 1 .. Len(us) : us[j].name = name => i <= j
  BY FoundFirst
<1>2. /\ more \in Seq(Account) /\ Len(more) = Len(us) + 1
      /\ \A j \in 1 .. Len(us) : more[j] = us[j]
  BY AppendProperties
<1>3. i \in 1 .. Len(more) /\ more[i].name = name
  BY <1>1, <1>2
<1>4. \A j \in 1 .. Len(more) : more[j].name = name => i <= j
  BY <1>1, <1>2
<1>5. Found(more, name) = more[i]
  BY <1>2, <1>3, <1>4, FoundAt
<1>6. Found(us, name) = us[i]
  BY <1>1, FoundAt
<1> QED BY <1>2, <1>5, <1>6

\* Whoever has registered is found, or someone who was before.
LEMMA RegisteredFound ==
    ASSUME NEW us \in Seq(Account), NEW account \in Account
    PROVE  Found(Append(us, account), account.name) \in Account
<1> DEFINE more == Append(us, account)
           places == {k \in 1 .. Len(more) : more[k].name = account.name}
<1>1. /\ more \in Seq(Account) /\ Len(more) = Len(us) + 1
      /\ more[Len(us) + 1] = account
  BY AppendProperties
<1>2. Len(more) \in places /\ places \subseteq Nat
  BY <1>1
<1>3. PICK i \in places : \A j \in places : i <= j
  BY <1>2, HasLeast
<1>4. Found(more, account.name) = more[i]
  BY <1>1, <1>3, FoundAt
<1> QED BY <1>1, <1>3, <1>4
-----------------------------------------------------------------------------
(* Types. *)

\* The token of a name is one of the tokens.
LEMMA TokenType ==
    ASSUME NEW name \in Names PROVE jwt_create(name) \in Token
BY DEF jwt_create, Token, Decoded

\* The clients' requests are requests.
LEMMA RequestsType ==
    ASSUME granted \subseteq Token PROVE Requests \subseteq Request
BY DEF Requests, Request, WithBody, Paths, HeaderLines

\* The account in a body, where the server looks for one, is an account.
LEMMA BodyType ==
    ASSUME TypeOK, Asked, NEW c \in Clients, NEW path, Served(c, path)
    PROVE  Body(c) \in Account \cup {None}
<1>1. arrived[c] # "nothing"
  BY DEF Served, Parsed
<1>2. request[c] \in Request \cup {None}
  <2>1. request \in [Clients -> Request \cup {None}]
    BY DEF TypeOK
  <2> QED BY <2>1, Zenon
<1>3. request[c] # None
  BY <1>1 DEF Asked
<1>4. request[c] \in Request
  BY <1>2, <1>3
<1>5. request[c].body \in Account \cup {None}
  BY <1>4 DEF Request
<1> QED BY <1>5 DEF Body

\* After an answer that leaves accounts and tokens of their types, all types hold.
LEMMA RespondType ==
    ASSUME TypeOK, Asked, NEW c \in Clients, NEW code \in Codes, Respond(c, code),
           users' \in Seq(Account), Len(users') <= MAX_USERS,
           granted' \subseteq Token, told' \subseteq Account, proved' \subseteq Account
    PROVE  TypeOK' /\ Asked'
<1>1. /\ up' \in BOOLEAN
      /\ backlog' \in Seq(Clients) /\ Len(backlog') <= LISTEN_BACKLOG
      /\ client_fd' \in Clients \cup {None}
  BY DEF Respond, TypeOK
<1>2. conn' \in [Clients -> {"idle", "open", "hung up", "closed"}]
  BY DEF Respond, TypeOK
<1>3. request' \in [Clients -> Request \cup {None}]
  BY DEF Respond, TypeOK
<1>4. arrived' \in [Clients -> Pieces]
  BY DEF Respond, TypeOK, Pieces
<1>5. status' \in [Clients -> {0, 200, 201, 400, 401, 404}]
  BY ZenonT(60) DEF Respond, TypeOK, Codes
<1>6. Asked'
  BY ZenonT(60) DEF Respond, TypeOK, Asked
<1> QED BY <1>1, <1>2, <1>3, <1>4, <1>5, <1>6, ZenonT(60) DEF TypeOK

\* An answer that leaves the accounts and the tokens alone.
LEMMA PlainAnswer ==
    ASSUME ServerInv, NEW c \in Clients, NEW code \in Codes, Respond(c, code),
           UNCHANGED <<users, granted, told, proved>>
    PROVE  ServerInv'
<1>1. Asked' /\ TypeOK'
  <2>1. /\ users' \in Seq(Account) /\ Len(users') <= MAX_USERS
        /\ granted' \subseteq Token
        /\ told' \subseteq Account /\ proved' \subseteq Account
    BY DEF ServerInv, TypeOK
  <2> QED BY <2>1, RespondType DEF ServerInv
<1>2. Fresh'
  BY DEF ServerInv, Fresh, Respond
<1>3. ProvedLoginsStand'
  BY DEF ServerInv, ProvedLoginsStand, Matches
<1>4. RegistrationHonoured'
  BY DEF ServerInv, RegistrationHonoured, Matches
<1> QED BY <1>1, <1>2, <1>3, <1>4 DEF ServerInv
-----------------------------------------------------------------------------
(* Registering and logging in. *)

\* A registration: what has been promised stays, and the new promise holds.
LEMMA RegisterKeeps ==
    ASSUME ServerInv, NEW c \in Clients, handle_register(c)
    PROVE  ServerInv'
<1> DEFINE account == Body(c)
           stored == HasFields(account) /\ HasRoom(users)
<1>1. account \in Account \cup {None}
  BY BodyType DEF ServerInv, handle_register
<1>2. Respond(c, IF stored THEN 201 ELSE 400) /\ UNCHANGED <<granted, proved, up>>
  BY DEF handle_register, Respond
<1>3. CASE ~stored
  <2>1. Respond(c, 400) /\ UNCHANGED <<users, told>>
    BY <1>2, <1>3 DEF handle_register
  <2> QED BY <1>2, <2>1, PlainAnswer DEF Codes
<1>4. CASE stored
  <2>1. account \in Account /\ Len(users) < MAX_USERS
    BY <1>1, <1>4 DEF HasFields, HasRoom
  <2>2. users' = Append(users, account) /\ told' = told \cup {account}
    BY <1>4 DEF handle_register, Insert
  <2>3. users \in Seq(Account) /\ told \subseteq Account /\ proved \subseteq Account
    BY DEF ServerInv, TypeOK
  <2>4. users' \in Seq(Account) /\ Len(users') <= MAX_USERS
    <3>1. users' \in Seq(Account) /\ Len(users') = Len(users) + 1
      BY <2>1, <2>2, <2>3, AppendProperties
    <3>2. Len(users) \in Nat /\ MAX_USERS \in Nat
      BY <2>3, ConstantsAssumption
    <3> QED BY <3>1, <3>2, <2>1
  <2>5. Respond(c, 201)
    BY <1>2, <1>4
  <2>6. TypeOK' /\ Asked'
    <3>1. told' \subseteq Account /\ proved' \subseteq Account
      BY <1>2, <2>1, <2>2, <2>3
    <3>2. granted' \subseteq Token
      BY <1>2, ZenonT(60) DEF ServerInv, TypeOK
    <3>3. 201 \in Codes /\ TypeOK /\ Asked
      BY DEF Codes, ServerInv
    <3> QED BY <2>4, <2>5, <3>1, <3>2, <3>3, RespondType
  <2>7. Fresh'
    <3>1. up
      BY ConstantsAssumption DEF handle_register, Served, Readable, ServerInv, Fresh
    <3> QED BY <1>2, <3>1 DEF Fresh
  <2>8. ASSUME NEW a \in Account, Found(users, a.name) # None
        PROVE  Found(users', a.name) = Found(users, a.name)
    BY <2>1, <2>2, <2>3, <2>8, FirstStays
  <2>9. ProvedLoginsStand'
    <3>1. ASSUME NEW a \in proved PROVE Found(users', a.name) = a
      <4>1. a \in Account /\ a # None /\ Found(users, a.name) = a
        BY <2>3, ConstantsAssumption DEF ServerInv, ProvedLoginsStand, Matches
      <4> QED BY <4>1, <2>8
    <3> QED BY <1>2, <3>1 DEF ProvedLoginsStand, Matches
  <2>10. RegistrationHonoured'
    <3>1. ASSUME NEW a \in told
          PROVE  Found(users', a.name) = a \/ Found(users', a.name) \in Account \ {a}
      <4>1. a \in Account /\ Found(users, a.name) \in Account
        BY <2>3 DEF ServerInv, RegistrationHonoured, Matches
      <4>2. Found(users, a.name) # None
        BY <4>1, ConstantsAssumption
      <4> QED BY <4>1, <4>2, <2>8
    <3>2. Found(users', account.name) \in Account
      BY <2>1, <2>2, <2>3, RegisteredFound
    <3> QED BY <2>2, <3>1, <3>2 DEF RegistrationHonoured, Matches
  <2> QED BY <2>6, <2>7, <2>9, <2>10 DEF ServerInv
<1> QED BY <1>3, <1>4

\* A login changes no account; the token it gives is one of the name.
LEMMA LoginKeeps ==
    ASSUME ServerInv, NEW c \in Clients, handle_login(c)
    PROVE  ServerInv'
<1> DEFINE account == Body(c)
           good == HasFields(account) /\ Matches(users, account)
           code == IF ~HasFields(account) THEN 400 ELSE IF good THEN 200 ELSE 401
<1>1. account \in Account \cup {None}
  BY BodyType DEF ServerInv, handle_login
<1>2. Respond(c, code) /\ UNCHANGED <<users, told, up>> /\ code \in Codes
  BY DEF handle_login, Respond, Codes
<1>3. CASE ~good
  <2>1. UNCHANGED <<granted, proved>>
    BY <1>3 DEF handle_login
  <2> HIDE DEF code
  <2> QED BY <1>2, <2>1, PlainAnswer
<1>4. CASE good
  <2>1. account \in Account
    BY <1>1, <1>4 DEF HasFields
  <2>2. /\ proved' = proved \cup {account}
        /\ granted' = granted \cup {jwt_create(account.name)}
    BY <1>4 DEF handle_login
  <2>3. jwt_create(account.name) \in Token
    BY <2>1, TokenType DEF Account
  <2>4. Asked' /\ TypeOK'
    <3>1. /\ users' \in Seq(Account) /\ Len(users') <= MAX_USERS
          /\ told' \subseteq Account
      BY <1>2, ZenonT(60) DEF ServerInv, TypeOK
    <3>2. granted' \subseteq Token
      BY <2>2, <2>3, ZenonT(60) DEF ServerInv, TypeOK
    <3>3. proved' \subseteq Account
      BY <2>1, <2>2, ZenonT(60) DEF ServerInv, TypeOK
    <3> HIDE DEF code
    <3> QED BY <1>2, <3>1, <3>2, <3>3, RespondType DEF ServerInv
  <2>5. ProvedLoginsStand'
    BY <1>2, <1>4, <2>2 DEF ServerInv, ProvedLoginsStand, Matches
  <2>6. RegistrationHonoured'
    BY <1>2 DEF ServerInv, RegistrationHonoured, Matches
  <2>7. Fresh'
    <3>1. up
      BY ConstantsAssumption DEF handle_login, Served, Readable, ServerInv, Fresh
    <3> QED BY <1>2, <3>1 DEF Fresh
  <2> QED BY <2>4, <2>5, <2>6, <2>7 DEF ServerInv
<1> QED BY <1>3, <1>4
-----------------------------------------------------------------------------
(* The other steps. *)

\* Initially nothing has happened.
LEMMA InitSound == Init => ServerInv
<1> SUFFICES ASSUME Init PROVE ServerInv
  OBVIOUS
<1>1. users = <<>> /\ users \in Seq(Account) /\ Len(users) = 0
  BY DEF Init
<1>2. backlog = <<>> /\ backlog \in Seq(Clients) /\ Len(backlog) = 0
  BY DEF Init
<1>3. Len(users) <= MAX_USERS /\ Len(backlog) <= LISTEN_BACKLOG
  BY <1>1, <1>2, ConstantsAssumption
<1>4. TypeOK
  BY <1>1, <1>2, <1>3 DEF Init, TypeOK, Pieces
<1> QED BY <1>4 DEF Init, ServerInv, Asked, Fresh, ProvedLoginsStand, RegistrationHonoured

\* A step that leaves accounts, promises and the process alone, and whose types are right.
LEMMA AccountsAlone ==
    ASSUME ServerInv, TypeOK', Asked', UNCHANGED <<up, users, told, proved>>,
           client_fd' = client_fd \/ up
    PROVE  ServerInv'
<1>1. Fresh'
  BY DEF ServerInv, Fresh
<1>2. ProvedLoginsStand' /\ RegistrationHonoured'
  BY DEF ServerInv, ProvedLoginsStand, RegistrationHonoured, Matches
<1> QED BY <1>1, <1>2 DEF ServerInv

\* A client connects: the backlog has room for it.
LEMMA ConnectKeeps ==
    ASSUME ServerInv, NEW c \in Clients, Connect(c) PROVE ServerInv'
<1>1. backlog' \in Seq(Clients) /\ Len(backlog') = Len(backlog) + 1
  BY AppendProperties, ZenonT(60) DEF Connect, ServerInv, TypeOK
<1>2. Len(backlog') <= LISTEN_BACKLOG
  <2>1. Len(backlog) < LISTEN_BACKLOG /\ backlog \in Seq(Clients)
    BY DEF Connect, ServerInv, TypeOK
  <2>2. LISTEN_BACKLOG \in Nat
    BY ConstantsAssumption
  <2>3. Len(backlog) \in Nat
    BY <2>1, LenProperties
  <2> QED BY <1>1, <2>1, <2>2, <2>3
<1>3. TypeOK'
  BY <1>1, <1>2 DEF Connect, ServerInv, TypeOK
<1>4. Asked'
  BY DEF Connect, ServerInv, Asked
<1> QED BY <1>3, <1>4, AccountsAlone DEF Connect

\* A client sends the first of its request.
LEMMA SendKeeps ==
    ASSUME ServerInv, NEW c \in Clients, NEW r \in Requests, NEW p \in Pieces, Send(c, r, p)
    PROVE  ServerInv'
<1>1. r \in Request /\ r # None
  <2>1. granted \subseteq Token
    BY DEF ServerInv, TypeOK
  <2>2. Requests \subseteq Request
    BY <2>1, RequestsType
  <2> QED BY <2>2, NoneAssumption
<1>2. TypeOK'
  BY <1>1 DEF Send, ServerInv, TypeOK
<1>3. Asked'
  BY <1>1, ZenonT(60) DEF Send, ServerInv, TypeOK, Asked
<1> QED BY <1>2, <1>3, AccountsAlone DEF Send

\* A client sends the rest, hangs up, or leaves.
LEMMA ClientKeeps ==
    ASSUME ServerInv, NEW c \in Clients, SendRest(c) \/ HangUp(c) \/ Leave(c)
    PROVE  ServerInv'
<1>1. CASE SendRest(c)
  <2>1. TypeOK'
    <3>1. arrived' \in [Clients -> Pieces]
      BY <1>1 DEF SendRest, ServerInv, TypeOK, Pieces
    <3> QED BY <1>1, <3>1 DEF SendRest, ServerInv, TypeOK
  <2>2. Asked'
    <3>1. arrived[c] # "nothing" /\ request' = request
      BY <1>1 DEF SendRest
    <3>2. \A d \in Clients : d # c => arrived'[d] = arrived[d]
      BY <1>1, ZenonT(60) DEF SendRest, ServerInv, TypeOK
    <3> QED BY <3>1, <3>2 DEF ServerInv, Asked
  <2> QED BY <1>1, <2>1, <2>2, AccountsAlone DEF SendRest
<1>2. CASE HangUp(c)
  <2>1. TypeOK'
    BY <1>2 DEF HangUp, ServerInv, TypeOK
  <2>2. Asked'
    BY <1>2 DEF HangUp, ServerInv, Asked
  <2> QED BY <1>2, <2>1, <2>2, AccountsAlone DEF HangUp
<1>3. CASE Leave(c)
  <2>1. TypeOK'
    BY <1>3, ZenonT(60) DEF Leave, ServerInv, TypeOK
  <2>2. Asked'
    BY <1>3 DEF Leave, ServerInv, Asked
  <2> QED BY <1>3, <2>1, <2>2, AccountsAlone DEF Leave
<1> QED BY <1>1, <1>2, <1>3

\* The server takes the next connection.
LEMMA AcceptKeeps == ServerInv /\ Accept => ServerInv'
<1> SUFFICES ASSUME ServerInv, Accept PROVE ServerInv'
  OBVIOUS
<1>1. /\ Head(backlog) \in Clients /\ Tail(backlog) \in Seq(Clients)
      /\ Len(Tail(backlog)) = Len(backlog) - 1
  BY HeadTailProperties DEF Accept, ServerInv, TypeOK
<1>2. Len(Tail(backlog)) <= LISTEN_BACKLOG
  <2>1. Len(backlog) <= LISTEN_BACKLOG /\ backlog \in Seq(Clients)
    BY DEF ServerInv, TypeOK
  <2>2. LISTEN_BACKLOG \in Nat
    BY ConstantsAssumption
  <2>3. Len(backlog) \in Nat
    BY <2>1, LenProperties
  <2> QED BY <1>1, <2>1, <2>2, <2>3
<1>3. TypeOK'
  BY <1>1, <1>2 DEF Accept, ServerInv, TypeOK
<1>4. Asked'
  BY DEF Accept, ServerInv, Asked
<1> QED BY <1>3, <1>4, AccountsAlone DEF Accept

\* The process ends, or begins: nothing has been promised yet.
LEMMA ProcessKeeps == ServerInv /\ (Interrupt \/ Start) => ServerInv'
<1> SUFFICES ASSUME ServerInv, Interrupt \/ Start PROVE ServerInv'
  OBVIOUS
<1>1. CASE Interrupt
  <2>1. /\ users' = <<>> /\ users' \in Seq(Account) /\ Len(users') = 0
        /\ backlog' = <<>> /\ backlog' \in Seq(Clients) /\ Len(backlog') = 0
    BY <1>1 DEF Interrupt
  <2>2. Len(users') <= MAX_USERS /\ Len(backlog') <= LISTEN_BACKLOG
    BY <2>1, ConstantsAssumption
  <2>3. TypeOK'
    BY <1>1, <2>1, <2>2 DEF Interrupt, ServerInv, TypeOK, Pieces
  <2> QED BY <1>1, <2>3
       DEF Interrupt, ServerInv, Asked, Fresh, ProvedLoginsStand, RegistrationHonoured
<1>2. CASE Start
  <2>1. users' = <<Admin>> /\ users' \in Seq(Account) /\ Len(users') = 1
    BY <1>2, ConstantsAssumption DEF Start, db_init
  <2>2. Len(users') <= MAX_USERS
    BY <2>1, ConstantsAssumption
  <2>3. TypeOK' /\ Asked'
    <3>1. TypeOK'
      BY <1>2, <2>1, <2>2 DEF Start, ServerInv, TypeOK
    <3>2. Asked'
      BY <1>2 DEF Start, ServerInv, Asked
    <3> QED BY <3>1, <3>2
  <2>4. told' = {} /\ proved' = {} /\ up'
    BY <1>2 DEF Start, ServerInv, Fresh
  <2> QED BY <2>3, <2>4 DEF ServerInv, Fresh, ProvedLoginsStand, RegistrationHonoured
<1> QED BY <1>1, <1>2

\* Every answer.
LEMMA ReceiveKeeps ==
    ASSUME ServerInv, NEW c \in Clients, Receive(c) PROVE ServerInv'
<1> USE DEF Codes
<1>1. CASE BadRequest(c)
  BY <1>1, PlainAnswer DEF BadRequest
<1>2. CASE NotFound(c)
  BY <1>2, PlainAnswer DEF NotFound
<1>3. CASE handle_health(c)
  BY <1>3, PlainAnswer DEF handle_health
<1>4. CASE Refuse(c)
  BY <1>4, PlainAnswer DEF Refuse
<1> QED BY <1>1, <1>2, <1>3, <1>4, RegisterKeeps, LoginKeeps DEF Receive

\* No step breaks the invariant.
LEMMA NextKeeps == ServerInv /\ [Next]_vars => ServerInv'
<1> SUFFICES ASSUME ServerInv, [Next]_vars PROVE ServerInv'
  OBVIOUS
<1>1. CASE UNCHANGED vars
  BY <1>1 DEF vars, ServerInv, TypeOK, Asked, Fresh, ProvedLoginsStand,
              RegistrationHonoured, Matches
<1>2. ASSUME NEW c \in Clients, Connect(c) PROVE ServerInv'
  BY <1>2, ConnectKeeps
<1>3. ASSUME NEW c \in Clients, SendRest(c) \/ HangUp(c) \/ Leave(c) PROVE ServerInv'
  BY <1>3, ClientKeeps
<1>4. ASSUME NEW c \in Clients, Receive(c) PROVE ServerInv'
  BY <1>4, ReceiveKeeps
<1>5. ASSUME NEW c \in Clients, NEW r \in Requests, NEW p \in Pieces \ {"nothing"},
             Send(c, r, p)
      PROVE  ServerInv'
  BY <1>5, SendKeeps
<1> QED BY <1>1, <1>2, <1>3, <1>4, <1>5, AcceptKeeps, ProcessKeeps DEF Next

\* The inductive invariant holds of every reachable state.
THEOREM ServerAlwaysSound == Spec => []ServerInv
BY InitSound, NextKeeps, PTL DEF Spec

\* Every variable of the server has its type: the table and the backlog never exceed
\* their capacity, whoever registers and connects.
THEOREM ServerTypes == Spec => []TypeOK
<1>1. ServerInv => TypeOK
  BY DEF ServerInv
<1> QED BY <1>1, ServerAlwaysSound, PTL

\* Who has logged in once can log in as long as the process runs.
THEOREM LoginsStand == Spec => []ProvedLoginsStand
<1>1. ServerInv => ProvedLoginsStand
  BY DEF ServerInv
<1> QED BY <1>1, ServerAlwaysSound, PTL

\* Who was told 201 can log in, or somebody else of that name can.
THEOREM RegistrationsHonoured == Spec => []RegistrationHonoured
<1>1. ServerInv => RegistrationHonoured
  BY DEF ServerInv
<1> QED BY <1>1, ServerAlwaysSound, PTL
-----------------------------------------------------------------------------
(* The queue of connections. *)

\* What the proofs about the queue need of the types.
LEMMA QueueTypes ==
    ASSUME ServerInv
    PROVE  backlog \in Seq(Clients) /\ Len(backlog) \in Nat
<1>1. backlog \in Seq(Clients)
  BY DEF ServerInv, TypeOK
<1> QED BY <1>1, LenProperties

\* Clients wait in the backlog.
LEMMA QueuedAreClients ==
    ASSUME ServerInv PROVE \A i \in 1 .. Len(backlog) : backlog[i] \in Clients
BY QueueTypes, ElementOfSeq

\* The state of a connection, and who is served.
LEMMA ConnTypes ==
    ASSUME ServerInv
    PROVE  /\ conn \in [Clients -> {"idle", "open", "hung up", "closed"}]
           /\ client_fd \in Clients \cup {None} /\ None \notin Clients
BY ConstantsAssumption DEF ServerInv, TypeOK

\* The status of an answer is a code of HTTP, or 0.
LEMMA StatusTypes ==
    ASSUME ServerInv PROVE status \in [Clients -> {0, 200, 201, 400, 401, 404}]
BY DEF ServerInv, TypeOK

\* A new connection is one that was in no place.
LEMMA ConnectQueues ==
    ASSUME ServerInv, QueueInv, NEW c \in Clients, Connect(c) PROVE QueueInv'
<1>1. /\ backlog' = Append(backlog, c) /\ conn[c] = "idle"
      /\ conn' = [conn EXCEPT ![c] = "open"] /\ UNCHANGED <<client_fd, status>>
  BY DEF Connect
<1>2. backlog \in Seq(Clients) /\ Len(backlog) \in Nat
  BY QueueTypes
<1>3. /\ Len(backlog') = Len(backlog) + 1 /\ backlog'[Len(backlog) + 1] = c
      /\ \A i \in 1 .. Len(backlog) : backlog'[i] = backlog[i]
  BY <1>1, <1>2, AppendProperties
<1>4. \A i \in 1 .. Len(backlog) : backlog[i] # c
  BY <1>1 DEF QueueInv, InUse
<1>5. client_fd # c
  BY <1>1 DEF QueueInv, InUse
<1>6. \A i \in 1 .. Len(backlog') : i \in 1 .. Len(backlog) \/ i = Len(backlog) + 1
  BY <1>2, <1>3
<1>7. \A d \in Clients : conn'[d] = IF d = c THEN "open" ELSE conn[d]
  BY <1>1, ConnTypes
<1>8. \A i \in 1 .. Len(backlog) : conn'[backlog[i]] = conn[backlog[i]]
  BY <1>4, <1>7, QueuedAreClients
<1>9. ASSUME NEW i \in 1 .. Len(backlog')
      PROVE  conn'[backlog'[i]] \in InUse /\ backlog'[i] # client_fd'
  <2>1. CASE i \in 1 .. Len(backlog)
    BY <1>1, <1>3, <1>8, <2>1 DEF QueueInv
  <2>2. CASE i = Len(backlog) + 1
    <3>1. backlog'[i] = c
      BY <1>3, <2>2
    <3> QED BY <1>1, <1>5, <1>7, <3>1 DEF InUse
  <2> QED BY <1>6, <2>1, <2>2
<1>10. ASSUME NEW i \in 1 .. Len(backlog'), NEW j \in 1 .. Len(backlog'),
              backlog'[i] = backlog'[j]
       PROVE  i = j
  <2>1. CASE i \in 1 .. Len(backlog) /\ j \in 1 .. Len(backlog)
    BY <1>3, <1>10, <2>1 DEF QueueInv
  <2>2. CASE i = Len(backlog) + 1 \/ j = Len(backlog) + 1
    BY <1>3, <1>4, <1>6, <1>10, <2>2
  <2> QED BY <1>6, <2>1, <2>2
<1>11. \A d \in Clients : client_fd' = d => conn'[d] \in InUse
  BY <1>1, <1>5, <1>7 DEF QueueInv
<1>12. \A d \in Clients : conn'[d] # "closed" => status'[d] = 0
  BY <1>1, <1>7 DEF QueueInv
<1> QED BY <1>9, <1>10, <1>11, <1>12 DEF QueueInv

\* The head of the queue passes into the server's hands.
LEMMA AcceptQueues == ServerInv /\ QueueInv /\ Accept => QueueInv'
<1> SUFFICES ASSUME ServerInv, QueueInv, Accept PROVE QueueInv'
  OBVIOUS
<1>1. /\ backlog # <<>> /\ client_fd' = Head(backlog) /\ backlog' = Tail(backlog)
      /\ UNCHANGED <<conn, status>>
  BY DEF Accept
<1>2. backlog \in Seq(Clients) /\ Len(backlog) \in Nat
  BY QueueTypes
<1>3. Len(backlog) >= 1 /\ client_fd' = backlog[1]
  BY <1>1, <1>2
<1>4. /\ Len(backlog') = Len(backlog) - 1
      /\ \A i \in 1 .. Len(backlog') : backlog'[i] = backlog[i + 1]
  BY <1>1, <1>2, HeadTailProperties
<1>5. \A i \in 1 .. Len(backlog') : i + 1 \in 1 .. Len(backlog) /\ i + 1 # 1
  BY <1>2, <1>4
<1>6. 1 \in 1 .. Len(backlog)
  BY <1>2, <1>3
<1>7. \A i \in 1 .. Len(backlog') : conn'[backlog'[i]] \in InUse
  BY <1>1, <1>4, <1>5 DEF QueueInv
<1>8. ASSUME NEW i \in 1 .. Len(backlog') PROVE backlog'[i] # client_fd'
  <2>1. i + 1 \in 1 .. Len(backlog) /\ i + 1 # 1 /\ backlog'[i] = backlog[i + 1]
    BY <1>4, <1>5
  <2>2. backlog[i + 1] # backlog[1]
    BY <1>6, <2>1 DEF QueueInv
  <2> QED BY <1>3, <2>1, <2>2
<1>9. ASSUME NEW i \in 1 .. Len(backlog'), NEW j \in 1 .. Len(backlog'),
             backlog'[i] = backlog'[j]
      PROVE  i = j
  <2>1. i + 1 = j + 1
    BY <1>4, <1>5, <1>9 DEF QueueInv
  <2>2. i \in Int /\ j \in Int
    OBVIOUS
  <2> QED BY <2>1, <2>2
<1>10. \A d \in Clients : client_fd' = d => conn'[d] \in InUse
  BY <1>1, <1>3, <1>6 DEF QueueInv
<1>11. \A d \in Clients : conn'[d] # "closed" => status'[d] = 0
  BY <1>1 DEF QueueInv
<1> QED BY <1>7, <1>8, <1>9, <1>10, <1>11 DEF QueueInv

\* The connection that is answered is closed and is not waiting elsewhere.
LEMMA RespondQueues ==
    ASSUME ServerInv, QueueInv, NEW c \in Clients, NEW code, client_fd = c, Respond(c, code)
    PROVE  QueueInv'
<1>1. conn' = [conn EXCEPT ![c] = "closed"] /\ backlog' = backlog /\ client_fd' = None
  BY DEF Respond
<1>2. \A d \in Clients \ {c} : status'[d] = status[d]
  BY StatusTypes DEF Respond
<1>3. \A i \in 1 .. Len(backlog) : backlog[i] # c /\ backlog[i] # None
  BY QueuedAreClients, ConnTypes DEF QueueInv
<1>4. \A d \in Clients : conn'[d] = IF d = c THEN "closed" ELSE conn[d]
  BY <1>1, ConnTypes
<1>5. \A i \in 1 .. Len(backlog) : conn'[backlog[i]] = conn[backlog[i]]
  BY <1>3, <1>4, QueuedAreClients
<1>6. \A d \in Clients : conn'[d] # "closed" => status'[d] = 0
  BY <1>2, <1>4 DEF QueueInv
<1>7. \A i \in 1 .. Len(backlog') : conn'[backlog'[i]] \in InUse /\ backlog'[i] # client_fd'
  BY <1>1, <1>3, <1>5 DEF QueueInv
<1>8. \A i, j \in 1 .. Len(backlog') : backlog'[i] = backlog'[j] => i = j
  BY <1>1 DEF QueueInv
<1>9. \A d \in Clients : client_fd' = d => conn'[d] \in InUse
  BY <1>1, ConnTypes
<1> QED BY <1>6, <1>7, <1>8, <1>9 DEF QueueInv

\* A step that moves no connection in the queue, and closes or opens none in use.
LEMMA QueueAlone ==
    ASSUME ServerInv, QueueInv, UNCHANGED <<backlog, client_fd>>,
           \A d \in Clients : conn[d] \in InUse => conn'[d] \in InUse,
           \A d \in Clients : conn'[d] # "closed" => status'[d] = 0
    PROVE  QueueInv'
<1>1. \A i \in 1 .. Len(backlog') : conn'[backlog'[i]] \in InUse /\ backlog'[i] # client_fd'
  BY QueuedAreClients DEF QueueInv
<1>2. \A i, j \in 1 .. Len(backlog') : backlog'[i] = backlog'[j] => i = j
  BY DEF QueueInv
<1>3. \A d \in Clients : client_fd' = d => conn'[d] \in InUse
  BY DEF QueueInv
<1> QED BY <1>1, <1>2, <1>3 DEF QueueInv

\* A client hangs up or leaves; the process ends.
LEMMA EndQueues ==
    ASSUME ServerInv, QueueInv,
           (\E c \in Clients : HangUp(c) \/ Leave(c)) \/ Interrupt
    PROVE  QueueInv'
<1>1. ASSUME NEW c \in Clients, HangUp(c) PROVE QueueInv'
  <2>1. /\ conn[c] = "open" /\ conn' = [conn EXCEPT ![c] = "hung up"]
        /\ UNCHANGED <<backlog, client_fd, status>>
    BY <1>1 DEF HangUp
  <2>2. \A d \in Clients : conn'[d] = IF d = c THEN "hung up" ELSE conn[d]
    BY <2>1, ConnTypes
  <2>3. \A d \in Clients : conn[d] \in InUse => conn'[d] \in InUse
    BY <2>2 DEF InUse
  <2>4. \A d \in Clients : conn'[d] # "closed" => status'[d] = 0
    BY <2>1, <2>2 DEF QueueInv
  <2> QED BY <2>1, <2>3, <2>4, QueueAlone
<1>2. ASSUME NEW c \in Clients, Leave(c) PROVE QueueInv'
  <2>1. /\ conn[c] = "closed" /\ conn' = [conn EXCEPT ![c] = "idle"]
        /\ status' = [status EXCEPT ![c] = 0]
        /\ UNCHANGED <<backlog, client_fd>>
    BY <1>2 DEF Leave
  <2>2. \A d \in Clients : conn'[d] = IF d = c THEN "idle" ELSE conn[d]
    BY <2>1, ConnTypes
  <2>3. \A d \in Clients : status'[d] = IF d = c THEN 0 ELSE status[d]
    BY <2>1, StatusTypes
  <2>4. \A d \in Clients : conn[d] \in InUse => conn'[d] \in InUse
    BY <2>1, <2>2 DEF InUse
  <2>5. \A d \in Clients : conn'[d] # "closed" => status'[d] = 0
    BY <2>2, <2>3 DEF QueueInv
  <2> QED BY <2>1, <2>4, <2>5, QueueAlone
<1>3. CASE Interrupt
  <2>1. /\ backlog' = <<>> /\ client_fd' = None /\ status' = status
        /\ conn' = [c \in Clients |-> IF conn[c] = "idle" THEN "idle" ELSE "closed"]
    BY <1>3 DEF Interrupt
  <2>2. 1 .. Len(backlog') = {}
    BY <2>1
  <2>3. \A d \in Clients : conn'[d] # "closed" => status'[d] = 0
    BY <2>1 DEF QueueInv
  <2>4. \A d \in Clients : client_fd' # d
    BY <2>1, ConnTypes
  <2> QED BY <2>2, <2>3, <2>4 DEF QueueInv
<1> QED BY <1>1, <1>2, <1>3

\* An answer is given to the client being served.
LEMMA ReceiveAnswers ==
    ASSUME NEW c \in Clients, Receive(c)
    PROVE  client_fd = c /\ \E code \in Codes : Respond(c, code)
<1>1. client_fd = c
  BY DEF Receive, BadRequest, NotFound, handle_health, handle_register, handle_login, Refuse,
         Served, Readable
<1>2. 200 \in Codes /\ 201 \in Codes /\ 400 \in Codes /\ 401 \in Codes /\ 404 \in Codes
  BY DEF Codes
<1>3. CASE BadRequest(c) \/ NotFound(c) \/ handle_health(c) \/ Refuse(c)
  <2>1. Respond(c, 400) \/ Respond(c, 404) \/ Respond(c, 200) \/ Respond(c, 401)
    BY <1>3 DEF BadRequest, NotFound, handle_health, Refuse
  <2> QED BY <1>1, <1>2, <2>1
<1>4. CASE handle_register(c)
  <2> DEFINE stored == HasFields(Body(c)) /\ HasRoom(users)
             code == IF stored THEN 201 ELSE 400
  <2>1. Respond(c, code)
    BY <1>4 DEF handle_register
  <2>2. code \in Codes
    BY <1>2
  <2> HIDE DEF code
  <2> QED BY <1>1, <2>1, <2>2
<1>5. CASE handle_login(c)
  <2> DEFINE good == HasFields(Body(c)) /\ Matches(users, Body(c))
             code == IF ~HasFields(Body(c)) THEN 400 ELSE IF good THEN 200 ELSE 401
  <2>1. Respond(c, code)
    BY <1>5 DEF handle_login
  <2>2. code \in Codes
    BY <1>2
  <2> HIDE DEF code
  <2> QED BY <1>1, <2>1, <2>2
<1> QED BY <1>3, <1>4, <1>5 DEF Receive

\* No step breaks the order of the queue.
LEMMA NextQueues == ServerInv /\ QueueInv /\ [Next]_vars => QueueInv'
<1> SUFFICES ASSUME ServerInv, QueueInv, [Next]_vars PROVE QueueInv'
  OBVIOUS
<1>1. ASSUME UNCHANGED <<backlog, conn, client_fd, status>> PROVE QueueInv'
  BY <1>1 DEF QueueInv
<1>2. CASE UNCHANGED vars \/ Start
  BY <1>1, <1>2 DEF vars, Start
<1>3. ASSUME NEW c \in Clients, Receive(c) PROVE QueueInv'
  BY <1>3, ReceiveAnswers, RespondQueues
<1>4. ASSUME NEW c \in Clients, SendRest(c) PROVE QueueInv'
  BY <1>1, <1>4 DEF SendRest
<1>5. ASSUME NEW c \in Clients, NEW r \in Requests, NEW p \in Pieces \ {"nothing"},
             Send(c, r, p)
      PROVE  QueueInv'
  BY <1>1, <1>5 DEF Send
<1> QED BY <1>2, <1>3, <1>4, <1>5, ConnectQueues, AcceptQueues, EndQueues DEF Next

\* No connection waits twice, and none is served or answered that is not in use.
THEOREM QueueSound == Spec => []QueueInv
<1>1. Init => QueueInv
  BY ConstantsAssumption DEF Init, QueueInv
<1> QED BY <1>1, ServerAlwaysSound, NextQueues, PTL DEF Spec

\* The answer to a request that had arrived whole.
LEMMA WholeAnswered ==
    ASSUME ServerInv, QueueInv, [Next]_vars, NEW c \in Clients,
           client_fd = c, client_fd' = None,
           arrived[c] = "everything", request[c].lines # "none",
           request[c].path \in WithBody => request[c].body # None
    PROVE  status'[c] # 400 \/ Len(users) = MAX_USERS
<1>1. c # None /\ status \in [Clients -> {0, 200, 201, 400, 401, 404}] /\ status[c] = 0
  <2>1. c # None
    BY ConstantsAssumption
  <2>2. conn[c] # "closed"
    BY DEF QueueInv, InUse
  <2> QED BY <2>1, <2>2, StatusTypes DEF QueueInv
<1>2. Receive(c) \/ Interrupt
  <2>1. \A d \in Clients : Receive(d) => d = c
    BY ReceiveAnswers
  <2>2. \A d \in Clients : ~Connect(d) /\ ~SendRest(d) /\ ~HangUp(d) /\ ~Leave(d)
    BY <1>1 DEF Connect, SendRest, HangUp, Leave
  <2>3. \A d \in Clients, r \in Requests, p \in Pieces : ~Send(d, r, p)
    BY <1>1 DEF Send
  <2>4. ~Accept /\ ~Start /\ ~UNCHANGED vars
    BY <1>1 DEF Accept, Start, vars
  <2> QED BY <2>1, <2>2, <2>3, <2>4 DEF Next
<1>3. CASE Interrupt
  BY <1>1, <1>3 DEF Interrupt
<1>4. ASSUME NEW code, code # 400, Respond(c, code) PROVE status'[c] # 400
  BY <1>1, <1>4 DEF Respond
<1>5. Parsed(c) /\ Body(c) = request[c].body
  BY DEF Parsed, HeadersParse, Body
<1>6. CASE NotFound(c) \/ handle_health(c) \/ Refuse(c)
  BY <1>4, <1>6 DEF NotFound, handle_health, Refuse
<1>7. CASE handle_login(c)
  <2>1. HasFields(Body(c))
    BY <1>5, <1>7 DEF handle_login, Served, WithBody, HasFields
  <2> QED BY <1>4, <1>7, <2>1 DEF handle_login
<1>8. CASE handle_register(c)
  <2>1. HasFields(Body(c))
    BY <1>5, <1>8 DEF handle_register, Served, WithBody, HasFields
  <2>2. CASE HasRoom(users)
    BY <1>4, <1>8, <2>1, <2>2 DEF handle_register
  <2>3. CASE ~HasRoom(users)
    <3>1. users \in Seq(Account) /\ Len(users) <= MAX_USERS /\ ~(Len(users) < MAX_USERS)
      BY <2>3, ZenonT(60) DEF HasRoom, ServerInv, TypeOK
    <3>2. Len(users) \in Nat /\ MAX_USERS \in Nat
      BY <3>1, LenProperties, ConstantsAssumption
    <3> QED BY <3>1, <3>2
  <2> QED BY <2>2, <2>3
<1> QED BY <1>2, <1>3, <1>5, <1>6, <1>7, <1>8 DEF Receive, BadRequest

\* No request that had arrived whole and is well formed is called a bad one, unless the
\* table of accounts is full.
THEOREM WholeRequestsAnswered == Spec => WholeRequestsUnderstood
<1>1. ServerInv /\ QueueInv /\ [Next]_vars =>
        [\A c \in Clients :
           /\ client_fd = c /\ arrived[c] = "everything" /\ request[c].lines # "none"
           /\ request[c].path \in WithBody => request[c].body # None
           /\ client_fd' = None
           => status'[c] # 400 \/ Len(users) = MAX_USERS]_vars
  BY WholeAnswered
<1> QED BY <1>1, ServerAlwaysSound, QueueSound, PTL DEF Spec, WholeRequestsUnderstood
-----------------------------------------------------------------------------
(* The storage and the log. *)

Item == [key : Keys, value : Values]

LogEntry == [message : Messages, ended : BOOLEAN]

\* Every key fits its field, and none is in the array twice but those in twice.
OnceUnless(its, twice) ==
    /\ \A i, j \in 1 .. Len(its) : its[i].key = its[j].key /\ its[i].key \notin twice => i = j
    /\ \A i \in 1 .. Len(its) : its[i].key \in Kept

StorageInv ==
    /\ items \in Seq(Item)
    /\ capacity \in Nat \ {0} /\ Len(items) <= capacity
    /\ doubled \subseteq Kept
    /\ OnceUnless(items, doubled)

\* The entry is the message as it was logged, ended unless it fills its field.
LogsAs(e, m) == e.message = m /\ (m \notin Filling => e.ended)

LogsInv ==
    /\ entries \in Seq(LogEntry) /\ logged \in Seq(Messages)
    /\ logs_capacity \in Nat \ {0} /\ Len(entries) <= logs_capacity
    /\ Len(logged) = Len(entries)
    /\ \A i \in 1 .. Len(entries) : LogsAs(entries[i], logged[i])

---------------------------------------------------------------------------
(* Searching.                                                              *)

\* storage_get in the array its.
GetIn(its, k) ==
    LET places == {i \in DOMAIN its : its[i].key = k}
    IN  IF places = {} THEN NULL
        ELSE its[CHOOSE i \in places : \A j \in places : i <= j].value

\* The first item of a key is the one that is read (storage.c:117).
LEMMA ReadFirst ==
    ASSUME NEW its \in Seq(Item), NEW k, NEW p \in 1 .. Len(its), its[p].key = k,
           \A i \in 1 .. Len(its) : its[i].key = k => p <= i
    PROVE  GetIn(its, k) = its[p].value
<1> DEFINE places == {i \in DOMAIN its : its[i].key = k}
<1>1. DOMAIN its = 1 .. Len(its) /\ Len(its) \in Nat
  BY LenProperties
<1>2. p \in places /\ \A j \in places : p <= j
  BY <1>1
<1>3. \A i \in places : i \in Nat
  BY <1>1
<1>4. ASSUME NEW i \in places, \A j \in places : i <= j PROVE i = p
  BY <1>2, <1>3, <1>4
<1>5. (CHOOSE i \in places : \A j \in places : i <= j) = p
  BY <1>2, <1>4
<1> QED BY <1>2, <1>5 DEF GetIn

\* A key that is in the array has a first item.
LEMMA HasFirst ==
    ASSUME NEW its \in Seq(Item), NEW k, \E i \in 1 .. Len(its) : its[i].key = k
    PROVE  \E p \in 1 .. Len(its) :
              /\ its[p].key = k
              /\ \A i \in 1 .. Len(its) : its[i].key = k => p <= i
              /\ GetIn(its, k) = its[p].value
<1> DEFINE places == {i \in 1 .. Len(its) : its[i].key = k}
<1>1. places \subseteq Nat /\ places # {}
  BY LenProperties
<1>2. PICK p \in places : \A j \in places : p <= j
  BY <1>1, HasLeast
<1> QED BY <1>2, ReadFirst

\* A key at one place only is found there.
LEMMA FoundThere ==
    ASSUME NEW its \in Seq(Item), NEW p \in 1 .. Len(its),
           \A i \in 1 .. Len(its) : its[i].key = its[p].key => i = p
    PROVE  GetIn(its, its[p].key) = its[p].value
<1>1. \A i \in 1 .. Len(its) : its[i].key = its[p].key => p <= i
  BY LenProperties
<1> QED BY <1>1, ReadFirst

\* A key that is nowhere is not found (storage.c:125).
LEMMA FoundNowhere ==
    ASSUME NEW its \in Seq(Item), NEW k, \A i \in 1 .. Len(its) : its[i].key # k
    PROVE  GetIn(its, k) = NULL
<1>1. DOMAIN its = 1 .. Len(its)
  BY LenProperties
<1> QED BY <1>1 DEF GetIn

\* An array whose items have kept their places, or that has others behind them, reads the
\* same of a key whose values it keeps and that it does not hold for the first time.
LEMMA SameReading ==
    ASSUME NEW its \in Seq(Item), NEW new \in Seq(Item), NEW k,
           Len(its) <= Len(new),
           \A i \in 1 .. Len(its) : new[i].key = its[i].key,
           \A i \in 1 .. Len(its) : its[i].key = k => new[i].value = its[i].value,
           (\A i \in 1 .. Len(its) : its[i].key # k) => \A j \in 1 .. Len(new) : new[j].key # k
    PROVE  GetIn(new, k) = GetIn(its, k)
<1>1. CASE \E i \in 1 .. Len(its) : its[i].key = k
  <2>1. PICK p \in 1 .. Len(its) :
            /\ its[p].key = k
            /\ \A i \in 1 .. Len(its) : its[i].key = k => p <= i
            /\ GetIn(its, k) = its[p].value
    BY <1>1, HasFirst
  <2>2. Len(its) \in Nat /\ Len(new) \in Nat
    BY LenProperties
  <2>3. p \in 1 .. Len(new) /\ new[p].key = k /\ new[p].value = its[p].value
    BY <2>1, <2>2
  <2>4. ASSUME NEW i \in 1 .. Len(new), new[i].key = k PROVE p <= i
    <3>1. CASE i \in 1 .. Len(its)
      BY <2>1, <2>4, <3>1
    <3>2. CASE i \notin 1 .. Len(its)
      BY <2>1, <2>2, <3>2
    <3> QED BY <3>1, <3>2
  <2>5. GetIn(new, k) = new[p].value
    BY <2>3, <2>4, ReadFirst
  <2> QED BY <2>1, <2>3, <2>5
<1>2. CASE \A i \in 1 .. Len(its) : its[i].key # k
  <2>1. \A j \in 1 .. Len(new) : new[j].key # k
    BY <1>2
  <2> QED BY <1>2, <2>1, FoundNowhere
<1> QED BY <1>1, <1>2

\* Two arrays that hold a key at most once, with the same value, read the same of it.
LEMMA SameWhenOnce ==
    ASSUME NEW its \in Seq(Item), NEW new \in Seq(Item), NEW k,
           \A i, j \in 1 .. Len(its) : its[i].key = k /\ its[j].key = k => i = j,
           \A i, j \in 1 .. Len(new) : new[i].key = k /\ new[j].key = k => i = j,
           \A i \in 1 .. Len(its) : its[i].key = k =>
               \E j \in 1 .. Len(new) : new[j].key = k /\ new[j].value = its[i].value,
           \A j \in 1 .. Len(new) : new[j].key = k =>
               \E i \in 1 .. Len(its) : its[i].key = k
    PROVE  GetIn(new, k) = GetIn(its, k)
<1>1. CASE \E i \in 1 .. Len(its) : its[i].key = k
  <2>1. PICK i \in 1 .. Len(its) : its[i].key = k
    BY <1>1
  <2>2. PICK j \in 1 .. Len(new) : new[j].key = k /\ new[j].value = its[i].value
    BY <2>1
  <2>3. GetIn(its, k) = its[i].value
    BY <2>1, FoundThere
  <2>4. GetIn(new, k) = new[j].value
    BY <2>2, FoundThere
  <2> QED BY <2>2, <2>3, <2>4
<1>2. CASE \A i \in 1 .. Len(its) : its[i].key # k
  <2>1. \A j \in 1 .. Len(new) : new[j].key # k
    BY <1>2
  <2> QED BY <1>2, <2>1, FoundNowhere
<1> QED BY <1>1, <1>2

\* The place the search answers with is a place of the key (storage.c:82).
LEMMA FoundIsPlace ==
    ASSUME items \in Seq(Item), NEW k, Positions(k) # {}
    PROVE  /\ Place(k) \in 1 .. Len(items) /\ items[Place(k)].key = k
           /\ \A i \in 1 .. Len(items) : items[i].key = k => Place(k) <= i
<1>1. Positions(k) \subseteq Nat /\ Positions(k) \subseteq 1 .. Len(items)
  BY LenProperties DEF Positions
<1>2. PICK i \in Positions(k) : \A j \in Positions(k) : i <= j
  BY <1>1, HasLeast
<1>3. Place(k) \in Positions(k) /\ \A j \in Positions(k) : Place(k) <= j
  BY <1>2 DEF Place
<1>4. DOMAIN items = 1 .. Len(items)
  BY LenProperties
<1> QED BY <1>3, <1>4 DEF Positions

---------------------------------------------------------------------------
(* What an operation makes of the array.                                   *)

\* A set of a key that is there changes the value in place (storage.c:85).
LEMMA UpdateInPlace ==
    ASSUME NEW its \in Seq(Item), NEW p \in 1 .. Len(its), NEW v \in Values,
           NEW new, new = [its EXCEPT ![p].value = v]
    PROVE  /\ new \in Seq(Item) /\ Len(new) = Len(its)
           /\ \A i \in 1 .. Len(its) :
                 /\ new[i].key = its[i].key
                 /\ new[i].value = IF i = p THEN v ELSE its[i].value
<1>1. its[p] \in Item
  BY ElementOfSeq
<1> DEFINE e == [its[p] EXCEPT !.value = v]
<1>2. e \in Item /\ e.key = its[p].key /\ e.value = v
  BY <1>1 DEF Item
<1>3. new = [its EXCEPT ![p] = e]
  OBVIOUS
<1> HIDE DEF e
<1>4. new \in Seq(Item) /\ Len(new) = Len(its)
  BY <1>2, <1>3, ExceptSeq
<1>5. \A i \in 1 .. Len(its) : new[i] = IF i = p THEN e ELSE its[i]
  BY <1>3, ExceptSeq
<1> QED BY <1>2, <1>4, <1>5

\* A key that is new goes to the end (storage.c:100).
LEMMA AppendAtEnd ==
    ASSUME NEW its \in Seq(Item), NEW e \in Item, NEW new, new = Append(its, e)
    PROVE  /\ new \in Seq(Item) /\ Len(new) = Len(its) + 1
           /\ \A i \in 1 .. Len(its) : new[i] = its[i]
           /\ new[Len(its) + 1] = e
BY AppendProperties

\* The gap filled with the last item, and the last place dropped (storage.c:137).
LEMMA FillGap ==
    ASSUME NEW its \in Seq(Item), NEW p \in 1 .. Len(its)
    PROVE  LET filled == [its EXCEPT ![p] = its[Len(its)]]
               new == SubSeq(filled, 1, Len(its) - 1)
           IN  /\ Len(filled) = Len(its)
               /\ new \in Seq(Item) /\ Len(new) = Len(its) - 1
               /\ \A i \in 1 .. Len(its) - 1 :
                     new[i] = IF i = p THEN its[Len(its)] ELSE its[i]
<1> DEFINE n == Len(its)
           filled == [its EXCEPT ![p] = its[n]]
<1>1. n \in Nat /\ n >= 1 /\ n \in 1 .. n
  BY LenProperties
<1>2. its[n] \in Item
  BY <1>1, ElementOfSeq
<1>3. /\ filled \in Seq(Item) /\ Len(filled) = n
      /\ \A i \in 1 .. n : filled[i] = IF i = p THEN its[n] ELSE its[i]
  BY <1>2, ExceptSeq
<1> HIDE DEF filled
<1>4. \A i \in 1 .. n - 1 : filled[i] \in Item /\ i \in 1 .. n
  BY <1>1, <1>3, ElementOfSeq
<1>5. /\ SubSeq(filled, 1, n - 1) \in Seq(Item)
      /\ Len(SubSeq(filled, 1, n - 1)) = n - 1
      /\ \A i \in 1 .. n - 1 : SubSeq(filled, 1, n - 1)[i] = filled[i]
  BY <1>1, <1>3, <1>4, SubSeqProperties
<1> QED BY <1>3, <1>4, <1>5 DEF filled

\* Doubling makes room for one more (storage_resize, logs_add).
LEMMA GrownHasRoom ==
    ASSUME NEW n \in Nat, NEW room \in Nat \ {0}, n <= room
    PROVE  Grown(n, room) \in Nat \ {0} /\ n + 1 <= Grown(n, room) /\ n <= Grown(n, room)
BY DEF Grown

---------------------------------------------------------------------------
(* The storage is a map.                                                   *)

\* storage_get is the search in the array.
LEMMA GetIsGetIn == \A k : storage_get(k) = GetIn(items, k)
BY DEF storage_get, GetIn, Positions, Place

\* The same in the next state.
LEMMA GetIsGetInNext == \A k : storage_get(k)' = GetIn(items', k)
BY DEF storage_get, GetIn, Positions, Place

\* The keys an item may have: those that fit.
LEMMA KeptKeys == \A k \in Keys : Cut[k] \in Kept /\ (k \in Kept <=> Cut[k] = k)
BY WidthAssumption DEF Kept

\* What changes one key of what is read is a put.
LEMMA IsPut ==
    ASSUME NEW k \in Kept, NEW v, GetIn(items', k) = v,
           \A l \in Kept : l # k => GetIn(items', l) = GetIn(items, l)
    PROVE  Map!Put(k, v)
<1>1. [l \in Kept |-> storage_get(l)]' = [[l \in Kept |-> storage_get(l)] EXCEPT ![k] = v]
  BY GetIsGetIn, GetIsGetInNext
<1> QED BY <1>1 DEF Map!Put, Reads

\* storage_set of a key that is there: the value of this key changes and no other.
LEMMA SetKnown ==
    ASSUME StorageInv, NEW k \in Keys, NEW v \in Values, storage_set(k, v), Positions(k) # {}
    PROVE  StorageInv' /\ SetPuts(k, v)
<1> DEFINE p == Place(k)
           w == Clip[v]
<1>1. p \in 1 .. Len(items) /\ items[p].key = k
      /\ \A i \in 1 .. Len(items) : items[i].key = k => p <= i
  BY FoundIsPlace DEF StorageInv
<1>2. k \in Kept /\ Cut[k] = k /\ Doubled(k) = doubled
  BY <1>1, KeptKeys DEF StorageInv, OnceUnless, Doubled
<1>3. items' = [items EXCEPT ![p].value = w] /\ capacity' = capacity /\ doubled' = doubled
  BY <1>2 DEF storage_set
<1>4. w \in Values
  BY WidthAssumption
<1> HIDE DEF p, w
<1>5. /\ items' \in Seq(Item) /\ Len(items') = Len(items)
      /\ \A i \in 1 .. Len(items) :
            /\ items'[i].key = items[i].key
            /\ items'[i].value = IF i = p THEN w ELSE items[i].value
  BY <1>1, <1>3, <1>4, UpdateInPlace DEF StorageInv
<1>6. OnceUnless(items', doubled')
  BY <1>3, <1>5 DEF OnceUnless, StorageInv
<1>7. StorageInv'
  BY <1>3, <1>5, <1>6 DEF StorageInv
<1>8. GetIn(items', k) = w
  <2>1. p \in 1 .. Len(items') /\ items'[p].key = k /\ items'[p].value = w
        /\ \A i \in 1 .. Len(items') : items'[i].key = k => p <= i
    BY <1>1, <1>5
  <2> QED BY <1>5, <2>1, ReadFirst
<1>9. ASSUME NEW l \in Kept, l # k PROVE GetIn(items', l) = GetIn(items, l)
  <2>1. \A i \in 1 .. Len(items) : items[i].key = l => items'[i].value = items[i].value
    BY <1>1, <1>5, <1>9
  <2>2. (\A i \in 1 .. Len(items) : items[i].key # l) => \A j \in 1 .. Len(items') : items'[j].key # l
    BY <1>5
  <2>3. Len(items) <= Len(items')
    BY <1>5, LenProperties
  <2> QED BY <1>5, <2>1, <2>2, <2>3, SameReading DEF StorageInv
<1>10. Map!Put(k, w)
  BY <1>2, <1>8, <1>9, IsPut
<1> QED BY <1>2, <1>7, <1>10 DEF SetPuts, w

\* storage_set of a key that is not: its form is read from now on, unless an item of that
\* form is there already, and the others as before.
LEMMA SetNew ==
    ASSUME StorageInv, NEW k \in Keys, NEW v \in Values, storage_set(k, v), Positions(k) = {}
    PROVE  StorageInv' /\ SetPuts(k, v)
<1> DEFINE c == Cut[k]
           w == Clip[v]
           e == [key |-> c, value |-> w]
           n == Len(items)
<1>1. n \in Nat /\ DOMAIN items = 1 .. n
  BY LenProperties DEF StorageInv
<1>2. /\ items' = Append(items, e) /\ capacity' = Grown(n, capacity)
      /\ doubled' = Doubled(k)
  BY DEF storage_set
<1>3. e \in Item /\ e.value = w /\ e.key = c /\ c \in Kept /\ c \in Keys /\ w \in Values
  BY WidthAssumption, KeptKeys DEF Item
<1>4. \A i \in 1 .. n : items[i].key # k
  BY <1>1 DEF Positions
<1>5. doubled' = IF c = k THEN doubled ELSE doubled \cup {c}
  BY <1>2 DEF Doubled
<1> HIDE DEF e, n
<1>6. /\ items' \in Seq(Item) /\ Len(items') = n + 1
      /\ \A i \in 1 .. n : items'[i] = items[i]
      /\ items'[n + 1] = e
  BY <1>2, <1>3, AppendAtEnd DEF StorageInv, n
<1>7. doubled \subseteq Kept /\ OnceUnless(items, doubled) /\ items \in Seq(Item)
  BY DEF StorageInv
<1>8. doubled' \subseteq Kept
  BY <1>3, <1>5, <1>7
<1> HIDE DEF c, w
<1>9. \A i \in 1 .. n + 1 : i \in 1 .. n \/ i = n + 1
  BY <1>1
<1>10. c \notin doubled' => \A i \in 1 .. n : items[i].key # c
  BY <1>4, <1>5
<1>11. OnceUnless(items', doubled')
  <2>1. \A i \in 1 .. n + 1 : items'[i].key \in Kept
    BY <1>3, <1>6, <1>7, <1>9 DEF OnceUnless, n
  <2>2. \A i, j \in 1 .. n : items[i].key = items[j].key /\ items[i].key \notin doubled => i = j
    BY <1>7 DEF OnceUnless, n
  <2>3. ASSUME NEW i \in 1 .. n + 1, NEW j \in 1 .. n + 1,
               items'[i].key = items'[j].key, items'[i].key \notin doubled'
        PROVE  i = j
    <3>1. CASE i \in 1 .. n /\ j \in 1 .. n
      BY <1>5, <1>6, <2>2, <2>3, <3>1
    <3>2. CASE i \in 1 .. n /\ j = n + 1
      BY <1>3, <1>6, <1>10, <2>3, <3>2
    <3>3. CASE i = n + 1 /\ j \in 1 .. n
      BY <1>3, <1>6, <1>10, <2>3, <3>3
    <3> QED BY <1>9, <3>1, <3>2, <3>3
  <2> QED BY <1>6, <2>1, <2>3 DEF OnceUnless
<1>12. capacity' \in Nat \ {0} /\ Len(items') <= capacity'
  BY <1>1, <1>2, <1>6, GrownHasRoom DEF StorageInv, n
<1>13. StorageInv'
  BY <1>6, <1>8, <1>11, <1>12 DEF StorageInv
<1>14. Len(items) <= Len(items') /\ Len(items) = n
  BY <1>1, <1>6 DEF n
<1>15. ASSUME NEW l \in Kept, l # c \/ \E i \in 1 .. n : items[i].key = c
       PROVE  GetIn(items', l) = GetIn(items, l)
  <2>1. (\A i \in 1 .. n : items[i].key # l) => \A j \in 1 .. n + 1 : items'[j].key # l
    BY <1>3, <1>6, <1>9, <1>15
  <2>2. \A i \in 1 .. n : items'[i].key = items[i].key /\ items'[i].value = items[i].value
    BY <1>6
  <2> QED BY <1>6, <1>7, <1>14, <2>1, <2>2, SameReading
<1>16. CASE \E i \in 1 .. n : items[i].key = c
  <2>1. c # k
    BY <1>4, <1>16
  <2>2. PICK p \in 1 .. n : GetIn(items, c) = items[p].value
    BY <1>7, <1>14, <1>16, HasFirst
  <2>3. GetIn(items, c) # NULL
    <3>1. items[p] \in Item
      BY <1>7, ElementOfSeq DEF n
    <3> QED BY <2>2, <3>1, SizesAssumption DEF Item
  <2>4. UNCHANGED Reads
    BY <1>15, <1>16, GetIsGetIn, GetIsGetInNext DEF Reads
  <2> QED BY <1>13, <2>1, <2>3, <2>4, GetIsGetIn DEF SetPuts, c
<1>17. CASE \A i \in 1 .. n : items[i].key # c
  <2>1. GetIn(items, c) = NULL
    BY <1>7, <1>14, <1>17, FoundNowhere
  <2>2. GetIn(items', c) = w
    <3>1. n + 1 \in 1 .. Len(items') /\ items'[n + 1].key = c /\ items'[n + 1].value = w
      BY <1>1, <1>3, <1>6
    <3>2. \A i \in 1 .. Len(items') : items'[i].key = c => n + 1 <= i
      BY <1>1, <1>6, <1>9, <1>17
    <3> QED BY <1>6, <3>1, <3>2, ReadFirst
  <2>3. Map!Put(c, w)
    BY <1>3, <1>15, <2>2, IsPut
  <2>4. c = k => Map!Put(k, w)
    BY <2>3
  <2> QED BY <1>13, <2>1, <2>3, <2>4, GetIsGetIn DEF SetPuts, c, w
<1> QED BY <1>16, <1>17

\* storage_delete: the key is read no more, the item that was moved as before, unless a
\* longer key was cut to one of the two.
LEMMA DeleteMoves ==
    ASSUME StorageInv, NEW k \in Keys, storage_delete(k)
    PROVE  StorageInv' /\ DeleteRemoves(k)
<1> DEFINE p == Place(k)
           n == Len(items)
<1>1. p \in 1 .. n /\ items[p].key = k
      /\ \A i \in 1 .. n : items[i].key = k => p <= i
  BY FoundIsPlace DEF StorageInv, storage_delete
<1>2. items' = Front([items EXCEPT ![p] = Last(items)]) /\ capacity' = capacity
      /\ doubled' = doubled
  BY DEF storage_delete
<1> HIDE DEF p
<1>3. /\ items' \in Seq(Item) /\ Len(items') = n - 1
      /\ \A i \in 1 .. n - 1 : items'[i] = IF i = p THEN items[n] ELSE items[i]
  <2>1. items \in Seq(Item)
    BY DEF StorageInv
  <2>2. items' = Front([items EXCEPT ![p] = Last(items)])
    BY <1>2
  <2>3. p \in 1 .. Len(items)
    BY <1>1
  <2>4. Len([items EXCEPT ![p] = items[n]]) = n
    BY <2>1, <2>3, FillGap
  <2>5. items' = SubSeq([items EXCEPT ![p] = items[n]], 1, n - 1)
    BY <2>2, <2>4 DEF Front, Last
  <2> QED BY <2>1, <2>3, <2>5, FillGap
<1>4. n \in Nat /\ n >= 1 /\ n \in 1 .. n
  BY <1>1, LenProperties DEF StorageInv
<1> HIDE DEF n
<1>5. /\ \A i, j \in 1 .. n : items[i].key = items[j].key /\ items[i].key \notin doubled => i = j
      /\ \A i \in 1 .. n : items[i].key \in Kept
  BY DEF StorageInv, OnceUnless, n
<1>6. OnceUnless(items', doubled')
  <2>3. \A i \in 1 .. n - 1 : i \in 1 .. n /\ i # n
    BY <1>4
  <2>4. ASSUME NEW i \in 1 .. n - 1, NEW j \in 1 .. n - 1, items'[i].key = items'[j].key,
               items'[i].key \notin doubled
        PROVE  i = j
    <3>1. i \in 1 .. n /\ i # n /\ j \in 1 .. n /\ j # n
      BY <2>3
    <3>2. CASE i = p
      BY <1>3, <1>4, <1>5, <2>4, <3>1, <3>2
    <3>3. CASE j = p
      BY <1>3, <1>4, <1>5, <2>4, <3>1, <3>3
    <3>4. CASE i # p /\ j # p
      BY <1>3, <1>5, <2>4, <3>1, <3>4
    <3> QED BY <3>2, <3>3, <3>4
  <2>5. \A i \in 1 .. n - 1 : items'[i].key \in Kept
    BY <1>3, <1>4, <1>5, <2>3
  <2> QED BY <1>2, <1>3, <2>4, <2>5 DEF OnceUnless
<1>7. StorageInv'
  <2>1. Len(items') <= capacity'
    BY <1>2, <1>3, <1>4 DEF StorageInv, n
  <2>2. capacity' \in Nat \ {0} /\ doubled' \subseteq Kept
    BY <1>2 DEF StorageInv
  <2> QED BY <1>3, <1>6, <2>1, <2>2 DEF StorageInv
<1>8. k \in Kept
  BY <1>1, <1>5
<1>9. k \notin doubled => GetIn(items', k) = NULL
  <2>1. ASSUME k \notin doubled, NEW i \in 1 .. n - 1 PROVE items'[i].key # k
    <3>1. \A j \in 1 .. n : items[j].key = k => j = p
      BY <1>1, <1>5, <2>1
    <3>2. i \in 1 .. n /\ i # n
      BY <1>4
    <3>3. CASE i = p
      BY <1>3, <1>4, <3>1, <3>2, <3>3
    <3>4. CASE i # p
      BY <1>3, <3>1, <3>2, <3>4
    <3> QED BY <3>3, <3>4
  <2> QED BY <1>3, <2>1, FoundNowhere
<1>10. ASSUME NEW l \in Kept, l # k, l \notin doubled PROVE GetIn(items', l) = GetIn(items, l)
  <2>1. ASSUME NEW i \in 1 .. n, items[i].key = l
        PROVE  \E j \in 1 .. n - 1 : items'[j] = items[i]
    <3>1. i # p
      BY <1>1, <1>10, <2>1
    <3>2. CASE i = n
      <4>1. p \in 1 .. n - 1
        BY <1>1, <1>4, <3>1, <3>2
      <4> QED BY <1>3, <3>2, <4>1
    <3>3. CASE i # n
      <4>1. i \in 1 .. n - 1
        BY <1>4, <3>3
      <4> QED BY <1>3, <3>1, <4>1
    <3> QED BY <3>2, <3>3
  <2>2. ASSUME NEW j \in 1 .. n - 1, items'[j].key = l
        PROVE  \E i \in 1 .. n : items[i].key = l
    <3>1. j \in 1 .. n
      BY <1>4
    <3> QED BY <1>3, <1>4, <2>2, <3>1
  <2>3. /\ \A i \in 1 .. Len(items) : items[i].key = l =>
               \E j \in 1 .. Len(items') :
                   items'[j].key = l /\ items'[j].value = items[i].value
        /\ \A j \in 1 .. Len(items') : items'[j].key = l =>
               \E i \in 1 .. Len(items) : items[i].key = l
    BY <1>3, <2>1, <2>2 DEF n
  <2>4. \A i, j \in 1 .. Len(items) : items[i].key = l /\ items[j].key = l => i = j
    BY <1>5, <1>10 DEF n
  <2>5. \A i, j \in 1 .. Len(items') : items'[i].key = l /\ items'[j].key = l => i = j
    BY <1>2, <1>6, <1>10 DEF OnceUnless
  <2> QED BY <1>3, <2>3, <2>4, <2>5, SameWhenOnce DEF StorageInv
<1>11. doubled = {} => Map!Remove(k)
  <2>1. SUFFICES ASSUME doubled = {} PROVE Map!Remove(k)
    OBVIOUS
  <2>2. GetIn(items', k) = NULL /\ \A l \in Kept : l # k => GetIn(items', l) = GetIn(items, l)
    BY <1>9, <1>10, <2>1
  <2>3. [l \in Kept |-> storage_get(l)]' = [[l \in Kept |-> storage_get(l)] EXCEPT ![k] = NULL]
    BY <1>8, <2>2, GetIsGetIn, GetIsGetInNext
  <2>4. GetIn(items, k) = items[p].value
    BY <1>1, ReadFirst DEF StorageInv, n
  <2>5. items[p] \in Item
    BY <1>1, ElementOfSeq DEF StorageInv, n
  <2>6. [l \in Kept |-> storage_get(l)][k] # NULL
    BY <1>8, <2>4, <2>5, GetIsGetIn, SizesAssumption DEF Item
  <2> QED BY <2>3, <2>6 DEF Map!Remove, Reads
<1> QED BY <1>7, <1>9, <1>10, <1>11, GetIsGetIn, GetIsGetInNext DEF DeleteRemoves

---------------------------------------------------------------------------
(* The log.                                                                *)

\* logs_add puts one entry, with its message, behind the others.
LEMMA LogGrows ==
    ASSUME LogsInv, NEW m \in Messages, logs_add(m)
    PROVE  LogsInv'
<1> DEFINE n == Len(entries)
<1>1. n \in Nat
  BY LenProperties DEF LogsInv
<1>2. PICK ended \in IF m \in Filling THEN BOOLEAN ELSE {TRUE} : entries' = Append(entries, [message |-> m, ended |-> ended])
  BY DEF logs_add
<1>3. logged' = Append(logged, m) /\ logs_capacity' = Grown(n, logs_capacity)
  BY DEF logs_add
<1> DEFINE e == [message |-> m, ended |-> ended]
<1>4. e \in LogEntry /\ LogsAs(e, m)
  BY <1>2 DEF LogEntry, LogsAs
<1> HIDE DEF e
<1>5. /\ entries' \in Seq(LogEntry) /\ Len(entries') = n + 1
      /\ \A i \in 1 .. n : entries'[i] = entries[i]
      /\ entries'[n + 1] = e
  BY <1>2, <1>4, AppendProperties DEF LogsInv, e
<1>6. /\ logged' \in Seq(Messages) /\ Len(logged') = n + 1
      /\ \A i \in 1 .. n : logged'[i] = logged[i]
      /\ logged'[n + 1] = m
  BY <1>3, AppendProperties DEF LogsInv
<1> HIDE DEF n
<1>7. logs_capacity' \in Nat \ {0} /\ n + 1 <= logs_capacity'
  BY <1>1, <1>3, GrownHasRoom DEF LogsInv, n
<1>8. \A i \in 1 .. n + 1 : i \in 1 .. n \/ i = n + 1
  BY <1>1
<1>9. \A i \in 1 .. n : LogsAs(entries[i], logged[i])
  BY DEF LogsInv, n
<1>10. \A i \in 1 .. n + 1 : LogsAs(entries'[i], logged'[i])
  BY <1>4, <1>5, <1>6, <1>8, <1>9
<1> QED BY <1>5, <1>6, <1>7, <1>10 DEF LogsInv

\* The newest SHOWN entries, backwards: position i of the list is position n - i + 1 of
\* the log.
LEMMA ListIsTheEnd ==
    ASSUME NEW S, NEW s \in Seq(S)
    PROVE  /\ LastOf(s, SHOWN) \in Seq(S)
           /\ Len(LastOf(s, SHOWN)) = IF Len(s) > SHOWN THEN SHOWN ELSE Len(s)
           /\ Reverse(LastOf(s, SHOWN)) \in Seq(S)
           /\ Len(Reverse(LastOf(s, SHOWN))) = Len(LastOf(s, SHOWN))
           /\ \A i \in 1 .. Len(LastOf(s, SHOWN)) :
                 /\ Len(s) - i + 1 \in 1 .. Len(s)
                 /\ Reverse(LastOf(s, SHOWN))[i] = s[Len(s) - i + 1]
<1> DEFINE n == Len(s)
           m == IF n > SHOWN THEN n - SHOWN + 1 ELSE 1
           last == SubSeq(s, m, n)
<1>1. n \in Nat
  BY LenProperties
<1>2. SHOWN \in Nat
  BY SizesAssumption
<1>3. last = LastOf(s, SHOWN)
  BY DEF LastOf
<1> HIDE DEF n
<1>4. m \in Nat /\ m >= 1 /\ m <= n + 1 /\ n - m + 1 \in Nat
      /\ n - m + 1 = IF n > SHOWN THEN SHOWN ELSE n
  BY <1>1, <1>2
<1> HIDE DEF m
<1>5. \A i \in m .. n : s[i] \in S
  BY <1>1, <1>4, ElementOfSeq DEF n
<1>6. /\ last \in Seq(S)
      /\ Len(last) = IF m <= n THEN n - m + 1 ELSE 0
      /\ \A i \in 1 .. n - m + 1 : last[i] = s[m + i - 1]
  BY <1>1, <1>4, <1>5, SubSeqProperties
<1>7. Len(last) = n - m + 1
  BY <1>1, <1>4, <1>6
<1> DEFINE l == n - m + 1
           back == [i \in 1 .. l |-> last[l - i + 1]]
<1>8. Reverse(last) = back
  BY <1>7 DEF Reverse
<1>9. l \in Nat
  BY <1>4
<1> HIDE DEF last, back
<1>10. \A i \in 1 .. l : l - i + 1 \in 1 .. l /\ m + (l - i + 1) - 1 = n - i + 1
                         /\ n - i + 1 \in 1 .. n
  BY <1>1, <1>4
<1>11. \A i \in 1 .. l : last[l - i + 1] = s[n - i + 1] /\ s[n - i + 1] \in S
  <2>1. SUFFICES ASSUME NEW i \in 1 .. l
                 PROVE  last[l - i + 1] = s[n - i + 1] /\ s[n - i + 1] \in S
    OBVIOUS
  <2>2. last[l - i + 1] = s[m + (l - i + 1) - 1]
    BY <1>6, <1>10
  <2>3. s[n - i + 1] \in S
    BY <1>10, ElementOfSeq DEF n
  <2> QED BY <1>10, <2>2, <2>3
<1> HIDE DEF l
<1>12. back \in [1 .. l -> S]
  BY <1>11 DEF back
<1>13. back \in Seq(S) /\ Len(back) = l
  BY <1>9, <1>12, IsASeq, LenProperties
<1>14. \A i \in 1 .. l : back[i] = s[n - i + 1]
  BY <1>11 DEF back
<1> QED BY <1>3, <1>4, <1>6, <1>7, <1>8, <1>10, <1>13, <1>14 DEF l, n

---------------------------------------------------------------------------
(* The theorems.                                                           *)

\* An array that starts empty is sound.
LEMMA StartsSound == StoresInit => StorageInv /\ LogsInv
<1>1. SUFFICES ASSUME StoresInit PROVE StorageInv /\ LogsInv
  OBVIOUS
<1>2. /\ items = <<>> /\ entries = <<>> /\ logged = <<>>
      /\ capacity = STORAGE_CAPACITY /\ logs_capacity = LOGS_CAPACITY
  BY <1>1 DEF StoresInit
<1>3. doubled \subseteq Kept
  BY <1>1 DEF StoresInit
<1>4. /\ items \in Seq(Item) /\ Len(items) = 0
      /\ entries \in Seq(LogEntry) /\ Len(entries) = 0
      /\ logged \in Seq(Messages) /\ Len(logged) = 0
  BY <1>2, EmptySeq
<1>5. OnceUnless(items, doubled)
  BY <1>4 DEF OnceUnless
<1>6. StorageInv
  BY <1>2, <1>3, <1>4, <1>5, SizesAssumption DEF StorageInv
<1>7. LogsInv
  BY <1>2, <1>4, SizesAssumption DEF LogsInv
<1> QED BY <1>6, <1>7

\* Each call of the stores keeps their invariant and acts on the map as it should.
LEMMA CallKeeps ==
    ASSUME StorageInv, LogsInv
    PROVE  /\ \A k \in Keys, v \in Values :
                 storage_set(k, v) => StorageInv' /\ LogsInv' /\ SetPuts(k, v)
           /\ \A k \in Keys :
                 storage_delete(k) => StorageInv' /\ LogsInv' /\ DeleteRemoves(k)
           /\ \A m \in Messages :
                 logs_add(m) => StorageInv' /\ LogsInv' /\ UNCHANGED Reads
<1>1. ASSUME NEW k \in Keys, NEW v \in Values, storage_set(k, v)
      PROVE  StorageInv' /\ LogsInv' /\ SetPuts(k, v)
  <2>1. StorageInv' /\ SetPuts(k, v)
    BY <1>1, SetKnown, SetNew
  <2>2. LogsInv'
    BY <1>1 DEF storage_set, logs, LogsInv
  <2> QED BY <2>1, <2>2
<1>2. ASSUME NEW k \in Keys, storage_delete(k)
      PROVE  StorageInv' /\ LogsInv' /\ DeleteRemoves(k)
  <2>1. StorageInv' /\ DeleteRemoves(k)
    BY <1>2, DeleteMoves
  <2>2. LogsInv'
    BY <1>2 DEF storage_delete, logs, LogsInv
  <2> QED BY <2>1, <2>2
<1>3. ASSUME NEW m \in Messages, logs_add(m)
      PROVE  StorageInv' /\ LogsInv' /\ UNCHANGED Reads
  <2>1. LogsInv'
    BY <1>3, LogGrows
  <2>2. items' = items /\ capacity' = capacity /\ doubled' = doubled
    BY <1>3 DEF logs_add, storage
  <2>3. StorageInv'
    BY <2>2 DEF StorageInv, OnceUnless
  <2>4. UNCHANGED Reads
    BY <2>2, GetIsGetIn, GetIsGetInNext DEF Reads
  <2> QED BY <2>1, <2>3, <2>4
<1> QED BY <1>1, <1>2, <1>3

\* No key is in the array twice but those a longer one was cut to, and every entry of the
\* log is what was logged, past any number of doublings.
THEOREM StoresAlwaysSound == StoresSpec => [](StorageInv /\ LogsInv)
<1>1. StorageInv /\ LogsInv /\ [StoresNext]_stores_vars => (StorageInv /\ LogsInv)'
  <2>1. SUFFICES ASSUME StorageInv, LogsInv, [StoresNext]_stores_vars
                 PROVE  StorageInv' /\ LogsInv'
    OBVIOUS
  <2>2. CASE UNCHANGED stores_vars
    BY <2>1, <2>2 DEF stores_vars, storage, logs, StorageInv, LogsInv, OnceUnless
  <2> QED BY <2>1, <2>2, CallKeeps DEF StoresNext
<1> QED BY StartsSound, <1>1, PTL DEF StoresSpec

\* Whatever was called before: storage_set puts its value at its key, storage_delete takes
\* its key away and logs_add touches none, but for the forms longer keys were cut to
\* (storage.c:76, 129).
THEOREM StorageIsAMap == StoresSpec => StorageActsAsMap
<1> DEFINE Calls == /\ \A k \in Keys, v \in Values : storage_set(k, v) => SetPuts(k, v)
                    /\ \A k \in Keys : storage_delete(k) => DeleteRemoves(k)
                    /\ \A m \in Messages : logs_add(m) => UNCHANGED Reads
<1>1. StoresInit => Map!Init
  <2>1. SUFFICES ASSUME StoresInit PROVE Map!Init
    OBVIOUS
  <2>2. \A k : GetIn(items, k) = NULL
    BY <2>1 DEF StoresInit, GetIn
  <2> QED BY <2>2, GetIsGetIn DEF Map!Init, Reads
<1>2. (StorageInv /\ LogsInv) => Calls
  BY CallKeeps
<1>3. (StorageInv /\ LogsInv) /\ [StoresNext]_stores_vars => [Calls]_stores_vars
  BY <1>2
<1> HIDE DEF Calls
<1>4. StoresSpec => Map!Init /\ [][Calls]_stores_vars
  BY <1>1, <1>3, StoresAlwaysSound, PTL DEF StoresSpec
<1> QED BY <1>4 DEF Calls, StorageActsAsMap

\* The list of the log is the newest messages first, as they were logged (logs.c:64).
THEOREM ListedNewestFirst == StoresSpec => []NewestFirst
<1>1. StorageInv /\ LogsInv => NewestFirst
  <2>1. SUFFICES ASSUME StorageInv, LogsInv PROVE NewestFirst
    OBVIOUS
  <2>2. /\ logs_list \in Seq(LogEntry)
        /\ Len(logs_list) = Len(LastOf(entries, SHOWN))
        /\ \A i \in 1 .. Len(LastOf(entries, SHOWN)) :
              /\ Len(entries) - i + 1 \in 1 .. Len(entries)
              /\ logs_list[i] = entries[Len(entries) - i + 1]
    BY <2>1, ListIsTheEnd DEF LogsInv, logs_list
  <2>3. Len(LastOf(entries, SHOWN)) = Len(LastOf(logged, SHOWN))
    BY <2>1, ListIsTheEnd DEF LogsInv
  <2>4. DOMAIN logs_list = 1 .. Len(LastOf(entries, SHOWN))
    BY <2>2, LenProperties
  <2>5. \A i \in DOMAIN logs_list : LogsAs(logs_list[i], logged[Len(logged) - i + 1])
    BY <2>1, <2>2, <2>4 DEF LogsInv
  <2> QED BY <2>1, <2>2, <2>3, <2>5 DEF NewestFirst, StorageInv, LogsInv, LogsAs
<1> QED BY <1>1, StoresAlwaysSound, PTL
=============================================================================
