---------------------------- MODULE AccountSession ----------------------------
(***************************************************************************)
(* One browser and its signed-in user: tabs that run the API client and    *)
(* the AuthProvider of the frontend, the cookie jar they share, a network  *)
(* that may lose requests and answers, and the auth routes over            *)
(* refresh_tokens.                                                         *)
(*                                                                         *)
(* Each tab keeps its access token in memory and exchanges the cookie for  *)
(* a new one when a request is answered 401.  Within a tab the exchange is *)
(* single-flight; between tabs nothing orders them.  The cookie goes out   *)
(* with a request and is replaced when an answer comes in, so a tab may    *)
(* present a token another tab has already used up.                        *)
(*                                                                         *)
(* The routes are synchronous: the server ends what it has begun whether   *)
(* or not the client is still there.  A tab that is cut off, closed or     *)
(* reloaded leaves its requests adrift, and may send others meanwhile.     *)
(*                                                                         *)
(* Access tokens are not rows: any request may find its own expired.       *)
(***************************************************************************)
EXTENDS RefreshTokens

CONSTANTS
    Tabs,
    Adrift      \* bound: the connections whose client has gone and whose
                \* requests are not over yet

ASSUME AdriftAssumption == Tabs \cap Adrift = {}

Callers == Tabs \cup Adrift

VARIABLES
    cookie,       \* interviews_refresh, shared by the tabs
    page,         \* status of the AuthProvider of each tab; "left" is an
                  \* unauthenticated tab that was signed in since it was
                  \* loaded: requests of that session may still be out
    call,         \* the exchange and the logout a caller has under way
    waiting,      \* tabs with requests answered 401 that wait for an exchange
    (* history, read by the properties only *)
    met,          \* tokens presented while another request with them was out
    lost,         \* tokens whose successor never reached the browser
    loggedOut     \* tokens revoked by a logout

clientVars == <<cookie, page, call, waiting>>
history == <<met, lost, loggedOut>>
vars == <<tokenVars, clientVars, history>>

Ops == {"refresh", "logout"}
Idle == [stage |-> "idle", token |-> NoToken, new |-> NoToken]

Pages == {"closed", "loading", "authenticated", "unauthenticated", "left"}

TypeOK ==
    /\ TokensTypeOK
    /\ cookie \in 0..issued
    /\ page \in [Tabs -> Pages]
    /\ call \in [Callers -> [Ops -> [stage : {"idle", "sent", "read", "answered"},
                                     token : 0..issued, new : 0..issued]]]
    /\ waiting \subseteq Tabs
    /\ met \subseteq Tokens /\ lost \subseteq Tokens /\ loggedOut \subseteq Tokens

\* A user who signed in once and has every tab open.
AccountInit ==
    /\ Init
    /\ cookie = 1
    /\ page = [b \in Tabs |-> "authenticated"]
    /\ call = [c \in Callers |-> [o \in Ops |-> Idle]]
    /\ waiting = {}
    /\ met = {} /\ lost = {} /\ loggedOut = {}

\* Defect for the mutant run: the new token is not put in the cookie.
MutStore(new) == UNCHANGED cookie
\* Set-Cookie of a login or an exchange.
Store(new) == cookie' = new

Out(c, o) == call[c][o].stage # "idle"

\* An exchange under way may still be issued a token; what could need another
\* one happens only below the bound MaxTokens.
Room == issued + Cardinality({c \in Callers : call[c]["refresh"].stage \in {"sent", "read"}})
            < MaxTokens

-------------------------------------------------------------------------------
(* What a tab sends.                                                        *)

\* The cookie is attached when the request leaves.
Sent(b, o) ==
    [call EXCEPT ![b][o] = [stage |-> "sent", token |-> cookie, new |-> NoToken]]

Overlap(b, o) ==
    IF cookie # NoToken /\ \E c \in Callers, p \in Ops :
           <<c, p>> # <<b, o>> /\ Out(c, p) /\ call[c][p].token = cookie
    THEN met \cup {cookie} ELSE met

\* tryRefresh: join the exchange in flight or start one.
TryRefresh(b) ==
    IF Out(b, "refresh")
    THEN UNCHANGED <<call, met>>
    ELSE call' = Sent(b, "refresh") /\ met' = Overlap(b, "refresh")

\* Nobody waits for these requests of a tab any more.  What the server has
\* answered is lost; with what it has not answered it goes on.
GiveUp(b, ops) ==
    LET on == {o \in ops : call[b][o].stage \in {"sent", "read"}}
    IN  /\ lost' = lost \cup {call[b][o].token : o \in {p \in ops : call[b][p].new # NoToken}}
        /\ \/ /\ on = {}
              /\ call' = [call EXCEPT ![b] = [o \in Ops |-> IF o \in ops THEN Idle ELSE @[o]]]
           \/ /\ on # {}
              /\ \E a \in Adrift :
                    /\ \A o \in Ops : ~Out(a, o)
                    /\ call' = [call EXCEPT
                           ![a] = [o \in Ops |-> IF o \in on THEN call[b][o] ELSE Idle],
                           ![b] = [o \in Ops |-> IF o \in ops THEN Idle ELSE @[o]]]

\* The tab is closed, or begins to be reloaded, whatever it has under way.
Close(b) ==
    /\ page[b] # "closed"
    /\ page' = [page EXCEPT ![b] = "closed"]
    /\ waiting' = waiting \ {b}
    /\ GiveUp(b, Ops)
    /\ UNCHANGED <<tokenVars, cookie, met, loggedOut>>

\* The tab is loaded: memory is empty, restoreSession tries the cookie.
Load(b) ==
    /\ Room
    /\ page[b] = "closed"
    /\ page' = [page EXCEPT ![b] = "loading"]
    /\ TryRefresh(b)
    /\ UNCHANGED <<tokenVars, cookie, waiting, lost, loggedOut>>

\* The login form of a signed-out tab, with the right password, answered at
\* once: until it arrives the new token is nobody's, and a login that breaks
\* leaves a row nobody knows.  The page stays as it is if getMe fails.
Login(b) ==
    /\ Room
    /\ page[b] \in {"unauthenticated", "left"}
    /\ Authenticate
    /\ Store(issued + 1)
    /\ page' \in {page, [page EXCEPT ![b] = "authenticated"]}
    /\ UNCHANGED <<call, waiting, history>>

Logout(b) ==
    /\ page[b] = "authenticated"
    /\ ~Out(b, "logout")
    /\ call' = Sent(b, "logout")
    /\ met' = Overlap(b, "logout")
    /\ UNCHANGED <<tokenVars, cookie, page, waiting, lost, loggedOut>>

-------------------------------------------------------------------------------
(* What the server does, for whoever has called.                            *)

Settle(c, o) == [call EXCEPT ![c][o] = Idle]

\* The answer to a request whose client has gone reaches nobody.
Answer(c, o, new) ==
    \/ /\ c \in Tabs
       /\ call' = [call EXCEPT ![c][o].stage = "answered", ![c][o].new = new]
       /\ UNCHANGED lost
    \/ /\ c \in Adrift
       /\ call' = Settle(c, o)
       /\ lost' = IF new # NoToken THEN lost \cup {call[c][o].token} ELSE lost

\* POST /auth/refresh looks the token up.
ReadRefresh(c) ==
    /\ call[c]["refresh"].stage = "sent"
    /\ IF Usable(call[c]["refresh"].token)
       THEN call' = [call EXCEPT ![c]["refresh"].stage = "read"] /\ UNCHANGED lost
       ELSE Answer(c, "refresh", NoToken)
    /\ UNCHANGED <<tokenVars, cookie, page, waiting, met, loggedOut>>

\* ... and exchanges it.
CommitRefresh(c) ==
    /\ call[c]["refresh"].stage = "read"
    /\ RotateRefresh(call[c]["refresh"].token)
    /\ Answer(c, "refresh", issued + 1)
    /\ UNCHANGED <<cookie, page, waiting, met, loggedOut>>

ServeLogout(c) ==
    LET t == call[c]["logout"].token
    IN  /\ call[c]["logout"].stage = "sent"
        /\ RevokeRefresh(t)
        /\ Answer(c, "logout", NoToken)
        /\ loggedOut' = loggedOut \cup ({t} \cap Tokens)
        /\ UNCHANGED <<cookie, page, waiting, met>>

\* A request without a client never arrives, or the server fails before the
\* commit.
Vanish(a, o) ==
    /\ Out(a, o)
    /\ call' = Settle(a, o)
    /\ UNCHANGED <<tokenVars, cookie, page, waiting, history>>

-------------------------------------------------------------------------------
(* What a tab makes of the answers.                                         *)

SignOut(b) ==
    [page EXCEPT ![b] = IF @ = "authenticated" THEN "left"
                        ELSE IF @ = "loading" THEN "unauthenticated" ELSE @]

\* The exchange succeeded: the requests that waited are sent once more, which
\* leaves the session as it is however it ends; a loading tab is signed in
\* unless its getMe fails.
Refreshed(b) ==
    LET c == call[b]["refresh"]
    IN  /\ c.stage = "answered" /\ c.new # NoToken
        /\ Store(c.new)
        /\ call' = Settle(b, "refresh")
        /\ waiting' = waiting \ {b}
        /\ page' \in IF page[b] = "loading"
                     THEN {[page EXCEPT ![b] = "authenticated"], SignOut(b)}
                     ELSE {page}
        /\ UNCHANGED <<tokenVars, history>>

\* Defect for the mutant run: the requests that waited are not given up.
MutNotRefreshed(b) ==
    /\ page' = SignOut(b)
    /\ UNCHANGED waiting
\* tryRefresh returned false: the requests that waited fail and the tab is
\* signed out; so is a tab that was only loading.
NotRefreshed(b) ==
    /\ page' = SignOut(b)
    /\ waiting' = waiting \ {b}

RefreshRefused(b) ==
    /\ call[b]["refresh"].stage = "answered"
    /\ call[b]["refresh"].new = NoToken
    /\ NotRefreshed(b)
    /\ call' = Settle(b, "refresh")
    /\ UNCHANGED <<tokenVars, cookie, history>>

\* The connection breaks, whatever the server is at; or only the body of the
\* answer is lost, and the browser has the new cookie.
RefreshBreaks(b) ==
    LET c == call[b]["refresh"]
    IN  /\ c.stage # "idle"
        /\ NotRefreshed(b)
        /\ \/ /\ c.new # NoToken
              /\ Store(c.new)
              /\ call' = Settle(b, "refresh")
              /\ UNCHANGED lost
           \/ GiveUp(b, {"refresh"}) /\ UNCHANGED cookie
        /\ UNCHANGED <<tokenVars, met, loggedOut>>

\* logout clears the tab whether or not the server was reached; the cookie is
\* cleared by the answer only.
LogoutEnds(b) ==
    /\ Out(b, "logout")
    /\ \/ /\ call[b]["logout"].stage = "answered"
          /\ cookie' = NoToken
          /\ call' = Settle(b, "logout")
          /\ UNCHANGED lost
       \/ GiveUp(b, {"logout"}) /\ UNCHANGED cookie
    /\ page' = SignOut(b)
    /\ UNCHANGED <<tokenVars, waiting, met, loggedOut>>

\* A request of a signed-in page, or one left from it, is answered 401 and waits
\* for an exchange.  Any other answer leaves the session as it is.
Unauthorized(b) ==
    /\ page[b] \in {"authenticated", "left"}
    /\ Room \/ Out(b, "refresh")
    /\ waiting' = waiting \cup {b}
    /\ TryRefresh(b)
    /\ UNCHANGED <<tokenVars, cookie, page, lost, loggedOut>>

\* Rows live for days and requests for seconds: rows expire between requests.
ExpireToken ==
    /\ \A c \in Callers, o \in Ops : ~Out(c, o)
    /\ Expire
    /\ UNCHANGED <<clientVars, history>>

-------------------------------------------------------------------------------
User(b) == Close(b) \/ Load(b) \/ Login(b) \/ Logout(b)

Client(b) ==
    \/ Refreshed(b) \/ RefreshRefused(b) \/ RefreshBreaks(b)
    \/ LogoutEnds(b) \/ Unauthorized(b)

Server(c) == ReadRefresh(c) \/ CommitRefresh(c) \/ ServeLogout(c)

Next ==
    \/ \E b \in Tabs : User(b) \/ Client(b)
    \/ \E c \in Callers : Server(c)
    \/ \E a \in Adrift, o \in Ops : Vanish(a, o)
    \/ ExpireToken

\* The server works and a connection ends, well or badly; users need not act,
\* and nobody waits for what is adrift.
Fairness ==
    \A b \in Tabs :
        /\ WF_vars(ReadRefresh(b)) /\ WF_vars(CommitRefresh(b))
        /\ WF_vars(Refreshed(b) \/ RefreshRefused(b) \/ RefreshBreaks(b))

Spec == AccountInit /\ [][Next]_vars /\ Fairness

-------------------------------------------------------------------------------
\* A refresh token has two successors only when two requests with it were under
\* way at once: of two tabs, or of a tab and of a page that was cut off, closed
\* or reloaded while the server still had its request.  Single-flight keeps one
\* page from doing it alone, and a token that comes back after its exchange is
\* over, its answer lost or not, is refused by the revoked row.
UsedOnce ==
    \A t \in Tokens : Cardinality(Successors(t)) > 1 => t \in met

\* Once the server has processed a logout, the token is dead and it has no
\* usable successor, unless an exchange of it was under way at the same time
\* (another tab's, or one whose client had gone) or its answer reached nobody.
LogoutIsFinal ==
    \A t \in loggedOut :
        /\ ~Usable(t)
        /\ \A s \in Successors(t) : Usable(s) => t \in met \cup lost

\* What may have made the token of a refused exchange useless.
Excused(t) ==
    \/ t = NoToken /\ loggedOut # {}
    \/ t \in 1..expired
    \/ t \in met \cup lost \cup loggedOut

\* A tab is signed out by its own logout, by a connection that breaks during
\* an exchange, or because the token it presented had expired, was logged out,
\* or was used up by an exchange whose answer was lost or still under way.
SignedOutForCause ==
    [][\A b \in Tabs :
        page[b] = "authenticated" /\ page'[b] = "left" =>
            \/ Out(b, "logout") /\ call'[b]["logout"] = Idle
            \/ call[b]["refresh"].stage \in {"sent", "read"}
            \/ call[b]["refresh"].new # NoToken
            \/ Excused(call[b]["refresh"].token)]_vars

Expects(b) == b \in waiting \/ page[b] = "loading"

\* Whatever waits for an exchange is told how it ended: a request answered 401
\* is retried or given up, a tab that loads ends up signed in, signed out or
\* closed before.  Single-flight shares one exchange among many requests and
\* forgets it when it is over; none may be left behind by that.
ExchangeSettles == \A b \in Tabs : Expects(b) ~> ~Expects(b)
===============================================================================
