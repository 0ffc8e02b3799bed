-------------------------------- MODULE OAuth --------------------------------
(***************************************************************************)
(* The OAuth client of transport/auth.rs against the authorization server  *)
(* of examples/servers/src/complex_auth_sse.rs, driven the way             *)
(* examples/clients/src/auth/oauth_client.rs does, and by any other legal  *)
(* use of OAuthState.  One application owns an OAuthState and calls it; a  *)
(* user opens the authorization page in a browser; once authorized, tasks  *)
(* ask for access tokens, through AuthClient (a mutex) or through          *)
(* AuthorizedHttpClient (a shared AuthorizationManager).                   *)
(***************************************************************************)
EXTENDS Naturals, Sequences, FiniteSets

CONSTANTS
    Workers,        \* tasks that call get_access_token
    Answers,        \* what the token endpoint may say of a token: records [timed, refresh]
    MaxClients,     \* bound on dynamic registrations
    MaxCodes,       \* bound on approvals
    MaxTokens,      \* bound on tokens issued
    None

Fallback == 0       \* "mcp-client", which the server knows from the start
Clients == 0 .. MaxClients
Tokens == 1 .. MaxTokens
Codes == 1 .. MaxCodes

ASSUME OAuthAssumption ==
    /\ Answers \subseteq [timed : BOOLEAN, refresh : BOOLEAN]
    /\ MaxClients \in Nat /\ MaxCodes \in Nat /\ MaxTokens \in Nat \ {0}
    /\ None \notin Nat \cup Workers

VARIABLES
    mode,           \* OAuthState; "Owned" once into_authorization_manager handed the manager on
    mgr,            \* the AuthorizationManager in it
    app,            \* the call the application awaits
    excused,        \* the application saw an error, dropped a call, or completed without a code
    unpaired,       \* the credentials handed to AuthClient had no expiry of their own beside them
    clients,        \* McpOAuthStore::clients
    sessions,       \* McpOAuthStore::auth_sessions: session i belongs to code i
    token,          \* McpOAuthStore::access_tokens, in the order they were issued
    spent,          \* tokens whose refresh token was used
    orphaned,       \* those of them whose answer never came back
    elapsed,        \* tokens whose lifetime is over
    page,           \* the client of the authorization page the user has open
    approving,      \* the session oauth_approve is working on
    redirect,       \* the code the browser is sent to the callback with
    sender,         \* AppState::code_receiver still holds its oneshot sender
    code,           \* the code the application received
    lock,           \* who holds the Mutex of AuthClient
    pc, want, got,  \* where each task is; the token it refreshes; the one it got for it
    answer          \* what its last call returned

state == <<mode, mgr, app, excused, unpaired>>
store == <<clients, sessions>>
issue == <<token, spent, orphaned>>
user == <<page, approving, redirect, sender, code>>
tasks == <<lock, pc, want, got, answer>>
vars == <<state, store, issue, elapsed, user, tasks>>

(***************************************************************************)
(* AuthorizationManager::new                                               *)
(***************************************************************************)
New(base) == [base |-> base, meta |-> None, id |-> None, creds |-> None,
              verifier |-> FALSE, expires |-> None]
Placeholder == New("localhost")

Init ==
    /\ mode = "Unauthorized" /\ mgr = New("server") /\ app = "idle"
    /\ excused = FALSE /\ unpaired = FALSE
    /\ clients = {Fallback} /\ sessions = <<>>
    \* a token of an earlier run, which the application kept
    /\ token \in {<<>>} \cup {<<a>> : a \in Answers}
    /\ spent = {} /\ orphaned = {} /\ elapsed = {}
    /\ page = None /\ approving = None /\ redirect = None /\ sender = TRUE /\ code = None
    /\ lock = None /\ pc = [w \in Workers |-> "idle"]
    /\ want = [w \in Workers |-> None] /\ got = [w \in Workers |-> None]
    /\ answer = [w \in Workers |-> None]

Issued == 1 .. Len(token)
Timed(t) == token[t].timed
(***************************************************************************)
(* OAuthState.  Its operations take &mut self, so one runs at a time and   *)
(* none while a task uses the client in it.  Each replaces the state by a  *)
(* placeholder for localhost before it looks at it: the manager is lost    *)
(* unless the call puts it back.  A call that is dropped at an await ends  *)
(* like one that fails there.                                              *)
(***************************************************************************)
Ready == app = "idle" /\ \A w \in Workers : pc[w] = "idle"
Usable == Ready /\ mode \notin {"Owned", "Gone"}

Lose(m) ==
    /\ mode' = m /\ mgr' = Placeholder /\ app' = "idle"
    /\ excused' = TRUE /\ UNCHANGED unpaired

Refuse == excused' = TRUE /\ app' = "idle" /\ UNCHANGED <<mode, mgr, unpaired>>

Rest == UNCHANGED <<store, issue, elapsed, user, tasks>>

StartAuthorization ==
    /\ Usable /\ Rest
    /\ \/ mode = "Unauthorized" /\ app' = "discovering" /\ UNCHANGED <<mode, mgr, excused, unpaired>>
       \/ mode # "Unauthorized" /\ Lose("Unauthorized")

SetCredentials(t) ==
    /\ Usable /\ Rest
    /\ \/ /\ mode = "Unauthorized"
          /\ mgr' = [mgr EXCEPT !.creds = t] /\ app' = "restoring"
          /\ UNCHANGED <<mode, excused, unpaired>>
       \/ mode # "Unauthorized" /\ Refuse

(***************************************************************************)
(* discover_metadata: what the server publishes, or default endpoints if   *)
(* it answers anything but OK.  set_credentials goes on to                 *)
(* configure_client_id.                                                    *)
(***************************************************************************)
Metadata(base) == IF base = "server" THEN {"found", "default"} ELSE {"default"}

Discover(m) ==
    /\ app \in {"discovering", "restoring"} /\ m \in Metadata(mgr.base)
    /\ IF app = "discovering"
       THEN /\ app' = "registering" /\ mgr' = [mgr EXCEPT !.meta = m]
            /\ UNCHANGED mode
       ELSE /\ \E c \in clients : mgr' = [mgr EXCEPT !.meta = m, !.id = c]
            /\ mode' = "Authorized" /\ app' = "idle"
    /\ Rest /\ UNCHANGED <<excused, unpaired>>

\* No answer, an answer that does not parse, endpoints that are no URLs.
DiscoverFails ==
    /\ app \in {"discovering", "restoring", "registering"}
    /\ Lose("Unauthorized") /\ Rest

(***************************************************************************)
(* AuthorizationSession::new: register_client, or the default client id    *)
(* when that fails; configure_client; get_authorization_url.               *)
(***************************************************************************)
BeginSession(c) ==
    /\ mode' = "Session" /\ app' = "idle"
    /\ mgr' = [mgr EXCEPT !.id = c, !.verifier = TRUE]
    /\ UNCHANGED <<excused, unpaired>>

\* oauth_register answers after it has entered the client.
OauthRegister(c) == clients' = clients \cup {c}

Register ==
    /\ app = "registering" /\ mgr.meta = "found"
    /\ LET c == Cardinality(clients) IN
       /\ c <= MaxClients
       /\ OauthRegister(c)
       /\ \E answered \in BOOLEAN : BeginSession(IF answered THEN c ELSE Fallback)
    /\ UNCHANGED <<sessions, issue, elapsed, user, tasks>>

RegisterFails == app = "registering" /\ BeginSession(Fallback) /\ Rest

(***************************************************************************)
(* The browser.  oauth_authorize shows a page to a known client;           *)
(* oauth_approve creates the session of the code, then gives it a token,   *)
(* then redirects; callback_handler hands on the first code it gets.       *)
(***************************************************************************)
Browse == UNCHANGED <<state, issue, elapsed, tasks>>

OauthAuthorize ==
    /\ mode = "Session" /\ app = "idle" /\ mgr.meta = "found" /\ mgr.id \in clients
    /\ page = None /\ page' = mgr.id
    /\ UNCHANGED <<store, approving, redirect, sender, code>> /\ Browse

OauthReject ==
    /\ page # None /\ page' = None
    /\ UNCHANGED <<store, approving, redirect, sender, code>> /\ Browse

CreateAuthSession ==
    /\ page # None /\ approving = None /\ Len(sessions) < MaxCodes
    /\ sessions' = Append(sessions, [client |-> page, token |-> FALSE])
    /\ approving' = Len(sessions) + 1 /\ page' = None
    /\ UNCHANGED <<clients, redirect, sender, code>> /\ Browse

SessionNotUpdated(s) == UNCHANGED sessions
UpdateAuthSessionToken(s) == sessions' = [sessions EXCEPT ![s].token = TRUE]

OauthApprove ==
    /\ approving # None /\ redirect = None
    /\ UpdateAuthSessionToken(approving)
    /\ redirect' = approving /\ approving' = None
    /\ UNCHANGED <<clients, page, sender, code>> /\ Browse

CallbackHandler ==
    /\ redirect # None /\ redirect' = None
    /\ sender' = FALSE /\ code' = IF sender THEN redirect ELSE code
    /\ UNCHANGED <<store, page, approving>> /\ Browse

(***************************************************************************)
(* handle_callback: exchange_code_for_token takes the verifier before it   *)
(* asks, so a failed exchange cannot be tried again; then                  *)
(* complete_authorization.                                                 *)
(***************************************************************************)
HandleCallback ==
    /\ Usable /\ code # None /\ Rest
    /\ \/ /\ mode = "Session" /\ mgr.verifier
          /\ mgr' = [mgr EXCEPT !.verifier = FALSE] /\ app' = "exchanging"
          /\ UNCHANGED <<mode, excused, unpaired>>
       \/ ~(mode = "Session" /\ mgr.verifier) /\ Refuse

\* oauth_token for a code: validate_client, then create_mcp_token.
Redeemable == mgr.meta = "found" /\ mgr.id \in clients /\ sessions[code].token

CreateToken(a) == Len(token) < MaxTokens /\ token' = Append(token, a)

Exchange(a) ==
    /\ app = "exchanging" /\ Redeemable /\ CreateToken(a)
    /\ mgr' = [mgr EXCEPT !.creds = Len(token'), !.expires = IF a.timed THEN Len(token') ELSE @]
    /\ mode' = "Authorized" /\ app' = "idle"
    /\ UNCHANGED <<excused, unpaired, store, spent, orphaned, elapsed, user, tasks>>

CompleteAnyway == mode' = "Authorized" /\ app' = "idle" /\ UNCHANGED <<mgr, excused, unpaired>>
CallbackError == Refuse

ExchangeFails ==
    /\ app = "exchanging" /\ CallbackError
    /\ \/ UNCHANGED token
       \/ Redeemable /\ \E a \in Answers : CreateToken(a)
    /\ UNCHANGED <<store, spent, orphaned, elapsed, user, tasks>>

CompleteAuthorization ==
    /\ Usable /\ Rest
    /\ \/ /\ mode = "Session" /\ mode' = "Authorized" /\ excused' = TRUE
          /\ UNCHANGED <<mgr, app, unpaired>>
       \/ mode # "Session" /\ Lose("Unauthorized")

ToAuthorizedHttpClient ==
    /\ Usable /\ Rest
    /\ \/ mode = "Authorized" /\ mode' = "HttpClient" /\ UNCHANGED <<mgr, app, excused, unpaired>>
       \/ mode # "Authorized" /\ Lose("Authorized")

IntoAuthorizationManager ==
    /\ Usable /\ Rest
    /\ mode' = IF mode = "Authorized" THEN "Owned" ELSE "Gone"
    /\ unpaired' = (mgr.creds # None /\ Timed(mgr.creds) /\ mgr.expires # mgr.creds)
    /\ UNCHANGED <<mgr, app, excused>>

Calling == mode \in {"Owned", "HttpClient"}

(***************************************************************************)
(* get_access_token.  AuthClient holds its mutex from Enter to Return; the *)
(* shared manager of AuthorizedHttpClient has none.  The lock of the       *)
(* credentials is held while expires_at is read, so both reads are one     *)
(* step; it is dropped before the refresh.                                 *)
(***************************************************************************)
Keep == UNCHANGED <<store, user, elapsed>>

Call(w) ==
    /\ Calling /\ app = "idle" /\ pc[w] = "idle"
    /\ pc' = [pc EXCEPT ![w] = "entering"] /\ answer' = [answer EXCEPT ![w] = None]
    /\ UNCHANGED <<state, issue, lock, want, got>> /\ Keep

\* OAuthState::refresh_token on the state itself; its get_access_token has nothing to
\* answer in any mode.
Refresh(w) ==
    /\ mode = "Authorized" /\ app = "idle" /\ pc[w] = "idle"
    /\ pc' = [pc EXCEPT ![w] = "refreshing"] /\ answer' = [answer EXCEPT ![w] = None]
    /\ UNCHANGED <<state, issue, lock, want, got>> /\ Keep

EnterAlways(w) == UNCHANGED lock
Enter(w) == IF mode = "Owned" THEN lock = None /\ lock' = w ELSE UNCHANGED lock

Locked(w) ==
    /\ pc[w] = "entering" /\ Enter(w)
    /\ pc' = [pc EXCEPT ![w] = "checking"]
    /\ UNCHANGED <<state, issue, want, got, answer>> /\ Keep

ReleaseEarly(w, next) == lock' = IF next \in {"refreshing", "idle"} /\ lock = w THEN None ELSE lock
Release(w, next) == lock' = IF next = "idle" /\ lock = w THEN None ELSE lock

Goto(w, next) == pc' = [pc EXCEPT ![w] = next] /\ Release(w, next)

\* An error leaves no answer.
Return(w, t) ==
    /\ Goto(w, "idle") /\ answer' = [answer EXCEPT ![w] = t]
    /\ want' = [want EXCEPT ![w] = None] /\ got' = [got EXCEPT ![w] = None]

Expired == mgr.expires # None /\ mgr.expires \in elapsed

Check(w) ==
    /\ pc[w] = "checking"
    /\ \/ (mgr.creds = None \/ ~Expired) /\ Return(w, mgr.creds)
       \/ /\ mgr.creds # None /\ Expired /\ Goto(w, "refreshing")
          /\ UNCHANGED <<want, got, answer>>
    /\ UNCHANGED <<state, issue>> /\ Keep

(***************************************************************************)
(* refresh_token reads the credentials again.  The token endpoint of the   *)
(* example refuses this grant; what other servers do is external: they     *)
(* answer a refresh token once.                                            *)
(***************************************************************************)
Refreshable == mgr.id # None /\ mgr.creds # None /\ token[mgr.creds].refresh

RefreshToken(w) ==
    /\ pc[w] = "refreshing"
    /\ \/ /\ Refreshable
          /\ want' = [want EXCEPT ![w] = mgr.creds] /\ Goto(w, "asking")
          /\ UNCHANGED <<got, answer>>
       \/ ~Refreshable /\ Return(w, None)
    /\ UNCHANGED <<state, issue>> /\ Keep

GrantAgain(w, a) == CreateToken(a) /\ UNCHANGED spent
Grant(w, a) ==
    /\ want[w] \notin spent /\ CreateToken(a)
    /\ spent' = spent \cup {want[w]}

Granted(w, a) ==
    /\ pc[w] = "asking" /\ Grant(w, a)
    /\ got' = [got EXCEPT ![w] = Len(token')] /\ Goto(w, "granted")
    /\ UNCHANGED <<state, orphaned, want, answer>> /\ Keep

\* Refused, not reached, answered in vain, or the call is dropped meanwhile.
RefreshFails(w) ==
    /\ pc[w] = "asking" /\ Return(w, None)
    /\ \/ UNCHANGED issue
       \/ (\E a \in Answers : Grant(w, a)) /\ orphaned' = orphaned \cup {want[w]}
    /\ UNCHANGED state /\ Keep

StoreCredentials(w) ==
    /\ pc[w] = "granted" /\ mgr' = [mgr EXCEPT !.creds = got[w]] /\ Goto(w, "stored")
    /\ UNCHANGED <<mode, app, excused, unpaired, issue, want, got, answer>> /\ Keep

StoreExpiry(w) ==
    /\ pc[w] = "stored"
    /\ mgr' = [mgr EXCEPT !.expires = IF Timed(got[w]) THEN got[w] ELSE @]
    /\ Return(w, got[w])
    /\ UNCHANGED <<mode, app, excused, unpaired, issue>> /\ Keep

Elapse(t) ==
    /\ t \in Issued \ elapsed /\ Timed(t)
    /\ elapsed' = elapsed \cup {t}
    /\ UNCHANGED <<state, store, issue, user, tasks>>

Application ==
    \/ StartAuthorization \/ (\E t \in Issued : SetCredentials(t))
    \/ (\E m \in {"found", "default"} : Discover(m)) \/ DiscoverFails
    \/ Register \/ RegisterFails \/ HandleCallback
    \/ (\E a \in Answers : Exchange(a)) \/ ExchangeFails
    \/ CompleteAuthorization \/ ToAuthorizedHttpClient \/ IntoAuthorizationManager
Browser == OauthAuthorize \/ OauthReject \/ CreateAuthSession \/ OauthApprove \/ CallbackHandler
Task(w) ==
    \/ Call(w) \/ Refresh(w) \/ Locked(w) \/ Check(w) \/ RefreshToken(w) \/ (\E a \in Answers : Granted(w, a))
    \/ RefreshFails(w) \/ StoreCredentials(w) \/ StoreExpiry(w)
Next ==
    \/ Application \/ Browser
    \/ \E w \in Workers : Task(w)
    \/ \E t \in Issued : Elapse(t)

Spec == Init /\ [][Next]_vars

(***************************************************************************)
(* Properties.                                                             *)
(***************************************************************************)
Modes == {"Unauthorized", "Session", "Authorized", "HttpClient", "Owned", "Gone"}

\* Every variable has its type.
TypeOK ==
    /\ mode \in Modes
    /\ mgr \in [base : {"server", "localhost"}, meta : {None, "found", "default"},
                id : Clients \cup {None}, creds : Tokens \cup {None}, verifier : BOOLEAN,
                expires : Tokens \cup {None}]
    /\ app \in {"idle", "discovering", "restoring", "registering", "exchanging"}
    /\ excused \in BOOLEAN /\ unpaired \in BOOLEAN
    /\ clients \subseteq Clients
    /\ sessions \in Seq([client : Clients, token : BOOLEAN]) /\ Len(sessions) <= MaxCodes
    /\ token \in Seq(Answers) /\ Len(token) <= MaxTokens
    /\ spent \subseteq Issued /\ orphaned \subseteq spent /\ elapsed \subseteq Issued
    /\ page \in Clients \cup {None} /\ sender \in BOOLEAN
    /\ {approving, redirect, code} \subseteq Codes \cup {None}
    /\ lock \in Workers \cup {None}
    /\ pc \in [Workers -> {"idle", "entering", "checking", "refreshing", "asking", "granted", "stored"}]
    /\ {want, got, answer} \subseteq [Workers -> Tokens \cup {None}]

\* handle_callback and the calls after it leave an application that saw no error with
\* the manager of its server, a configured client and credentials, whatever the
\* placeholders in between (auth.rs 712-798).
AuthorizedHasCredentials ==
    mode \in {"Authorized", "HttpClient", "Owned"} /\ ~excused =>
        mgr.base = "server" /\ mgr.id # None /\ mgr.creds # None

\* Client and server agree when a code is exchanged: the client id is one the server
\* entered, although registration may fail or its answer be lost, and the session of the
\* code, created and completed in two steps, has its token (complex_auth_sse.rs 118-142).
ExchangeMeetsServer ==
    app = "exchanging" /\ mgr.meta = "found" => Redeemable

\* Through AuthClient no two calls present the same refresh token, unless the answer to
\* the first was lost (auth.rs 45-50: the mutex is held across the refresh).
SerialRefresh ==
    mode = "Owned" =>
        \A w \in Workers : pc[w] = "asking" /\ want[w] \in spent => want[w] \in orphaned

\* Through AuthClient no call answers with held credentials whose announced lifetime is
\* over: expires_at and the credentials are written one after the other, and the mutex
\* keeps others from reading between (auth.rs 455-512).  It takes credentials that were
\* handed to AuthClient with their expiry, which set_credentials does not store, and
\* refreshes of OAuthState that run at the same time may mix up.
ReturnsNoExpiredToken ==
    [][mode = "Owned" /\ ~unpaired =>
          \A w \in Workers :
              pc[w] = "checking" /\ answer'[w] # None =>
                  ~(Timed(answer'[w]) /\ answer'[w] \in elapsed)]_vars
=============================================================================
