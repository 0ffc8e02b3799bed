------------------------------ MODULE OAuthProofs ------------------------------
(***************************************************************************)
(* What holds of the OAuth client for any number of tasks, registrations,  *)
(* approvals and tokens, whatever the token endpoint says of a token.      *)
(***************************************************************************)
EXTENDS OAuth, FiniteSetTheorems, SequenceTheorems, TLAPS

USE DEF state, store, issue, user, tasks

\* ---- what has been issued
\* Everything that names a token names one that was issued, and a task has what its next step
\* needs.
IssuedOnly ==
    /\ {mgr.creds, mgr.expires} \subseteq Issued \cup {None}
    /\ {want, got, answer} \subseteq [Workers -> Issued \cup {None}]
    /\ Fallback \in clients
HasWhatItNeeds ==
    /\ \A w \in Workers : pc[w] = "asking" => want[w] # None
    /\ \A w \in Workers : pc[w] \in {"granted", "stored"} => got[w] # None
    /\ \A w \in Workers : pc[w] # "idle" => answer[w] = None

\* ---- the application and its manager
\* What each call of the application has prepared, and that no task runs beside one.
Prepared ==
    /\ ~excused => mgr.base = "server"
    /\ app \in {"discovering", "restoring", "registering"} => mode = "Unauthorized"
    /\ app = "restoring" => mgr.creds # None
    /\ app = "exchanging" => mode = "Session" /\ code # None
    /\ app # "idle" => \A w \in Workers : pc[w] = "idle"
    /\ mode = "Session" => mgr.id \in clients
Unset ==
    mode \in {"Unauthorized", "Session"} =>
        /\ mgr.expires = None
        /\ app # "restoring" => mgr.creds = None
        /\ \A w \in Workers : pc[w] = "idle"

\* ---- the codes
\* A code on its way to the application has a session with a token.
CodesHaveTokens ==
    /\ approving # None => approving \in DOMAIN sessions
    /\ \A c \in {redirect, code} : c # None => c \in DOMAIN sessions /\ sessions[c].token

\* ---- the refresh
\* Whoever may still be answered asks for the credentials that are held, so at most one answer is
\* under way.
OneGrant ==
    /\ \A w \in Workers : pc[w] = "asking" /\ want[w] \notin spent => want[w] = mgr.creds
    /\ \A w \in Workers : pc[w] = "granted" =>
           want[w] = mgr.creds /\ want[w] \in spent /\ got[w] \notin spent /\ got[w] # mgr.creds
    /\ \A v, w \in Workers : pc[v] = "granted" /\ pc[w] = "granted" => v = w
\* Held credentials whose refresh token is used are being replaced, or their answer was lost, or
\* they were set by the application and have no expiry that would have them refreshed.
SpentCredentials ==
    mgr.creds # None /\ mgr.creds \in spent =>
        \/ mgr.creds \in orphaned
        \/ \E w \in Workers : pc[w] = "granted"
        \/ mgr.expires = None /\ \A w \in Workers : pc[w] # "stored"
\* The mutex of AuthClient.
Exclusive ==
    mode = "Owned" => \A w \in Workers : pc[w] \notin {"idle", "entering"} => lock = w
ExpiryLed ==
    mode = "Owned" => \A w \in Workers : pc[w] = "refreshing" => mgr.expires # None
\* Credentials and expiry belong together except between the two writes.
StoredIsHeld == mode = "Owned" => \A w \in Workers : pc[w] = "stored" => mgr.creds = got[w]
Paired ==
    mode = "Owned" /\ ~unpaired /\ mgr.creds # None /\ Timed(mgr.creds) /\ mgr.expires # mgr.creds =>
        \E w \in Workers : pc[w] = "stored"

\* ---- facts about the operators of the model
Managers == [base : {"server", "localhost"}, meta : {None, "found", "default"},
             id : Clients \cup {None}, creds : Tokens \cup {None}, verifier : BOOLEAN,
             expires : Tokens \cup {None}]
Apps == {"idle", "discovering", "restoring", "registering", "exchanging"}
Pcs == {"idle", "entering", "checking", "refreshing", "asking", "granted", "stored"}

LEMMA Appended ==
    ASSUME NEW S, NEW s \in Seq(S), NEW x \in S
    PROVE  /\ Append(s, x) \in Seq(S) /\ Len(Append(s, x)) = Len(s) + 1
           /\ \A k \in 1 .. Len(s) : Append(s, x)[k] = s[k]
           /\ Append(s, x)[Len(s) + 1] = x
  BY AppendProperties

\* No task, and nothing that is numbered, is None.
LEMMA NoneIsNone ==
    /\ None \notin Nat /\ None \notin Workers
    /\ None \notin Tokens /\ None \notin Clients /\ None \notin Codes
  <1>1. Tokens \subseteq Nat /\ Clients \subseteq Nat /\ Codes \subseteq Nat
    BY OAuthAssumption DEF Tokens, Clients, Codes
  <1>. QED  BY <1>1, OAuthAssumption

\* The next client id is a client id.
LEMMA NextClient ==
    ASSUME clients \subseteq Clients, Cardinality(clients) <= MaxClients
    PROVE  Cardinality(clients) \in Clients
  <1>1. IsFiniteSet(Clients)
    BY FS_Interval, OAuthAssumption DEF Clients
  <1>2. Cardinality(clients) \in Nat
    BY <1>1, FS_Subset, FS_CardinalityType
  <1>. QED  BY <1>2, OAuthAssumption DEF Clients

\* A token that is issued is the next one, and all that were issued before keep their answers.
LEMMA TokenCreated ==
    ASSUME token \in Seq(Answers), NEW a \in Answers, CreateToken(a)
    PROVE  /\ token' \in Seq(Answers) /\ Len(token') <= MaxTokens
           /\ Len(token) \in Nat /\ Len(token') = Len(token) + 1
           /\ Len(token') \in Tokens /\ Len(token') \in Issued' /\ Len(token') \notin Issued
           /\ Issued \subseteq Issued' /\ token'[Len(token')] = a
           /\ \A t \in Issued : token'[t] = token[t]
  <1>1. Len(token) \in Nat
    BY LenProperties
  <1>2. token' = Append(token, a) /\ Len(token) < MaxTokens /\ MaxTokens \in Nat
    BY OAuthAssumption DEF CreateToken
  <1>3. /\ token' \in Seq(Answers) /\ Len(token') = Len(token) + 1
        /\ \A k \in 1 .. Len(token) : token'[k] = token[k]
        /\ token'[Len(token) + 1] = a
    BY <1>2, Appended
  <1>. QED  BY <1>1, <1>2, <1>3 DEF Issued, Tokens

\* ---- types
LEMMA TypeInit == Init => TypeOK /\ IssuedOnly /\ HasWhatItNeeds
  <1>. SUFFICES ASSUME Init PROVE TypeOK /\ IssuedOnly /\ HasWhatItNeeds
    OBVIOUS
  <1>1. token \in Seq(Answers) /\ Len(token) \in {0, 1}
    <2>1. CASE token = <<>>
      BY <2>1
    <2>2. CASE \E a \in Answers : token = <<a>>
      BY <2>2
    <2>. QED  BY <2>1, <2>2 DEF Init
  <1>2. 1 <= MaxTokens /\ 0 <= MaxTokens /\ 0 <= MaxCodes
    BY OAuthAssumption
  <1>3. Fallback \in Clients /\ clients = {Fallback}
    BY OAuthAssumption DEF Init, Fallback, Clients
  <1>4. sessions \in Seq([client : Clients, token : BOOLEAN]) /\ Len(sessions) = 0
    BY DEF Init
  <1>5. TypeOK
    BY <1>1, <1>2, <1>3, <1>4 DEF Init, TypeOK, Modes, New
  <1>6. IssuedOnly /\ HasWhatItNeeds
    BY <1>3 DEF Init, IssuedOnly, HasWhatItNeeds, New
  <1>. QED  BY <1>5, <1>6

LEMMA TypeSteps == TypeOK /\ IssuedOnly /\ HasWhatItNeeds /\ [Next]_vars
                     => TypeOK' /\ IssuedOnly' /\ HasWhatItNeeds'
  <1>. SUFFICES ASSUME TypeOK, IssuedOnly, HasWhatItNeeds, [Next]_vars
                PROVE  TypeOK' /\ IssuedOnly' /\ HasWhatItNeeds'
    OBVIOUS
  <1>. USE NoneIsNone
  <1>0. Issued \subseteq Tokens /\ Issued \subseteq Nat
    <2>1. Len(token) \in Nat /\ Len(token) <= MaxTokens /\ MaxTokens \in Nat
      BY LenProperties, OAuthAssumption DEF TypeOK
    <2>. QED  BY <2>1 DEF Issued, Tokens
  <1>1. ASSUME Rest, mode' \in Modes, app' \in Apps, excused' \in BOOLEAN, unpaired' \in BOOLEAN,
               mgr' \in Managers, {mgr.creds, mgr.expires}' \subseteq Issued \cup {None}
        PROVE  TypeOK' /\ IssuedOnly' /\ HasWhatItNeeds'
    BY <1>1 DEF Rest, TypeOK, IssuedOnly, HasWhatItNeeds, Issued, Managers, Apps
  <1>2. /\ Placeholder \in Managers /\ Placeholder.creds = None /\ Placeholder.expires = None
        /\ mgr \in Managers /\ mode \in Modes /\ app \in Apps
        /\ excused \in BOOLEAN /\ unpaired \in BOOLEAN
        /\ {mgr.creds, mgr.expires} \subseteq Issued \cup {None}
    BY DEF Placeholder, New, Managers, TypeOK, Apps, IssuedOnly
  <1>3. CASE \/ StartAuthorization \/ DiscoverFails \/ CompleteAuthorization
             \/ ToAuthorizedHttpClient \/ IntoAuthorizationManager
    BY <1>1, <1>2, <1>3
    DEF StartAuthorization, DiscoverFails, CompleteAuthorization, ToAuthorizedHttpClient,
        IntoAuthorizationManager, Lose, Modes, Apps
  <1>4. ASSUME NEW t \in Issued, SetCredentials(t)
        PROVE  TypeOK' /\ IssuedOnly' /\ HasWhatItNeeds'
    BY ZenonT(30), <1>0, <1>1, <1>2, <1>4 DEF SetCredentials, Refuse, Managers, Apps
  <1>5. ASSUME NEW m \in {"found", "default"}, Discover(m)
        PROVE  TypeOK' /\ IssuedOnly' /\ HasWhatItNeeds'
    <2>1. \A c \in clients : c \in Clients
      BY DEF TypeOK
    <2>2. mgr' \in Managers /\ mgr'.creds = mgr.creds /\ mgr'.expires = mgr.expires
      <3>1. PICK c \in Clients \cup {None} : mgr' = [mgr EXCEPT !.meta = m, !.id = c]
        <4>1. \/ mgr' = [mgr EXCEPT !.meta = m, !.id = mgr.id] /\ mgr.id \in Clients \cup {None}
              \/ \E c \in clients : mgr' = [mgr EXCEPT !.meta = m, !.id = c]
          BY <1>2, <1>5 DEF Discover, Managers
        <4>. QED  BY <2>1, <4>1
      <3>. QED  BY <1>2, <3>1 DEF Managers
    <2>3. mode' \in Modes /\ app' \in Apps /\ UNCHANGED <<excused, unpaired>> /\ Rest
      BY <1>2, <1>5 DEF Discover, Apps, Modes
    <2>. QED  BY <1>1, <1>2, <2>2, <2>3
  <1>6. ASSUME NEW c \in Clients, BeginSession(c)
        PROVE  /\ mgr' \in Managers /\ mgr'.creds = mgr.creds /\ mgr'.expires = mgr.expires
               /\ mode' \in Modes /\ app' \in Apps /\ UNCHANGED <<excused, unpaired>>
    BY <1>2, <1>6 DEF BeginSession, Managers, Modes, Apps
  <1>7. CASE RegisterFails
    BY <1>1, <1>2, <1>6, <1>7 DEF RegisterFails, IssuedOnly, TypeOK
  <1>8. CASE HandleCallback
    <2>1. mgr' \in Managers /\ mgr'.creds = mgr.creds /\ mgr'.expires = mgr.expires
      BY <1>2, <1>8 DEF HandleCallback, Refuse, Managers
    <2>2. mode' \in Modes /\ app' \in Apps /\ excused' \in BOOLEAN /\ UNCHANGED unpaired /\ Rest
      BY <1>2, <1>8 DEF HandleCallback, Refuse, Apps
    <2>. QED  BY <1>1, <1>2, <2>1, <2>2
  <1>9. CASE Register
    <2>1. Cardinality(clients) \in Clients /\ Fallback \in Clients
      BY <1>9, NextClient DEF Register, TypeOK, IssuedOnly
    <2>2. PICK c \in Clients : BeginSession(c)
      BY <1>9, <2>1 DEF Register
    <2>3. clients' \subseteq Clients /\ Fallback \in clients'
      BY <1>9, <2>1 DEF Register, OauthRegister, TypeOK, IssuedOnly
    <2>4. UNCHANGED <<sessions, issue, elapsed, user, tasks>>
      BY <1>9 DEF Register
    <2>5. /\ mgr' \in Managers /\ mgr'.creds = mgr.creds /\ mgr'.expires = mgr.expires
          /\ mode' \in Modes /\ app' \in Apps /\ UNCHANGED <<excused, unpaired>>
      BY <1>6, <2>2
    <2>. QED
      BY <1>2, <2>3, <2>4, <2>5 DEF TypeOK, IssuedOnly, HasWhatItNeeds, Issued, Managers, Apps
  <1>10. ASSUME NEW a \in Answers, CreateToken(a),
                mode' \in Modes, app' \in Apps, excused' \in BOOLEAN, UNCHANGED unpaired,
                mgr' \in Managers, {mgr.creds, mgr.expires}' \subseteq Issued' \cup {None},
                UNCHANGED <<store, spent, orphaned, elapsed, user, tasks>>
         PROVE  TypeOK' /\ IssuedOnly' /\ HasWhatItNeeds'
    <2>1. token' \in Seq(Answers) /\ Len(token') <= MaxTokens /\ Issued \subseteq Issued'
      BY <1>10, TokenCreated DEF TypeOK
    <2>2. TypeOK'
      BY <1>10, <2>1 DEF TypeOK, Managers, Apps
    <2>3. IssuedOnly' /\ HasWhatItNeeds'
      BY <1>10, <2>1 DEF IssuedOnly, HasWhatItNeeds
    <2>. QED  BY <2>2, <2>3
  <1>11. ASSUME NEW a \in Answers, Exchange(a)
         PROVE  TypeOK' /\ IssuedOnly' /\ HasWhatItNeeds'
    <2>1. CreateToken(a)
      BY <1>11 DEF Exchange
    <2>2. Len(token') \in Tokens /\ Len(token') \in Issued' /\ Issued \subseteq Issued'
      BY <2>1, TokenCreated DEF TypeOK
    <2>3. mgr' \in Managers
      BY <1>2, <1>11, <2>2 DEF Exchange, Managers
    <2>4. {mgr.creds, mgr.expires}' \subseteq Issued' \cup {None}
      BY <1>2, <1>11, <2>2 DEF Exchange, Managers
    <2>. QED  BY <1>2, <1>10, <1>11, <2>1, <2>3, <2>4 DEF Exchange, Modes, Apps
  <1>12. CASE ExchangeFails
    <2>1. /\ Refuse /\ UNCHANGED <<store, spent, orphaned, elapsed, user, tasks>>
          /\ UNCHANGED token \/ \E a \in Answers : CreateToken(a)
      BY <1>12 DEF ExchangeFails, CallbackError
    <2>2. /\ mode' \in Modes /\ app' \in Apps /\ excused' \in BOOLEAN /\ UNCHANGED unpaired
          /\ UNCHANGED mgr
      BY <1>2, <2>1 DEF Refuse, Apps
    <2>3. CASE UNCHANGED token
      BY <1>1, <1>2, <2>1, <2>2, <2>3 DEF Rest
    <2>4. ASSUME NEW a \in Answers, CreateToken(a)
          PROVE  TypeOK' /\ IssuedOnly' /\ HasWhatItNeeds'
      <3>1. Issued \subseteq Issued'
        BY <2>4, TokenCreated DEF TypeOK
      <3>. QED  BY <1>2, <1>10, <2>1, <2>2, <2>4, <3>1
    <2>. QED  BY <2>1, <2>3, <2>4
  <1>13. CASE Browser
    <2>1. UNCHANGED <<state, issue, elapsed, tasks, clients>>
      BY <1>13 DEF Browser, OauthAuthorize, OauthReject, CreateAuthSession, OauthApprove,
                   CallbackHandler, Browse
    <2>2. /\ sessions' \in Seq([client : Clients, token : BOOLEAN]) /\ Len(sessions') <= MaxCodes
          /\ page' \in Clients \cup {None} /\ sender' \in BOOLEAN
          /\ {approving, redirect, code}' \subseteq Codes \cup {None}
      <3>1. CASE OauthAuthorize \/ OauthReject \/ CallbackHandler
        BY ZenonT(30), <3>1 DEF OauthAuthorize, OauthReject, CallbackHandler, TypeOK
      <3>2. CASE CreateAuthSession
        <4>1. page \in Clients /\ Len(sessions) \in Nat /\ MaxCodes \in Nat
          BY <3>2, LenProperties, OAuthAssumption DEF CreateAuthSession, TypeOK
        <4>2. [client |-> page, token |-> FALSE] \in [client : Clients, token : BOOLEAN]
          BY <4>1
        <4>3. /\ sessions' \in Seq([client : Clients, token : BOOLEAN])
              /\ Len(sessions') = Len(sessions) + 1
          BY <3>2, <4>2, Appended DEF CreateAuthSession, TypeOK
        <4>4. approving' \in Codes
          BY <3>2, <4>1 DEF CreateAuthSession, Codes
        <4>. QED  BY <3>2, <4>1, <4>3, <4>4 DEF CreateAuthSession, TypeOK
      <3>3. CASE OauthApprove
        <4>1. /\ sessions' \in Seq([client : Clients, token : BOOLEAN])
              /\ Len(sessions') = Len(sessions)
          <5>. DEFINE S == [client : Clients, token : BOOLEAN]
          <5>1. sessions \in [1 .. Len(sessions) -> S] /\ Len(sessions) \in Nat
            BY LenProperties DEF TypeOK
          <5>2. sessions' \in [1 .. Len(sessions) -> S]
            BY <3>3, <5>1 DEF OauthApprove, UpdateAuthSessionToken
          <5>3. sessions' \in Seq(S)
            BY ZenonT(30), <5>1, <5>2, SeqDef
          <5>4. DOMAIN sessions' = 1 .. Len(sessions) /\ DOMAIN sessions' = 1 .. Len(sessions')
            BY <5>2, <5>3, LenProperties
          <5>. QED  BY <5>1, <5>3, <5>4, LenProperties
        <4>. QED  BY <3>3, <4>1 DEF OauthApprove, TypeOK
      <3>. QED  BY <1>13, <3>1, <3>2, <3>3 DEF Browser
    <2>. QED  BY <2>1, <2>2 DEF TypeOK, IssuedOnly, HasWhatItNeeds, Issued
  <1>14. ASSUME UNCHANGED <<store, user, elapsed, mode, app, excused, unpaired>>,
                mgr' \in Managers, {mgr.creds, mgr.expires}' \subseteq Issued' \cup {None},
                token' \in Seq(Answers), Len(token') <= MaxTokens, Issued \subseteq Issued',
                spent' \subseteq Issued', orphaned' \subseteq spent',
                lock' \in Workers \cup {None}, pc' \in [Workers -> Pcs],
                {want, got, answer}' \subseteq [Workers -> Issued' \cup {None}]
         PROVE  TypeOK' /\ IssuedOnly'
    <2>1. Issued' \subseteq Tokens
      <3>1. Len(token') \in Nat /\ Len(token') <= MaxTokens /\ MaxTokens \in Nat
        BY <1>14, LenProperties, OAuthAssumption
      <3>. QED  BY <3>1 DEF Issued, Tokens
    <2>2. {want, got, answer}' \subseteq [Workers -> Tokens \cup {None}]
      BY <1>14, <2>1
    <2>3. elapsed' \subseteq Issued'
      BY <1>14 DEF TypeOK
    <2>. QED  BY <1>14, <2>2, <2>3 DEF TypeOK, IssuedOnly, Managers, Apps, Pcs
  <1>15. /\ token \in Seq(Answers) /\ Len(token) <= MaxTokens /\ spent \subseteq Issued
         /\ orphaned \subseteq spent /\ lock \in Workers \cup {None} /\ pc \in [Workers -> Pcs]
         /\ {want, got, answer} \subseteq [Workers -> Issued \cup {None}]
    BY DEF TypeOK, IssuedOnly, Pcs
  <1>16. ASSUME NEW w \in Workers, NEW p \in Pcs, Goto(w, p)
         PROVE  pc' \in [Workers -> Pcs] /\ lock' \in Workers \cup {None}
    BY <1>15, <1>16 DEF Goto, Release
  <1>17. ASSUME NEW w \in Workers, NEW t \in Issued \cup {None}, Return(w, t)
         PROVE  /\ pc' \in [Workers -> Pcs] /\ lock' \in Workers \cup {None}
                /\ {want, got, answer}' \subseteq [Workers -> Issued \cup {None}]
                /\ HasWhatItNeeds'
    <2>1. Goto(w, "idle")
      BY <1>17 DEF Return
    <2>2. pc' \in [Workers -> Pcs] /\ lock' \in Workers \cup {None}
      BY <1>16, <2>1 DEF Pcs
    <2>3. {want, got, answer}' \subseteq [Workers -> Issued \cup {None}]
      BY <1>15, <1>17 DEF Return
    <2>4. HasWhatItNeeds'
      BY <1>15, <1>17 DEF Return, Goto, HasWhatItNeeds
    <2>. QED  BY <2>2, <2>3, <2>4
  <1>18. ASSUME NEW w \in Workers, Call(w) \/ Refresh(w) \/ Locked(w)
         PROVE  TypeOK' /\ IssuedOnly' /\ HasWhatItNeeds'
    <2>1. /\ UNCHANGED <<state, issue, want, got>> /\ Keep
          /\ lock' \in Workers \cup {None} /\ pc' \in [Workers -> Pcs]
          /\ answer' \in [Workers -> Issued \cup {None}]
      BY <1>15, <1>18 DEF Call, Refresh, Locked, Enter, Keep, Pcs
    <2>2. TypeOK' /\ IssuedOnly'
      BY <1>2, <1>14, <1>15, <2>1 DEF Keep, Issued
    <2>3. HasWhatItNeeds'
      BY <1>15, <1>18 DEF Call, Refresh, Locked, HasWhatItNeeds
    <2>. QED  BY <2>2, <2>3
  <1>19. ASSUME NEW w \in Workers, Check(w) \/ RefreshToken(w)
         PROVE  TypeOK' /\ IssuedOnly' /\ HasWhatItNeeds'
    <2>1. UNCHANGED <<state, issue>> /\ Keep
      BY <1>19 DEF Check, RefreshToken
    <2>2. CASE Return(w, mgr.creds) \/ Return(w, None)
      BY <1>2, <1>14, <1>15, <1>17, <2>1, <2>2 DEF Keep, Issued
    <2>3. CASE Goto(w, "refreshing") /\ UNCHANGED <<want, got, answer>>
      <3>1. pc' \in [Workers -> Pcs] /\ lock' \in Workers \cup {None}
        BY <1>16, <2>3 DEF Pcs
      <3>2. HasWhatItNeeds'
        BY <1>15, <1>19, <2>3 DEF HasWhatItNeeds, Goto, Check, RefreshToken
      <3>. QED  BY <1>2, <1>14, <1>15, <2>1, <2>3, <3>1, <3>2 DEF Keep, Issued
    <2>4. CASE /\ Refreshable /\ want' = [want EXCEPT ![w] = mgr.creds] /\ Goto(w, "asking")
               /\ UNCHANGED <<got, answer>>
      <3>1. pc' \in [Workers -> Pcs] /\ lock' \in Workers \cup {None}
        BY <1>16, <2>4 DEF Pcs
      <3>2. want' \in [Workers -> Issued \cup {None}]
        BY <1>2, <1>15, <2>4
      <3>3. HasWhatItNeeds'
        BY <1>15, <1>19, <2>4 DEF HasWhatItNeeds, Goto, Check, RefreshToken, Refreshable
      <3>. QED  BY <1>2, <1>14, <1>15, <2>1, <2>4, <3>1, <3>2, <3>3 DEF Keep, Issued
    <2>. QED  BY <1>19, <2>2, <2>3, <2>4 DEF Check, RefreshToken
  <1>20. ASSUME NEW w \in Workers, NEW a \in Answers, Grant(w, a), pc[w] = "asking"
         PROVE  /\ token' \in Seq(Answers) /\ Len(token') <= MaxTokens /\ Issued \subseteq Issued'
                /\ Len(token') \in Issued' /\ spent' \subseteq Issued' /\ want[w] \in spent'
                /\ spent \subseteq spent'
    <2>1. want[w] \in Issued
      BY <1>15, <1>20 DEF HasWhatItNeeds
    <2>. QED  BY <1>15, <1>20, <2>1, TokenCreated DEF Grant
  <1>21. ASSUME NEW w \in Workers, NEW a \in Answers, Granted(w, a)
         PROVE  TypeOK' /\ IssuedOnly' /\ HasWhatItNeeds'
    <2>1. /\ Grant(w, a) /\ pc[w] = "asking" /\ UNCHANGED <<state, orphaned, want, answer>> /\ Keep
          /\ Goto(w, "granted") /\ got' = [got EXCEPT ![w] = Len(token')]
      BY <1>21 DEF Granted
    <2>2. /\ token' \in Seq(Answers) /\ Len(token') <= MaxTokens /\ Issued \subseteq Issued'
          /\ Len(token') \in Issued' /\ spent' \subseteq Issued' /\ orphaned' \subseteq spent'
      BY <1>15, <1>20, <2>1
    <2>3. pc' \in [Workers -> Pcs] /\ lock' \in Workers \cup {None}
      BY <1>16, <2>1 DEF Pcs
    <2>4. {want, got, answer}' \subseteq [Workers -> Issued' \cup {None}]
      BY <1>15, <2>1, <2>2
    <2>5. TypeOK' /\ IssuedOnly'
      BY <1>2, <1>14, <2>1, <2>2, <2>3, <2>4 DEF Keep
    <2>6. None \notin Issued'
      BY <2>2, LenProperties DEF Issued
    <2>7. HasWhatItNeeds'
      BY <1>15, <2>1, <2>2, <2>6 DEF HasWhatItNeeds, Goto
    <2>. QED  BY <2>5, <2>7
  <1>22. ASSUME NEW w \in Workers, RefreshFails(w)
         PROVE  TypeOK' /\ IssuedOnly' /\ HasWhatItNeeds'
    <2>1. /\ pc[w] = "asking" /\ Return(w, None) /\ UNCHANGED state /\ Keep
          /\ \/ UNCHANGED issue
             \/ (\E a \in Answers : Grant(w, a)) /\ orphaned' = orphaned \cup {want[w]}
      BY <1>22 DEF RefreshFails
    <2>2. /\ token' \in Seq(Answers) /\ Len(token') <= MaxTokens /\ Issued \subseteq Issued'
          /\ spent' \subseteq Issued' /\ orphaned' \subseteq spent'
      <3>1. CASE UNCHANGED issue
        BY <1>15, <3>1 DEF Issued
      <3>2. CASE (\E a \in Answers : Grant(w, a)) /\ orphaned' = orphaned \cup {want[w]}
        BY <1>15, <1>20, <2>1, <3>2
      <3>. QED  BY <2>1, <3>1, <3>2
    <2>3. /\ pc' \in [Workers -> Pcs] /\ lock' \in Workers \cup {None}
          /\ {want, got, answer}' \subseteq [Workers -> Issued \cup {None}]
          /\ HasWhatItNeeds'
      BY <1>17, <2>1
    <2>4. TypeOK' /\ IssuedOnly'
      BY <1>2, <1>14, <2>1, <2>2, <2>3 DEF Keep
    <2>. QED  BY <2>3, <2>4
  <1>23. ASSUME NEW w \in Workers, StoreCredentials(w)
         PROVE  TypeOK' /\ IssuedOnly' /\ HasWhatItNeeds'
    <2>1. /\ got[w] \in Issued /\ got[w] \in Tokens
      BY <1>0, <1>15, <1>23 DEF StoreCredentials, HasWhatItNeeds
    <2>2. mgr' \in Managers /\ {mgr.creds, mgr.expires}' \subseteq Issued \cup {None}
      BY <1>2, <1>23, <2>1 DEF StoreCredentials, Managers
    <2>3. pc' \in [Workers -> Pcs] /\ lock' \in Workers \cup {None}
      BY <1>16, <1>23 DEF Pcs, StoreCredentials
    <2>4. TypeOK' /\ IssuedOnly'
      BY <1>14, <1>15, <1>23, <2>2, <2>3 DEF StoreCredentials, Keep, Issued
    <2>5. HasWhatItNeeds'
      BY <1>15, <1>23, <2>1 DEF HasWhatItNeeds, Goto, StoreCredentials
    <2>. QED  BY <2>4, <2>5
  <1>24. ASSUME NEW w \in Workers, StoreExpiry(w)
         PROVE  TypeOK' /\ IssuedOnly' /\ HasWhatItNeeds'
    <2>1. /\ got[w] \in Issued /\ got[w] \in Tokens
      BY <1>0, <1>15, <1>24 DEF StoreExpiry, HasWhatItNeeds
    <2>2. mgr' \in Managers /\ {mgr.creds, mgr.expires}' \subseteq Issued \cup {None}
      BY <1>2, <1>24, <2>1 DEF StoreExpiry, Managers
    <2>3. Return(w, got[w]) /\ UNCHANGED <<mode, app, excused, unpaired, issue>> /\ Keep
      BY <1>24 DEF StoreExpiry
    <2>4. /\ pc' \in [Workers -> Pcs] /\ lock' \in Workers \cup {None}
          /\ {want, got, answer}' \subseteq [Workers -> Issued \cup {None}]
          /\ HasWhatItNeeds'
      BY <1>17, <2>1, <2>3
    <2>. QED  BY <1>14, <1>15, <2>2, <2>3, <2>4 DEF Keep, Issued
  <1>25. ASSUME NEW t \in Issued, Elapse(t)
         PROVE  TypeOK' /\ IssuedOnly' /\ HasWhatItNeeds'
    BY <1>25 DEF Elapse, TypeOK, IssuedOnly, HasWhatItNeeds, Issued
  <1>26. CASE UNCHANGED vars
    BY <1>26 DEF vars, TypeOK, IssuedOnly, HasWhatItNeeds, Issued
  <1>. QED
    BY <1>3, <1>4, <1>5, <1>7, <1>8, <1>9, <1>11, <1>12, <1>13, <1>18, <1>19, <1>21, <1>22, <1>23,
       <1>24, <1>25, <1>26 DEF Next, Application, Task

\* Every variable has its type: no call answers with a token that was not issued, and the manager
\* holds only what the server gave it.
THEOREM OAuthTyping == Spec => []TypeOK
  <1>. QED  BY TypeInit, TypeSteps, PTL DEF Spec

LEMMA IssuedTyping == Spec => [](TypeOK /\ IssuedOnly /\ HasWhatItNeeds)
  <1>. QED  BY TypeInit, TypeSteps, PTL DEF Spec

\* ---- the application
Typed == TypeOK /\ IssuedOnly /\ HasWhatItNeeds

\* A task leaves the application where it is, and replaces credentials only by others.
LEMMA TasksKeepTheRest ==
    ASSUME Typed, NEW w \in Workers, Task(w)
    PROVE  /\ UNCHANGED <<mode, app, excused, unpaired, store, user, elapsed>>
           /\ mgr'.base = mgr.base /\ mgr'.id = mgr.id
           /\ mgr.creds # None => mgr'.creds # None
           /\ \A v \in Workers \ {w} : pc'[v] = pc[v]
           /\ app = "idle" \/ pc[w] # "idle"
           /\ mode \in {"Authorized", "Owned", "HttpClient"} \/ pc[w] # "idle"
           /\ pc[w] \notin {"granted", "stored"} => UNCHANGED mgr
  <1>. USE DEF Goto, Return, Keep
  <1>1. pc \in [Workers -> Pcs]
    BY DEF Typed, TypeOK, Pcs
  <1>2. CASE Call(w) \/ Refresh(w) \/ Locked(w) \/ Check(w) \/ RefreshToken(w) \/ RefreshFails(w)
             \/ \E a \in Answers : Granted(w, a)
    BY <1>1, <1>2 DEF Call, Refresh, Locked, Check, RefreshToken, RefreshFails, Granted, Calling
  <1>3. CASE StoreCredentials(w) \/ StoreExpiry(w)
    BY <1>1, <1>3 DEF StoreCredentials, StoreExpiry, Typed, TypeOK, HasWhatItNeeds
  <1>. QED  BY <1>2, <1>3 DEF Task

LEMMA ApplicationSteps ==
    ASSUME Typed, Prepared, Unset, AuthorizedHasCredentials, [Next]_vars
    PROVE  Prepared' /\ Unset' /\ AuthorizedHasCredentials'
  <1>. USE NoneIsNone DEF Ready, Usable, Rest
  <1>. DEFINE Goal == Prepared' /\ Unset' /\ AuthorizedHasCredentials'
  <1>0. mgr \in Managers /\ \A c \in clients : c # None
    BY DEF Typed, TypeOK, Managers
  <1>1. CASE StartAuthorization
    BY <1>0, <1>1 DEF StartAuthorization, Lose, Placeholder, New, Prepared, Unset, AuthorizedHasCredentials
  <1>2. ASSUME NEW t \in Issued, SetCredentials(t)
        PROVE  Goal
    <2>1. t # None
      BY OAuthAssumption, LenProperties DEF Issued, Typed, TypeOK
    <2>. QED
      BY <1>0, <1>2, <2>1
      DEF SetCredentials, Refuse, Managers, Prepared, Unset, AuthorizedHasCredentials
  <1>3. ASSUME NEW m \in {"found", "default"}, Discover(m)
        PROVE  Goal
    BY <1>0, <1>3 DEF Discover, Managers, Prepared, Unset, AuthorizedHasCredentials
  <1>4. CASE DiscoverFails
    BY <1>0, <1>4 DEF DiscoverFails, Lose, Placeholder, New, Prepared, Unset, AuthorizedHasCredentials
  <1>5. CASE Register
    BY <1>0, <1>5 DEF Register, OauthRegister, BeginSession, Managers, Prepared, Unset,
                      AuthorizedHasCredentials, Typed, IssuedOnly
  <1>6. CASE RegisterFails
    BY <1>0, <1>6 DEF RegisterFails, BeginSession, Managers, Prepared, Unset,
                      AuthorizedHasCredentials, Typed, IssuedOnly
  <1>7. CASE HandleCallback
    BY <1>0, <1>7 DEF HandleCallback, Refuse, Managers, Prepared, Unset, AuthorizedHasCredentials
  <1>8. ASSUME NEW a \in Answers, Exchange(a)
        PROVE  Goal
    <2>1. Len(token') \in Tokens
      BY <1>8, TokenCreated DEF Exchange, Typed, TypeOK
    <2>. QED
      BY <1>0, <1>8, <2>1 DEF Exchange, Managers, Prepared, Unset, AuthorizedHasCredentials
  <1>9. CASE ExchangeFails
    BY <1>0, <1>9 DEF ExchangeFails, CallbackError, Refuse, Prepared, Unset, AuthorizedHasCredentials
  <1>10. CASE CompleteAuthorization
    BY <1>0, <1>10 DEF CompleteAuthorization, Lose, Placeholder, New, Prepared, Unset,
                       AuthorizedHasCredentials
  <1>11. CASE ToAuthorizedHttpClient
    BY <1>0, <1>11 DEF ToAuthorizedHttpClient, Lose, Placeholder, New, Prepared, Unset,
                       AuthorizedHasCredentials
  <1>12. CASE IntoAuthorizationManager
    BY <1>0, <1>12 DEF IntoAuthorizationManager, Prepared, Unset, AuthorizedHasCredentials
  <1>13. CASE Browser
    <2>1. UNCHANGED <<state, tasks, clients>> /\ (code # None => code' # None)
      BY <1>13 DEF Browser, OauthAuthorize, OauthReject, CreateAuthSession, OauthApprove,
                   CallbackHandler, Browse
    <2>. QED  BY <2>1 DEF Prepared, Unset, AuthorizedHasCredentials
  <1>14. ASSUME NEW w \in Workers, Task(w)
         PROVE  Goal
    BY <1>14, TasksKeepTheRest DEF Prepared, Unset, AuthorizedHasCredentials
  <1>15. CASE (\E t \in Issued : Elapse(t)) \/ UNCHANGED vars
    BY <1>15 DEF Elapse, vars, Prepared, Unset, AuthorizedHasCredentials
  <1>. QED
    BY <1>1, <1>2, <1>3, <1>4, <1>5, <1>6, <1>7, <1>8, <1>9, <1>10, <1>11, <1>12, <1>13, <1>14, <1>15
    DEF Next, Application

LEMMA ApplicationPrepared == Spec => [](Prepared /\ Unset /\ AuthorizedHasCredentials)
  <1>1. Init => Prepared /\ Unset /\ AuthorizedHasCredentials
    BY DEF Init, New, Prepared, Unset, AuthorizedHasCredentials
  <1>. QED  BY <1>1, ApplicationSteps, IssuedTyping, PTL DEF Spec, Typed

\* Whatever order of calls, errors and dropped calls leads there: an application that saw no error
\* and is authorized has the manager of its server, a client id and credentials, never the
\* placeholder or a manager that lost them.
THEOREM AuthorizedMeansUsable == Spec => []AuthorizedHasCredentials
  <1>. QED  BY ApplicationPrepared, PTL

\* ---- the codes
LEMMA CodesSteps ==
    ASSUME Typed, CodesHaveTokens, [Next]_vars
    PROVE  CodesHaveTokens'
  <1>. USE NoneIsNone
  <1>1. CASE OauthAuthorize \/ OauthReject \/ CallbackHandler
    BY <1>1 DEF OauthAuthorize, OauthReject, CallbackHandler, CodesHaveTokens
  <1>2. CASE CreateAuthSession
    <2>1. PICK x \in [client : Clients, token : BOOLEAN] : sessions' = Append(sessions, x)
      BY <1>2 DEF CreateAuthSession, Typed, TypeOK
    <2>2. /\ DOMAIN sessions = 1 .. Len(sessions) /\ Len(sessions) \in Nat
          /\ Len(sessions') = Len(sessions) + 1 /\ DOMAIN sessions' = 1 .. Len(sessions')
          /\ \A k \in DOMAIN sessions : sessions'[k] = sessions[k]
      BY <2>1, AppendProperties, LenProperties DEF Typed, TypeOK
    <2>. QED  BY <1>2, <2>2 DEF CreateAuthSession, CodesHaveTokens
  <1>3. CASE OauthApprove
    BY <1>3 DEF OauthApprove, UpdateAuthSessionToken, CodesHaveTokens, Typed, TypeOK
  <1>4. CASE Application
    <2>1. UNCHANGED <<sessions, user>>
      BY <1>4 DEF Application, StartAuthorization, SetCredentials, Discover, DiscoverFails, Register,
                  RegisterFails, HandleCallback, Exchange, ExchangeFails, CompleteAuthorization,
                  ToAuthorizedHttpClient, IntoAuthorizationManager, Rest
    <2>. QED  BY <2>1 DEF CodesHaveTokens
  <1>5. CASE \/ \E w \in Workers : Task(w)
             \/ \E t \in Issued : Elapse(t)
             \/ UNCHANGED vars
    BY <1>5, TasksKeepTheRest DEF Elapse, vars, CodesHaveTokens
  <1>. QED  BY <1>1, <1>2, <1>3, <1>4, <1>5 DEF Next, Browser

\* A code reaches the exchange only after the session it belongs to has its token, and with a client
\* the server knows, for any number of approvals whose callbacks cross.
THEOREM ExchangesMeetServer == Spec => []ExchangeMeetsServer
  <1>1. Init => CodesHaveTokens
    BY NoneIsNone DEF Init, CodesHaveTokens
  <1>2. Spec => []CodesHaveTokens
    BY <1>1, CodesSteps, IssuedTyping, PTL DEF Spec, Typed
  <1>3. CodesHaveTokens /\ Prepared => ExchangeMeetsServer
    BY DEF CodesHaveTokens, Prepared, ExchangeMeetsServer, Redeemable
  <1>. QED  BY <1>2, <1>3, ApplicationPrepared, PTL

\* ---- the refresh
\* The application acts while no task does, and leaves credentials whose refresh token is used only
\* where no expiry would have them refreshed.  What it has handed to AuthClient is beyond it.
LEMMA ApplicationWaits ==
    ASSUME Typed, Prepared, Unset, SpentCredentials, Application
    PROVE  /\ UNCHANGED <<tasks, spent, orphaned>> /\ mode # "Owned"
           /\ \A w \in Workers : pc[w] = "idle"
           /\ SpentCredentials'
           /\ \A t \in Issued : Timed(t)' = Timed(t)
           /\ mode' = "Owned" => IntoAuthorizationManager
  <1>. USE NoneIsNone DEF Ready, Usable, Rest
  <1>0. mgr \in Managers /\ spent \subseteq Issued /\ pc \in [Workers -> Pcs]
    BY DEF Typed, TypeOK, Managers, Pcs
  <1>1. /\ UNCHANGED <<tasks, spent, orphaned>> /\ mode # "Owned"
        /\ \A w \in Workers : pc[w] = "idle"
        /\ mode' = "Owned" => IntoAuthorizationManager
    BY DEF Application, StartAuthorization, SetCredentials, Discover, DiscoverFails, Register,
           RegisterFails, HandleCallback, Exchange, ExchangeFails, CompleteAuthorization,
           ToAuthorizedHttpClient, IntoAuthorizationManager, Prepared, Lose, Refuse, BeginSession,
           CallbackError
  <1>2. \/ mgr'.creds = mgr.creds /\ mgr'.expires = mgr.expires /\ UNCHANGED token
        \/ mgr'.creds = None /\ UNCHANGED token
        \/ \E t \in Issued : SetCredentials(t)
        \/ \E a \in Answers : Exchange(a)
        \/ UNCHANGED mgr /\ \E a \in Answers : CreateToken(a)
    <2>. DEFINE Kept == mgr'.creds = mgr.creds /\ mgr'.expires = mgr.expires /\ UNCHANGED token
    <2>1. ASSUME NEW m \in {"found", "default"}, Discover(m)
          PROVE  Kept
      BY <1>0, <2>1 DEF Discover, Managers
    <2>2. CASE Register \/ RegisterFails \/ HandleCallback
      BY <1>0, <2>2 DEF Register, RegisterFails, HandleCallback, BeginSession, Refuse, Managers
    <2>3. CASE \/ StartAuthorization \/ DiscoverFails \/ CompleteAuthorization
               \/ ToAuthorizedHttpClient \/ IntoAuthorizationManager
      BY <2>3 DEF StartAuthorization, DiscoverFails, CompleteAuthorization,
                  ToAuthorizedHttpClient, IntoAuthorizationManager, Lose, Placeholder, New
    <2>4. CASE ExchangeFails
      BY <2>4 DEF ExchangeFails, CallbackError, Refuse
    <2>. QED  BY <2>1, <2>2, <2>3, <2>4 DEF Application
  <1>3. SpentCredentials'
    <2>1. CASE mgr'.creds = mgr.creds /\ mgr'.expires = mgr.expires
      BY <1>1, <2>1 DEF SpentCredentials
    <2>2. CASE mgr'.creds = None
      BY <2>2 DEF SpentCredentials
    <2>3. ASSUME NEW t \in Issued, SetCredentials(t)
          PROVE  SpentCredentials'
      BY <1>0, <1>1, <2>3 DEF SetCredentials, Refuse, Managers, SpentCredentials, Unset
    <2>4. ASSUME NEW a \in Answers, Exchange(a)
          PROVE  SpentCredentials'
      <3>1. Len(token') \notin Issued
        BY <2>4, TokenCreated DEF Exchange, Typed, TypeOK
      <3>. QED  BY <1>0, <1>1, <2>4, <3>1 DEF Exchange, Managers, SpentCredentials
    <2>. QED  BY <1>2, <2>1, <2>2, <2>3, <2>4
  <1>4. \A t \in Issued : Timed(t)' = Timed(t)
    <2>1. ASSUME NEW a \in Answers, CreateToken(a)
          PROVE  \A t \in Issued : Timed(t)' = Timed(t)
      BY <2>1, TokenCreated DEF Timed, Typed, TypeOK
    <2>. QED  BY <1>2, <2>1 DEF Timed, SetCredentials, Exchange, Rest
  <1>. QED  BY <1>1, <1>3, <1>4

\* What is issued keeps its lifetime, and what is spent stays spent.
LEMMA TasksOnlyAdd ==
    ASSUME Typed, NEW w \in Workers, Task(w)
    PROVE  /\ \A t \in Issued : Timed(t)' = Timed(t)
           /\ spent \subseteq spent' /\ orphaned \subseteq orphaned'
           /\ \A v \in Workers \ {w} :
                  want'[v] = want[v] /\ got'[v] = got[v] /\ answer'[v] = answer[v]
  <1>. USE DEF Goto, Return, Keep
  <1>1. {want, got, answer} \subseteq [Workers -> Tokens \cup {None}]
    BY DEF Typed, TypeOK
  <1>2. \A v \in Workers \ {w} : want'[v] = want[v] /\ got'[v] = got[v] /\ answer'[v] = answer[v]
    BY <1>1 DEF Task, Call, Refresh, Locked, Check, RefreshToken, RefreshFails, Granted,
                StoreCredentials, StoreExpiry
  <1>3. \/ UNCHANGED issue
        \/ (\E a \in Answers : Grant(w, a)) /\ (UNCHANGED orphaned \/ orphaned' = orphaned \cup {want[w]})
    BY DEF Task, Call, Refresh, Locked, Check, RefreshToken, RefreshFails, Granted,
           StoreCredentials, StoreExpiry
  <1>4. ASSUME NEW a \in Answers, CreateToken(a)
        PROVE  \A t \in Issued : Timed(t)' = Timed(t)
    BY <1>4, TokenCreated DEF Timed, Typed, TypeOK
  <1>. QED  BY <1>2, <1>3, <1>4 DEF Grant, Timed

LEMMA GrantSteps ==
    ASSUME Typed, Prepared, Unset, OneGrant, SpentCredentials, [Next]_vars
    PROVE  OneGrant' /\ SpentCredentials'
  <1>. USE NoneIsNone
  <1>0. /\ mgr \in Managers /\ spent \subseteq Issued /\ pc \in [Workers -> Pcs]
        /\ {want, got, answer} \subseteq [Workers -> Tokens \cup {None}]
        /\ mgr.creds \in Issued \cup {None}
    BY DEF Typed, TypeOK, IssuedOnly, Managers, Pcs
  <1>1. CASE Application
    BY <1>1, ApplicationWaits DEF OneGrant
  <1>2. CASE Browser \/ (\E t \in Issued : Elapse(t)) \/ UNCHANGED vars
    <2>1. UNCHANGED <<mgr, tasks, spent, orphaned>>
      BY <1>2 DEF Browser, OauthAuthorize, OauthReject, CreateAuthSession, OauthApprove,
                  CallbackHandler, Browse, Elapse, vars
    <2>. QED  BY <2>1 DEF OneGrant, SpentCredentials
  <1>3. ASSUME NEW w \in Workers, Call(w) \/ Refresh(w) \/ Locked(w) \/ Check(w)
        PROVE  OneGrant' /\ SpentCredentials'
    BY <1>0, <1>3
    DEF Call, Refresh, Locked, Check, Goto, Return, OneGrant, SpentCredentials
  <1>4. ASSUME NEW w \in Workers, RefreshToken(w)
        PROVE  OneGrant' /\ SpentCredentials'
    BY <1>0, <1>4 DEF RefreshToken, Goto, Return, OneGrant, SpentCredentials
  <1>5. ASSUME NEW w \in Workers, NEW a \in Answers, Grant(w, a), pc[w] = "asking"
        PROVE  /\ want[w] = mgr.creds /\ want[w] \notin spent /\ want[w] \in Issued
               /\ \A v \in Workers : pc[v] # "granted"
               /\ Len(token') \notin Issued /\ spent' = spent \cup {want[w]}
    BY <1>0, <1>5, TokenCreated DEF Grant, OneGrant, Typed, TypeOK, HasWhatItNeeds
  <1>6. ASSUME NEW w \in Workers, NEW a \in Answers, Granted(w, a)
        PROVE  OneGrant' /\ SpentCredentials'
    <2>1. /\ Grant(w, a) /\ pc[w] = "asking" /\ UNCHANGED <<state, orphaned, want, answer>>
          /\ got' = [got EXCEPT ![w] = Len(token')] /\ pc' = [pc EXCEPT ![w] = "granted"]
      BY <1>6 DEF Granted, Goto
    <2>2. /\ want[w] = mgr.creds /\ want[w] \notin spent /\ want[w] \in Issued
          /\ \A v \in Workers : pc[v] # "granted"
          /\ Len(token') \notin Issued /\ spent' = spent \cup {want[w]}
      BY <1>5, <2>1
    <2>3. /\ pc'[w] = "granted" /\ got'[w] = Len(token')
          /\ \A v \in Workers \ {w} : pc'[v] = pc[v] /\ got'[v] = got[v]
      BY <1>0, <2>1
    <2>. QED  BY <1>0, <2>1, <2>2, <2>3 DEF OneGrant, SpentCredentials
  <1>7. ASSUME NEW w \in Workers, RefreshFails(w)
        PROVE  OneGrant' /\ SpentCredentials'
    <2>1. /\ pc[w] = "asking" /\ UNCHANGED state
          /\ pc' = [pc EXCEPT ![w] = "idle"] /\ want' = [want EXCEPT ![w] = None]
          /\ got' = [got EXCEPT ![w] = None]
          /\ \/ UNCHANGED issue
             \/ (\E a \in Answers : Grant(w, a)) /\ orphaned' = orphaned \cup {want[w]}
      BY <1>7 DEF RefreshFails, Return, Goto
    <2>2. CASE UNCHANGED issue
      BY <1>0, <2>1, <2>2 DEF OneGrant, SpentCredentials
    <2>3. CASE (\E a \in Answers : Grant(w, a)) /\ orphaned' = orphaned \cup {want[w]}
      <3>1. /\ want[w] = mgr.creds /\ want[w] \notin spent
            /\ \A v \in Workers : pc[v] # "granted"
            /\ spent' = spent \cup {want[w]}
        BY <1>5, <2>1, <2>3
      <3>. QED  BY <1>0, <2>1, <2>3, <3>1 DEF OneGrant, SpentCredentials
    <2>. QED  BY <2>1, <2>2, <2>3
  <1>8. ASSUME NEW w \in Workers, StoreCredentials(w)
        PROVE  OneGrant' /\ SpentCredentials'
    <2>1. /\ mgr'.creds = got[w] /\ UNCHANGED <<issue, want, got>> /\ pc[w] = "granted"
          /\ pc' = [pc EXCEPT ![w] = "stored"]
          /\ got[w] \notin spent /\ want[w] = mgr.creds /\ want[w] \in spent
      BY <1>0, <1>8 DEF StoreCredentials, Goto, OneGrant, Managers
    <2>2. \A v \in Workers \ {w} : pc[v] # "granted"
      BY <2>1 DEF OneGrant
    <2>. QED  BY <1>0, <2>1, <2>2 DEF OneGrant, SpentCredentials
  <1>9. ASSUME NEW w \in Workers, StoreExpiry(w)
        PROVE  OneGrant' /\ SpentCredentials'
    <2>1. /\ mgr'.creds = mgr.creds /\ UNCHANGED issue /\ pc[w] = "stored"
          /\ pc' = [pc EXCEPT ![w] = "idle"] /\ want' = [want EXCEPT ![w] = None]
          /\ got' = [got EXCEPT ![w] = None]
      BY <1>0, <1>9 DEF StoreExpiry, Return, Goto, Managers
    <2>. QED  BY <1>0, <2>1 DEF OneGrant, SpentCredentials
  <1>. QED
    BY <1>1, <1>2, <1>3, <1>4, <1>6, <1>7, <1>8, <1>9 DEF Next, Task

LEMMA GrantsKept == Spec => [](OneGrant /\ SpentCredentials)
  <1>1. Init => OneGrant /\ SpentCredentials
    BY DEF Init, New, OneGrant, SpentCredentials
  <1>. QED  BY <1>1, GrantSteps, IssuedTyping, ApplicationPrepared, PTL DEF Spec, Typed

\* ---- the mutex of AuthClient
\* What a task does to the lock and where it goes, once AuthClient owns the manager.
LEMMA TaskAndLock ==
    ASSUME Typed, NEW w \in Workers, Task(w), mode = "Owned", Exclusive
    PROVE  /\ pc[w] \notin {"idle", "entering"} => lock = w
           /\ pc'[w] \notin {"idle", "entering"} => lock' = w
           /\ pc[w] # "idle" => pc[w] = "entering" \/ \A v \in Workers \ {w} : pc[v] \in {"idle", "entering"}
           /\ pc'[w] = "refreshing" => pc[w] = "checking" /\ mgr.expires # None /\ UNCHANGED mgr
           /\ \/ UNCHANGED lock /\ pc[w] = "idle"
              \/ lock = None /\ pc[w] = "entering"
              \/ lock = w /\ pc[w] \notin {"idle", "entering"}
  <1>. USE NoneIsNone DEF Goto, Return, Release
  <1>1. pc \in [Workers -> Pcs]
    BY DEF Typed, TypeOK, Pcs
  <1>. QED
    BY <1>1 DEF Task, Call, Refresh, Locked, Enter, Check, Expired, RefreshToken, RefreshFails, Granted,
                StoreCredentials, StoreExpiry, Exclusive, Calling

\* What the mutex protects.
Owned == Exclusive /\ ExpiryLed /\ StoredIsHeld /\ Paired /\ SerialRefresh

LEMMA OwnedSteps ==
    ASSUME Typed, Prepared, Unset, OneGrant, SpentCredentials, Owned, [Next]_vars
    PROVE  Owned'
  <1>. USE NoneIsNone
  <1>0. /\ mgr \in Managers /\ spent \subseteq Issued /\ pc \in [Workers -> Pcs]
        /\ {want, got, answer} \subseteq [Workers -> Tokens \cup {None}]
        /\ mgr.creds \in Issued \cup {None}
    BY DEF Typed, TypeOK, IssuedOnly, Managers, Pcs
  <1>1. CASE Application
    <2>1. CASE mode' # "Owned"
      BY <2>1 DEF Owned, Exclusive, ExpiryLed, StoredIsHeld, Paired, SerialRefresh
    <2>2. CASE IntoAuthorizationManager
      <3>1. UNCHANGED <<mgr, tasks, token>> /\ \A w \in Workers : pc[w] = "idle"
        BY <1>1, <2>2, ApplicationWaits DEF IntoAuthorizationManager, Rest
      <3>. QED
        BY <2>2, <3>1 DEF IntoAuthorizationManager, Timed, Owned, Exclusive, ExpiryLed, StoredIsHeld,
                          Paired, SerialRefresh
    <2>. QED  BY <1>1, <2>1, <2>2, ApplicationWaits
  <1>2. CASE Browser \/ (\E t \in Issued : Elapse(t)) \/ UNCHANGED vars
    <2>1. UNCHANGED <<state, issue, tasks>>
      BY <1>2 DEF Browser, OauthAuthorize, OauthReject, CreateAuthSession, OauthApprove,
                  CallbackHandler, Browse, Elapse, vars
    <2>. QED
      BY <2>1 DEF Owned, Exclusive, ExpiryLed, StoredIsHeld, Paired, SerialRefresh, Timed
  <1>3. ASSUME NEW w \in Workers, Task(w), mode # "Owned"
        PROVE  Owned'
    BY <1>3, TasksKeepTheRest DEF Owned, Exclusive, ExpiryLed, StoredIsHeld, Paired, SerialRefresh
  <1>4. ASSUME NEW w \in Workers, Task(w), mode = "Owned"
        PROVE  Owned'
    <2>0. Exclusive /\ ExpiryLed /\ StoredIsHeld /\ Paired /\ SerialRefresh
      BY DEF Owned
    <2>1. /\ UNCHANGED <<mode, unpaired>>
          /\ \A v \in Workers \ {w} : /\ pc'[v] = pc[v] /\ want'[v] = want[v] /\ got'[v] = got[v]
          /\ pc[w] \notin {"granted", "stored"} => UNCHANGED mgr
          /\ \A t \in Issued : Timed(t)' = Timed(t)
          /\ spent \subseteq spent' /\ orphaned \subseteq orphaned'
      BY <1>4, TasksKeepTheRest, TasksOnlyAdd
    <2>2. /\ pc[w] \notin {"idle", "entering"} => lock = w
          /\ pc'[w] \notin {"idle", "entering"} => lock' = w
          /\ pc'[w] = "refreshing" => pc[w] = "checking" /\ mgr.expires # None /\ UNCHANGED mgr
          /\ \/ UNCHANGED lock /\ pc[w] = "idle"
             \/ lock = None /\ pc[w] = "entering"
             \/ lock = w /\ pc[w] \notin {"idle", "entering"}
      BY <1>4, <2>0, TaskAndLock
    \* While a task is beyond the mutex no other one is.
    <2>3. pc[w] \notin {"idle", "entering"}
            => \A v \in Workers \ {w} : pc[v] \in {"idle", "entering"} /\ pc'[v] = pc[v]
      BY <1>4, <2>0, <2>1, <2>2 DEF Exclusive
    <2>4. Exclusive'
      BY <1>0, <1>4, <2>0, <2>1, <2>2 DEF Exclusive
    <2>5. ExpiryLed'
      BY <1>4, <2>0, <2>1, <2>2, <2>3 DEF ExpiryLed
    <2>6. CASE pc[w] \notin {"granted", "stored"}
      <3>1. UNCHANGED mgr /\ pc'[w] # "stored"
        BY <1>0, <1>4, <2>1, <2>6
        DEF Task, Call, Refresh, Locked, Check, RefreshToken, Granted, RefreshFails, StoreCredentials,
            StoreExpiry, Goto, Return
      <3>2. StoredIsHeld' /\ Paired'
        BY <1>0, <1>4, <2>0, <2>1, <2>6, <3>1 DEF StoredIsHeld, Paired
      <3>3. UNCHANGED <<spent, orphaned>> \/ pc[w] = "asking"
        BY <1>4, <2>6
        DEF Task, Call, Refresh, Locked, Check, RefreshToken, Granted, RefreshFails, StoreCredentials,
            StoreExpiry, Goto, Return
      <3>4. SerialRefresh'
        <4>. SUFFICES ASSUME NEW v \in Workers, pc'[v] = "asking", want'[v] \in spent'
                      PROVE  want'[v] \in orphaned'
          BY DEF SerialRefresh
        <4>1. CASE v # w
          BY <1>4, <2>0, <2>1, <2>3, <3>3, <4>1 DEF SerialRefresh
        <4>2. CASE v = w
          <5>1. pc[w] = "refreshing" /\ want'[w] = mgr.creds /\ mgr.creds # None /\ UNCHANGED issue
            BY <1>0, <1>4, <2>6, <4>2
            DEF Task, Call, Refresh, Locked, Check, RefreshToken, Granted, RefreshFails, Refreshable,
                StoreCredentials, StoreExpiry, Goto, Return
          <5>2. mgr.expires # None /\ \A u \in Workers : pc[u] # "granted"
            BY <1>4, <2>0, <2>3, <5>1 DEF ExpiryLed
          <5>. QED  BY <4>2, <5>1, <5>2 DEF SpentCredentials
        <4>. QED  BY <4>1, <4>2
      <3>. QED  BY <2>4, <2>5, <3>2, <3>4 DEF Owned
    <2>7. CASE StoreCredentials(w)
      <3>1. /\ mgr'.creds = got[w] /\ UNCHANGED <<got, want, spent, orphaned>>
            /\ pc[w] = "granted" /\ pc'[w] = "stored"
        BY <1>0, <2>7 DEF StoreCredentials, Goto, Managers
      <3>2. StoredIsHeld' /\ Paired' /\ SerialRefresh'
        BY <1>4, <2>0, <2>3, <3>1 DEF StoredIsHeld, Paired, SerialRefresh
      <3>. QED  BY <2>4, <2>5, <3>2 DEF Owned
    <2>8. CASE StoreExpiry(w)
      <3>1. /\ mgr'.creds = mgr.creds /\ UNCHANGED <<token, spent, orphaned>>
            /\ mgr'.expires = IF Timed(got[w]) THEN got[w] ELSE mgr.expires
            /\ pc[w] = "stored" /\ pc'[w] = "idle"
        BY <1>0, <2>8 DEF StoreExpiry, Return, Goto, Managers
      <3>2. mgr.creds = got[w]
        BY <1>4, <2>0, <3>1 DEF StoredIsHeld
      <3>3. StoredIsHeld' /\ SerialRefresh'
        BY <1>4, <2>0, <2>3, <3>1 DEF StoredIsHeld, SerialRefresh
      <3>4. Paired'
        BY <1>4, <3>1, <3>2 DEF Paired, Timed
      <3>. QED  BY <2>4, <2>5, <3>3, <3>4 DEF Owned
    <2>. QED
      BY <1>4, <2>6, <2>7, <2>8
      DEF Task, Call, Refresh, Locked, Check, RefreshToken, Granted, RefreshFails
  <1>. QED
    BY <1>1, <1>2, <1>3, <1>4 DEF Next

LEMMA OwnedKept == Spec => []Owned
  <1>1. Init => Owned
    BY DEF Init, Owned, Exclusive, ExpiryLed, StoredIsHeld, Paired, SerialRefresh
  <1>. QED  BY <1>1, OwnedSteps, IssuedTyping, ApplicationPrepared, GrantsKept, PTL DEF Spec, Typed

\* Through AuthClient a refresh token is presented once, unless the answer to it was lost, for any
\* number of tasks and whatever the application did before: refreshes of the OAuthState that run
\* beside each other, tokens of an earlier run, a state that was lost and set up again.
THEOREM RefreshesAreSerial == Spec => []SerialRefresh
  <1>. QED  BY OwnedKept, PTL DEF Owned

\* Through AuthClient no call answers with held credentials that have an expiry and are past it, for
\* any number of tasks.
THEOREM AnswersAreNotExpired == Spec => ReturnsNoExpiredToken
  <1>1. ASSUME Typed, Owned, [Next]_vars
        PROVE  [mode = "Owned" /\ ~unpaired =>
                    \A w \in Workers :
                        pc[w] = "checking" /\ answer'[w] # None =>
                            ~(Timed(answer'[w]) /\ answer'[w] \in elapsed)]_vars
    <2>. SUFFICES ASSUME Next, mode = "Owned", ~unpaired, NEW w \in Workers, pc[w] = "checking",
                         answer'[w] # None
                  PROVE  ~(Timed(answer'[w]) /\ answer'[w] \in elapsed)
      BY <1>1 DEF vars
    <2>0. /\ answer[w] = None /\ {want, got, answer} \subseteq [Workers -> Tokens \cup {None}]
          /\ pc \in [Workers -> Pcs]
      BY <1>1 DEF Typed, TypeOK, HasWhatItNeeds, Pcs
    <2>1. answer'[w] # answer[w]
      BY <2>0
    <2>2. PICK v \in Workers : Task(v)
      BY <2>1 DEF Next, Application, StartAuthorization, SetCredentials, Discover, DiscoverFails, Register,
                  RegisterFails, HandleCallback, Exchange, ExchangeFails, CompleteAuthorization,
                  ToAuthorizedHttpClient, IntoAuthorizationManager, Rest, Browser, OauthAuthorize,
                  OauthReject, CreateAuthSession, OauthApprove, CallbackHandler, Browse, Elapse
    <2>3. v = w
      BY <1>1, <2>1, <2>2, TasksOnlyAdd
    <2>4. mgr.creds # None /\ ~Expired /\ answer'[w] = mgr.creds
      BY <2>0, <2>2, <2>3
      DEF Task, Call, Refresh, Locked, Check, RefreshToken, Granted, RefreshFails, StoreCredentials,
          StoreExpiry, Goto, Return
    <2>5. \A u \in Workers : pc[u] # "stored"
      BY <1>1 DEF Owned, Exclusive
    <2>6. Timed(mgr.creds) => mgr.expires = mgr.creds
      BY <1>1, <2>4, <2>5 DEF Owned, Paired
    <2>. QED  BY <2>4, <2>6 DEF Expired
  <1>. QED
    BY <1>1, OwnedKept, IssuedTyping, PTL DEF Spec, Typed, ReturnsNoExpiredToken
=============================================================================
