-------------------------- MODULE AccountServiceProofs -------------------------
(***************************************************************************)
(* Theorems about AccountService, for any servers, users, keys and tokens: *)
(* between two commands no half of a change is there alone, a token that   *)
(* was left does not come back, and one that is there goes only for a      *)
(* reason.                                                                 *)
(*                                                                         *)
(* The invariant says what the command under way has in hand - the token   *)
(* of the settings, or one nobody has yet - and which places have still to *)
(* follow it; all others have followed, or a command that failed is known  *)
(* to have kept them from it.                                              *)
(***************************************************************************)
EXTENDS AccountService, TLAPS

(* The invariant *)

Ops == {"login", "logout", "status", "quota", "set"}
Places == {"asking", "welcome", "goodbye", "refresh", "tell"}
Asked == [op : Ops, at : Places, url : Urls, token : {NoToken} \cup Tokens, user : Users \cup {NoUser}]
Rows == [Tokens -> [state : {"none", "live", "revoked", "dead"}, url : Urls, user : Users \cup {NoUser}]]
Types == TypeOK /\ tokens \in Rows /\ call \in Asked \cup {Idle}

Issued(t) == t \in Tokens /\ tokens[t].state # "none"
Named(s) == s.email = IF LoggedIn(s) THEN tokens[s.token].user ELSE NoUser

\* Of the tokens that are kept: they were issued, they go with the name of their
\* user, and nobody has left them.
StoredHold ==
    /\ \A s \in {settings, file} : (LoggedIn(s) => Issued(s.token)) /\ Named(s)
    /\ \A t \in dismissed : Issued(t)
    /\ LogoutSticks

Before == {"asking", "welcome", "goodbye"}
After == {"refresh", "tell"}
\* Of the command under way: it asks about the token of the settings, it brings
\* one nobody has yet, or it has a reason to clear the one it has asked about.
InHand ==
    /\ call.at \in Before /\ call.op \in {"logout", "status", "quota"} =>
         LoggedIn(settings) /\ call.token = settings.token
    /\ call.at = "welcome" =>
         call.op \in {"login", "status"} /\ Issued(call.token) /\ call.user = tokens[call.token].user
    /\ call.at = "welcome" /\ call.op = "login" =>
         call.token \notin left \cup {settings.token, file.token}
    /\ call.at = "goodbye" => call.op \in {"logout", "status", "quota"}
    /\ call.at = "goodbye" \/ call.op = "logout" => call.token \in dismissed
    /\ call.at \in After /\ call.op = "logout" => call.token \notin {settings.token, file.token}

\* Of the places that follow.
HalvesHold ==
    /\ "file" \notin behind => file = settings
    /\ "service" \notin behind /\ call.at # "refresh" => service = Effective(settings)
    /\ "gui" \notin behind /\ (call.op = "set" \/ call.at \notin After) => gui = LoggedIn(settings)
    /\ call.op # "set" /\ call.at \in After => (call.op = "login") = LoggedIn(settings)

IInv == Types /\ StoredHold /\ InHand /\ HalvesHold
------------------------------------------------------------------------------
(* The steps *)

LEMMA InitIInv == Init => IInv
  <1>. SUFFICES ASSUME Init PROVE IInv
    OBVIOUS
  <1>1. settings \in Settings /\ settings.token = NoToken /\ settings.email = NoUser /\ file = settings
    BY DEF Init, Settings, NoToken
  <1>2. Types
    <2>1. tokens \in Rows
      BY <1>1 DEF Init, Rows, Settings
    <2>2. gui \in BOOLEAN
      BY DEF Init
    <2>3. ops \in 0..MaxOps
      BY BoundAssumption DEF Init
    <2>. QED  BY <1>1, <2>1, <2>2, <2>3 DEF Init, Types, TypeOK
  <1>3. StoredHold
    BY <1>1 DEF Init, StoredHold, LogoutSticks, Named, LoggedIn
  <1>4. InHand
    BY DEF Init, InHand, Idle, Before, After
  <1>5. HalvesHold
    <2>1. service = Effective(settings) /\ gui = LoggedIn(settings)
      BY <1>1 DEF Init, LoggedIn
    <2>. QED  BY <1>1, <2>1 DEF Init, HalvesHold, Idle, After
  <1>. QED  BY <1>2, <1>3, <1>4, <1>5 DEF IInv

\* What a command asks for and how it goes on is a command.
LEMMA AskingType ==
    ASSUME Types, NEW op \in Ops, NEW t \in {NoToken} \cup Tokens, NEW u \in Users \cup {NoUser}
    PROVE  Asking(op, t, u) \in Asked /\ [Asking(op, t, u) EXCEPT !.at = "refresh"] \in Asked
  BY DEF Types, TypeOK, Settings, Asking, Asked, Places

LEMMA AtWork ==
    ASSUME Types, call.at # "none"
    PROVE  /\ call \in Asked
           /\ \A at \in Places : [call EXCEPT !.at = at] \in Asked
           /\ \A t \in Tokens : [call EXCEPT !.at = "welcome", !.token = t] \in Asked
           /\ \A u \in Users \cup {NoUser} : [call EXCEPT !.at = "welcome", !.user = u] \in Asked
  <1>1. call \in Asked
    BY DEF Types, Idle
  <1>. QED  BY <1>1 DEF Asked, Places

LEMMA SavesType ==
    ASSUME Types, NEW s \in Settings, NEW followers \in SUBSET {"service", "gui"},
           NEW next \in Asked \cup {Idle}, Saves(s, followers, next)
    PROVE  /\ settings' \in Settings /\ file' \in Settings /\ gui' \in BOOLEAN
           /\ behind' \subseteq {"file", "service", "gui"} /\ call' \in Asked \cup {Idle}
  BY DEF Types, TypeOK, Saves

LEMMA ChangedType ==
    ASSUME Types
    PROVE  /\ LoggedOut \in Settings
           /\ \A t \in Tokens, u \in Users \cup {NoUser} :
                [settings EXCEPT !.token = t, !.email = u] \in Settings
           /\ \A u \in Users \cup {NoUser} : [settings EXCEPT !.email = u] \in Settings
           /\ \A url \in Urls, key \in Keys : [settings EXCEPT !.url = url, !.key = key] \in Settings
           /\ \A key \in Keys : [settings EXCEPT !.key = key] \in Settings
  BY DEF Types, TypeOK, Settings, LoggedOut

------------------------------------------------------------------------------
LEMMA NextTypes == Types /\ StoredHold /\ InHand /\ [Next]_vars => Types'
  <1>. SUFFICES ASSUME Types, StoredHold, InHand, [Next]_vars PROVE Types'
    OBVIOUS
  <1>. USE DEF Types, TypeOK
  <1>0. ops < MaxOps /\ ops' = ops + 1 => ops' \in 0..MaxOps
    BY BoundAssumption
  <1>1. CASE Issue
    <2>1. PICK t \in Tokens :
            /\ tokens' = [tokens EXCEPT ![t] = [state |-> "live", url |-> call.url, user |-> call.user]]
            /\ \/ call' = [call EXCEPT !.at = "welcome", !.token = t]
               \/ call' = Idle
      BY <1>1 DEF Issue
    <2>2. call' \in Asked \cup {Idle}
      <3>1. [call EXCEPT !.at = "welcome", !.token = t] \in Asked
        BY <1>1, AtWork DEF Issue
      <3>. QED  BY <2>1, <3>1
    <2>3. call \in Asked
      BY <1>1, AtWork DEF Issue
    <2>4. tokens' \in Rows
      BY <2>1, <2>3 DEF Asked, Rows
    <2>. QED  BY <1>1, <2>2, <2>4 DEF Issue, clientVars
  <1>2. CASE Revoke
    <2>1. call' \in Asked
      BY <1>2, AtWork DEF Revoke, Moves, Places
    <2>2. tokens' \in Rows
      BY <1>2 DEF Revoke, Usable, Rows
    <2>. QED  BY <1>2, <2>1, <2>2 DEF Revoke, clientVars
  <1>3. CASE Answer
    <2>1. call \in Asked
      BY <1>3, AtWork DEF Answer
    <2>2. call.token \in Tokens
      BY <1>3, <2>1 DEF Answer, InHand, Before, LoggedIn, Asked
    <2>3. tokens[call.token].user \in Users \cup {NoUser}
      BY <2>2 DEF Rows
    <2>4. call' \in Asked \cup {Idle}
      BY <1>3, <2>3, AtWork DEF Answer, Moves, Places
    <2>. QED  BY <1>3, <2>2, <2>4 DEF Answer, clientVars
  <1>4. CASE Lost
    BY <1>4 DEF Lost, clientVars
  <1>5. CASE StoreIdentity
    <2>1. call.token \in Tokens /\ call.user \in Users \cup {NoUser}
      BY <1>5, AtWork DEF StoreIdentity, InHand, Issued, Asked
    <2>2. Announcing \in Asked /\ Followers \in SUBSET {"service", "gui"}
      BY <1>5, AtWork DEF StoreIdentity, Announcing, Places, Followers
    <2>. QED  BY <1>5, <2>1, <2>2, ChangedType, SavesType DEF StoreIdentity
  <1>6. CASE StoreIdentityFields
    <2>1. call.user \in Users \cup {NoUser}
      BY <1>6, AtWork DEF StoreIdentityFields, Asked
    <2>. QED  BY <1>6, <2>1, ChangedType, SavesType DEF StoreIdentityFields
  <1>7. CASE ClearIdentity
    <2>1. Announcing \in Asked /\ Followers \in SUBSET {"service", "gui"}
      BY <1>7, AtWork DEF ClearIdentity, Announcing, Places, Followers
    <2>. QED  BY <1>7, <2>1, ChangedType, SavesType DEF ClearIdentity
  <1>8. CASE Refresh
    <2>1. call' \in Asked
      BY <1>8, AtWork DEF Refresh, Moves, Places
    <2>. QED  BY <1>8, <2>1 DEF Refresh
  <1>9. CASE Tell
    <2>1. call.op = "logout" => call.token \in dismissed
      BY DEF InHand
    <2>2. gui' \in BOOLEAN /\ behind' \subseteq behind
      BY <1>9 DEF Tell
    <2>. QED  BY <1>9, <2>1, <2>2 DEF Tell
  <1>10. CASE Logout
    <2>1. settings.token \in Tokens
      BY <1>10 DEF Logout, LoggedIn, Settings
    <2>2. call' \in Asked
      BY <1>10, <2>1, AskingType DEF Logout, Ops
    <2>. QED  BY <1>0, <1>10, <2>1, <2>2 DEF Logout, Starts, clientVars
  <1>11. ASSUME NEW op \in {"status", "quota"}, Query(op) PROVE Types'
    <2>1. settings.token \in Tokens
      BY <1>11 DEF Query, LoggedIn, Settings
    <2>2. call' \in Asked
      BY <1>11, <2>1, AskingType DEF Query, Ops
    <2>. QED  BY <1>0, <1>11, <2>2 DEF Query, Starts, clientVars
  <1>12. ASSUME NEW user \in Users, Login(user) PROVE Types'
    <2>1. call' \in Asked
      BY <1>12, AskingType DEF Login, Ops
    <2>. QED  BY <1>0, <1>12, <2>1 DEF Login, Starts, clientVars
  <1>13. ASSUME NEW url \in Urls, NEW key \in Keys, SetSettings(url, key) PROVE Types'
    <2>1. [Asking("set", NoToken, NoUser) EXCEPT !.at = "refresh"] \in Asked
      BY AskingType DEF Ops
    <2>2. /\ settings' \in Settings /\ file' \in Settings /\ gui' \in BOOLEAN
          /\ behind' \subseteq {"file", "service", "gui"} /\ call' \in Asked \cup {Idle}
      <3>1. CASE Saves([settings EXCEPT !.url = url, !.key = key], {"service"},
                       [Asking("set", NoToken, NoUser) EXCEPT !.at = "refresh"])
        BY <2>1, <3>1, ChangedType, SavesType
      <3>2. CASE /\ settings' = [settings EXCEPT !.key = key]
                 /\ behind' = behind \cup {"file", "service"}
                 /\ UNCHANGED <<file, service, gui, call>>
        BY <3>2, ChangedType
      <3>. QED  BY <1>13, <3>1, <3>2 DEF SetSettings
    <2>. QED  BY <1>0, <1>13, <2>2 DEF SetSettings, Starts
  <1>14. ASSUME NEW t \in Tokens, Expire(t) PROVE Types'
    BY <1>14 DEF Expire, clientVars, Rows
  <1>15. CASE Restart
    <2>1. gui' \in BOOLEAN
      BY <1>15 DEF Restart, LoggedIn
    <2>. QED  BY <1>0, <1>15, <2>1 DEF Restart
  <1>16. CASE UNCHANGED vars
    BY <1>16 DEF vars
  <1>. QED  BY <1>1, <1>2, <1>3, <1>4, <1>5, <1>6, <1>7, <1>8, <1>9, <1>10, <1>11, <1>12, <1>13, <1>14,
               <1>15, <1>16 DEF Next, Advance

------------------------------------------------------------------------------
(* The tokens that are kept *)

\* A row that was issued stays issued, and its user's.
LEMMA RowsStay ==
    Types /\ InHand /\ StoredHold /\ [Next]_vars =>
      \A t : Issued(t) => Issued(t)' /\ tokens'[t].user = tokens[t].user
  <1>. SUFFICES ASSUME Types, InHand, StoredHold, [Next]_vars, NEW t, Issued(t)
                PROVE  Issued(t)' /\ tokens'[t].user = tokens[t].user
    OBVIOUS
  <1>0. t \in Tokens /\ tokens[t].state # "none" /\ tokens \in Rows
    BY DEF Issued, Types
  <1>1. CASE Issue
    <2>1. PICK u \in Tokens :
            /\ tokens[u].state = "none"
            /\ tokens' = [tokens EXCEPT ![u] = [state |-> "live", url |-> call.url, user |-> call.user]]
      BY <1>1 DEF Issue
    <2>. QED  BY <1>0, <2>1 DEF Issued, Rows
  <1>2. CASE Revoke
    BY <1>0, <1>2 DEF Revoke, Issued, Rows
  <1>3. ASSUME NEW u \in Tokens, Expire(u) PROVE Issued(t)' /\ tokens'[t].user = tokens[t].user
    BY <1>0, <1>3 DEF Expire, Issued, Rows
  <1>4. CASE UNCHANGED tokens
    BY <1>0, <1>4 DEF Issued
  <1>5. Answer \/ Lost \/ StoreIdentity \/ StoreIdentityFields \/ ClearIdentity \/ Refresh \/ Tell
        \/ Logout \/ Query("status") \/ Query("quota") \/ Restart \/ UNCHANGED vars => UNCHANGED tokens
    BY DEF Answer, Lost, StoreIdentity, StoreIdentityFields, ClearIdentity, Refresh, Tell, Logout, Query,
           Restart, vars
  <1>6. \A user \in Users : Login(user) => UNCHANGED tokens
    BY DEF Login
  <1>7. \A url \in Urls, key \in Keys : SetSettings(url, key) => UNCHANGED tokens
    BY DEF SetSettings
  <1>. QED  BY <1>1, <1>2, <1>3, <1>4, <1>5, <1>6, <1>7 DEF Next, Advance

\* What is kept stays sound when what is stored is as sound, and nothing new is
\* dismissed or left.
LEMMA StoredStays ==
    ASSUME Types, StoredHold, UNCHANGED <<dismissed, left>>,
           \A t : Issued(t) => Issued(t)' /\ tokens'[t].user = tokens[t].user,
           \A s \in {settings', file'} :
             \/ s \in {settings, file}
             \/ ((LoggedIn(s) => Issued(s.token)) /\ Named(s) /\ s.token \notin left)
    PROVE  StoredHold'
  <1>1. \A s \in {settings', file'} :
          (LoggedIn(s) => Issued(s.token)) /\ Named(s) /\ s.token \notin left
    BY DEF StoredHold, LogoutSticks
  <1>2. \A s \in {settings', file'} : (LoggedIn(s) => Issued(s.token)') /\ Named(s)'
    BY <1>1 DEF Named, LoggedIn
  <1>3. \A t \in dismissed : Issued(t)'
    BY DEF StoredHold
  <1>. QED  BY <1>1, <1>2, <1>3 DEF StoredHold, LogoutSticks

LEMMA NextStored == Types /\ StoredHold /\ InHand /\ [Next]_vars => StoredHold'
  <1>. SUFFICES ASSUME Types, StoredHold, InHand, [Next]_vars PROVE StoredHold'
    OBVIOUS
  <1>0. \A t : Issued(t) => Issued(t)' /\ tokens'[t].user = tokens[t].user
    BY RowsStay
  <1>1. CASE UNCHANGED <<settings, file, dismissed, left>>
    BY <1>0, <1>1, StoredStays
  <1>2. CASE Restart
    BY <1>0, <1>2, StoredStays DEF Restart
  <1>3. CASE StoreIdentity
    <2>. DEFINE s == [settings EXCEPT !.token = call.token, !.email = call.user]
    <2>1. s.token = call.token /\ s.email = call.user
      BY DEF Types, TypeOK, Settings
    <2>2. Issued(call.token) /\ call.user = tokens[call.token].user /\ call.token \notin left
          /\ call.token # NoToken
      BY <1>3 DEF StoreIdentity, InHand, Issued, Tokens, NoToken
    <2>3. (LoggedIn(s) => Issued(s.token)) /\ Named(s) /\ s.token \notin left
      BY <2>1, <2>2 DEF Named, LoggedIn
    <2>4. settings' = s /\ file' \in {file, s} /\ UNCHANGED <<dismissed, left>>
      BY <1>3 DEF StoreIdentity, Saves
    <2>. HIDE DEF s
    <2>. QED  BY <1>0, <2>3, <2>4, StoredStays
  <1>4. CASE StoreIdentityFields
    <2>. DEFINE s == [settings EXCEPT !.email = call.user]
    <2>1. s.token = settings.token /\ s.email = call.user
      BY DEF Types, TypeOK, Settings
    <2>2. LoggedIn(settings) /\ Issued(settings.token) /\ call.user = tokens[settings.token].user
          /\ settings.token \notin left
      BY <1>4 DEF StoreIdentityFields, InHand, Before, StoredHold, LogoutSticks
    <2>3. (LoggedIn(s) => Issued(s.token)) /\ Named(s) /\ s.token \notin left
      BY <2>1, <2>2 DEF Named, LoggedIn
    <2>4. settings' = s /\ file' \in {file, s} /\ UNCHANGED <<dismissed, left>>
      BY <1>4 DEF StoreIdentityFields, Saves
    <2>. HIDE DEF s
    <2>. QED  BY <1>0, <2>3, <2>4, StoredStays
  <1>5. CASE ClearIdentity
    <2>. DEFINE s == LoggedOut
    <2>1. s.token = NoToken /\ s.email = NoUser /\ NoToken \notin left
      BY DEF Types, TypeOK, Settings, LoggedOut, Tokens, NoToken
    <2>2. (LoggedIn(s) => Issued(s.token)) /\ Named(s) /\ s.token \notin left
      BY <2>1 DEF Named, LoggedIn
    <2>3. settings' = s /\ file' \in {file, s} /\ UNCHANGED <<dismissed, left>>
      BY <1>5 DEF ClearIdentity, Saves
    <2>. HIDE DEF s
    <2>. QED  BY <1>0, <2>2, <2>3, StoredStays
  <1>6. ASSUME NEW url \in Urls, NEW key \in Keys, SetSettings(url, key) PROVE StoredHold'
    <2>. DEFINE Patched(s) == s.token = settings.token /\ s.email = settings.email
    <2>1. Patched([settings EXCEPT !.url = url, !.key = key]) /\ Patched([settings EXCEPT !.key = key])
      BY DEF Types, TypeOK, Settings
    <2>2. \A s : Patched(s) => (LoggedIn(s) => Issued(s.token)) /\ Named(s) /\ s.token \notin left
      BY DEF StoredHold, LogoutSticks, Named, LoggedIn
    <2>3. Patched(settings') /\ file' \in {file, settings'} /\ UNCHANGED <<dismissed, left>>
      BY <1>6, <2>1 DEF SetSettings, Saves
    <2>. HIDE DEF Patched
    <2>. QED  BY <1>0, <2>2, <2>3, StoredStays
  <1>7. CASE Tell
    <2>1. UNCHANGED <<settings, file, tokens, dismissed>>
      BY <1>7 DEF Tell
    <2>2. settings.token \notin left' /\ file.token \notin left'
      BY <1>7 DEF Tell, InHand, After, StoredHold, LogoutSticks
    <2>. QED  BY <2>1, <2>2 DEF StoredHold, LogoutSticks, Named, Issued
  <1>8. CASE Logout \/ Answer
    <2>1. UNCHANGED <<settings, file, left, tokens>>
      BY <1>8 DEF Logout, Answer, clientVars
    <2>2. \A t \in dismissed' : Issued(t)
      <3>1. CASE Logout
        BY <3>1 DEF Logout, StoredHold
      <3>2. CASE Answer
        BY <3>2 DEF Answer, StoredHold, InHand, Before
      <3>. QED  BY <1>8, <3>1, <3>2
    <2>. QED  BY <2>1, <2>2 DEF StoredHold, LogoutSticks, Named, Issued
  <1>9. Issue \/ Revoke \/ Lost \/ Refresh \/ Query("status") \/ Query("quota") \/ UNCHANGED vars =>
          UNCHANGED <<settings, file, dismissed, left>>
    BY DEF Issue, Revoke, Lost, Refresh, Query, clientVars, vars
  <1>10. \A user \in Users : Login(user) => UNCHANGED <<settings, file, dismissed, left>>
    BY DEF Login, clientVars
  <1>11. \A t \in Tokens : Expire(t) => UNCHANGED <<settings, file, dismissed, left>>
    BY DEF Expire, clientVars
  <1>. QED  BY <1>1, <1>2, <1>3, <1>4, <1>5, <1>6, <1>7, <1>8, <1>9, <1>10, <1>11 DEF Next, Advance

------------------------------------------------------------------------------
(* The command under way *)

LEMMA IdleHand == ASSUME call' = Idle PROVE InHand'
  BY DEF InHand, Idle, Before, After

LEMMA NextInHand == Types /\ StoredHold /\ InHand /\ [Next]_vars => InHand'
  <1>. SUFFICES ASSUME Types, StoredHold, InHand, [Next]_vars PROVE InHand'
    OBVIOUS
  <1>0. \A t : Issued(t) => Issued(t)' /\ tokens'[t].user = tokens[t].user
    BY RowsStay
  <1>1. CASE Issue
    <2>1. call \in Asked /\ call.op = "login" /\ UNCHANGED <<settings, file, dismissed, left>>
      BY <1>1, AtWork DEF Issue, clientVars
    <2>2. PICK t \in Tokens :
            /\ tokens[t].state = "none"
            /\ tokens' = [tokens EXCEPT ![t] = [state |-> "live", url |-> call.url, user |-> call.user]]
            /\ \/ call' = [call EXCEPT !.at = "welcome", !.token = t]
               \/ call' = Idle
      BY <1>1 DEF Issue
    <2>3. tokens'[t].state = "live" /\ tokens'[t].user = call.user
      BY <2>2 DEF Types, Rows
    <2>4. t \notin left \cup {settings.token, file.token}
      BY <2>2 DEF StoredHold, Types, TypeOK, Issued, LoggedIn, Tokens, NoToken
    <2>5. CASE call' = [call EXCEPT !.at = "welcome", !.token = t]
      <3>1. call'.at = "welcome" /\ call'.op = "login" /\ call'.token = t /\ call'.user = call.user
        BY <2>1, <2>5 DEF Asked
      <3>. QED  BY <2>1, <2>2, <2>3, <2>4, <3>1 DEF InHand, Issued, Before, After
    <2>. QED  BY <2>2, <2>5, IdleHand
  <1>2. CASE Revoke
    <2>1. call \in Asked /\ call' = [call EXCEPT !.at = "goodbye"] /\ call.op = "logout" /\ call.at = "asking"
      BY <1>2, AtWork DEF Revoke, Moves
    <2>2. call'.at = "goodbye" /\ call'.op = "logout" /\ call'.token = call.token
      BY <2>1 DEF Asked
    <2>. QED  BY <1>2, <2>1, <2>2 DEF Revoke, clientVars, InHand, Before, After
  <1>3. CASE Answer
    <2>1. call \in Asked /\ call.op \in {"status", "quota"} /\ call.at = "asking"
          /\ LoggedIn(settings) /\ call.token = settings.token /\ Issued(call.token)
      BY <1>3, AtWork DEF Answer, InHand, Before, StoredHold
    <2>2. UNCHANGED <<settings, file, tokens, left>>
      BY <1>3 DEF Answer, clientVars
    <2>3. CASE call.op = "status" /\ Usable(call.token, call.url)
      <3>1. call' = [call EXCEPT !.at = "welcome", !.user = tokens[call.token].user] /\ dismissed' = dismissed
        BY <1>3, <2>3 DEF Answer
      <3>2. call'.at = "welcome" /\ call'.op = "status" /\ call'.token = call.token
            /\ call'.user = tokens[call.token].user
        BY <2>1, <2>3, <3>1 DEF Asked
      <3>. QED  BY <2>1, <2>2, <3>2 DEF InHand, Before, After, Issued
    <2>4. CASE ~Usable(call.token, call.url)
      <3>1. call' = [call EXCEPT !.at = "goodbye"] /\ dismissed' = dismissed \cup {call.token}
        BY <1>3, <2>4 DEF Answer, Moves
      <3>2. call'.at = "goodbye" /\ call'.op = call.op /\ call'.token = call.token
        BY <2>1, <3>1 DEF Asked
      <3>. QED  BY <2>1, <2>2, <3>1, <3>2 DEF InHand, Before, After
    <2>5. CASE call.op = "quota" /\ Usable(call.token, call.url)
      BY <1>3, <2>5, IdleHand DEF Answer
    <2>. QED  BY <2>1, <2>3, <2>4, <2>5
  <1>4. CASE StoreIdentity
    <2>1. call \in Asked /\ call.op = "login" /\ (call' = [call EXCEPT !.at = "refresh"] \/ call' = Idle)
      BY <1>4, AtWork DEF StoreIdentity, Saves, Announcing
    <2>2. CASE call' = [call EXCEPT !.at = "refresh"]
      <3>1. call'.at = "refresh" /\ call'.op = "login"
        BY <2>1, <2>2 DEF Asked
      <3>. QED  BY <3>1 DEF InHand, Before, After
    <2>. QED  BY <2>1, <2>2, IdleHand
  <1>5. CASE ClearIdentity
    <2>1. /\ call \in Asked /\ call.token \in dismissed /\ call.token # NoToken
          /\ UNCHANGED <<tokens, dismissed>>
      BY <1>5, AtWork DEF ClearIdentity, InHand, Before, LoggedIn
    <2>2. \/ call' = [call EXCEPT !.at = "refresh"] /\ settings' = LoggedOut /\ file' = LoggedOut
          \/ call' = Idle
      BY <1>5 DEF ClearIdentity, Saves, Announcing
    <2>3. CASE call' = [call EXCEPT !.at = "refresh"] /\ settings' = LoggedOut /\ file' = LoggedOut
      <3>1. call'.at = "refresh" /\ call'.op = call.op /\ call'.token = call.token
        BY <2>1, <2>3 DEF Asked
      <3>2. settings'.token = NoToken /\ file'.token = NoToken
        BY <2>3 DEF LoggedOut, Types, TypeOK, Settings
      <3>. QED  BY <2>1, <3>1, <3>2 DEF InHand, Before, After
    <2>. QED  BY <2>2, <2>3, IdleHand
  <1>6. CASE Refresh
    <2>1. call \in Asked /\ call' = [call EXCEPT !.at = "tell"] /\ call.at = "refresh"
      BY <1>6, AtWork DEF Refresh, Moves
    <2>2. call'.at = "tell" /\ call'.op = call.op /\ call'.token = call.token
      BY <2>1 DEF Asked
    <2>. QED  BY <1>6, <2>1, <2>2 DEF Refresh, InHand, Before, After
  <1>7. CASE Logout
    <2>1. /\ call'.at = "asking" /\ call'.op = "logout" /\ call'.token = settings.token
          /\ LoggedIn(settings) /\ settings.token \in dismissed' /\ UNCHANGED <<settings, tokens>>
      BY <1>7 DEF Logout, Asking, clientVars
    <2>. QED  BY <2>1 DEF InHand, Before, After, LoggedIn
  <1>8. ASSUME NEW op \in {"status", "quota"}, Query(op) PROVE InHand'
    <2>1. /\ call'.at = "asking" /\ call'.op = op /\ call'.token = settings.token
          /\ LoggedIn(settings) /\ UNCHANGED <<settings, tokens>>
      BY <1>8 DEF Query, Asking, clientVars
    <2>. QED  BY <2>1 DEF InHand, Before, After, LoggedIn
  <1>9. ASSUME NEW user \in Users, Login(user) PROVE InHand'
    <2>1. call'.at = "asking" /\ call'.op = "login"
      BY <1>9 DEF Login, Asking
    <2>. QED  BY <2>1 DEF InHand, Before, After
  <1>10. ASSUME NEW url \in Urls, NEW key \in Keys, SetSettings(url, key) PROVE InHand'
    <2>. DEFINE r == [Asking("set", NoToken, NoUser) EXCEPT !.at = "refresh"]
    <2>1. r.at = "refresh" /\ r.op = "set"
      BY DEF Asking
    <2>2. call' = r \/ call' = Idle
      BY <1>10 DEF SetSettings, Starts, Saves
    <2>. HIDE DEF r
    <2>3. CASE call' = r
      BY <2>1, <2>3 DEF InHand, Before, After
    <2>. QED  BY <2>2, <2>3, IdleHand
  <1>11. ASSUME NEW t \in Tokens, Expire(t) PROVE InHand'
    BY <1>0, <1>11 DEF Expire, clientVars, InHand
  <1>12. CASE Lost \/ StoreIdentityFields \/ Tell \/ Restart
    BY <1>12, IdleHand DEF Lost, StoreIdentityFields, Saves, Tell, Restart
  <1>13. CASE UNCHANGED vars
    BY <1>13 DEF vars, InHand, Issued
  <1>. QED  BY <1>1, <1>2, <1>3, <1>4, <1>5, <1>6, <1>7, <1>8, <1>9, <1>10, <1>11, <1>12, <1>13
            DEF Next, Advance

------------------------------------------------------------------------------
(* The places that follow *)

LEMMA NextHalves == Types /\ InHand /\ HalvesHold /\ [Next]_vars => HalvesHold'
  <1>. SUFFICES ASSUME Types, InHand, HalvesHold, [Next]_vars PROVE HalvesHold'
    OBVIOUS
  \* One that waits for a new service and, unless it is a patch, will tell the GUI.
  <1>1. CASE StoreIdentity \/ ClearIdentity
    <2>1. call \in Asked
      BY <1>1, AtWork DEF StoreIdentity, ClearIdentity
    <2>2. CASE behind' = behind \cup {"file"} \cup Followers /\ call' = Idle
      BY <2>2 DEF HalvesHold, Followers, Idle, After
    <2>3. CASE file' = settings' /\ call' = Announcing /\ behind' = behind \ {"file"}
      <3>1. call'.at = "refresh" /\ call'.op = call.op
        BY <2>1, <2>3 DEF Announcing, Asked
      <3>2. call.op # "set" /\ (call.op = "login") = LoggedIn(settings')
        <4>1. CASE StoreIdentity
          <5>1. settings'.token = call.token /\ call.op = "login" /\ call.token # NoToken
            BY <4>1 DEF StoreIdentity, Saves, Types, TypeOK, Settings, InHand, Issued, Tokens, NoToken
          <5>. QED  BY <5>1 DEF LoggedIn
        <4>2. CASE ClearIdentity
          <5>1. settings'.token = NoToken /\ call.op \in {"logout", "status", "quota"}
            BY <4>2 DEF ClearIdentity, Saves, LoggedOut, Types, TypeOK, Settings, InHand
          <5>. QED  BY <5>1 DEF LoggedIn
        <4>. QED  BY <1>1, <4>1, <4>2
      <3>. QED  BY <2>3, <3>1, <3>2 DEF HalvesHold, After
    <2>. QED  BY <1>1, <2>2, <2>3 DEF StoreIdentity, ClearIdentity, Saves
  <1>2. CASE StoreIdentityFields
    <2>1. /\ call.at = "welcome" /\ call' = Idle /\ UNCHANGED <<service, gui>>
          /\ settings' = [settings EXCEPT !.email = call.user]
          /\ \/ file' = settings' /\ behind' = behind \ {"file"}
             \/ behind' = behind \cup {"file"}
      BY <1>2 DEF StoreIdentityFields, Saves
    <2>2. settings'.token = settings.token /\ settings'.url = settings.url /\ settings'.key = settings.key
      BY <2>1 DEF Types, TypeOK, Settings
    <2>3. Effective(settings') = Effective(settings) /\ LoggedIn(settings') = LoggedIn(settings)
      BY <2>2 DEF Effective, LoggedIn
    <2>. QED  BY <2>1, <2>3 DEF HalvesHold, Idle, After
  <1>3. CASE Refresh
    <2>1. call \in Asked /\ call' = [call EXCEPT !.at = "tell"] /\ call.at = "refresh"
      BY <1>3, AtWork DEF Refresh, Moves
    <2>2. call'.at = "tell" /\ call'.op = call.op
      BY <2>1 DEF Asked
    <2>. QED  BY <1>3, <2>1, <2>2 DEF Refresh, HalvesHold, After
  <1>4. CASE Tell
    <2>1. call.at = "tell" /\ call' = Idle /\ UNCHANGED <<settings, file, service>>
      BY <1>4 DEF Tell
    <2>2. CASE call.op = "set"
      BY <1>4, <2>1, <2>2 DEF Tell, HalvesHold, Idle, After
    <2>3. CASE call.op # "set"
      <3>1. gui' = LoggedIn(settings) /\ behind' = behind \ {"gui"}
        BY <1>4, <2>1, <2>3 DEF Tell, HalvesHold, After
      <3>. QED  BY <2>1, <3>1 DEF HalvesHold, Idle, After
    <2>. QED  BY <2>2, <2>3
  <1>5. ASSUME NEW url \in Urls, NEW key \in Keys, SetSettings(url, key) PROVE HalvesHold'
    <2>. DEFINE r == [Asking("set", NoToken, NoUser) EXCEPT !.at = "refresh"]
    <2>1. r.at = "refresh" /\ r.op = "set" /\ call = Idle /\ Idle.at = "none" /\ UNCHANGED gui
      BY <1>5 DEF Asking, SetSettings, Starts, Idle, Saves
    <2>2. LoggedIn(settings') = LoggedIn(settings)
      BY <1>5 DEF SetSettings, Saves, Types, TypeOK, Settings, LoggedIn
    <2>3. \/ call' = r /\ file' = settings' /\ behind' = behind \ {"file"}
          \/ call' = Idle /\ behind' = behind \cup {"file", "service"}
      BY <1>5, <2>1 DEF SetSettings, Saves
    <2>. HIDE DEF r
    <2>. QED  BY <2>1, <2>2, <2>3 DEF HalvesHold, After, Idle
  <1>6. CASE Restart
    BY <1>6 DEF Restart, HalvesHold, Idle, After
  \* The rest leaves the places alone and is before its change.
  <1>7. CASE /\ UNCHANGED clientVars /\ call.at \notin After
             /\ call'.at \notin After
    BY <1>7 DEF clientVars, HalvesHold, After
  <1>8. Issue \/ Revoke \/ Answer \/ Lost =>
          UNCHANGED clientVars /\ call.at \notin After /\ call'.at \notin After
    <2>. SUFFICES ASSUME Issue \/ Revoke \/ Answer \/ Lost
                  PROVE  UNCHANGED clientVars /\ call.at \notin After /\ call'.at \notin After
      OBVIOUS
    <2>1. call \in Asked /\ UNCHANGED clientVars /\ call.at \notin After
      BY AtWork DEF Issue, Revoke, Answer, Lost, After
    <2>2. call'.at \in {"welcome", "goodbye", "none"}
      <3>1. /\ \A at : [call EXCEPT !.at = at].at = at
            /\ \A t : [call EXCEPT !.at = "welcome", !.token = t].at = "welcome"
            /\ \A u : [call EXCEPT !.at = "welcome", !.user = u].at = "welcome"
        BY <2>1 DEF Asked
      <3>2. Idle.at = "none"
        BY DEF Idle
      <3>3. CASE Issue
        <4>1. PICK t \in Tokens : call' = [call EXCEPT !.at = "welcome", !.token = t] \/ call' = Idle
          BY <3>3 DEF Issue
        <4>2. [call EXCEPT !.at = "welcome", !.token = t].at = "welcome"
          BY <3>1
        <4>. QED  BY <3>2, <4>1, <4>2
      <3>4. CASE Revoke \/ Lost
        BY <3>1, <3>2, <3>4 DEF Revoke, Lost, Moves
      <3>5. CASE Answer
        <4>1. \/ call' = Idle \/ call' = [call EXCEPT !.at = "goodbye"]
              \/ call' = [call EXCEPT !.at = "welcome", !.user = tokens[call.token].user]
          BY <3>5 DEF Answer, Moves
        <4>2. /\ [call EXCEPT !.at = "goodbye"].at = "goodbye"
              /\ [call EXCEPT !.at = "welcome", !.user = tokens[call.token].user].at = "welcome"
          BY <3>1
        <4>. QED  BY <3>2, <4>1, <4>2
      <3>. QED  BY <3>3, <3>4, <3>5
    <2>. QED  BY <2>1, <2>2 DEF After
  <1>9. Logout \/ Query("status") \/ Query("quota") \/ (\E user \in Users : Login(user)) =>
          UNCHANGED clientVars /\ call.at \notin After /\ call'.at \notin After
    BY DEF Logout, Query, Login, Starts, Asking, Idle, After
  <1>10. (\E t \in Tokens : Expire(t)) \/ UNCHANGED vars => UNCHANGED <<clientVars, call>>
    BY DEF Expire, vars, clientVars
  <1>11. CASE UNCHANGED <<clientVars, call>>
    BY <1>11 DEF clientVars, HalvesHold
  <1>. QED  BY <1>1, <1>2, <1>3, <1>4, <1>5, <1>6, <1>7, <1>8, <1>9, <1>10, <1>11 DEF Next, Advance

------------------------------------------------------------------------------
(* The theorems *)

LEMMA NextIInv == IInv /\ [Next]_vars => IInv'
  BY NextTypes, NextStored, NextInHand, NextHalves DEF IInv

\* Between two commands the email is that of the token's user, and the file, the
\* model service and the GUI have followed the settings, unless a command that
\* failed has left them behind and none has reached them since (service.rs:4).
THEOREM NothingStaysHalfway == Spec => []NothingHalfway
  <1>1. IInv => NothingHalfway
    <2>. SUFFICES ASSUME IInv, call = Idle PROVE NothingHalfway
      BY DEF NothingHalfway
    <2>1. Named(settings) /\ call.at = "none"
      BY DEF IInv, StoredHold, Idle
    <2>. QED  BY <2>1 DEF IInv, HalvesHold, NothingHalfway, Named, After
  <1>. QED  BY <1>1, InitIInv, NextIInv, PTL DEF Spec

\* The types, and that a token which the user has left never comes back.
THEOREM LogoutAlwaysSticks == Spec => [](TypeOK /\ LogoutSticks)
  <1>1. IInv => TypeOK /\ LogoutSticks
    BY DEF IInv, Types, StoredHold
  <1>. QED  BY <1>1, InitIInv, NextIInv, PTL DEF Spec

\* A token that the client has goes only for a new one, when the user has left
\* or a server has refused it, or at a restart when it was not saved
\* (service.rs:116).
THEOREM TokensGoForAReason == Spec => DroppedForAReason
  <1>1. IInv /\ [Next]_vars => [LoggedIn(settings) /\ ~LoggedIn(settings') =>
                                  settings.token \in dismissed \/ "file" \in behind]_vars
    <2>. SUFFICES ASSUME IInv, [Next]_vars, LoggedIn(settings), ~LoggedIn(settings')
                  PROVE  settings.token \in dismissed \/ "file" \in behind
      OBVIOUS
    <2>. USE DEF IInv, Types, TypeOK, Settings, LoggedIn
    <2>1. CASE ClearIdentity
      BY <2>1 DEF ClearIdentity, InHand, Before
    <2>2. CASE Restart
      BY <2>2 DEF Restart, HalvesHold
    <2>3. CASE StoreIdentity
      BY <2>3 DEF StoreIdentity, Saves, InHand, Issued, Tokens, NoToken
    <2>4. CASE StoreIdentityFields
      BY <2>4 DEF StoreIdentityFields, Saves
    <2>5. ASSUME NEW url \in Urls, NEW key \in Keys, SetSettings(url, key) PROVE FALSE
      BY <2>5 DEF SetSettings, Saves
    <2>6. CASE UNCHANGED settings
      BY <2>6
    <2>7. Issue \/ Revoke \/ Answer \/ Lost \/ Refresh \/ Tell \/ Logout \/ Query("status") \/ Query("quota")
          \/ UNCHANGED vars => UNCHANGED settings
      BY DEF Issue, Revoke, Answer, Lost, Refresh, Tell, Logout, Query, clientVars, vars
    <2>8. (\E user \in Users : Login(user)) \/ (\E t \in Tokens : Expire(t)) => UNCHANGED settings
      BY DEF Login, Expire, clientVars
    <2>. QED  BY <2>1, <2>2, <2>3, <2>4, <2>5, <2>6, <2>7, <2>8 DEF Next, Advance
  <1>. QED  BY <1>1, InitIInv, NextIInv, PTL DEF Spec, DroppedForAReason
==============================================================================
