---------------------------- MODULE AccountService ----------------------------
(***************************************************************************)
(* The platform account on the desktop (src/kernel/account, settings.rs,   *)
(* the settings and account commands of rpc/mod.rs, LiveSettingsModelService) *)
(* and the tokens the server keeps for it (server/src/auth).               *)
(*                                                                         *)
(* The request loop awaits one command of the GUI before it takes the next *)
(* (main.rs:53).  A command asks the server, then changes the settings and *)
(* saves them, rebuilds the model service and tells the GUI.  The answer   *)
(* may be lost, a save may fail, the server may have changed its mind      *)
(* about a token, and the program may end between any two of these steps.  *)
(***************************************************************************)
EXTENDS Naturals, FiniteSets

CONSTANTS
    Urls,          \* servers
    Users,
    Keys,          \* keys of the user's own
    NoUser,
    MaxTokens,     \* tokens the servers issue
    MaxOps

ASSUME BoundAssumption == MaxTokens \in Nat /\ MaxOps \in Nat

VARIABLES
    settings,      \* Settings: the account's url, token and email, and the own key
    file,          \* settings.json
    service,       \* where the model service sends to, and with which key
    gui,           \* whether the GUI was last told of a login
    tokens,        \* the rows of the table tokens: where, whose, and their state
    call,          \* the command under way
    dismissed,     \* tokens a server has refused or the user has asked to leave
    left,          \* tokens of which a logout has succeeded
    behind,        \* places a command that failed has kept from following the settings
    ops

clientVars == <<settings, file, service, gui, behind>>
vars == <<settings, file, service, gui, tokens, call, dismissed, left, behind, ops>>

NoToken == 0
Tokens == 1..MaxTokens
Idle == [op |-> "none", at |-> "none"]
Moves(at) == call' = [call EXCEPT !.at = at]
Starts == call = Idle /\ ops < MaxOps /\ ops' = ops + 1

\* effective_config
Effective(s) == IF s.token = NoToken THEN [url |-> "own", key |-> s.key] ELSE [url |-> s.url, key |-> s.token]
LoggedIn(s) == s.token # NoToken

------------------------------------------------------------------------------
(* Changing and saving.  What cannot be saved is reported, and stays in the
   settings; the places that were to follow do not. *)

Saves(s, followers, next) ==
    /\ settings' = s
    /\ \/ file' = s /\ behind' = behind \ {"file"} /\ call' = next
       \/ file' = file /\ behind' = behind \cup {"file"} \cup followers /\ call' = Idle
    /\ UNCHANGED <<service, gui>>
Announcing == [call EXCEPT !.at = "refresh"]
Followers == {"service", "gui"}
LoggedOut == [settings EXCEPT !.token = NoToken, !.email = NoUser]

\* One that keeps the service it has.
RefreshStale ==
    /\ call.at = "refresh"
    /\ Moves("tell")
    /\ UNCHANGED <<clientVars, tokens, dismissed, left, ops>>
\* refresh: the model service is built anew of the settings.
Refresh ==
    /\ call.at = "refresh"
    /\ service' = Effective(settings)
    /\ behind' = behind \ {"service"}
    /\ Moves("tell")
    /\ UNCHANGED <<settings, file, gui, tokens, dismissed, left, ops>>
\* announce tells the GUI; set_settings does not, it has not changed the login.
Tell ==
    /\ call.at = "tell"
    /\ IF call.op = "set" THEN UNCHANGED <<gui, behind>>
       ELSE gui' = (call.op = "login") /\ behind' = behind \ {"gui"}
    /\ left' = IF call.op = "logout" THEN left \cup {call.token} ELSE left
    /\ call' = Idle
    /\ UNCHANGED <<settings, file, service, tokens, dismissed, ops>>

------------------------------------------------------------------------------
(* The commands *)

Asking(op, token, user) ==
    [op |-> op, at |-> "asking", url |-> settings.url, token |-> token, user |-> user]

Login(user) ==
    /\ Starts
    /\ call' = Asking("login", NoToken, user)
    /\ UNCHANGED <<clientVars, tokens, dismissed, left>>
\* The user leaves, or the GUI asks how the account or its quota is.
Logout ==
    /\ Starts /\ LoggedIn(settings)
    /\ call' = Asking("logout", settings.token, NoUser)
    /\ dismissed' = dismissed \cup {settings.token}
    /\ UNCHANGED <<clientVars, tokens, left>>
Query(op) ==
    /\ Starts /\ LoggedIn(settings)
    /\ call' = Asking(op, settings.token, NoUser)
    /\ UNCHANGED <<clientVars, tokens, dismissed, left>>

\* set_settings: the patch is applied to the settings themselves, field by field,
\* until one is refused.
SetSettings(url, key) ==
    /\ Starts
    /\ \/ Saves([settings EXCEPT !.url = url, !.key = key], {"service"},
                [Asking("set", NoToken, NoUser) EXCEPT !.at = "refresh"])
       \/ /\ settings' = [settings EXCEPT !.key = key]
          /\ behind' = behind \cup {"file", "service"}
          /\ UNCHANGED <<file, service, gui, call>>
    /\ UNCHANGED <<tokens, dismissed, left>>

------------------------------------------------------------------------------
(* The server answers, or its answer is lost *)

Usable(t, url) == t # NoToken /\ tokens[t].state = "live" /\ tokens[t].url = url

\* issue_token
Issue ==
    /\ call.op = "login" /\ call.at = "asking"
    /\ \E t \in Tokens :
          /\ tokens[t].state = "none" /\ \A u \in Tokens : u < t => tokens[u].state # "none"
          /\ tokens' = [tokens EXCEPT ![t] = [state |-> "live", url |-> call.url, user |-> call.user]]
          /\ \/ call' = [call EXCEPT !.at = "welcome", !.token = t]
             \/ call' = Idle
    /\ UNCHANGED <<clientVars, dismissed, left, ops>>
\* authenticate_token and revoke_token; the client goes on all the same.
Revoke ==
    /\ call.op = "logout" /\ call.at = "asking"
    /\ Moves("goodbye")
    /\ \/ Usable(call.token, call.url) /\ tokens' = [tokens EXCEPT ![call.token].state = "revoked"]
       \/ UNCHANGED tokens
    /\ UNCHANGED <<clientVars, dismissed, left, ops>>
\* me and quota: the token is good, or it is not and the answer says so.
Answer ==
    /\ call.op \in {"status", "quota"} /\ call.at = "asking"
    /\ IF Usable(call.token, call.url)
       THEN /\ call' = IF call.op = "quota" THEN Idle
                       ELSE [call EXCEPT !.at = "welcome", !.user = tokens[call.token].user]
            /\ UNCHANGED dismissed
       ELSE Moves("goodbye") /\ dismissed' = dismissed \cup {call.token}
    /\ UNCHANGED <<clientVars, tokens, left, ops>>
Lost ==
    /\ call.op # "logout" /\ call.at = "asking"
    /\ call' = Idle
    /\ UNCHANGED <<clientVars, tokens, dismissed, left, ops>>

------------------------------------------------------------------------------
(* The answer is taken into the settings *)

StoreIdentity ==
    /\ call.op = "login" /\ call.at = "welcome"
    /\ Saves([settings EXCEPT !.token = call.token, !.email = call.user], Followers, Announcing)
    /\ UNCHANGED <<tokens, dismissed, left, ops>>
\* The token stays, so that nothing has to follow.
StoreIdentityFields ==
    /\ call.op = "status" /\ call.at = "welcome"
    /\ Saves([settings EXCEPT !.email = call.user], {}, Idle)
    /\ UNCHANGED <<tokens, dismissed, left, ops>>
\* One that takes it that what it has in memory is saved with the next change.
ClearUnsaved ==
    /\ call.at = "goodbye"
    /\ settings' = LoggedOut
    /\ call' = Announcing
    /\ UNCHANGED <<file, service, gui, behind, tokens, dismissed, left, ops>>
ClearIdentity ==
    /\ call.at = "goodbye"
    /\ Saves(LoggedOut, Followers, Announcing)
    /\ UNCHANGED <<tokens, dismissed, left, ops>>

------------------------------------------------------------------------------
\* A token expires, or its account is disabled.
Expire(t) ==
    /\ tokens[t].state = "live"
    /\ tokens' = [tokens EXCEPT ![t].state = "dead"]
    /\ UNCHANGED <<clientVars, call, dismissed, left, ops>>

\* The program ends and starts again.
Restart ==
    /\ ops < MaxOps /\ ops' = ops + 1
    /\ settings' = file
    /\ service' = Effective(file)
    /\ gui' = LoggedIn(file)
    /\ call' = Idle
    /\ behind' = {}
    /\ UNCHANGED <<file, tokens, dismissed, left>>

Init ==
    /\ \E url \in Urls, key \in Keys :
          /\ settings = [url |-> url, token |-> NoToken, email |-> NoUser, key |-> key]
          /\ service = Effective(settings)
    /\ file = settings
    /\ gui = FALSE
    /\ tokens = [t \in Tokens |-> [state |-> "none", url |-> settings.url, user |-> NoUser]]
    /\ call = Idle
    /\ dismissed = {} /\ left = {} /\ behind = {} /\ ops = 0

Advance ==
    \/ Issue \/ Revoke \/ Answer \/ Lost
    \/ StoreIdentity \/ StoreIdentityFields \/ ClearIdentity
    \/ Refresh \/ Tell
Next ==
    \/ Advance \/ Logout \/ Query("status") \/ Query("quota")
    \/ \E user \in Users : Login(user)
    \/ \E url \in Urls, key \in Keys : SetSettings(url, key)
    \/ \E t \in Tokens : Expire(t)
    \/ Restart
Spec == Init /\ [][Next]_vars
\* A command goes on: its request ends after 20 seconds if not before.
FairSpec == Spec /\ WF_vars(Advance)

------------------------------------------------------------------------------
Settings == [url : Urls, token : {NoToken} \cup Tokens, email : Users \cup {NoUser}, key : Keys]
TypeOK ==
    /\ settings \in Settings /\ file \in Settings
    /\ gui \in BOOLEAN
    /\ dismissed \subseteq Tokens /\ left \subseteq dismissed
    /\ behind \subseteq {"file", "service", "gui"}
    /\ ops \in 0..MaxOps

\* No half of a change is there alone (service.rs:4): between two commands the
\* email is that of the token's user, and the file, the model service and the GUI
\* have followed the settings.  A command that ended with an error may have left
\* one of them behind, until a later one reaches it: any that saves for the file,
\* any that rebuilds for the service, a login or logout for the GUI, a restart
\* for all.
NothingHalfway ==
    call = Idle =>
        /\ settings.email = IF LoggedIn(settings) THEN tokens[settings.token].user ELSE NoUser
        /\ "file" \notin behind => file = settings
        /\ "service" \notin behind => service = Effective(settings)
        /\ "gui" \notin behind => gui = LoggedIn(settings)

\* A token that the user has left never comes back, with whatever was saved or
\* not, and however often the program restarts.
LogoutSticks == settings.token \notin left /\ file.token \notin left

\* The client drops a token only for a new one, when the user leaves, or when a
\* server has said that it is bad (service.rs:116), never for an error of the
\* network; or at a restart, when the token was not saved.
DroppedForAReason ==
    [][LoggedIn(settings) /\ ~LoggedIn(settings') =>
         settings.token \in dismissed \/ "file" \in behind]_vars

\* A logout leads out of the account though the server be out of reach, unless
\* the program ends before.
LogoutLeaves ==
    \A t \in Tokens :
        call # Idle /\ call.op = "logout" /\ call.token = t /\ ops = MaxOps ~> settings.token # t

\* The identity goes only when the user or a server has said so, it goes when
\* the user has, and it does not come back.
IdentityFollowsUser == [](TypeOK /\ LogoutSticks) /\ DroppedForAReason /\ LogoutLeaves
==============================================================================
