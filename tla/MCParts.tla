------------------------------- MODULE MCParts -------------------------------
(***************************************************************************)
(* Four small parts of the system that share no state, checked in one run: *)
(* a behaviour is about one of them and the others stand still.            *)
(***************************************************************************)
EXTENDS ModelClient, WeakPoints, ServerStart, PluginRegistry, TLC

VARIABLE part

Init ==
    /\ part \in {"round", "points", "start", "registry"}
    /\ ClientInit /\ (part # "round" => protocol = "chat")
    /\ PointInit /\ StartInit
    /\ RegistryInit /\ (part # "registry" => offered = {})

Next ==
    \/ part = "round" /\ RoundNext /\ UNCHANGED <<pointVars, startVars, registryVars, part>>
    \/ part = "points" /\ PointNext /\ UNCHANGED <<probeVars, clientVars, startVars, registryVars, part>>
    \/ part = "start" /\ StartNext /\ UNCHANGED <<probeVars, clientVars, pointVars, registryVars, part>>
    \/ part = "registry" /\ RegistryNext /\ UNCHANGED <<probeVars, clientVars, pointVars, startVars, part>>

Spec == Init /\ [][Next]_<<probeVars, clientVars, pointVars, startVars, registryVars, part>>

------------------------------------------------------------------------------
MCLadder == <<2, 4>>

MCAlphabetic == "p" :> 1 @@ "q" :> 2 @@ "r" :> 3 @@ "s" :> 4

MCDefault == [k \in {"DB_MAX_CONNECTIONS", "TOKEN_TTL_DAYS"} |-> 1]
MCNumberOf == ("junk" :> NoNumber @@ "-1" :> 0 - 1 @@ "0" :> 0 @@ "2" :> 2 @@ "3" :> 3)
MCLadders == {<<"">>, <<"2", "", "3">>, <<"3", "2">>, <<"2", "junk">>, <<"2", "2">>, <<"-1">>}
MCDefaultLadder == <<1, 2>>

\* Names that join to the same wire name, a service that two provide, a plugin
\* that requires what there is not, and one that asks for what it does not
\* require.
Tool(name, policy) == [kind |-> "tool", name |-> name, policy |-> policy]
Command(name) == [kind |-> "command", name |-> name, policy |-> "UserOnly"]
Plugin(namespace, isKernel, provides, requires, needs, entries) ==
    [namespace |-> namespace, kernel |-> isKernel, provides |-> provides, requires |-> requires,
     needs |-> needs, entries |-> entries]
MCDescriptors == {
    Plugin(<<"a">>, FALSE, {}, {"storage"}, {"storage"},
           <<Tool(<<"b", "c">>, "UserAndModel"), Tool(<<"d">>, "UserOnly"), Command(<<"e">>)>>),
    Plugin(<<"a", "b">>, FALSE, {}, {}, {}, <<Tool(<<"c">>, "UserAndModel"), Tool(<<"d">>, "UserAndModel")>>),
    Plugin(<<"m">>, TRUE, {"memory"}, {}, {"storage"}, <<Tool(<<"d">>, "UserAndModel")>>),
    Plugin(<<"n">>, TRUE, {"memory"}, {}, {}, <<>>),
    Plugin(<<"v">>, FALSE, {}, {"vision"}, {"vision"}, <<Tool(<<"d">>, "UserAndModel")>>),
    Plugin(<<"x">>, FALSE, {}, {}, {"storage"}, <<Tool(<<"d">>, "UserAndModel"), Command(<<"e">>)>>)}
MCUnknown == {<<"z">>}
==============================================================================
