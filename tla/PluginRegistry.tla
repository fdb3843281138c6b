---------------------------- MODULE PluginRegistry ---------------------------
(***************************************************************************)
(* The registry of plugins (src/kernel/registry, context.rs, contract.rs): *)
(* what a start accepts, the loading of a plugin by whoever first needs it *)
(* and the look-ups of the model's calls and the user's                    *)
(* (agent/dispatch.rs).                                                    *)
(*                                                                         *)
(* A name is the sequence of its parts between double underscores, so that *)
(* the wire name of an entry is its namespace and its name, joined.  The   *)
(* locks are held for one look-up or one insertion each: that is a step.   *)
(***************************************************************************)
EXTENDS Naturals, Sequences, FiniteSets

CONSTANTS
    Callers,      \* the turn's and the user's, on a thread each
    Descriptors,  \* the plugins there are
    MaxOffered,   \* of those, how many are built in
    Services,     \* services that are available
    Unknown       \* wire names that the model makes up

\* PluginDescriptor, EntryDecl, CallerPolicy.
ASSUME DescriptorsAssumption ==
    \A p \in Descriptors :
        /\ p.namespace \in Seq(STRING)
        /\ p.entries \in Seq([kind : {"tool", "command"}, name : Seq(STRING), policy : {"UserAndModel", "UserOnly"}])

VARIABLES
    offered,      \* built in and not registered yet
    kernel,       \* starting, up or refused
    plugins,      \* registered
    loaded,       \* the namespaces whose flag is up
    handlers,     \* entries by their full name
    wireToFull,
    asking        \* what each caller is in the middle of

bootVars == <<offered, kernel, plugins>>
tableVars == <<handlers, wireToFull>>
registryVars == <<bootVars, loaded, tableVars, asking>>

Full(p, e) == <<p.namespace, e.name>>
FullToWire(full) == full[1] \o full[2]
EntriesOf(p) == {p.entries[i] : i \in DOMAIN p.entries}
Wires(p) == {FullToWire(Full(p, e)) : e \in EntriesOf(p)}
Empty == [x \in {} |-> x]

------------------------------------------------------------------------------
(* Registration *)

TakesOneNamespace(p) == \A q \in plugins : q.namespace # p.namespace
ProvidesItsOwn(p) ==
    IF p.kernel THEN \A q \in plugins : q.provides \cap p.provides = {} ELSE p.provides = {}
RequiresWhatThereIs(p) == p.kernel \/ p.requires \subseteq Services
NamesItsOwn(p) ==
    /\ \A i, j \in DOMAIN p.entries : i # j => p.entries[i].name # p.entries[j].name
    /\ \A q \in plugins : Wires(p) \cap Wires(q) = {}

Checked(p, accepted) ==
    /\ kernel = "starting" /\ p \in offered
    /\ ~p.kernel => \A q \in offered : ~q.kernel
    /\ IF accepted THEN plugins' = plugins \cup {p} /\ offered' = offered \ {p} /\ UNCHANGED kernel
       ELSE kernel' = "refused" /\ UNCHANGED <<plugins, offered>>
    /\ UNCHANGED <<loaded, tableVars, asking>>
RegisterAnyName(p) == Checked(p, TakesOneNamespace(p) /\ ProvidesItsOwn(p) /\ RequiresWhatThereIs(p))
Register(p) == Checked(p, TakesOneNamespace(p) /\ ProvidesItsOwn(p) /\ RequiresWhatThereIs(p) /\ NamesItsOwn(p))
Built == kernel = "starting" /\ offered = {} /\ kernel' = "up" /\ UNCHANGED <<offered, plugins, loaded, tableVars, asking>>

------------------------------------------------------------------------------
(* A call *)

Idle == [stage |-> "idle"]
\* by: the model, with a wire name, or the user, with a full one.  kind: which
\* of the user's two look-ups this is.  tried: the plugin has been loaded for it;
\* raced: or was said to be, by a flag that another caller had just put up.
Call(by, name) ==
    [stage |-> IF by = "model" THEN "resolve" ELSE "ensure", by |-> by, name |-> name,
     full |-> IF by = "model" THEN <<>> ELSE name, kind |-> IF by = "model" THEN "tool" ELSE "command",
     tried |-> FALSE, loads |-> <<>>, rest |-> <<>>, raced |-> FALSE]
Becomes(c, r) == asking' = [asking EXCEPT ![c] = r]
Answered(c, answer) == Becomes(c, [stage |-> "idle", by |-> asking[c].by, name |-> asking[c].name, answer |-> answer])
Missing == <<"missing">>
Ran(full) == <<"ran", full>>

Declares(p, wire) == wire \in Wires(p)
Asks(c) ==
    /\ kernel = "up" /\ asking[c].stage = "idle"
    /\ \/ \E wire \in Unknown \cup UNION {Wires(p) : p \in plugins} : Becomes(c, Call("model", wire))
       \/ \E p \in plugins : \E e \in EntriesOf(p) : Becomes(c, Call("user", Full(p, e)))
    /\ UNCHANGED <<bootVars, loaded, tableVars>>

\* resolve_wire: the table, or the declarations, whose plugin is loaded then.
ResolveLoaded(c) ==
    LET r == asking[c] IN
    /\ r.stage = "resolve"
    /\ IF r.name \in DOMAIN wireToFull
       THEN Becomes(c, [r EXCEPT !.stage = "ensure", !.full = wireToFull[r.name]])
       ELSE Answered(c, Missing)
    /\ UNCHANGED <<bootVars, loaded, tableVars>>
Resolve(c) ==
    LET r == asking[c]
        holders == {p \in plugins : Declares(p, r.name)}
    IN
    /\ r.stage = "resolve"
    /\ IF r.name \in DOMAIN wireToFull
       THEN Becomes(c, [r EXCEPT !.stage = "ensure", !.full = wireToFull[r.name]])
       ELSE IF r.tried \/ holders = {} THEN Answered(c, Missing)
       ELSE \E p \in holders : Becomes(c, [r EXCEPT !.stage = "load", !.loads = p.namespace])
    /\ UNCHANGED <<bootVars, loaded, tableVars>>

\* load_plugin: the flag goes up before anything is registered.
Returns(c) == [asking[c] EXCEPT !.stage = IF asking[c].full = <<>> THEN "resolve" ELSE "ensure", !.tried = TRUE]
Registering(ns) == \E d \in Callers : asking[d].stage = "register" /\ asking[d].loads = ns
Load(c) ==
    LET r == asking[c] IN
    /\ r.stage = "load"
    /\ IF r.loads \in loaded THEN Becomes(c, [Returns(c) EXCEPT !.raced = r.raced \/ Registering(r.loads)]) /\ UNCHANGED loaded
       ELSE /\ loaded' = loaded \cup {r.loads}
            /\ \E p \in plugins : p.namespace = r.loads /\ Becomes(c, [r EXCEPT !.stage = "register", !.rest = p.entries])
    /\ UNCHANGED <<bootVars, tableVars>>

\* A plugin that asks for a handle it does not require gets none.
Broken(ns) == \E p \in plugins : p.namespace = ns /\ ~p.kernel /\ ~(p.needs \subseteq p.requires)
\* What an error of load_plugin means: nothing for resolve_wire, which looks
\* again; the end for ensure.
Fails(c) ==
    LET r == asking[c] IN
    /\ r.stage = "register" /\ Broken(r.loads)
    /\ loaded' = loaded \ {r.loads}
    /\ IF r.full = <<>> THEN Becomes(c, Returns(c))
       ELSE IF r.kind = "command" THEN Becomes(c, [r EXCEPT !.stage = "ensure", !.kind = "tool", !.tried = FALSE])
       ELSE Answered(c, Missing)
    /\ UNCHANGED <<bootVars, tableVars>>
\* EntryRegistrar: one entry, its handler and then its wire name.
Insert(c) ==
    LET r == asking[c]
        e == Head(r.rest)
        full == <<r.loads, e.name>>
    IN
    /\ r.stage = "register" /\ ~Broken(r.loads)
    /\ IF r.rest = <<>> THEN Becomes(c, Returns(c)) /\ UNCHANGED tableVars
       ELSE /\ Becomes(c, [r EXCEPT !.rest = Tail(r.rest)])
            /\ handlers' = [f \in DOMAIN handlers \cup {full} |-> IF f = full THEN e ELSE handlers[f]]
            /\ wireToFull' = [w \in DOMAIN wireToFull \cup {FullToWire(full)} |->
                                IF w = FullToWire(full) THEN full ELSE wireToFull[w]]
    /\ UNCHANGED <<bootVars, loaded>>

\* ensure, and the policy; what is no command may be a tool.
Ensure(c) ==
    LET r == asking[c] IN
    /\ r.stage = "ensure"
    /\ CASE r.full \notin DOMAIN handlers /\ ~r.tried -> Becomes(c, [r EXCEPT !.stage = "load", !.loads = r.full[1]])
         [] r.full \in DOMAIN handlers /\ handlers[r.full].kind = r.kind ->
              IF r.by = "model" /\ handlers[r.full].policy = "UserOnly" THEN Answered(c, <<"forbidden">>)
              ELSE Answered(c, Ran(r.full))
         [] OTHER -> IF r.kind = "command" THEN Becomes(c, [r EXCEPT !.kind = "tool", !.tried = FALSE])
                     ELSE Answered(c, Missing)
    /\ UNCHANGED <<bootVars, loaded, tableVars>>

RegistryInit ==
    /\ offered \in {S \in SUBSET Descriptors : Cardinality(S) <= MaxOffered}
    /\ kernel = "starting" /\ plugins = {} /\ loaded = {}
    /\ handlers = Empty /\ wireToFull = Empty
    /\ asking = [c \in Callers |-> Idle]
RegistryNext ==
    \/ \E p \in Descriptors : Register(p)
    \/ Built
    \/ \E c \in Callers : Asks(c) \/ Resolve(c) \/ Load(c) \/ Fails(c) \/ Insert(c) \/ Ensure(c)
RegistrySpec == RegistryInit /\ [][RegistryNext]_registryVars

------------------------------------------------------------------------------
(* Properties *)

\* What runs is what was called: for the user the entry he named, for the model
\* the one entry that has the wire name, a tool, and never one that is the
\* user's alone (Registry::register_inner, resolve_wire, check_policy).
RunsWhatWasCalled ==
    \A c \in Callers : asking[c].stage = "idle" /\ asking[c] # Idle /\ asking[c].answer[1] = "ran" =>
        LET full == asking[c].answer[2] IN
        IF asking[c].by = "user" THEN full = asking[c].name
        ELSE \A p \in plugins : \A e \in EntriesOf(p) : FullToWire(Full(p, e)) = asking[c].name =>
                Full(p, e) = full /\ e.kind = "tool" /\ e.policy = "UserAndModel"

\* An entry that is declared is reported missing only to a caller that has run
\* into another in the middle of loading its plugin, unless the plugin cannot be
\* loaded or the model asks for a command (load_plugin, ensure, resolve_wire).
MissedOnlyWhileLoading ==
    [][\A c \in Callers, p \in plugins : \A e \in EntriesOf(p) :
          /\ asking[c].stage # "idle" /\ asking'[c].stage = "idle" /\ asking'[c].answer = Missing
          /\ asking[c].name = IF asking[c].by = "model" THEN FullToWire(Full(p, e)) ELSE Full(p, e)
          /\ asking[c].by = "model" => e.kind = "tool"
          => Broken(p.namespace) \/ asking[c].raced]_asking
==============================================================================
