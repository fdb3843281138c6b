----------------------------- MODULE PluginProofs -----------------------------
(***************************************************************************)
(* The plugins.  What runs is what was called, and what is declared is     *)
(* found, for any plugins, any number of callers and any interleaving of   *)
(* their look-ups with the loading of the plugins.  What the learning      *)
(* plugins keep: the history of exercises, the mistakes of the wrong ones, *)
(* and what is not given again, for any items, any number of threads, and  *)
(* writes that fail and restarts at any place.  What they read off the     *)
(* book: the weakest points first, for any book.                           *)
(***************************************************************************)
EXTENDS PluginRegistry, StudyTools, WeakPoints, FiniteSetTheorems, SequenceTheorems, WellFoundedInduction, TLAPS

------------------------------------------------------------------------------
(* PluginRegistry: the values of the variables *)

Wire == Seq(STRING)
FullName == {full \in Seq(Wire) : Len(full) = 2}
Entry == [kind : {"tool", "command"}, name : Wire, policy : {"UserAndModel", "UserOnly"}]

\* A call on its way, and one that has been answered.
Running ==
    [stage : {"resolve", "load", "register", "ensure"}, by : {"model", "user"},
     name : Unknown \cup Wire \cup FullName, full : {<<>>} \cup FullName, kind : {"tool", "command"},
     tried : BOOLEAN, loads : Wire, rest : Seq(Entry), raced : BOOLEAN]
Ended ==
    [stage : {"idle"}, by : {"model", "user"}, name : Unknown \cup Wire \cup FullName,
     answer : {Missing, <<"forbidden">>} \cup {Ran(full) : full \in FullName}]

Types ==
    /\ DOMAIN asking = Callers
    /\ \A c \in Callers : asking[c] = Idle \/ (asking[c] \in Running \cup Ended /\ kernel = "up")
    /\ kernel \in {"starting", "up", "refused"}
    /\ plugins \subseteq Descriptors

------------------------------------------------------------------------------
(* The invariant *)

\* What Register checks makes every name stand for one entry.
Distinct ==
    /\ \A p, q \in plugins : p.namespace = q.namespace => p = q
    /\ \A p, q \in plugins : p # q => Wires(p) \cap Wires(q) = {}
    /\ \A p \in plugins : \A i, j \in DOMAIN p.entries : i # j => p.entries[i].name # p.entries[j].name

Declared(full, e) == \E p \in plugins : e \in EntriesOf(p) /\ full = Full(p, e)

\* The tables hold what plugins declare, under its names.
TablesHold ==
    /\ \A f \in DOMAIN handlers : Declared(f, handlers[f])
    /\ \A w \in DOMAIN wireToFull : wireToFull[w] \in FullName /\ w = FullToWire(wireToFull[w])

\* A call goes for the name it came with, whatever it loads on the way.
CallHolds(r) ==
    /\ r.by = "user" => r.full = r.name /\ r.full # <<>>
    /\ r.by = "model" => r.kind = "tool" /\ (r.full # <<>> => FullToWire(r.full) = r.name)
    /\ r.stage = "resolve" => r.full = <<>>
    /\ r.stage = "ensure" => r.full # <<>>
    /\ r.stage = "register" =>
          \E p \in plugins : p.namespace = r.loads /\ \A i \in 1..Len(r.rest) : r.rest[i] \in EntriesOf(p)

RanRight(r) ==
    r.answer[1] = "ran" =>
        LET full == r.answer[2] IN
        IF r.by = "user" THEN full = r.name
        ELSE \A p \in plugins : \A e \in EntriesOf(p) : FullToWire(Full(p, e)) = r.name =>
                Full(p, e) = full /\ e.kind = "tool" /\ e.policy = "UserAndModel"

CallsHold ==
    \A c \in Callers : /\ asking[c] \in Running => CallHolds(asking[c])
                       /\ asking[c] \in Ended => RanRight(asking[c])

Inv == Types /\ Distinct /\ TablesHold /\ CallsHold

------------------------------------------------------------------------------
(* Names *)

LEMMA Declarations ==
    ASSUME NEW p \in Descriptors, NEW e \in EntriesOf(p)
    PROVE  /\ p.namespace \in Wire /\ e \in Entry /\ e.name \in Wire
           /\ Full(p, e) \in FullName /\ Full(p, e) # <<>>
           /\ Full(p, e)[1] = p.namespace /\ Full(p, e)[2] = e.name
           /\ FullToWire(Full(p, e)) = p.namespace \o e.name /\ FullToWire(Full(p, e)) \in Wire
  <1>1. p.namespace \in Wire /\ p.entries \in Seq(Entry)
    BY DescriptorsAssumption DEF Wire, Entry
  <1>2. e \in Entry /\ e.name \in Wire
    <2>1. PICK i \in DOMAIN p.entries : e = p.entries[i]
      BY DEF EntriesOf
    <2>2. DOMAIN p.entries = 1..Len(p.entries)
      BY <1>1
    <2>3. e \in Entry
      BY <1>1, <2>1, <2>2
    <2>. QED  BY <2>3 DEF Entry
  <1>3. Full(p, e) \in FullName /\ Full(p, e)[1] = p.namespace /\ Full(p, e)[2] = e.name /\ Full(p, e) # <<>>
    BY <1>1, <1>2 DEF Full, FullName
  <1>4. p.namespace \o e.name \in Wire
    BY <1>1, <1>2, ConcatProperties DEF Wire
  <1>. QED  BY <1>1, <1>2, <1>3, <1>4 DEF FullToWire

\* A full name is one entry's.
LEMMA OneFull ==
    ASSUME Types, Distinct, NEW p \in plugins, NEW q \in plugins, NEW e \in EntriesOf(p), NEW f \in EntriesOf(q),
           Full(p, e) = Full(q, f)
    PROVE  p = q /\ e = f
  <1>1. p.namespace = q.namespace /\ e.name = f.name
    BY Declarations DEF Types
  <1>2. p = q
    BY <1>1 DEF Distinct
  <1>3. PICK i \in DOMAIN p.entries : e = p.entries[i]
    BY DEF EntriesOf
  <1>4. PICK j \in DOMAIN p.entries : f = p.entries[j]
    BY <1>2 DEF EntriesOf
  <1>5. i = j
    BY <1>1, <1>3, <1>4 DEF Distinct
  <1>. QED  BY <1>2, <1>3, <1>4, <1>5

\* So is a wire name, though namespace and name are joined in it.
LEMMA OneWire ==
    ASSUME Types, Distinct, NEW p \in plugins, NEW q \in plugins, NEW e \in EntriesOf(p), NEW f \in EntriesOf(q),
           FullToWire(Full(p, e)) = FullToWire(Full(q, f))
    PROVE  Full(p, e) = Full(q, f)
  <1>1. FullToWire(Full(p, e)) \in Wires(p) /\ FullToWire(Full(q, f)) \in Wires(q)
    BY DEF Wires
  <1>2. p = q
    BY <1>1 DEF Distinct
  <1>3. p.namespace \o e.name = p.namespace \o f.name
    BY <1>2, Declarations DEF Types
  <1>4. p.namespace \in Seq(STRING) /\ e.name \in Seq(STRING) /\ f.name \in Seq(STRING)
    BY <1>2, Declarations DEF Types, Wire
  <1>5. e.name = f.name
    BY <1>3, <1>4, ConcatSimplifications
  <1>. QED  BY <1>2, <1>5 DEF Full

LEMMA DeclaredOnce ==
    ASSUME Types, Distinct, NEW full, NEW d, Declared(full, d), NEW q \in plugins, NEW f \in EntriesOf(q),
           full = Full(q, f) \/ FullToWire(full) = FullToWire(Full(q, f))
    PROVE  full = Full(q, f) /\ d = f
  <1>1. PICK p \in plugins : d \in EntriesOf(p) /\ full = Full(p, d)
    BY DEF Declared
  <1>2. Full(p, d) = Full(q, f)
    BY <1>1, OneWire
  <1>. QED  BY <1>1, <1>2, OneFull

------------------------------------------------------------------------------
(* Steps of a call *)

\* A caller moves, the plugins stay.
LEMMA CallStep ==
    ASSUME Inv, NEW c \in Callers, NEW r, asking' = [asking EXCEPT ![c] = r], kernel = "up",
           UNCHANGED <<kernel, plugins>>,
           (r \in Running /\ CallHolds(r)) \/ (r \in Ended /\ RanRight(r))
    PROVE  Types' /\ Distinct' /\ CallsHold'
  <1>1. Types' /\ Distinct'
    BY DEF Inv, Types, Distinct
  <1>2. asking'[c] = r /\ \A d \in Callers \ {c} : asking'[d] = asking[d]
    BY DEF Inv, Types
  <1>3. ~(r \in Running /\ r \in Ended)
    BY DEF Running, Ended
  <1>4. \A x : CallHolds(x)' = CallHolds(x)
    BY DEF CallHolds
  <1>5. \A x : RanRight(x)' = RanRight(x)
    BY DEF RanRight
  <1>6. ASSUME NEW d \in Callers
        PROVE  /\ asking'[d] \in Running => CallHolds(asking'[d])
               /\ asking'[d] \in Ended => RanRight(asking'[d])
    BY <1>2, <1>3 DEF Inv, CallsHold
  <1>7. CallsHold'
    BY <1>2, <1>3, <1>4, <1>5, <1>6 DEF CallsHold
  <1>. QED  BY <1>1, <1>7

\* A caller at one of the stages is in the middle of a call.
LEMMA InCall ==
    ASSUME Inv, NEW c \in Callers, asking[c].stage \in {"resolve", "load", "register", "ensure"}
    PROVE  asking[c] \in Running /\ CallHolds(asking[c]) /\ kernel = "up"
  <1>1. asking[c] # Idle /\ asking[c] \notin Ended
    BY DEF Idle, Ended
  <1>. QED  BY <1>1 DEF Inv, Types, CallsHold

LEMMA MissingEnds ==
    ASSUME Inv, NEW c \in Callers, asking[c].stage \in {"resolve", "load", "register", "ensure"},
           NEW answer \in {Missing, <<"forbidden">>}
    PROVE  LET r == [stage |-> "idle", by |-> asking[c].by, name |-> asking[c].name, answer |-> answer]
           IN  r \in Ended /\ RanRight(r)
  BY InCall DEF Running, Ended, RanRight, Missing

LEMMA AsksStep ==
    ASSUME Inv, NEW c \in Callers, Asks(c)
    PROVE  Inv'
  <1>1. kernel = "up" /\ UNCHANGED <<kernel, plugins, handlers, wireToFull>>
    BY DEF Asks, bootVars, tableVars
  <1>2. TablesHold'
    BY <1>1 DEF Inv, TablesHold, Declared
  <1>3. CASE \E wire \in Unknown \cup UNION {Wires(p) : p \in plugins} : Becomes(c, Call("model", wire))
    <2>1. PICK wire \in Unknown \cup UNION {Wires(p) : p \in plugins} : Becomes(c, Call("model", wire))
      BY <1>3
    <2>2. wire \in Unknown \cup Wire
      <3>1. ASSUME NEW p \in plugins, wire \in Wires(p)
            PROVE  wire \in Wire
        <4>1. PICK e \in EntriesOf(p) : wire = FullToWire(Full(p, e))
          BY <3>1 DEF Wires
        <4>. QED  BY <4>1, Declarations DEF Inv, Types
      <3>. QED  BY <3>1
    <2>3. Call("model", wire) \in Running /\ CallHolds(Call("model", wire))
      BY <2>2 DEF Call, Running, CallHolds, Wire
    <2>. QED  BY <1>1, <1>2, <2>1, <2>3, CallStep DEF Becomes, Inv
  <1>4. CASE \E p \in plugins : \E e \in EntriesOf(p) : Becomes(c, Call("user", Full(p, e)))
    <2>1. PICK p \in plugins : \E e \in EntriesOf(p) : Becomes(c, Call("user", Full(p, e)))
      BY <1>4
    <2>3. PICK e \in EntriesOf(p) : Becomes(c, Call("user", Full(p, e)))
      BY <2>1
    <2>2. Full(p, e) \in FullName /\ Full(p, e) # <<>>
      BY Declarations DEF Inv, Types
    <2>4. Call("user", Full(p, e)) \in Running /\ CallHolds(Call("user", Full(p, e)))
      BY <2>2 DEF Call, Running, CallHolds, Wire
    <2>. QED  BY <1>1, <1>2, <2>3, <2>4, CallStep DEF Becomes, Inv
  <1>. QED  BY <1>3, <1>4 DEF Asks

LEMMA ResolveStep ==
    ASSUME Inv, NEW c \in Callers, Resolve(c)
    PROVE  Inv'
  <1>. DEFINE r == asking[c]
  <1>1. r \in Running /\ CallHolds(r) /\ kernel = "up" /\ r.stage = "resolve"
    BY InCall DEF Resolve
  <1>2. UNCHANGED <<kernel, plugins, handlers, wireToFull>>
    BY DEF Resolve, bootVars, tableVars
  <1>3. TablesHold'
    BY <1>2 DEF Inv, TablesHold, Declared
  <1>4. r.by = "model" /\ r.kind = "tool" /\ r.full = <<>>
    <2>1. r.by \in {"model", "user"}
      BY <1>1 DEF Running
    <2>2. r.full = <<>> /\ (r.by = "user" => r.full # <<>>) /\ (r.by = "model" => r.kind = "tool")
      BY <1>1 DEF CallHolds
    <2>. QED  BY <2>1, <2>2
  <1>5. CASE r.name \in DOMAIN wireToFull
    <2>. DEFINE s == [r EXCEPT !.stage = "ensure", !.full = wireToFull[r.name]]
    <2>1. asking' = [asking EXCEPT ![c] = s]
      BY <1>5 DEF Resolve, Becomes
    <2>2. wireToFull[r.name] \in FullName /\ r.name = FullToWire(wireToFull[r.name]) /\ wireToFull[r.name] # <<>>
      <3>1. wireToFull[r.name] \in FullName /\ r.name = FullToWire(wireToFull[r.name])
        BY <1>5 DEF Inv, TablesHold
      <3>2. \A full \in FullName : full # <<>>
        BY EmptySeq DEF FullName
      <3>. QED  BY <3>1, <3>2
    <2>3. s \in Running /\ s.stage = "ensure" /\ s.by = "model" /\ s.kind = "tool" /\ s.full = wireToFull[r.name]
          /\ s.name = r.name
      BY <1>1, <1>4, <2>2 DEF Running
    <2>4. CallHolds(s)
      BY <2>2, <2>3 DEF CallHolds
    <2>. QED  BY <1>1, <1>2, <1>3, <2>1, <2>3, <2>4, CallStep DEF Inv
  <1>6. CASE Answered(c, Missing)
    BY <1>1, <1>2, <1>3, <1>6, CallStep, MissingEnds DEF Answered, Becomes, Inv
  <1>7. ASSUME NEW p \in plugins, Becomes(c, [r EXCEPT !.stage = "load", !.loads = p.namespace])
        PROVE  Inv'
    <2>. DEFINE s == [r EXCEPT !.stage = "load", !.loads = p.namespace]
    <2>1. p.namespace \in Wire
      BY DescriptorsAssumption DEF Inv, Types, Wire
    <2>2. s \in Running /\ s.stage = "load" /\ s.by = r.by /\ s.kind = r.kind /\ s.full = r.full /\ s.name = r.name
      BY <1>1, <2>1 DEF Running
    <2>3. CallHolds(s)
      BY <1>4, <2>2 DEF CallHolds
    <2>. QED  BY <1>1, <1>2, <1>3, <1>7, <2>2, <2>3, CallStep DEF Becomes, Inv
  <1>. QED  BY <1>5, <1>6, <1>7 DEF Resolve

\* Back from the loading of a plugin, to the look-up it was for.
LEMMA Returning ==
    ASSUME Inv, NEW c \in Callers, asking[c].stage \in {"load", "register"}, NEW race \in BOOLEAN
    PROVE  LET r == [Returns(c) EXCEPT !.raced = race]
           IN  /\ r \in Running /\ CallHolds(r)
               /\ Returns(c) \in Running /\ CallHolds(Returns(c))
  <1>. DEFINE r == Returns(c)
              s == [r EXCEPT !.raced = race]
  <1>1. asking[c] \in Running /\ CallHolds(asking[c])
    BY InCall
  <1>2. /\ r \in Running /\ r.by = asking[c].by /\ r.name = asking[c].name /\ r.full = asking[c].full
        /\ r.kind = asking[c].kind /\ r.stage = (IF asking[c].full = <<>> THEN "resolve" ELSE "ensure")
    BY <1>1 DEF Returns, Running
  <1>3. CallHolds(r)
    BY <1>1, <1>2 DEF CallHolds
  <1>. HIDE DEF r
  <1>4. /\ s \in Running /\ s.by = r.by /\ s.name = r.name /\ s.full = r.full
        /\ s.kind = r.kind /\ s.stage = r.stage
    BY <1>2 DEF Running
  <1>5. CallHolds(s)
    BY <1>2, <1>3, <1>4 DEF CallHolds
  <1>. QED  BY <1>2, <1>3, <1>4, <1>5 DEF r

LEMMA LoadStep ==
    ASSUME Inv, NEW c \in Callers, Load(c)
    PROVE  Inv'
  <1>. DEFINE r == asking[c]
  <1>1. r \in Running /\ CallHolds(r) /\ kernel = "up" /\ r.stage = "load"
    BY InCall DEF Load
  <1>2. UNCHANGED <<kernel, plugins, handlers, wireToFull>>
    BY DEF Load, bootVars, tableVars
  <1>3. TablesHold'
    BY <1>2 DEF Inv, TablesHold, Declared
  <1>4. CASE r.loads \in loaded
    <2>. DEFINE race == r.raced \/ Registering(r.loads)
    <2>1. race \in BOOLEAN
      BY <1>1 DEF Running, Registering
    <2>2. asking' = [asking EXCEPT ![c] = [Returns(c) EXCEPT !.raced = race]]
      BY <1>4 DEF Load, Becomes
    <2>. HIDE DEF race
    <2>. QED  BY <1>1, <1>2, <1>3, <2>1, <2>2, CallStep, Returning DEF Inv
  <1>5. ASSUME NEW p \in plugins, p.namespace = r.loads, Becomes(c, [r EXCEPT !.stage = "register", !.rest = p.entries])
        PROVE  Inv'
    <2>. DEFINE s == [r EXCEPT !.stage = "register", !.rest = p.entries]
    <2>1. p.entries \in Seq(Entry) /\ \A i \in 1..Len(p.entries) : p.entries[i] \in EntriesOf(p)
      BY DescriptorsAssumption DEF Inv, Types, Entry, Wire, EntriesOf
    <2>2. /\ s \in Running /\ s.stage = "register" /\ s.by = r.by /\ s.kind = r.kind /\ s.full = r.full
          /\ s.name = r.name /\ s.rest = p.entries /\ s.loads = r.loads
      BY <1>1, <2>1 DEF Running
    <2>3. CallHolds(s)
      BY <1>1, <1>5, <2>1, <2>2 DEF CallHolds
    <2>. QED  BY <1>1, <1>2, <1>3, <1>5, <2>2, <2>3, CallStep DEF Becomes, Inv
  <1>. QED  BY <1>4, <1>5 DEF Load

LEMMA FailsStep ==
    ASSUME Inv, NEW c \in Callers, Fails(c)
    PROVE  Inv'
  <1>. DEFINE r == asking[c]
  <1>1. r \in Running /\ CallHolds(r) /\ kernel = "up" /\ r.stage = "register"
    BY InCall DEF Fails
  <1>2. UNCHANGED <<kernel, plugins, handlers, wireToFull>>
    BY DEF Fails, bootVars, tableVars
  <1>3. TablesHold'
    BY <1>2 DEF Inv, TablesHold, Declared
  <1>4. CASE r.full = <<>> /\ Becomes(c, Returns(c))
    BY <1>1, <1>2, <1>3, <1>4, CallStep, Returning DEF Becomes, Inv
  <1>5. CASE r.full # <<>> /\ r.kind = "command" /\ Becomes(c, [r EXCEPT !.stage = "ensure", !.kind = "tool", !.tried = FALSE])
    <2>. DEFINE s == [r EXCEPT !.stage = "ensure", !.kind = "tool", !.tried = FALSE]
    <2>1. s \in Running /\ s.stage = "ensure" /\ s.by = r.by /\ s.kind = "tool" /\ s.full = r.full /\ s.name = r.name
      BY <1>1 DEF Running
    <2>2. CallHolds(s)
      BY <1>1, <1>5, <2>1 DEF CallHolds
    <2>. QED  BY <1>1, <1>2, <1>3, <1>5, <2>1, <2>2, CallStep DEF Becomes, Inv
  <1>6. CASE Answered(c, Missing)
    BY <1>1, <1>2, <1>3, <1>6, CallStep, MissingEnds DEF Answered, Becomes, Inv
  <1>. QED  BY <1>4, <1>5, <1>6 DEF Fails

LEMMA InsertStep ==
    ASSUME Inv, NEW c \in Callers, Insert(c)
    PROVE  Inv'
  <1>. DEFINE r == asking[c]
  <1>1. r \in Running /\ CallHolds(r) /\ kernel = "up" /\ r.stage = "register"
    BY InCall DEF Insert
  <1>2. UNCHANGED <<kernel, plugins>>
    BY DEF Insert, bootVars
  <1>3. CASE r.rest = <<>>
    <2>1. UNCHANGED <<handlers, wireToFull>> /\ Becomes(c, Returns(c))
      BY <1>3 DEF Insert, tableVars
    <2>2. TablesHold'
      BY <1>2, <2>1 DEF Inv, TablesHold, Declared
    <2>. QED  BY <1>1, <1>2, <2>1, <2>2, CallStep, Returning DEF Becomes, Inv
  <1>4. CASE r.rest # <<>>
    <2>. DEFINE e == Head(r.rest)
                full == <<r.loads, e.name>>
                s == [r EXCEPT !.rest = Tail(r.rest)]
    <2>1. PICK p \in plugins : p.namespace = r.loads /\ \A i \in 1..Len(r.rest) : r.rest[i] \in EntriesOf(p)
      BY <1>1 DEF CallHolds
    <2>2. r.rest \in Seq(Entry)
      BY <1>1 DEF Running
    <2>3. Len(r.rest) \in Nat \ {0} /\ e = r.rest[1]
      BY <1>4, <2>2
    <2>4. e \in EntriesOf(p)
      BY <2>1, <2>3
    <2>5. Tail(r.rest) \in Seq(Entry) /\ \A i \in 1..Len(Tail(r.rest)) : Tail(r.rest)[i] \in EntriesOf(p)
      <3>1. /\ Tail(r.rest) \in Seq(Entry) /\ Len(Tail(r.rest)) = Len(r.rest) - 1
            /\ \A i \in 1..Len(Tail(r.rest)) : Tail(r.rest)[i] = r.rest[i + 1]
        BY <1>4, <2>2, HeadTailProperties
      <3>2. \A i \in 1..Len(Tail(r.rest)) : i + 1 \in 1..Len(r.rest)
        BY <2>3, <3>1
      <3>. QED  BY <2>1, <3>1, <3>2
    <2>6. full = Full(p, e)
      BY <2>1 DEF Full
    <2>7. full \in FullName
      BY <2>4, <2>6, Declarations DEF Inv, Types
    <2>8. /\ asking' = [asking EXCEPT ![c] = s]
          /\ handlers' = [f \in DOMAIN handlers \cup {full} |-> IF f = full THEN e ELSE handlers[f]]
          /\ wireToFull' = [w \in DOMAIN wireToFull \cup {FullToWire(full)} |->
                              IF w = FullToWire(full) THEN full ELSE wireToFull[w]]
      BY <1>4 DEF Insert, Becomes
    <2>9. Declared(full, e)
      BY <2>4, <2>6 DEF Declared
    <2>10. s \in Running /\ s.stage = "register" /\ s.by = r.by /\ s.kind = r.kind /\ s.full = r.full
           /\ s.name = r.name /\ s.loads = r.loads /\ s.rest = Tail(r.rest)
      BY <1>1, <2>5 DEF Running
    <2>11. CallHolds(s)
      BY <1>1, <2>1, <2>5, <2>10 DEF CallHolds
    <2>. HIDE DEF e, full, s
    <2>12. TablesHold'
      <3>1. \A f, d : Declared(f, d)' = Declared(f, d)
        BY <1>2 DEF Declared
      <3>2. \A f \in DOMAIN handlers' : Declared(f, handlers'[f])
        BY <2>8, <2>9 DEF Inv, TablesHold
      <3>3. \A w \in DOMAIN wireToFull' : wireToFull'[w] \in FullName /\ w = FullToWire(wireToFull'[w])
        BY <2>7, <2>8 DEF Inv, TablesHold
      <3>. QED  BY <3>1, <3>2, <3>3 DEF TablesHold
    <2>. QED  BY <1>1, <1>2, <2>8, <2>10, <2>11, <2>12, CallStep DEF Inv
  <1>. QED  BY <1>3, <1>4

\* What runs is the entry under the name that was looked up, if the caller may.
LEMMA EnsureStep ==
    ASSUME Inv, NEW c \in Callers, Ensure(c)
    PROVE  Inv'
  <1>. DEFINE r == asking[c]
  <1>1. r \in Running /\ CallHolds(r) /\ kernel = "up" /\ r.stage = "ensure"
    BY InCall DEF Ensure
  <1>2. UNCHANGED <<kernel, plugins, handlers, wireToFull>>
    BY DEF Ensure, bootVars, tableVars
  <1>3. TablesHold'
    BY <1>2 DEF Inv, TablesHold, Declared
  <1>4. r.full # <<>> /\ r.full \in FullName
    BY <1>1 DEF CallHolds, Running
  <1>5. CASE Becomes(c, [r EXCEPT !.stage = "load", !.loads = r.full[1]])
    <2>. DEFINE s == [r EXCEPT !.stage = "load", !.loads = r.full[1]]
    <2>1. r.full[1] \in Wire
      BY <1>4 DEF FullName
    <2>2. s \in Running /\ s.stage = "load" /\ s.by = r.by /\ s.kind = r.kind /\ s.full = r.full /\ s.name = r.name
      BY <1>1, <2>1 DEF Running
    <2>3. CallHolds(s)
      BY <1>1, <2>2 DEF CallHolds
    <2>. QED  BY <1>1, <1>2, <1>3, <1>5, <2>2, <2>3, CallStep DEF Becomes, Inv
  <1>6. CASE r.kind = "command" /\ Becomes(c, [r EXCEPT !.kind = "tool", !.tried = FALSE])
    <2>. DEFINE s == [r EXCEPT !.kind = "tool", !.tried = FALSE]
    <2>1. s \in Running /\ s.stage = "ensure" /\ s.by = r.by /\ s.kind = "tool" /\ s.full = r.full /\ s.name = r.name
      BY <1>1 DEF Running
    <2>2. CallHolds(s)
      BY <1>1, <1>6, <2>1 DEF CallHolds
    <2>. QED  BY <1>1, <1>2, <1>3, <1>6, <2>1, <2>2, CallStep DEF Becomes, Inv
  <1>7. ASSUME NEW answer \in {Missing, <<"forbidden">>}, Answered(c, answer)
        PROVE  Inv'
    BY <1>1, <1>2, <1>3, <1>7, CallStep, MissingEnds DEF Answered, Becomes, Inv
  <1>8. CASE /\ r.full \in DOMAIN handlers /\ handlers[r.full].kind = r.kind
             /\ ~(r.by = "model" /\ handlers[r.full].policy = "UserOnly") /\ Answered(c, Ran(r.full))
    <2>. DEFINE d == handlers[r.full]
                s == [stage |-> "idle", by |-> r.by, name |-> r.name, answer |-> Ran(r.full)]
    <2>1. Declared(r.full, d)
      BY <1>8 DEF Inv, TablesHold
    <2>2. d \in Entry
      BY <2>1, Declarations DEF Declared, Inv, Types
    <2>3. s \in Ended /\ s.by = r.by /\ s.name = r.name /\ s.answer = Ran(r.full)
      BY <1>1, <1>4 DEF Ended, Running
    <2>4. s.answer[2] = r.full
      BY <2>3 DEF Ran
    <2>5. RanRight(s)
      <3>1. CASE r.by = "user"
        BY <1>1, <2>3, <2>4, <3>1 DEF RanRight, CallHolds
      <3>2. CASE r.by = "model"
        <4>1. r.kind = "tool" /\ FullToWire(r.full) = r.name
          BY <1>1, <1>4, <3>2 DEF CallHolds
        <4>2. ASSUME NEW p \in plugins, NEW e \in EntriesOf(p), FullToWire(Full(p, e)) = r.name
              PROVE  Full(p, e) = r.full /\ e.kind = "tool" /\ e.policy = "UserAndModel"
          <5>1. r.full = Full(p, e) /\ d = e
            BY <2>1, <4>1, <4>2, DeclaredOnce DEF Inv
          <5>. QED  BY <1>8, <2>2, <3>2, <4>1, <5>1 DEF Entry
        <4>. QED  BY <2>3, <2>4, <3>2, <4>2 DEF RanRight
      <3>. QED  BY <1>1, <3>1, <3>2 DEF Running
    <2>6. asking' = [asking EXCEPT ![c] = s]
      BY <1>8 DEF Answered, Becomes
    <2>. QED  BY <1>1, <1>2, <1>3, <2>3, <2>5, <2>6, CallStep DEF Inv
  <1>. QED  BY <1>1, <1>5, <1>6, <1>7, <1>8 DEF Ensure

------------------------------------------------------------------------------
(* The start *)

LEMMA RegisterStep ==
    ASSUME Inv, NEW p \in Descriptors, Register(p)
    PROVE  Inv'
  <1>1. kernel = "starting" /\ UNCHANGED <<handlers, wireToFull, asking>>
    BY DEF Register, Checked, tableVars
  <1>2. \A c \in Callers : asking[c] = Idle
    BY <1>1 DEF Inv, Types
  <1>3. Idle \notin Running /\ Idle \notin Ended
    BY DEF Idle, Running, Ended
  <1>4. CallsHold'
    BY <1>1, <1>2, <1>3 DEF CallsHold
  <1>5. CASE TakesOneNamespace(p) /\ NamesItsOwn(p) /\ plugins' = plugins \cup {p} /\ UNCHANGED kernel
    <2>1. Types'
      BY <1>1, <1>2, <1>5 DEF Inv, Types
    <2>2. \A f, e : Declared(f, e) => Declared(f, e)'
      BY <1>5 DEF Declared
    <2>3. TablesHold'
      BY <1>1, <2>2 DEF Inv, TablesHold
    <2>4. \A q, s \in plugins' : q.namespace = s.namespace => q = s
      BY <1>5 DEF Inv, Distinct, TakesOneNamespace
    <2>5. \A q, s \in plugins' : q # s => Wires(q) \cap Wires(s) = {}
      BY <1>5 DEF Inv, Distinct, NamesItsOwn
    <2>6. \A q \in plugins' : \A i, j \in DOMAIN q.entries : i # j => q.entries[i].name # q.entries[j].name
      BY <1>5 DEF Inv, Distinct, NamesItsOwn
    <2>. QED  BY <1>4, <2>1, <2>3, <2>4, <2>5, <2>6 DEF Inv, Distinct
  <1>6. CASE kernel' = "refused" /\ UNCHANGED plugins
    <2>1. Types'
      BY <1>1, <1>2, <1>6 DEF Inv, Types
    <2>2. TablesHold' /\ Distinct'
      BY <1>1, <1>6 DEF Inv, TablesHold, Declared, Distinct
    <2>. QED  BY <1>4, <2>1, <2>2 DEF Inv
  <1>. QED  BY <1>5, <1>6 DEF Register, Checked

LEMMA BuiltStep ==
    ASSUME Inv, Built
    PROVE  Inv'
  <1>1. kernel = "starting" /\ kernel' = "up" /\ UNCHANGED <<plugins, handlers, wireToFull, asking>>
    BY DEF Built, tableVars
  <1>2. Types' /\ Distinct' /\ TablesHold'
    BY <1>1 DEF Inv, Types, Distinct, TablesHold, Declared
  <1>3. CallsHold'
    BY <1>1 DEF Inv, CallsHold, CallHolds, RanRight
  <1>. QED  BY <1>2, <1>3 DEF Inv

LEMMA InitHolds == RegistryInit => Inv
  <1>. SUFFICES ASSUME RegistryInit PROVE Inv
    OBVIOUS
  <1>1. kernel = "starting" /\ plugins = {} /\ DOMAIN handlers = {} /\ DOMAIN wireToFull = {}
        /\ asking = [c \in Callers |-> Idle]
    BY DEF RegistryInit, Empty
  <1>2. Idle \notin Running /\ Idle \notin Ended
    BY DEF Idle, Running, Ended
  <1>. QED  BY <1>1, <1>2 DEF Inv, Types, Distinct, TablesHold, CallsHold

LEMMA NextKeeps == Inv /\ [RegistryNext]_registryVars => Inv'
  <1>. SUFFICES ASSUME Inv, [RegistryNext]_registryVars PROVE Inv'
    OBVIOUS
  <1>1. CASE UNCHANGED registryVars
    <2>1. UNCHANGED <<kernel, plugins, handlers, wireToFull, asking>>
      BY <1>1 DEF registryVars, bootVars, tableVars
    <2>2. Types' /\ Distinct' /\ TablesHold'
      BY <2>1 DEF Inv, Types, Distinct, TablesHold, Declared
    <2>3. CallsHold'
      BY <2>1 DEF Inv, CallsHold, CallHolds, RanRight
    <2>. QED  BY <2>2, <2>3 DEF Inv
  <1>2. CASE RegistryNext
    BY <1>2, RegisterStep, BuiltStep, AsksStep, ResolveStep, LoadStep, FailsStep, InsertStep, EnsureStep
       DEF RegistryNext
  <1>. QED  BY <1>1, <1>2

------------------------------------------------------------------------------
\* What runs is what was called: for the user the entry he named, for the model
\* the one entry that has the wire name, a tool, and never one that is the
\* user's alone; for any plugins, callers and made-up names, while plugins are
\* being loaded by others (Registry::register_inner, resolve_wire, check_policy).
THEOREM RunsWhatWasAsked == RegistrySpec => []RunsWhatWasCalled
  <1>1. Inv => RunsWhatWasCalled
    <2>. SUFFICES ASSUME Inv, NEW c \in Callers, asking[c].stage = "idle", asking[c] # Idle
                  PROVE  RanRight(asking[c])
      BY DEF RunsWhatWasCalled, RanRight
    <2>1. asking[c] \in Ended
      BY DEF Inv, Types, Running
    <2>. QED  BY <2>1 DEF Inv, CallsHold
  <1>. QED  BY <1>1, InitHolds, NextKeeps, PTL DEF RegistrySpec

------------------------------------------------------------------------------
(* What a search finds *)

InTables(p, e, fulls, wires) == Full(p, e) \in fulls /\ FullToWire(Full(p, e)) \in wires

\* A plugin that is loaded, and that nobody is registering, is in the tables as
\* a whole.
PluginsFill ==
    /\ kernel # "up" => loaded = {}
    /\ \A w \in DOMAIN wireToFull : wireToFull[w] \in DOMAIN handlers
    /\ \A p \in plugins : p.namespace \in loaded /\ ~Broken(p.namespace) /\ ~Registering(p.namespace) =>
          \A e \in EntriesOf(p) : InTables(p, e, DOMAIN handlers, DOMAIN wireToFull)

\* What a call is for, if a plugin declares it.
Sought(r, p, e) == r.name = IF r.by = "model" THEN FullToWire(Full(p, e)) ELSE Full(p, e)

\* A plugin that is being registered lacks only what is left of it.
LeftHolds(r, fulls, wires) ==
    \A p \in plugins : p.namespace = r.loads =>
        \A e \in EntriesOf(p) : InTables(p, e, fulls, wires) \/ \E i \in 1..Len(r.rest) : r.rest[i] = e

\* A call loads the plugin of what it seeks, and finds it in the tables then; it
\* takes what is a command for none only if it has missed it.
FindsHold(r, fulls, wires) ==
    \A p \in plugins : \A e \in EntriesOf(p) : Sought(r, p, e) =>
        /\ r.stage \in {"load", "register"} => r.loads = p.namespace
        /\ r.tried => Broken(p.namespace) \/ r.raced \/ InTables(p, e, fulls, wires)
        /\ r.by = "user" /\ r.kind = "tool" /\ e.kind = "command" => Broken(p.namespace) \/ r.raced

SearchHolds(r, fulls, wires) ==
    /\ r.by = "model" /\ r.full # <<>> => r.full \in fulls
    /\ r.stage = "register" => LeftHolds(r, fulls, wires)
    /\ FindsHold(r, fulls, wires)

SearchesHold ==
    \A c \in Callers : asking[c] \in Running => SearchHolds(asking[c], DOMAIN handlers, DOMAIN wireToFull)

Whole == Inv /\ PluginsFill /\ SearchesHold

LEMMA TablesGrow ==
    ASSUME NEW r, NEW fulls, NEW wires, NEW moreFulls, NEW moreWires, fulls \subseteq moreFulls,
           wires \subseteq moreWires, SearchHolds(r, fulls, wires)
    PROVE  SearchHolds(r, moreFulls, moreWires)
  <1>1. \A p, e : InTables(p, e, fulls, wires) => InTables(p, e, moreFulls, moreWires)
    BY DEF InTables
  <1>2. LeftHolds(r, fulls, wires) => LeftHolds(r, moreFulls, moreWires)
    BY <1>1 DEF LeftHolds
  <1>3. FindsHold(r, fulls, wires) => FindsHold(r, moreFulls, moreWires)
    BY <1>1 DEF FindsHold
  <1>. QED  BY <1>2, <1>3 DEF SearchHolds

\* A search reads of its call only these.
LEMMA SameSearch ==
    ASSUME NEW r, NEW s, NEW fulls, NEW wires, SearchHolds(r, fulls, wires), s.by = r.by, s.name = r.name,
           s.kind = r.kind, s.tried = r.tried, s.raced = r.raced, s.stage \in {"resolve", "ensure"},
           s.by = "model" /\ s.full # <<>> => s.full \in fulls
    PROVE  SearchHolds(s, fulls, wires)
  <1>1. \A p, e : Sought(s, p, e) => Sought(r, p, e)
    BY DEF Sought
  <1>. QED  BY <1>1 DEF SearchHolds, FindsHold

\* A caller moves, the plugins stay and the tables grow.
LEMMA SearchStep ==
    ASSUME Whole, NEW c \in Callers, NEW r, asking' = [asking EXCEPT ![c] = r], kernel = "up",
           UNCHANGED <<kernel, plugins>>,
           DOMAIN handlers \subseteq DOMAIN handlers', DOMAIN wireToFull \subseteq DOMAIN wireToFull',
           \A w \in DOMAIN wireToFull' : wireToFull'[w] \in DOMAIN handlers',
           \A ns \in loaded' : ns \in loaded \/ (r.stage = "register" /\ r.loads = ns),
           asking[c].stage = "register" =>
               \/ r.stage = "register" /\ r.loads = asking[c].loads
               \/ Broken(asking[c].loads)
               \/ asking[c].rest = <<>>,
           r \in Running => SearchHolds(r, DOMAIN handlers', DOMAIN wireToFull')
    PROVE  PluginsFill' /\ SearchesHold'
  <1>. DEFINE fulls == DOMAIN handlers
              wires == DOMAIN wireToFull
              moreFulls == DOMAIN handlers'
              moreWires == DOMAIN wireToFull'
  <1>1. asking'[c] = r /\ \A d \in Callers \ {c} : asking'[d] = asking[d]
    BY DEF Whole, Inv, Types
  <1>2. ASSUME NEW d \in Callers, asking'[d] \in Running
        PROVE  SearchHolds(asking'[d], moreFulls, moreWires)
    <2>1. CASE d = c
      BY <1>1, <1>2, <2>1
    <2>2. CASE d # c
      <3>1. SearchHolds(asking[d], fulls, wires) /\ asking'[d] = asking[d]
        BY <1>1, <1>2, <2>2 DEF Whole, SearchesHold
      <3>. HIDE DEF fulls, wires, moreFulls, moreWires
      <3>2. fulls \subseteq moreFulls /\ wires \subseteq moreWires
        BY DEF fulls, wires, moreFulls, moreWires
      <3>3. SearchHolds(asking[d], moreFulls, moreWires)
        BY <3>1, <3>2, TablesGrow
      <3>. QED  BY <3>1, <3>3
    <2>. QED  BY <2>1, <2>2
  <1>3. \A ns : Broken(ns)' = Broken(ns)
    BY DEF Broken
  <1>4. \A x, fs, ws : SearchHolds(x, fs, ws)' = SearchHolds(x, fs, ws)
    <2>1. \A x, fs, ws : LeftHolds(x, fs, ws)' = LeftHolds(x, fs, ws)
      BY DEF LeftHolds, InTables
    <2>2. \A x, fs, ws : FindsHold(x, fs, ws)' = FindsHold(x, fs, ws)
      BY <1>3 DEF FindsHold, InTables, Sought
    <2>. QED  BY <2>1, <2>2 DEF SearchHolds
  <1>5. SearchesHold'
    BY <1>2, <1>4 DEF SearchesHold
  <1>6. ASSUME NEW p \in plugins, p.namespace \in loaded', ~Broken(p.namespace), ~Registering(p.namespace)',
               NEW e \in EntriesOf(p)
        PROVE  InTables(p, e, moreFulls, moreWires)
    <2>1. ~(r.stage = "register" /\ r.loads = p.namespace)
      BY <1>1, <1>6 DEF Registering
    <2>2. p.namespace \in loaded
      BY <1>6, <2>1
    <2>3. CASE ~Registering(p.namespace)
      BY <1>6, <2>2, <2>3 DEF Whole, PluginsFill, InTables
    <2>4. CASE Registering(p.namespace)
      <3>1. PICK d \in Callers : asking[d].stage = "register" /\ asking[d].loads = p.namespace
        BY <2>4 DEF Registering
      <3>2. d = c
        BY <1>1, <1>6, <3>1 DEF Registering
      <3>3. asking[c].rest = <<>>
        BY <1>6, <2>1, <3>1, <3>2
      <3>4. SearchHolds(asking[c], fulls, wires)
        BY <3>1, <3>2, InCall DEF Whole, SearchesHold
      <3>5. LeftHolds(asking[c], fulls, wires)
        BY <3>1, <3>2, <3>4 DEF SearchHolds
      <3>6. InTables(p, e, fulls, wires) \/ \E i \in 1..Len(asking[c].rest) : asking[c].rest[i] = e
        BY <1>6, <3>1, <3>2, <3>5 DEF LeftHolds
      <3>7. InTables(p, e, fulls, wires)
        BY <3>3, <3>6
      <3>. QED  BY <3>7 DEF InTables
    <2>. QED  BY <2>3, <2>4
  <1>7. PluginsFill'
    <2>1. \A p, e, fs, ws : InTables(p, e, fs, ws)' = InTables(p, e, fs, ws)
      BY DEF InTables
    <2>. QED  BY <1>3, <1>6, <2>1 DEF PluginsFill
  <1>. QED  BY <1>5, <1>7

------------------------------------------------------------------------------
(* Steps of a search *)

LEMMA Searching ==
    ASSUME Whole, NEW c \in Callers, asking[c].stage \in {"resolve", "load", "register", "ensure"}
    PROVE  /\ asking[c] \in Running /\ CallHolds(asking[c]) /\ kernel = "up"
           /\ SearchHolds(asking[c], DOMAIN handlers, DOMAIN wireToFull)
  BY InCall DEF Whole, SearchesHold

LEMMA AsksSearch ==
    ASSUME Whole, NEW c \in Callers, Asks(c)
    PROVE  PluginsFill' /\ SearchesHold'
  <1>1. /\ kernel = "up" /\ asking[c].stage = "idle"
        /\ UNCHANGED <<kernel, plugins, loaded, handlers, wireToFull>>
    BY DEF Asks, bootVars, tableVars
  <1>2. \A w \in DOMAIN wireToFull' : wireToFull'[w] \in DOMAIN handlers'
    BY <1>1 DEF Whole, PluginsFill
  <1>3. PICK by, name : by \in {"model", "user"} /\ Becomes(c, Call(by, name))
    BY DEF Asks
  <1>. DEFINE r == Call(by, name)
  <1>4. /\ r.stage \in {"resolve", "ensure"} /\ ~r.tried /\ (r.by = "model" => r.full = <<>>)
        /\ (r.by = "user" => r.kind = "command")
    BY DEF Call
  <1>. HIDE DEF r
  <1>5. SearchHolds(r, DOMAIN handlers', DOMAIN wireToFull')
    BY <1>4 DEF SearchHolds, FindsHold
  <1>6. asking' = [asking EXCEPT ![c] = r]
    BY <1>3 DEF Becomes, r
  <1>. QED  BY <1>1, <1>2, <1>5, <1>6, SearchStep

\* The wire name of a declared entry leads to its plugin alone.
LEMMA ResolveSearch ==
    ASSUME Whole, NEW c \in Callers, Resolve(c)
    PROVE  PluginsFill' /\ SearchesHold'
  <1>. DEFINE r == asking[c]
              fulls == DOMAIN handlers
              wires == DOMAIN wireToFull
  <1>1. r \in Running /\ CallHolds(r) /\ kernel = "up" /\ r.stage = "resolve" /\ SearchHolds(r, fulls, wires)
    BY Searching DEF Resolve
  <1>2. UNCHANGED <<kernel, plugins, loaded, handlers, wireToFull>>
    BY DEF Resolve, bootVars, tableVars
  <1>3. \A w \in DOMAIN wireToFull' : wireToFull'[w] \in DOMAIN handlers'
    BY <1>2 DEF Whole, PluginsFill
  <1>4. ASSUME NEW s, Becomes(c, s), s \in Running => SearchHolds(s, fulls, wires)
        PROVE  PluginsFill' /\ SearchesHold'
    BY <1>1, <1>2, <1>3, <1>4, SearchStep DEF Becomes
  <1>5. CASE r.name \in wires
    <2>. DEFINE s == [r EXCEPT !.stage = "ensure", !.full = wireToFull[r.name]]
    <2>1. Becomes(c, s)
      BY <1>5 DEF Resolve
    <2>2. s.full \in fulls /\ s.stage = "ensure" /\ s.by = r.by /\ s.name = r.name /\ s.kind = r.kind
          /\ s.tried = r.tried /\ s.raced = r.raced
      BY <1>1, <1>5 DEF Running, Whole, PluginsFill
    <2>. HIDE DEF s
    <2>3. SearchHolds(s, fulls, wires)
      BY <1>1, <2>2, SameSearch
    <2>. QED  BY <1>4, <2>1, <2>3
  <1>6. CASE Answered(c, Missing)
    <2>. DEFINE s == [stage |-> "idle", by |-> r.by, name |-> r.name, answer |-> Missing]
    <2>1. Becomes(c, s) /\ s \notin Running
      BY <1>6 DEF Answered, Running
    <2>. QED  BY <1>4, <2>1
  <1>7. ASSUME NEW p \in plugins, Declares(p, r.name), Becomes(c, [r EXCEPT !.stage = "load", !.loads = p.namespace])
        PROVE  PluginsFill' /\ SearchesHold'
    <2>. DEFINE s == [r EXCEPT !.stage = "load", !.loads = p.namespace]
    <2>1. s.stage = "load" /\ s.loads = p.namespace /\ s.by = r.by /\ s.name = r.name /\ s.kind = r.kind
          /\ s.tried = r.tried /\ s.raced = r.raced /\ s.full = r.full
      BY <1>1 DEF Running
    <2>2. r.by = "model"
      BY <1>1 DEF Running, CallHolds
    <2>. HIDE DEF s
    <2>3. \A q \in plugins : \A e \in EntriesOf(q) : Sought(s, q, e) => q = p
      BY <1>7, <2>1, <2>2 DEF Sought, Declares, Wires, Whole, Inv, Distinct
    <2>4. \A q, e : Sought(s, q, e) => Sought(r, q, e)
      BY <2>1 DEF Sought
    <2>5. SearchHolds(s, fulls, wires)
      BY <1>1, <2>1, <2>3, <2>4 DEF SearchHolds, FindsHold
    <2>. QED  BY <1>4, <1>7, <2>5 DEF s
  <1>. QED  BY <1>5, <1>6, <1>7 DEF Resolve

\* Back from the loading, with the plugin in the tables, or broken, or still
\* being registered by another.
LEMMA ReturnSearch ==
    ASSUME NEW c \in Callers, asking[c] \in Running, asking[c].stage \in {"load", "register"}, NEW s, NEW race \in BOOLEAN,
           s = Returns(c) \/ s = [Returns(c) EXCEPT !.raced = race], asking[c].raced => s.raced,
           SearchHolds(asking[c], DOMAIN handlers, DOMAIN wireToFull),
           \A p \in plugins : p.namespace = asking[c].loads =>
               \/ Broken(p.namespace)
               \/ s.raced
               \/ \A e \in EntriesOf(p) : InTables(p, e, DOMAIN handlers, DOMAIN wireToFull)
    PROVE  SearchHolds(s, DOMAIN handlers, DOMAIN wireToFull)
  <1>. DEFINE r == asking[c]
              fulls == DOMAIN handlers
              wires == DOMAIN wireToFull
  <1>1. /\ s.stage \in {"resolve", "ensure"} /\ s.by = r.by /\ s.name = r.name /\ s.kind = r.kind
        /\ s.full = r.full
    BY DEF Returns, Running
  <1>2. r.by = "model" /\ r.full # <<>> => r.full \in fulls
    BY DEF SearchHolds
  <1>3. ASSUME NEW p \in plugins, NEW e \in EntriesOf(p), Sought(s, p, e)
        PROVE  /\ Broken(p.namespace) \/ s.raced \/ InTables(p, e, fulls, wires)
               /\ s.by = "user" /\ s.kind = "tool" /\ e.kind = "command" => Broken(p.namespace) \/ s.raced
    <2>1. Sought(r, p, e)
      BY <1>1, <1>3 DEF Sought
    <2>2. /\ r.loads = p.namespace
          /\ r.by = "user" /\ r.kind = "tool" /\ e.kind = "command" => Broken(p.namespace) \/ r.raced
      BY <2>1 DEF SearchHolds, FindsHold
    <2>. QED  BY <1>1, <2>2
  <1>. QED  BY <1>1, <1>2, <1>3 DEF SearchHolds, FindsHold

LEMMA LoadSearch ==
    ASSUME Whole, NEW c \in Callers, Load(c)
    PROVE  PluginsFill' /\ SearchesHold'
  <1>. DEFINE r == asking[c]
              fulls == DOMAIN handlers
              wires == DOMAIN wireToFull
  <1>1. r \in Running /\ CallHolds(r) /\ kernel = "up" /\ r.stage = "load" /\ SearchHolds(r, fulls, wires)
    BY Searching DEF Load
  <1>2. UNCHANGED <<kernel, plugins, handlers, wireToFull>>
    BY DEF Load, bootVars, tableVars
  <1>3. \A w \in DOMAIN wireToFull' : wireToFull'[w] \in DOMAIN handlers'
    BY <1>2 DEF Whole, PluginsFill
  <1>4. CASE r.loads \in loaded
    <2>. DEFINE race == r.raced \/ Registering(r.loads)
                s == [Returns(c) EXCEPT !.raced = race]
    <2>1. race \in BOOLEAN
      BY <1>1 DEF Running, Registering
    <2>2. asking' = [asking EXCEPT ![c] = s] /\ UNCHANGED loaded
      BY <1>4 DEF Load, Becomes
    <2>3. s.raced = race
      BY <1>1 DEF Returns, Running
    <2>. HIDE DEF s
    <2>4. ASSUME NEW p \in plugins, p.namespace = r.loads
          PROVE  \/ Broken(p.namespace)
                 \/ s.raced
                 \/ \A e \in EntriesOf(p) : InTables(p, e, fulls, wires)
      BY <1>4, <2>3, <2>4 DEF Whole, PluginsFill
    <2>5. SearchHolds(s, fulls, wires)
      BY <1>1, <2>1, <2>3, <2>4, ReturnSearch DEF s
    <2>. QED  BY <1>1, <1>2, <1>3, <2>2, <2>5, SearchStep
  <1>5. CASE r.loads \notin loaded
    <2>1. PICK p \in plugins : p.namespace = r.loads /\ Becomes(c, [r EXCEPT !.stage = "register", !.rest = p.entries])
      BY <1>5 DEF Load
    <2>. DEFINE s == [r EXCEPT !.stage = "register", !.rest = p.entries]
    <2>2. /\ s.stage = "register" /\ s.rest = p.entries /\ s.loads = r.loads /\ s.by = r.by /\ s.name = r.name
          /\ s.kind = r.kind /\ s.tried = r.tried /\ s.raced = r.raced /\ s.full = r.full
      BY <1>1 DEF Running
    <2>3. loaded' = loaded \cup {r.loads}
      BY <1>5 DEF Load
    <2>. HIDE DEF s
    <2>4. p.entries \in Seq(Entry)
      BY DescriptorsAssumption DEF Whole, Inv, Types, Entry, Wire
    <2>5. LeftHolds(s, fulls, wires)
      <3>1. \A q \in plugins : q.namespace = s.loads => q = p
        BY <2>1, <2>2 DEF Whole, Inv, Distinct
      <3>2. \A e \in EntriesOf(p) : \E i \in 1..Len(s.rest) : s.rest[i] = e
        BY <2>2, <2>4 DEF EntriesOf
      <3>. QED  BY <3>1, <3>2 DEF LeftHolds
    <2>6. \A q, e : Sought(s, q, e) => Sought(r, q, e)
      BY <2>2 DEF Sought
    <2>7. SearchHolds(s, fulls, wires)
      BY <1>1, <2>2, <2>5, <2>6 DEF SearchHolds, FindsHold
    <2>8. asking' = [asking EXCEPT ![c] = s]
      BY <2>1 DEF Becomes, s
    <2>. QED  BY <1>1, <1>2, <1>3, <2>2, <2>3, <2>7, <2>8, SearchStep
  <1>. QED  BY <1>4, <1>5

LEMMA FailsSearch ==
    ASSUME Whole, NEW c \in Callers, Fails(c)
    PROVE  PluginsFill' /\ SearchesHold'
  <1>. DEFINE r == asking[c]
              fulls == DOMAIN handlers
              wires == DOMAIN wireToFull
  <1>1. r \in Running /\ CallHolds(r) /\ kernel = "up" /\ r.stage = "register" /\ SearchHolds(r, fulls, wires)
        /\ Broken(r.loads)
    BY Searching DEF Fails
  <1>2. UNCHANGED <<kernel, plugins, handlers, wireToFull>> /\ loaded' \subseteq loaded
    BY DEF Fails, bootVars, tableVars
  <1>3. \A w \in DOMAIN wireToFull' : wireToFull'[w] \in DOMAIN handlers'
    BY <1>2 DEF Whole, PluginsFill
  <1>4. ASSUME NEW s, Becomes(c, s), s \in Running => SearchHolds(s, fulls, wires)
        PROVE  PluginsFill' /\ SearchesHold'
    BY <1>1, <1>2, <1>3, <1>4, SearchStep DEF Becomes
  <1>5. CASE Becomes(c, Returns(c))
    <2>1. Returns(c).raced = r.raced
      BY <1>1 DEF Returns, Running
    <2>2. SearchHolds(Returns(c), fulls, wires)
      BY <1>1, <2>1, ReturnSearch
    <2>. QED  BY <1>4, <1>5, <2>2
  <1>6. CASE r.full # <<>> /\ Becomes(c, [r EXCEPT !.stage = "ensure", !.kind = "tool", !.tried = FALSE])
    <2>. DEFINE s == [r EXCEPT !.stage = "ensure", !.kind = "tool", !.tried = FALSE]
    <2>1. /\ s.stage = "ensure" /\ s.by = r.by /\ s.full = r.full /\ s.name = r.name /\ s.raced = r.raced
          /\ ~s.tried
      BY <1>1 DEF Running
    <2>. HIDE DEF s
    <2>2. \A q, e : Sought(s, q, e) => Sought(r, q, e)
      BY <2>1 DEF Sought
    <2>3. SearchHolds(s, fulls, wires)
      BY <1>1, <2>1, <2>2 DEF SearchHolds, FindsHold
    <2>. QED  BY <1>4, <1>6, <2>3 DEF s
  <1>7. CASE Answered(c, Missing)
    <2>. DEFINE s == [stage |-> "idle", by |-> r.by, name |-> r.name, answer |-> Missing]
    <2>1. Becomes(c, s) /\ s \notin Running
      BY <1>7 DEF Answered, Running
    <2>. QED  BY <1>4, <2>1
  <1>. QED  BY <1>5, <1>6, <1>7 DEF Fails

\* What leaves the rest is in the tables; the tables keep what they have.
LEMMA InsertSearch ==
    ASSUME Whole, NEW c \in Callers, Insert(c)
    PROVE  PluginsFill' /\ SearchesHold'
  <1>. DEFINE r == asking[c]
              fulls == DOMAIN handlers
              wires == DOMAIN wireToFull
  <1>1. r \in Running /\ CallHolds(r) /\ kernel = "up" /\ r.stage = "register" /\ SearchHolds(r, fulls, wires)
    BY Searching DEF Insert
  <1>2. UNCHANGED <<kernel, plugins, loaded>>
    BY DEF Insert, bootVars
  <1>3. LeftHolds(r, fulls, wires)
    BY <1>1 DEF SearchHolds
  <1>4. CASE r.rest = <<>>
    <2>. DEFINE s == Returns(c)
    <2>1. UNCHANGED <<handlers, wireToFull>> /\ asking' = [asking EXCEPT ![c] = s]
      BY <1>4 DEF Insert, tableVars, Becomes
    <2>2. \A w \in DOMAIN wireToFull' : wireToFull'[w] \in DOMAIN handlers'
      BY <2>1 DEF Whole, PluginsFill
    <2>3. s.raced = r.raced
      BY <1>1 DEF Returns, Running
    <2>4. \A p \in plugins : p.namespace = r.loads => \A e \in EntriesOf(p) : InTables(p, e, fulls, wires)
      BY <1>3, <1>4 DEF LeftHolds
    <2>5. SearchHolds(s, fulls, wires)
      BY <1>1, <2>3, <2>4, ReturnSearch
    <2>. HIDE DEF s
    <2>. QED  BY <1>1, <1>2, <1>4, <2>1, <2>2, <2>5, SearchStep
  <1>5. CASE r.rest # <<>>
    <2>. DEFINE e == Head(r.rest)
                full == <<r.loads, e.name>>
                s == [r EXCEPT !.rest = Tail(r.rest)]
                moreFulls == DOMAIN handlers'
                moreWires == DOMAIN wireToFull'
    <2>1. /\ asking' = [asking EXCEPT ![c] = s]
          /\ moreFulls = fulls \cup {full} /\ moreWires = wires \cup {FullToWire(full)}
          /\ \A w \in moreWires : wireToFull'[w] = IF w = FullToWire(full) THEN full ELSE wireToFull[w]
      BY <1>5 DEF Insert, Becomes
    <2>2. /\ s.stage = "register" /\ s.rest = Tail(r.rest) /\ s.loads = r.loads /\ s.by = r.by
          /\ s.name = r.name /\ s.kind = r.kind /\ s.tried = r.tried /\ s.raced = r.raced /\ s.full = r.full
      BY <1>1 DEF Running
    <2>3. /\ r.rest \in Seq(Entry) /\ Len(r.rest) \in Nat \ {0} /\ e = r.rest[1]
          /\ Len(Tail(r.rest)) = Len(r.rest) - 1
          /\ \A i \in 1..Len(Tail(r.rest)) : Tail(r.rest)[i] = r.rest[i + 1]
      BY <1>1, <1>5, HeadTailProperties DEF Running
    <2>. HIDE DEF s, e
    <2>4. LeftHolds(s, moreFulls, moreWires)
      <3>. SUFFICES ASSUME NEW p \in plugins, p.namespace = r.loads, NEW d \in EntriesOf(p),
                           ~InTables(p, d, moreFulls, moreWires)
                    PROVE  \E i \in 1..Len(Tail(r.rest)) : Tail(r.rest)[i] = d
        BY <2>2 DEF LeftHolds
      <3>1. ~InTables(p, d, fulls, wires)
        BY <2>1 DEF InTables
      <3>2. PICK i \in 1..Len(r.rest) : r.rest[i] = d
        BY <1>3, <3>1 DEF LeftHolds
      <3>3. i # 1
        <4>1. SUFFICES ASSUME i = 1 PROVE FALSE
          OBVIOUS
        <4>2. d = e
          BY <2>3, <3>2, <4>1
        <4>3. Full(p, d) = full
          BY <4>2 DEF Full
        <4>. QED  BY <2>1, <4>3 DEF InTables
      <3>4. i - 1 \in 1..Len(Tail(r.rest)) /\ Tail(r.rest)[i - 1] = d
        BY <2>3, <3>2, <3>3
      <3>. QED  BY <3>4
    <2>5. SearchHolds(r, moreFulls, moreWires)
      <3>. HIDE DEF r, fulls, wires, moreFulls, moreWires, full
      <3>. QED  BY <1>1, <2>1, TablesGrow
    <2>6. \A q, d : Sought(s, q, d) => Sought(r, q, d)
      BY <2>2 DEF Sought
    <2>7. SearchHolds(s, moreFulls, moreWires)
      BY <1>1, <2>2, <2>4, <2>5, <2>6 DEF SearchHolds, FindsHold
    <2>8. \A w \in moreWires : wireToFull'[w] \in moreFulls
      BY <2>1 DEF Whole, PluginsFill
    <2>9. s.stage = "register" /\ s.loads = r.loads
      BY <2>2
    <2>. QED  BY <1>1, <1>2, <2>1, <2>7, <2>8, <2>9, SearchStep
  <1>. QED  BY <1>4, <1>5

\* An entry that is in the tables is there under its own name and as declared.
LEMMA Found ==
    ASSUME Whole, NEW c \in Callers, asking[c].stage = "ensure", NEW p \in plugins, NEW e \in EntriesOf(p),
           Sought(asking[c], p, e)
    PROVE  /\ asking[c].by = "model" => asking[c].full \in DOMAIN handlers
           /\ asking[c].full \in DOMAIN handlers => handlers[asking[c].full] = e
           /\ asking[c].by = "user" => asking[c].full = Full(p, e)
  <1>. DEFINE r == asking[c]
  <1>1. r \in Running /\ CallHolds(r) /\ SearchHolds(r, DOMAIN handlers, DOMAIN wireToFull)
    BY Searching
  <1>2. r.by \in {"model", "user"} /\ r.full # <<>>
    BY <1>1 DEF Running, CallHolds
  <1>3. /\ r.by = "user" => r.full = Full(p, e)
        /\ r.by = "model" => FullToWire(r.full) = FullToWire(Full(p, e)) /\ r.full \in DOMAIN handlers
    BY <1>1, <1>2 DEF Sought, CallHolds, SearchHolds
  <1>4. ASSUME r.full \in DOMAIN handlers
        PROVE  handlers[r.full] = e
    <2>1. Declared(r.full, handlers[r.full])
      BY <1>4 DEF Whole, Inv, TablesHold
    <2>. QED  BY <1>2, <1>3, <2>1, DeclaredOnce DEF Whole, Inv
  <1>. QED  BY <1>3, <1>4

LEMMA EnsureSearch ==
    ASSUME Whole, NEW c \in Callers, Ensure(c)
    PROVE  PluginsFill' /\ SearchesHold'
  <1>. DEFINE r == asking[c]
              fulls == DOMAIN handlers
              wires == DOMAIN wireToFull
  <1>1. r \in Running /\ CallHolds(r) /\ kernel = "up" /\ r.stage = "ensure" /\ SearchHolds(r, fulls, wires)
    BY Searching DEF Ensure
  <1>2. UNCHANGED <<kernel, plugins, loaded, handlers, wireToFull>>
    BY DEF Ensure, bootVars, tableVars
  <1>3. \A w \in DOMAIN wireToFull' : wireToFull'[w] \in DOMAIN handlers'
    BY <1>2 DEF Whole, PluginsFill
  <1>4. ASSUME NEW s, Becomes(c, s), s \in Running => SearchHolds(s, fulls, wires)
        PROVE  PluginsFill' /\ SearchesHold'
    BY <1>1, <1>2, <1>3, <1>4, SearchStep DEF Becomes
  <1>5. CASE r.full \notin fulls /\ Becomes(c, [r EXCEPT !.stage = "load", !.loads = r.full[1]])
    <2>. DEFINE s == [r EXCEPT !.stage = "load", !.loads = r.full[1]]
    <2>1. s.stage = "load" /\ s.loads = r.full[1] /\ s.by = r.by /\ s.name = r.name /\ s.kind = r.kind
          /\ s.tried = r.tried /\ s.raced = r.raced /\ s.full = r.full
      BY <1>1 DEF Running
    <2>. HIDE DEF s
    <2>2. ASSUME NEW p \in plugins, NEW e \in EntriesOf(p), Sought(s, p, e)
          PROVE  Sought(r, p, e) /\ s.loads = p.namespace
      <3>1. Sought(r, p, e)
        BY <2>1, <2>2 DEF Sought
      <3>2. r.full = Full(p, e)
        BY <1>1, <1>5, <3>1, Found DEF Running
      <3>3. Full(p, e)[1] = p.namespace
        BY DEF Full
      <3>. QED  BY <2>1, <3>1, <3>2, <3>3
    <2>3. SearchHolds(s, fulls, wires)
      BY <1>1, <2>1, <2>2 DEF SearchHolds, FindsHold
    <2>. QED  BY <1>4, <1>5, <2>3 DEF s
  <1>6. CASE /\ r.full \notin fulls => r.tried
             /\ r.full \in fulls => handlers[r.full].kind # r.kind
             /\ r.kind = "command" /\ Becomes(c, [r EXCEPT !.kind = "tool", !.tried = FALSE])
    <2>. DEFINE s == [r EXCEPT !.kind = "tool", !.tried = FALSE]
    <2>1. /\ s.stage = "ensure" /\ s.by = r.by /\ s.full = r.full /\ s.name = r.name /\ s.raced = r.raced
          /\ ~s.tried
      BY <1>1 DEF Running
    <2>. HIDE DEF s
    <2>2. ASSUME NEW p \in plugins, NEW e \in EntriesOf(p), Sought(s, p, e), s.by = "user", e.kind = "command"
          PROVE  Broken(p.namespace) \/ s.raced
      <3>1. Sought(r, p, e)
        BY <2>1, <2>2 DEF Sought
      <3>2. r.full \notin fulls /\ r.full = Full(p, e)
        BY <1>1, <1>6, <2>1, <2>2, <3>1, Found
      <3>3. ~InTables(p, e, fulls, wires) /\ r.tried
        BY <1>6, <3>2 DEF InTables
      <3>. QED  BY <1>1, <2>1, <3>1, <3>3 DEF SearchHolds, FindsHold
    <2>3. SearchHolds(s, fulls, wires)
      BY <1>1, <2>1, <2>2 DEF SearchHolds, FindsHold
    <2>. QED  BY <1>4, <1>6, <2>3 DEF s
  <1>7. ASSUME NEW answer, Answered(c, answer)
        PROVE  PluginsFill' /\ SearchesHold'
    <2>. DEFINE s == [stage |-> "idle", by |-> r.by, name |-> r.name, answer |-> answer]
    <2>1. Becomes(c, s) /\ s \notin Running
      BY <1>7 DEF Answered, Running
    <2>. QED  BY <1>4, <2>1
  <1>. QED  BY <1>1, <1>5, <1>6, <1>7 DEF Ensure

LEMMA StartSearch ==
    ASSUME Whole, (\E p \in Descriptors : Register(p)) \/ Built
    PROVE  PluginsFill' /\ SearchesHold'
  <1>1. kernel = "starting" /\ UNCHANGED <<loaded, handlers, wireToFull, asking>>
    BY DEF Register, Checked, Built, tableVars
  <1>2. loaded' = {} /\ \A w \in DOMAIN wireToFull' : wireToFull'[w] \in DOMAIN handlers'
    BY <1>1 DEF Whole, PluginsFill
  <1>3. \A c \in Callers : asking'[c] = Idle
    BY <1>1 DEF Whole, Inv, Types
  <1>4. Idle \notin Running
    BY DEF Idle, Running
  <1>. QED  BY <1>2, <1>3, <1>4 DEF PluginsFill, SearchesHold

LEMMA InitWhole == RegistryInit => Whole
  <1>. SUFFICES ASSUME RegistryInit PROVE Whole
    OBVIOUS
  <1>1. Idle \notin Running
    BY DEF Idle, Running
  <1>2. loaded = {} /\ DOMAIN wireToFull = {} /\ \A c \in Callers : asking[c] = Idle
    BY DEF RegistryInit, Empty
  <1>. QED  BY <1>1, <1>2, InitHolds DEF Whole, PluginsFill, SearchesHold

LEMMA NextWhole == Whole /\ [RegistryNext]_registryVars => Whole'
  <1>. SUFFICES ASSUME Whole, [RegistryNext]_registryVars PROVE Whole'
    OBVIOUS
  <1>1. Inv'
    BY NextKeeps DEF Whole
  <1>2. CASE RegistryNext
    BY <1>1, <1>2, StartSearch, AsksSearch, ResolveSearch, LoadSearch, FailsSearch, InsertSearch, EnsureSearch
       DEF RegistryNext, Whole
  <1>3. CASE UNCHANGED registryVars
    <2>1. UNCHANGED <<kernel, plugins, loaded, handlers, wireToFull, asking>>
      BY <1>3 DEF registryVars, bootVars, tableVars
    <2>2. PluginsFill'
      BY <2>1 DEF Whole, PluginsFill, InTables, Broken, Registering
    <2>3. \A x, fs, ws : SearchHolds(x, fs, ws)' = SearchHolds(x, fs, ws)
      <3>1. \A x, fs, ws : LeftHolds(x, fs, ws)' = LeftHolds(x, fs, ws)
        BY <2>1 DEF LeftHolds, InTables
      <3>2. \A x, fs, ws : FindsHold(x, fs, ws)' = FindsHold(x, fs, ws)
        BY <2>1 DEF FindsHold, InTables, Sought, Broken
      <3>. QED  BY <3>1, <3>2 DEF SearchHolds
    <2>4. SearchesHold'
      BY <2>1, <2>3 DEF Whole, SearchesHold
    <2>. QED  BY <1>1, <2>2, <2>4 DEF Whole
  <1>. QED  BY <1>2, <1>3

\* A call that ends with nothing, though a plugin declares what it seeks.
Missed(c, p, e) ==
    /\ asking[c].stage # "idle" /\ asking'[c].stage = "idle" /\ asking'[c].answer = Missing
    /\ Sought(asking[c], p, e)
    /\ asking[c].by = "model" => e.kind = "tool"

LEMMA MissedByStep ==
    ASSUME Whole, NEW c \in Callers, Resolve(c) \/ Fails(c) \/ Ensure(c), NEW p \in plugins, NEW e \in EntriesOf(p),
           Missed(c, p, e)
    PROVE  Broken(p.namespace) \/ asking[c].raced
  <1>. DEFINE r == asking[c]
              fulls == DOMAIN handlers
              wires == DOMAIN wireToFull
  <1>1. /\ r \in Running /\ CallHolds(r) /\ SearchHolds(r, fulls, wires)
        /\ Sought(r, p, e) /\ (r.by = "model" => e.kind = "tool")
    BY Searching DEF Resolve, Fails, Ensure, Missed
  <1>2. /\ r.stage \in {"load", "register"} => r.loads = p.namespace
        /\ r.tried => Broken(p.namespace) \/ r.raced \/ InTables(p, e, fulls, wires)
        /\ r.by = "user" /\ r.kind = "tool" /\ e.kind = "command" => Broken(p.namespace) \/ r.raced
    BY <1>1 DEF SearchHolds, FindsHold
  <1>3. r.by \in {"model", "user"} /\ e.kind \in {"tool", "command"} /\ r.kind \in {"tool", "command"}
    BY <1>1, Declarations DEF Running, Entry, Whole, Inv, Types
  <1>4. /\ asking'[c].stage = "idle" /\ asking'[c].answer = Missing
        /\ \A s : Becomes(c, s) => asking'[c] = s
    BY DEF Missed, Becomes, Whole, Inv, Types
  <1>5. CASE Resolve(c)
    <2>1. r.name \notin wires
      <3>1. SUFFICES ASSUME r.name \in wires PROVE FALSE
        OBVIOUS
      <3>2. asking'[c] = [r EXCEPT !.stage = "ensure", !.full = wireToFull[r.name]]
        BY <1>4, <1>5, <3>1 DEF Resolve
      <3>. QED  BY <1>1, <1>4, <3>2 DEF Running
    <2>2. r.by = "model"
      BY <1>1, <1>3, <1>5 DEF Resolve, CallHolds
    <2>3. Declares(p, r.name) /\ ~InTables(p, e, fulls, wires)
      BY <1>1, <2>1, <2>2 DEF Declares, Wires, Sought, InTables
    <2>4. r.tried
      <3>1. SUFFICES ASSUME ~r.tried PROVE FALSE
        OBVIOUS
      <3>2. PICK q \in plugins : Becomes(c, [r EXCEPT !.stage = "load", !.loads = q.namespace])
        BY <1>5, <2>1, <2>3, <3>1 DEF Resolve
      <3>3. asking'[c] = [r EXCEPT !.stage = "load", !.loads = q.namespace]
        BY <1>4, <3>2
      <3>. QED  BY <1>1, <1>4, <3>3 DEF Running
    <2>. QED  BY <1>2, <2>3, <2>4
  <1>6. CASE Fails(c)
    BY <1>2, <1>6 DEF Fails
  <1>7. CASE Ensure(c)
    <2>1. /\ r.by = "model" => r.full \in fulls
          /\ r.full \in fulls => handlers[r.full] = e
          /\ r.by = "user" => r.full = Full(p, e)
      BY <1>1, <1>7, Found DEF Ensure
    <2>2. \/ r.full \notin fulls /\ r.tried
          \/ r.full \in fulls /\ e.kind # r.kind /\ r.kind = "tool"
      <3>1. r.full \notin fulls => r.tried
        <4>1. SUFFICES ASSUME r.full \notin fulls, ~r.tried PROVE FALSE
          OBVIOUS
        <4>2. asking'[c] = [r EXCEPT !.stage = "load", !.loads = r.full[1]]
          BY <1>4, <1>7, <4>1 DEF Ensure
        <4>. QED  BY <1>1, <1>4, <4>2 DEF Running
      <3>2. r.full \in fulls => e.kind # r.kind
        <4>1. SUFFICES ASSUME r.full \in fulls, e.kind = r.kind PROVE FALSE
          OBVIOUS
        <4>2. Answered(c, <<"forbidden">>) \/ Answered(c, Ran(r.full))
          BY <1>7, <2>1, <4>1 DEF Ensure
        <4>3. asking'[c].answer = <<"forbidden">> \/ asking'[c].answer = Ran(r.full)
          BY <1>4, <4>2 DEF Answered
        <4>. QED  BY <1>4, <4>3 DEF Missing, Ran
      <3>3. r.kind = "tool"
        <4>1. SUFFICES ASSUME r.kind = "command" PROVE FALSE
          BY <1>3
        <4>2. asking'[c] = [r EXCEPT !.kind = "tool", !.tried = FALSE]
          BY <1>4, <1>7, <2>1, <3>1, <3>2, <4>1 DEF Ensure
        <4>. QED  BY <1>1, <1>4, <1>7, <4>2 DEF Running, Ensure
      <3>. QED  BY <3>1, <3>2, <3>3
    <2>3. CASE r.full \notin fulls /\ r.tried
      BY <1>2, <1>3, <2>1, <2>3 DEF InTables
    <2>4. CASE r.full \in fulls /\ e.kind # r.kind /\ r.kind = "tool"
      BY <1>1, <1>2, <1>3, <2>4
    <2>. QED  BY <2>2, <2>3, <2>4
  <1>. QED  BY <1>5, <1>6, <1>7

\* The other steps answer nobody.
LEMMA MissedByNext ==
    ASSUME Whole, RegistryNext, NEW c \in Callers, NEW p \in plugins, NEW e \in EntriesOf(p), Missed(c, p, e)
    PROVE  Broken(p.namespace) \/ asking[c].raced
  <1>1. asking[c].stage # "idle" /\ asking'[c].stage = "idle"
    BY DEF Missed
  <1>2. \A d \in Callers : \A s : Becomes(d, s) => asking'[d] = s /\ \A o \in Callers \ {d} : asking'[o] = asking[o]
    BY DEF Becomes, Whole, Inv, Types
  <1>3. PICK d \in Callers : Asks(d) \/ Resolve(d) \/ Load(d) \/ Fails(d) \/ Insert(d) \/ Ensure(d)
    BY <1>1 DEF RegistryNext, Register, Checked, Built
  <1>4. d = c
    <2>1. \E s : Becomes(d, s)
      BY <1>3 DEF Asks, Resolve, Load, Fails, Insert, Ensure, Answered
    <2>. QED  BY <1>1, <1>2, <2>1
  <1>5. ~Asks(c)
    BY <1>1 DEF Asks
  <1>6. ~Load(c)
    <2>1. SUFFICES ASSUME Load(c) PROVE FALSE
      OBVIOUS
    <2>2. asking[c] \in Running
      BY <2>1, Searching DEF Load
    <2>3. \/ \E race : asking'[c] = [Returns(c) EXCEPT !.raced = race]
          \/ \E rest : asking'[c] = [asking[c] EXCEPT !.stage = "register", !.rest = rest]
      BY <1>2, <2>1 DEF Load
    <2>. QED  BY <1>1, <2>2, <2>3 DEF Returns, Running
  <1>7. ~Insert(c)
    <2>1. SUFFICES ASSUME Insert(c) PROVE FALSE
      OBVIOUS
    <2>2. asking[c] \in Running
      BY <2>1, Searching DEF Insert
    <2>3. asking'[c] = Returns(c) \/ asking'[c] = [asking[c] EXCEPT !.rest = Tail(asking[c].rest)]
      BY <1>2, <2>1 DEF Insert
    <2>. QED  BY <1>1, <2>2, <2>3 DEF Returns, Running
  <1>. QED  BY <1>3, <1>4, <1>5, <1>6, <1>7, MissedByStep

\* A declared entry is reported missing only to a caller that has run into
\* another in the middle of loading its plugin, unless the plugin cannot be
\* loaded or the model asks for a command; for any plugins, callers and made-up
\* names (load_plugin, ensure, resolve_wire).
THEOREM MissesOnlyInARace == RegistrySpec => MissedOnlyWhileLoading
  <1>1. Whole /\ [RegistryNext]_registryVars =>
          [\A c \in Callers, p \in plugins : \A e \in EntriesOf(p) :
              /\ asking[c].stage # "idle" /\ asking'[c].stage = "idle" /\ asking'[c].answer = Missing
              /\ asking[c].name = IF asking[c].by = "model" THEN FullToWire(Full(p, e)) ELSE Full(p, e)
              /\ asking[c].by = "model" => e.kind = "tool"
              => Broken(p.namespace) \/ asking[c].raced]_asking
    <2>. SUFFICES ASSUME Whole, [RegistryNext]_registryVars, asking' # asking,
                         NEW c \in Callers, NEW p \in plugins, NEW e \in EntriesOf(p), Missed(c, p, e)
                  PROVE  Broken(p.namespace) \/ asking[c].raced
      BY DEF Missed, Sought
    <2>1. RegistryNext
      BY DEF registryVars
    <2>. QED  BY <2>1, MissedByNext
  <1>. QED  BY <1>1, InitWhole, NextWhole, PTL DEF RegistrySpec, MissedOnlyWhileLoading

------------------------------------------------------------------------------
(* StudyTools: the values of the variables *)

Its == Items \cup {Freeform}
Records == [item : Its, right : BOOLEAN, day : Nat, no : Nat \ {0}]
Mistakes == [by : {"upload", "check"}, right : BOOLEAN, gone : BOOLEAN]
Books == [book : Seq(Mistakes), no : Nat]
Uploads == [op : {"upload"}, wrong : Nat \ {0}]
Thens == {Nothing} \cup Uploads \cup [op : {"loading"}, item : Its, right : {FALSE}]

\* What a thread may be in the middle of.
Fits(r) ==
    /\ r.op \in {"changed", "writing"} => r.then \in Thens
    /\ r.op = "writing" => r.copy \in Books
    /\ r.op = "upload" => r.wrong \in Nat \ {0}
    /\ r.op \in {"judging", "archiving", "loading", "recording"} => r.item \in Its
    /\ r.op \in {"loading", "recording"} => r.right \in BOOLEAN
    /\ r.op = "recording" => r.loaded \in Seq(Records)
    /\ r.op \in {"drafting", "verifying"} => r \in [op : {"drafting", "verifying"}, tries : Nat]
    /\ r.op = "drawing" => r.seen.upTo \in Nat

StudyTypes ==
    /\ made \in Nat /\ changes \in Nat /\ day \in 0..MaxDay /\ ops \in 0..MaxOps /\ raced \in BOOLEAN
    /\ book \in Seq(Mistakes) /\ disk \in Books
    /\ history \in Seq(Records) /\ Len(history) <= MaxRecords
    /\ DOMAIN call = Threads /\ \A c \in Threads : Fits(call[c])

------------------------------------------------------------------------------
(* The history: record_attempt keeps the last answers *)

LEMMA LastKeptFacts ==
    ASSUME NEW s \in Seq(Records)
    PROVE  /\ LastKept(s) \in Seq(Records) /\ Len(LastKept(s)) = IF Len(s) > MaxRecords THEN MaxRecords ELSE Len(s)
           /\ \A n \in 1..Len(LastKept(s)) : /\ n + Len(s) - Len(LastKept(s)) \in 1..Len(s)
                                             /\ LastKept(s)[n] = s[n + Len(s) - Len(LastKept(s))]
  <1>1. MaxRecords \in Nat /\ MaxRecords > 0 /\ Len(s) \in Nat
    BY RecordsAssumption
  <1>2. CASE ~(Len(s) > MaxRecords)
    BY <1>1, <1>2 DEF LastKept
  <1>3. CASE Len(s) > MaxRecords
    <2>. DEFINE from == Len(s) - MaxRecords + 1
                kept == SubSeq(s, from, Len(s))
    <2>1. LastKept(s) = kept
      BY <1>3 DEF LastKept
    <2>2. from \in 1..Len(s)
      BY <1>1, <1>3
    <2>3. kept \in Seq(Records) /\ Len(kept) = Len(s) - from + 1 /\ \A n \in 1..Len(kept) : kept[n] = s[from + n - 1]
      <3>. HIDE DEF from
      <3>. QED  BY <1>1, <2>2, SubSeqProperties
    <2>4. Len(kept) = MaxRecords
      BY <1>1, <2>3
    <2>. HIDE DEF kept
    <2>5. \A n \in 1..Len(kept) : n + Len(s) - Len(kept) \in 1..Len(s) /\ from + n - 1 = n + Len(s) - Len(kept)
      BY <1>1, <1>3, <2>4
    <2>. QED  BY <1>3, <2>1, <2>3, <2>4, <2>5
  <1>. QED  BY <1>2, <1>3

\* What is saved: the answers it was made of, and the new one at the end.
LEMMA SavedFacts ==
    ASSUME NEW old \in Seq(Records), NEW new \in Records
    PROVE  LET saved == LastKept(Append(old, new)) IN
           /\ saved \in Seq(Records) /\ Len(saved) <= MaxRecords /\ Len(saved) \in Nat
           /\ Len(saved) = IF Len(old) + 1 > MaxRecords THEN MaxRecords ELSE Len(old) + 1
           /\ \A n \in 1..Len(saved) : /\ n + Len(old) + 1 - Len(saved) \in 1..(Len(old) + 1)
                                       /\ saved[n] = Append(old, new)[n + Len(old) + 1 - Len(saved)]
           /\ \A n \in 1..Len(saved) : saved[n] = new \/ \E m \in 1..Len(old) : saved[n] = old[m]
  <1>. DEFINE s == Append(old, new)
  <1>1. s \in Seq(Records) /\ Len(s) = Len(old) + 1 /\ Len(old) \in Nat /\ MaxRecords \in Nat
        /\ s[Len(old) + 1] = new /\ \A m \in 1..Len(old) : s[m] = old[m]
    BY RecordsAssumption
  <1>. HIDE DEF s
  <1>2. /\ LastKept(s) \in Seq(Records) /\ Len(LastKept(s)) = IF Len(s) > MaxRecords THEN MaxRecords ELSE Len(s)
        /\ \A n \in 1..Len(LastKept(s)) : /\ n + Len(s) - Len(LastKept(s)) \in 1..Len(s)
                                          /\ LastKept(s)[n] = s[n + Len(s) - Len(LastKept(s))]
    BY <1>1, LastKeptFacts
  <1>3. \A n \in 1..Len(LastKept(s)) : LastKept(s)[n] = new \/ \E m \in 1..Len(old) : LastKept(s)[n] = old[m]
    <2>1. \A k \in 1..Len(s) : k = Len(old) + 1 \/ k \in 1..Len(old)
      BY <1>1
    <2>. QED  BY <1>1, <1>2, <2>1
  <1>4. /\ Len(LastKept(s)) <= MaxRecords /\ Len(LastKept(s)) \in Nat
        /\ Len(LastKept(s)) = IF Len(old) + 1 > MaxRecords THEN MaxRecords ELSE Len(old) + 1
    BY <1>1, <1>2
  <1>5. \A n \in 1..Len(LastKept(s)) : n + Len(s) - Len(LastKept(s)) = n + Len(old) + 1 - Len(LastKept(s))
    BY <1>1, <1>4
  <1>. QED  BY <1>1, <1>2, <1>3, <1>4, <1>5 DEF s

\* The number of wrong answers grows by at most the new one.
Wrong(h) == {n \in 1..Len(h) : ~h[n].right}

LEMMA WrongFinite ==
    ASSUME NEW h \in Seq(Records)
    PROVE  IsFiniteSet(Wrong(h)) /\ Cardinality(Wrong(h)) \in Nat
  <1>1. IsFiniteSet(1..Len(h))
    BY FS_Interval
  <1>2. Wrong(h) \in SUBSET (1..Len(h))
    BY DEF Wrong
  <1>3. IsFiniteSet(Wrong(h))
    BY <1>1, <1>2, FS_Subset
  <1>. QED  BY <1>3, FS_CardinalityType

LEMMA WrongSaved ==
    ASSUME NEW old \in Seq(Records), NEW new \in Records
    PROVE  Cardinality(Wrong(LastKept(Append(old, new)))) <= Cardinality(Wrong(old)) + (IF new.right THEN 0 ELSE 1)
  <1>. DEFINE s == Append(old, new)
              saved == LastKept(s)
              d == Len(old) + 1 - Len(saved)
  <1>1. s \in Seq(Records) /\ Len(s) = Len(old) + 1 /\ Len(old) \in Nat
        /\ s[Len(old) + 1] = new /\ \A m \in 1..Len(old) : s[m] = old[m]
    OBVIOUS
  <1>2. /\ saved \in Seq(Records) /\ Len(saved) \in Nat
        /\ \A n \in 1..Len(saved) : n + Len(old) + 1 - Len(saved) \in 1..(Len(old) + 1)
                                    /\ saved[n] = s[n + Len(old) + 1 - Len(saved)]
    BY SavedFacts
  <1>. HIDE DEF s, saved
  <1>3. d \in Int /\ \A n \in 1..Len(saved) : n + d \in 1..Len(s) /\ saved[n] = s[n + d]
    <2>1. \A n \in 1..Len(saved) : n + d = n + Len(old) + 1 - Len(saved)
      BY <1>1, <1>2
    <2>. QED  BY <1>1, <1>2, <2>1
  <1>4. Cardinality(Wrong(saved)) <= Cardinality(Wrong(s))
    <2>. DEFINE f == [n \in Wrong(saved) |-> n + d]
    <2>. HIDE DEF d
    <2>1. f \in [Wrong(saved) -> Wrong(s)]
      BY <1>3 DEF Wrong
    <2>2. \A n, m \in Wrong(saved) : f[n] = f[m] => n = m
      BY <1>3 DEF Wrong
    <2>3. f \in Injection(Wrong(saved), Wrong(s))
      BY <2>1, <2>2 DEF Injection, IsInjective
    <2>. HIDE DEF f
    <2>. QED  BY <1>1, <2>3, WrongFinite, FS_Injection
  <1>5. IsFiniteSet(Wrong(old)) /\ Cardinality(Wrong(old)) \in Nat
    BY WrongFinite
  <1>6. CASE new.right
    <2>1. Wrong(s) = Wrong(old)
      BY <1>1, <1>6 DEF Wrong
    <2>2. Cardinality(Wrong(saved)) <= Cardinality(Wrong(old))
      BY <1>4, <2>1
    <2>. QED  BY <1>5, <1>6, <2>2, <1>2, WrongFinite DEF s, saved
  <1>7. CASE ~new.right
    <2>1. Wrong(s) = Wrong(old) \cup {Len(old) + 1} /\ Len(old) + 1 \notin Wrong(old)
      BY <1>1, <1>7 DEF Wrong
    <2>2. Cardinality(Wrong(s)) = Cardinality(Wrong(old)) + 1
      BY <1>5, <2>1, FS_AddElement
    <2>. QED  BY <1>4, <1>7, <2>2 DEF s, saved
  <1>. QED  BY <1>6, <1>7

\* Which answers the history holds, while nobody has saved over another's.
KeptUpTo(h, n) ==
    /\ Len(h) = IF n < MaxRecords THEN n ELSE MaxRecords
    /\ \A k \in 1..Len(h) : h[k].no = n - Len(h) + k

LEMMA KeptUpToNext ==
    ASSUME NEW h \in Seq(Records), NEW n \in Nat, KeptUpTo(h, n), NEW new \in Records, new.no = n + 1
    PROVE  KeptUpTo(LastKept(Append(h, new)), n + 1)
  <1>. DEFINE s == Append(h, new)
              saved == LastKept(s)
  <1>1. Len(h) \in Nat /\ MaxRecords \in Nat /\ MaxRecords > 0 /\ s[Len(h) + 1] = new /\ \A m \in 1..Len(h) : s[m] = h[m]
    BY RecordsAssumption
  <1>2. /\ Len(saved) \in Nat /\ Len(saved) = IF Len(h) + 1 > MaxRecords THEN MaxRecords ELSE Len(h) + 1
        /\ \A k \in 1..Len(saved) : k + Len(h) + 1 - Len(saved) \in 1..(Len(h) + 1)
                                    /\ saved[k] = s[k + Len(h) + 1 - Len(saved)]
    BY SavedFacts
  <1>. HIDE DEF s, saved
  <1>3. Len(saved) = IF n + 1 < MaxRecords THEN n + 1 ELSE MaxRecords
    BY <1>1, <1>2 DEF KeptUpTo
  <1>4. \A m \in 1..(Len(h) + 1) : s[m].no = n - Len(h) + m
    <2>1. \A m \in 1..(Len(h) + 1) : m = Len(h) + 1 \/ m \in 1..Len(h)
      BY <1>1
    <2>2. n - Len(h) + (Len(h) + 1) = n + 1
      BY <1>1
    <2>. QED  BY <1>1, <2>1, <2>2 DEF KeptUpTo
  <1>5. ASSUME NEW k \in 1..Len(saved)
        PROVE  saved[k].no = n + 1 - Len(saved) + k
    <2>1. saved[k].no = n - Len(h) + (k + Len(h) + 1 - Len(saved))
      BY <1>2, <1>4
    <2>. QED  BY <1>1, <1>2, <2>1
  <1>. QED  BY <1>3, <1>5 DEF KeptUpTo, s, saved
------------------------------------------------------------------------------
(* StudyTools: every step keeps the values of the variables *)

LEMMA StudyTypesStart ==
    Init => StudyTypes
  <1>1. << >> \in Seq(Mistakes) /\ << >> \in Seq(Records) /\ Len(<< >>) = 0
    OBVIOUS
  <1>2. [book |-> << >>, no |-> 0] \in Books
    BY <1>1 DEF Books
  <1>3. Fits(Nothing) /\ 0 \in 0..MaxDay /\ 0 \in 0..MaxOps /\ 0 <= MaxRecords
    BY RecordsAssumption, BoundsAssumption DEF Fits, Nothing
  <1>. SUFFICES ASSUME Init
                PROVE  StudyTypes
    OBVIOUS
  <1>4. DOMAIN call = Threads /\ \A c \in Threads : Fits(call[c])
    BY <1>3 DEF Init
  <1>5. /\ book \in Seq(Mistakes) /\ disk \in Books
        /\ history \in Seq(Records) /\ Len(history) <= MaxRecords
    BY <1>1, <1>2, <1>3 DEF Init
  <1>6. made \in Nat /\ changes \in Nat /\ day \in 0..MaxDay /\ ops \in 0..MaxOps /\ raced \in BOOLEAN
    BY <1>3 DEF Init
  <1>. QED  BY <1>4, <1>5, <1>6 DEF StudyTypes

\* Of the step, only what a thread does next has to fit.
LEMMA GoesOnFits ==
    ASSUME StudyTypes, NEW c \in Threads, NEW r, Fits(r), GoesOn(c, r)
    PROVE  DOMAIN call' = Threads /\ \A e \in Threads : Fits(call[e])'
  <1>1. DOMAIN call' = Threads /\ \A e \in Threads : call'[e] = IF e = c THEN r ELSE call[e]
    BY DEF GoesOn, StudyTypes
  <1>2. ASSUME NEW e \in Threads
        PROVE  Fits(call'[e])
    BY <1>1 DEF StudyTypes
  <1>3. \A e \in Threads : Fits(call[e])'
    BY <1>2 DEF Fits
  <1>. QED  BY <1>1, <1>3

LEMMA ChangesFit ==
    ASSUME StudyTypes, NEW c \in Threads, NEW b \in Seq(Mistakes), NEW then \in Thens, Changes(c, b, then)
    PROVE  /\ book' \in Seq(Mistakes) /\ changes' \in Nat /\ disk' \in Books
           /\ history' \in Seq(Records) /\ Len(history') <= MaxRecords /\ made' \in Nat
           /\ DOMAIN call' = Threads /\ \A e \in Threads : Fits(call[e])'
  <1>1. Fits([op |-> "changed", then |-> then])
    BY DEF Fits
  <1>2. DOMAIN call' = Threads /\ \A e \in Threads : Fits(call[e])'
    BY <1>1, GoesOnFits DEF Changes
  <1>. QED  BY <1>2 DEF StudyTypes, Changes

LEMMA ArchivesFit ==
    ASSUME StudyTypes, NEW by \in {"upload", "check"}
    PROVE  Append(book, Mistake(by)) \in Seq(Mistakes)
  <1>1. Mistake(by) \in Mistakes
    BY DEF Mistake, Mistakes
  <1>. QED  BY <1>1 DEF StudyTypes

LEMMA UploadingFits ==
    ASSUME NEW n \in Nat
    PROVE  Uploading(n) \in Thens /\ Fits(Uploading(n))
  BY DEF Uploading, Thens, Uploads, Fits, Nothing

LEMMA StartingTypes ==
    ASSUME StudyTypes, NEW c \in Threads, Starting(c)
    PROVE  StudyTypes'
  <1>1. ops' \in 0..MaxOps /\ day' \in 0..MaxDay /\ raced' \in BOOLEAN
    <2>1. Starts(c)
      BY DEF Starting, Update, RemoveMany, Upload, Check, Generate, Exam
    <2>. QED  BY <2>1, BoundsAssumption DEF Starts, StudyTypes
  <1>2. ASSUME NEW r, Fits(r), GoesOn(c, r), UNCHANGED <<bookVars, historyVars>>
        PROVE  StudyTypes'
    <2>1. DOMAIN call' = Threads /\ \A e \in Threads : Fits(call[e])'
      BY <1>2, GoesOnFits
    <2>. QED  BY <1>1, <1>2, <2>1 DEF StudyTypes, bookVars, historyVars
  <1>3. ASSUME NEW b \in Seq(Mistakes), Changes(c, b, Nothing)
        PROVE  StudyTypes'
    <2>1. Nothing \in Thens
      BY DEF Thens
    <2>. QED  BY <1>1, <1>3, <2>1, ChangesFit DEF StudyTypes
  <1>4. ASSUME NEW k \in DOMAIN book, NEW right \in BOOLEAN, Update(c, k, right)
        PROVE  StudyTypes'
    <2>1. book \in Seq(Mistakes) /\ k \in 1..Len(book) /\ book[k] \in Mistakes
      BY DEF StudyTypes
    <2>3. [book[k] EXCEPT !.right = right] \in Mistakes
      BY <2>1 DEF Mistakes
    <2>2. [book EXCEPT ![k].right = right] \in Seq(Mistakes)
      BY <2>1, <2>3
    <2>. QED  BY <1>3, <1>4, <2>2 DEF Update
  <1>5. ASSUME NEW ks \in SUBSET DOMAIN book, RemoveMany(c, ks)
        PROVE  StudyTypes'
    <2>. DEFINE b == [k \in DOMAIN book |-> IF k \in ks THEN [book[k] EXCEPT !.gone = TRUE] ELSE book[k]]
    <2>1. Len(book) \in Nat /\ DOMAIN book = 1..Len(book) /\ \A k \in 1..Len(book) : book[k] \in Mistakes
      BY DEF StudyTypes
    <2>2. \A k \in 1..Len(book) : b[k] \in Mistakes
      BY <2>1 DEF Mistakes
    <2>3. b \in [1..Len(book) -> Mistakes]
      BY <2>1, <2>2
    <2>4. b \in Seq(Mistakes)
      BY <2>1, <2>3, IsASeq
    <2>. QED  BY <1>3, <1>5, <2>4 DEF RemoveMany
  <1>6. ASSUME NEW wrong \in 0..MaxUpload, Upload(c, wrong)
        PROVE  StudyTypes'
    BY <1>2, <1>6, UploadingFits, BoundsAssumption DEF Upload
  <1>7. ASSUME NEW i \in Items \cup {Freeform}, Check(c, i)
        PROVE  StudyTypes'
    <2>1. Fits([op |-> "judging", item |-> i])
      BY DEF Fits, Its
    <2>. QED  BY <1>2, <1>7, <2>1 DEF Check
  <1>8. \A records \in {history, << >>} : Seen(records).upTo \in Nat
    <2>1. history # << >> => Len(history) \in 1..Len(history) /\ history[Len(history)] \in Records
      BY DEF StudyTypes
    <2>. QED  BY <2>1 DEF Seen, Records
  <1>9. ASSUME NEW p \in Points, Generate(c, p)
        PROVE  StudyTypes'
    <2>1. Fits([op |-> "drafting", tries |-> 0])
      BY DEF Fits
    <2>2. \A i, seen : Fits(Given(i, seen))
      BY DEF Fits, Given
    <2>. QED  BY <1>2, <1>9, <2>1, <2>2 DEF Generate
  <1>10. ASSUME NEW p \in Points, Exam(c, p)
         PROVE  StudyTypes'
    <2>1. \A records \in {history, << >>} : Fits([op |-> "drawing", point |-> p, seen |-> Seen(records)])
      BY <1>8 DEF Fits
    <2>. QED  BY <1>2, <1>10, <2>1 DEF Exam
  <1>. QED  BY <1>4, <1>5, <1>6, <1>7, <1>9, <1>10 DEF Starting

LEMMA AdvanceTypes ==
    ASSUME StudyTypes, NEW c \in Threads, Advance(c)
    PROVE  StudyTypes'
  <1>0. Fits(call[c]) /\ Fits(Nothing)
    BY DEF StudyTypes, Fits, Nothing
  <1>1. ASSUME NEW r, Fits(r), GoesOn(c, r), Goes, UNCHANGED <<bookVars, historyVars>>
        PROVE  StudyTypes'
    <2>1. DOMAIN call' = Threads /\ \A e \in Threads : Fits(call[e])'
      BY <1>1, GoesOnFits
    <2>. QED  BY <1>1, <2>1 DEF StudyTypes, Goes, bookVars, historyVars
  <1>2. ASSUME NEW b \in Seq(Mistakes), NEW then \in Thens, Changes(c, b, then), Goes
        PROVE  StudyTypes'
    BY <1>2, ChangesFit DEF StudyTypes, Goes
  <1>3. CASE Copy(c)
    <2>1. [book |-> book, no |-> changes] \in Books
      BY DEF StudyTypes, Books
    <2>2. Fits([op |-> "writing", then |-> call[c].then, copy |-> [book |-> book, no |-> changes]])
      BY <1>0, <1>3, <2>1 DEF Copy, Fits
    <2>. QED  BY <1>1, <1>3, <2>2 DEF Copy
  <1>4. CASE Write(c)
    <2>1. call[c].then \in Thens /\ call[c].copy \in Books
      BY <1>0, <1>4 DEF Write, Fits
    <2>2. Fits(call[c].then)
      <3>1. \A r \in Uploads : Fits(r)
        BY DEF Uploads, Fits
      <3>2. \A r \in [op : {"loading"}, item : Its, right : {FALSE}] : Fits(r)
        BY DEF Fits
      <3>. QED  BY <1>0, <2>1, <3>1, <3>2 DEF Thens
    <2>3. raced' \in BOOLEAN
      BY <1>4 DEF Write, StudyTypes
    <2>4. DOMAIN call' = Threads /\ \A e \in Threads : Fits(call[e])'
      BY <1>0, <1>4, <2>2, GoesOnFits DEF Write
    <2>. QED  BY <1>4, <2>1, <2>3, <2>4 DEF Write, StudyTypes, historyVars
  <1>5. CASE ArchiveNext(c)
    <2>1. call[c].wrong - 1 \in Nat
      BY <1>0, <1>5 DEF ArchiveNext, Fits
    <2>. QED  BY <1>2, <1>5, <2>1, ArchivesFit, UploadingFits DEF ArchiveNext, Archives
  <1>6. CASE Archive(c)
    <2>1. Recording(c) \in Thens
      BY <1>0, <1>6 DEF Archive, Fits, Recording, Thens
    <2>. QED  BY <1>2, <1>6, <2>1, ArchivesFit DEF Archive, Archives
  <1>7. CASE LoadHistory(c)
    <2>1. \A records \in {history, << >>} :
             Fits([op |-> "recording", item |-> call[c].item, right |-> call[c].right, loaded |-> records])
      <3>1. call[c].item \in Its /\ call[c].right \in BOOLEAN
        BY <1>0, <1>7 DEF LoadHistory, Fits
      <3>2. history \in Seq(Records) /\ << >> \in Seq(Records)
        BY DEF StudyTypes
      <3>. QED  BY <3>1, <3>2 DEF Fits
    <2>. QED  BY <1>1, <1>7, <2>1 DEF LoadHistory
  <1>8. CASE Record(c)
    <2>. DEFINE new == [item |-> call[c].item, right |-> call[c].right, day |-> day, no |-> made + 1]
    <2>1. new \in Records /\ call[c].loaded \in Seq(Records) /\ made + 1 \in Nat
      BY <1>0, <1>8 DEF Record, Fits, StudyTypes, Records
    <2>2. LastKept(Append(call[c].loaded, new)) \in Seq(Records) /\ Len(LastKept(Append(call[c].loaded, new))) <= MaxRecords
      BY <2>1, SavedFacts
    <2>3. history' \in Seq(Records) /\ Len(history') <= MaxRecords /\ made' \in Nat
      BY <1>8, <2>1, <2>2 DEF Record, StudyTypes, historyVars
    <2>4. raced' \in BOOLEAN
      BY <1>8 DEF Record, StudyTypes
    <2>5. DOMAIN call' = Threads /\ \A e \in Threads : Fits(call[e])'
      BY <1>0, <1>8, GoesOnFits DEF Record
    <2>. QED  BY <1>8, <2>3, <2>4, <2>5 DEF Record, StudyTypes, bookVars
  <1>9. CASE Draw(c)
    <2>1. \A i, seen : Fits(Given(i, seen))
      BY DEF Fits, Given
    <2>. QED  BY <1>0, <1>1, <1>9, <2>1 DEF Draw
  <1>10. CASE GiveUp(c)
    BY <1>0, <1>1, <1>10 DEF GiveUp
  <1>11. ASSUME NEW right \in BOOLEAN, Judge(c, right)
         PROVE  StudyTypes'
    <2>1. /\ Fits([op |-> "loading", item |-> call[c].item, right |-> TRUE])
          /\ Fits([op |-> "archiving", item |-> call[c].item])
      BY <1>0, <1>11 DEF Judge, Fits
    <2>. QED  BY <1>1, <1>11, <2>1 DEF Judge
  <1>12. Fits(Written)
    BY DEF Fits, Given, Written
  <1>13. ASSUME NEW figure \in BOOLEAN, Draft(c, figure)
         PROVE  StudyTypes'
    <2>1. call[c] \in [op : {"drafting", "verifying"}, tries : Nat]
      BY <1>0, <1>13 DEF Draft, Fits
    <2>2. Fits([call[c] EXCEPT !.op = "verifying", !.tries = @ + 1])
      <3>1. [call[c] EXCEPT !.op = "verifying", !.tries = @ + 1] \in [op : {"verifying"}, tries : Nat]
        <4>1. PICK t \in Nat : call[c].tries = t
          BY <2>1
        <4>2. t + 1 \in Nat
          OBVIOUS
        <4>. QED  BY <2>1, <4>1, <4>2
      <3>2. \A r \in [op : {"verifying"}, tries : Nat] : Fits(r)
        BY DEF Fits
      <3>. QED  BY <3>1, <3>2
    <2>. QED  BY <1>1, <1>12, <1>13, <2>2 DEF Draft
  <1>14. ASSUME NEW verdict \in {"ok", "away", "fail", "error"}, Verify(c, verdict)
         PROVE  StudyTypes'
    <2>1. call[c] \in [op : {"drafting", "verifying"}, tries : Nat]
      BY <1>0, <1>14 DEF Verify, Fits
    <2>2. Fits([call[c] EXCEPT !.op = "drafting"])
      BY <2>1 DEF Fits
    <2>. QED  BY <1>0, <1>1, <1>12, <1>14, <2>2 DEF Verify
  <1>. QED  BY <1>3, <1>4, <1>5, <1>6, <1>7, <1>8, <1>9, <1>10, <1>11, <1>13, <1>14 DEF Advance

LEMMA StudyTypesStep ==
    StudyTypes /\ [Next]_vars => StudyTypes'
  <1>. SUFFICES ASSUME StudyTypes, [Next]_vars
                PROVE  StudyTypes'
    OBVIOUS
  <1>1. CASE Tick
    <2>1. day' \in 0..MaxDay
      BY <1>1, BoundsAssumption DEF Tick, StudyTypes
    <2>2. \A e \in Threads : Fits(call[e])'
      BY <1>1 DEF Tick, StudyTypes, Fits
    <2>. QED  BY <1>1, <2>1, <2>2 DEF Tick, StudyTypes, bookVars, historyVars
  <1>2. CASE Restart
    <2>1. ops' \in 0..MaxOps /\ book' \in Seq(Mistakes)
      BY <1>2, BoundsAssumption DEF Restart, StudyTypes, Books
    <2>2. DOMAIN call' = Threads /\ \A e \in Threads : Fits(call[e])'
      BY <1>2 DEF Restart, Fits, Nothing
    <2>. QED  BY <1>2, <2>1, <2>2 DEF Restart, StudyTypes, historyVars
  <1>3. CASE UNCHANGED vars
    <2>1. \A e \in Threads : Fits(call[e])'
      BY <1>3 DEF vars, StudyTypes, Fits
    <2>. QED  BY <1>3, <2>1 DEF StudyTypes, vars, bookVars, historyVars
  <1>. QED  BY <1>1, <1>2, <1>3, StartingTypes, AdvanceTypes DEF Next
------------------------------------------------------------------------------
(* What the invariant says *)

\* Who has read s of the history knows of the items that the records up to
\* then have as mastered on that day.
Masks(s, h, now) ==
    \A n \in 1..Len(h) : h[n].no <= s.upTo /\ h[n].right /\ h[n].day + Window >= now => h[n].item \in s.items

\* While nobody has saved over another's: the history is the last answers, and
\* who draws an exercise knows of those that it held when it was read.
HistoryHolds ==
    ~raced => /\ KeptUpTo(history, made)
              /\ \A c \in Threads : call[c].op = "drawing" => call[c].seen.upTo <= made /\ Masks(call[c].seen, history, day)

\* The mistakes of the check, the threads that are to record a wrong answer,
\* those that are to do so once their change of the book is written, and among
\* these the ones whose change is written with the copy of the number no.
FromCheck(b) == {k \in 1..Len(b) : b[k].by = "check"}
ToRecord(r) == r.op \in {"loading", "recording"} /\ ~r.right
Owes(r) == r.op \in {"changed", "writing"} /\ r.then.op = "loading"
OwesIn(r, no) == Owes(r) /\ r.op = "writing" /\ r.copy.no <= no
Recorders(cl) == {c \in Threads : ToRecord(cl[c])}
Owing(cl) == {c \in Threads : Owes(cl[c])}
OwingIn(cl, no) == {c \in Threads : OwesIn(cl[c], no)}

CopiesHold(b, d, n, cl) ==
    d.no <= n /\ \A c \in Threads : cl[c].op = "writing" =>
        cl[c].copy.no <= n /\ (cl[c].copy.no = n => cl[c].copy.book = b)

Due(h, cl) == Cardinality(Wrong(h)) + Cardinality(Recorders(cl))
\* Each wrong answer that is recorded, or to be, is in the file; each that is
\* owed besides is in the book, and in the copy it is written with.
BookHolds(b, d, h, cl) ==
    /\ Cardinality(FromCheck(d.book)) >= Due(h, cl)
    /\ Cardinality(FromCheck(b)) >= Due(h, cl) + Cardinality(Owing(cl))
    /\ \A c \in Threads : cl[c].op = "writing" /\ cl[c].copy.no >= d.no =>
          Cardinality(FromCheck(cl[c].copy.book)) >= Due(h, cl) + Cardinality(OwingIn(cl, cl[c].copy.no))

StudyInv ==
    /\ StudyTypes
    /\ HistoryHolds
    /\ CopiesHold(book, disk, changes, call)
    /\ ~raced => BookHolds(book, disk, history, call)

------------------------------------------------------------------------------
(* What a step may be, as far as the invariant can tell *)

\* A thread goes on, and neither the book nor the history changes.
Quiet(c, r) ==
    /\ GoesOn(c, r) /\ UNCHANGED <<bookVars, historyVars, raced>>
    /\ r.op \notin {"changed", "writing"}
    /\ ToRecord(r) => ToRecord(call[c])
    /\ r.op = "drawing" => r.seen \in {Seen(history), Seen(<< >>)}
\* The book is changed in what is not the check's; the check adds to it.
Marks(c, b, then) ==
    /\ b \in Seq(Mistakes) /\ then \in {Nothing} \cup Uploads /\ FromCheck(b) = FromCheck(book)
    /\ Changes(c, b, then) /\ UNCHANGED raced
ChecksIn(c) == call[c].op = "archiving" /\ Archives(c, "check", Recording(c)) /\ UNCHANGED raced
\* A copy is written; an answer is recorded.
Writes(c) ==
    /\ call[c].op = "writing" /\ disk' = call[c].copy /\ (~raced' => ~raced /\ call[c].copy.no >= disk.no)
    /\ GoesOn(c, call[c].then) /\ UNCHANGED <<book, changes, historyVars>>
NewRecord(c) == [item |-> call[c].item, right |-> call[c].right, day |-> day, no |-> made + 1]
Notes(c) ==
    /\ call[c].op = "recording" /\ history' = LastKept(Append(call[c].loaded, NewRecord(c))) /\ made' = made + 1
    /\ (~raced' => ~raced /\ history = call[c].loaded)
    /\ GoesOn(c, Nothing) /\ UNCHANGED bookVars
OneOf(c) ==
    \/ \E r : Quiet(c, r)
    \/ \E b, then : Marks(c, b, then)
    \/ ChecksIn(c) \/ Copy(c) \/ Writes(c) \/ Notes(c)

LEMMA StartingIsOneOf ==
    ASSUME StudyTypes, NEW c \in Threads, Starting(c)
    PROVE  day' = day /\ OneOf(c)
  <1>1. Starts(c)
    BY DEF Starting, Update, RemoveMany, Upload, Check, Generate, Exam
  <1>2. UNCHANGED <<day, raced>>
    BY <1>1 DEF Starts
  <1>3. ASSUME NEW k \in DOMAIN book, NEW right \in BOOLEAN, Update(c, k, right)
        PROVE  OneOf(c)
    <2>. DEFINE b == [book EXCEPT ![k].right = right]
    <2>1. book \in Seq(Mistakes) /\ k \in 1..Len(book) /\ book[k] \in Mistakes
      BY DEF StudyTypes
    <2>2. [book[k] EXCEPT !.right = right] \in Mistakes /\ [book[k] EXCEPT !.right = right].by = book[k].by
      BY <2>1 DEF Mistakes
    <2>3. b \in Seq(Mistakes)
      BY <2>1, <2>2
    <2>4. Len(b) = Len(book) /\ \A n \in 1..Len(book) : b[n].by = book[n].by
      BY <2>1, <2>2
    <2>5. Changes(c, b, Nothing)
      BY <1>3 DEF Update
    <2>. HIDE DEF b
    <2>6. FromCheck(b) = FromCheck(book)
      BY <2>4 DEF FromCheck
    <2>. QED  BY <1>2, <2>3, <2>5, <2>6 DEF OneOf, Marks
  <1>4. ASSUME NEW ks \in SUBSET DOMAIN book, RemoveMany(c, ks)
        PROVE  OneOf(c)
    <2>. DEFINE b == [k \in DOMAIN book |-> IF k \in ks THEN [book[k] EXCEPT !.gone = TRUE] ELSE book[k]]
    <2>1. Len(book) \in Nat /\ DOMAIN book = 1..Len(book) /\ \A k \in 1..Len(book) : book[k] \in Mistakes
      BY DEF StudyTypes
    <2>2. \A k \in 1..Len(book) : b[k] \in Mistakes /\ b[k].by = book[k].by
      BY <2>1 DEF Mistakes
    <2>3. b \in [1..Len(book) -> Mistakes]
      BY <2>1, <2>2
    <2>4. Changes(c, b, Nothing)
      BY <1>4 DEF RemoveMany
    <2>. HIDE DEF b
    <2>5. b \in Seq(Mistakes)
      BY <2>1, <2>3, IsASeq
    <2>6. Len(b) = Len(book)
      BY <2>1, <2>3, <2>5
    <2>7. FromCheck(b) = FromCheck(book)
      BY <2>2, <2>6 DEF FromCheck
    <2>. QED  BY <1>2, <2>4, <2>5, <2>7 DEF OneOf, Marks
  <1>5. ASSUME NEW wrong \in 0..MaxUpload, Upload(c, wrong)
        PROVE  OneOf(c)
    <2>1. Uploading(wrong).op \in {"none", "upload"}
      BY DEF Uploading, Nothing
    <2>. QED  BY <1>2, <1>5, <2>1 DEF OneOf, Quiet, Upload, ToRecord
  <1>6. ASSUME NEW i \in Items \cup {Freeform}, Check(c, i)
        PROVE  OneOf(c)
    BY <1>2, <1>6 DEF OneOf, Quiet, Check, ToRecord
  <1>7. ASSUME NEW p \in Points, Generate(c, p)
        PROVE  OneOf(c)
    <2>1. \E r : GoesOn(c, r) /\ r.op \in {"given", "drafting"}
      BY <1>7 DEF Generate, Given
    <2>2. UNCHANGED <<bookVars, historyVars, raced>>
      BY <1>2, <1>7 DEF Generate
    <2>. QED  BY <2>1, <2>2 DEF OneOf, Quiet, ToRecord
  <1>8. ASSUME NEW p \in Points, Exam(c, p)
        PROVE  OneOf(c)
    <2>1. \E r : GoesOn(c, r) /\ r.op = "drawing" /\ r.seen \in {Seen(history), Seen(<< >>)}
      BY <1>8 DEF Exam
    <2>2. UNCHANGED <<bookVars, historyVars, raced>>
      BY <1>2, <1>8 DEF Exam
    <2>. QED  BY <2>1, <2>2 DEF OneOf, Quiet, ToRecord
  <1>. QED  BY <1>2, <1>3, <1>4, <1>5, <1>6, <1>7, <1>8 DEF Starting

LEMMA AdvanceIsOneOf ==
    ASSUME StudyTypes, NEW c \in Threads, Advance(c)
    PROVE  day' = day /\ OneOf(c)
  <1>0. Fits(call[c]) /\ raced \in BOOLEAN
    BY DEF StudyTypes
  <1>1. ASSUME NEW r, GoesOn(c, r), UNCHANGED <<bookVars, historyVars, raced>>,
               r.op \notin {"changed", "writing", "loading", "recording", "drawing"}
        PROVE  OneOf(c)
    BY <1>1 DEF OneOf, Quiet, ToRecord
  <1>2. ASSUME Copy(c)
       PROVE  OneOf(c)
    BY <1>2 DEF Copy, OneOf, Goes
  <1>3. ASSUME Write(c)
       PROVE  OneOf(c)
    <2>1. ASSUME disk' = call[c].copy, raced' = (raced \/ disk.no > call[c].copy.no), GoesOn(c, call[c].then)
          PROVE  OneOf(c)
      <3>1. disk.no \in Nat /\ call[c].copy.no \in Nat
        BY <1>0, <1>3 DEF Write, Fits, StudyTypes, Books
      <3>2. ~raced' => ~raced /\ ~(disk.no > call[c].copy.no)
        BY <2>1
      <3>3. ~(disk.no > call[c].copy.no) => call[c].copy.no >= disk.no
        BY <3>1
      <3>. QED  BY <1>3, <2>1, <3>2, <3>3 DEF OneOf, Writes, Write
    <2>2. ASSUME GoesOn(c, Nothing), UNCHANGED <<disk, raced>>
          PROVE  OneOf(c)
      BY <1>1, <1>3, <2>2 DEF Write, bookVars, Nothing
    <2>. QED  BY <1>3, <2>1, <2>2 DEF Write
  <1>4. ASSUME ArchiveNext(c)
       PROVE  OneOf(c)
    <2>. DEFINE b == Append(book, Mistake("upload"))
    <2>1. call[c].wrong - 1 \in Nat
      BY <1>0, <1>4 DEF ArchiveNext, Fits
    <2>2. Uploading(call[c].wrong - 1) \in {Nothing} \cup Uploads
      BY <2>1 DEF Uploading, Uploads
    <2>3. b \in Seq(Mistakes)
      BY ArchivesFit
    <2>4. FromCheck(b) = FromCheck(book)
      <3>1. Len(book) \in Nat /\ Len(b) = Len(book) + 1 /\ b[Len(book) + 1].by = "upload" /\ \A n \in 1..Len(book) : b[n] = book[n]
        BY DEF StudyTypes, Mistake
      <3>. HIDE DEF b
      <3>2. \A n \in 1..(Len(book) + 1) : n = Len(book) + 1 \/ n \in 1..Len(book)
        BY <3>1
      <3>. QED  BY <3>1, <3>2 DEF FromCheck
    <2>5. Changes(c, b, Uploading(call[c].wrong - 1)) /\ UNCHANGED raced
      BY <1>4 DEF ArchiveNext, Archives, Goes
    <2>. HIDE DEF b
    <2>6. Marks(c, b, Uploading(call[c].wrong - 1))
      BY <2>2, <2>3, <2>4, <2>5 DEF Marks
    <2>. QED  BY <2>6 DEF OneOf, Marks
  <1>5. ASSUME Archive(c)
       PROVE  OneOf(c)
    BY <1>5 DEF Archive, OneOf, ChecksIn, Goes
  <1>6. ASSUME LoadHistory(c)
       PROVE  OneOf(c)
    <2>1. \E r : GoesOn(c, r) /\ r.op = "recording" /\ r.right = call[c].right
      BY <1>6 DEF LoadHistory
    <2>2. UNCHANGED <<bookVars, historyVars, raced>> /\ call[c].op = "loading"
      BY <1>6 DEF LoadHistory, Goes
    <2>3. PICK r : GoesOn(c, r) /\ r.op = "recording" /\ r.right = call[c].right
      BY <2>1
    <2>4. ToRecord(r) => ToRecord(call[c])
      BY <2>2, <2>3 DEF ToRecord
    <2>5. Quiet(c, r)
      BY <2>2, <2>3, <2>4 DEF Quiet
    <2>. QED  BY <2>5 DEF OneOf, Quiet
  <1>7. ASSUME Record(c)
       PROVE  OneOf(c)
    <2>1. ASSUME history' = LastKept(Append(call[c].loaded, NewRecord(c))), made' = made + 1,
                 raced' = (raced \/ history # call[c].loaded)
          PROVE  OneOf(c)
      <3>1. ~raced' => ~raced /\ history = call[c].loaded
        BY <2>1
      <3>. QED  BY <1>7, <2>1, <3>1 DEF OneOf, Notes, Record
    <2>2. ASSUME UNCHANGED <<historyVars, raced>>
          PROVE  OneOf(c)
      BY <1>1, <1>7, <2>2 DEF Record, Nothing
    <2>. QED  BY <1>7, <2>1, <2>2 DEF Record, NewRecord
  <1>8. ASSUME Draw(c)
       PROVE  OneOf(c)
    <2>1. \E r : GoesOn(c, r) /\ r.op \in {"none", "given"}
      <3>1. Nothing.op = "none" /\ \A i, seen : Given(i, seen).op = "given"
        BY DEF Given, Nothing
      <3>2. GoesOn(c, Nothing) \/ \E i, seen : GoesOn(c, Given(i, seen))
        BY <1>8 DEF Draw
      <3>. QED  BY <3>1, <3>2
    <2>. QED  BY <1>1, <1>8, <2>1 DEF Draw, Goes
  <1>9. ASSUME GiveUp(c)
       PROVE  OneOf(c)
    BY <1>1, <1>9 DEF GiveUp, Goes, Nothing
  <1>10. ASSUME NEW right \in BOOLEAN, Judge(c, right)
         PROVE  OneOf(c)
    <2>1. UNCHANGED <<bookVars, historyVars, raced>>
      BY <1>10 DEF Judge, Goes
    <2>2. CASE right = TRUE
      <3>. DEFINE r == [op |-> "loading", item |-> call[c].item, right |-> TRUE]
      <3>1. GoesOn(c, r)
        BY <1>10, <2>2 DEF Judge
      <3>2. Quiet(c, r)
        BY <2>1, <3>1 DEF Quiet, ToRecord
      <3>. QED  BY <3>2 DEF OneOf
    <2>3. CASE right = FALSE
      <3>. DEFINE r == [op |-> "archiving", item |-> call[c].item]
      <3>1. GoesOn(c, r)
        BY <1>10, <2>3 DEF Judge
      <3>. QED  BY <1>1, <2>1, <3>1
    <2>. QED  BY <2>2, <2>3
  <1>11. Written.op = "given" /\ Nothing.op = "none"
    BY DEF Written, Given, Nothing
  <1>12. ASSUME NEW figure \in BOOLEAN, Draft(c, figure)
         PROVE  OneOf(c)
    <2>1. call[c] \in [op : {"drafting", "verifying"}, tries : Nat]
      BY <1>0, <1>12 DEF Draft, Fits
    <2>2. [call[c] EXCEPT !.op = "verifying", !.tries = @ + 1].op = "verifying"
      BY <2>1
    <2>. QED  BY <1>1, <1>11, <1>12, <2>2 DEF Draft, Goes
  <1>13. ASSUME NEW verdict \in {"ok", "away", "fail", "error"}, Verify(c, verdict)
         PROVE  OneOf(c)
    <2>1. call[c] \in [op : {"drafting", "verifying"}, tries : Nat]
      BY <1>0, <1>13 DEF Verify, Fits
    <2>2. [call[c] EXCEPT !.op = "drafting"].op = "drafting"
      BY <2>1
    <2>3. \E r : GoesOn(c, r) /\ r.op \in {"given", "drafting", "none"}
      BY <1>11, <1>13, <2>2 DEF Verify
    <2>. QED  BY <1>1, <1>13, <2>3 DEF Verify, Goes
  <1>14. day' = day
    BY DEF Advance, Copy, Write, ArchiveNext, Archive, LoadHistory, Record, Draw, GiveUp, Judge, Draft, Verify, Goes
  <1>. QED  BY <1>2, <1>3, <1>4, <1>5, <1>6, <1>7, <1>8, <1>9, <1>10, <1>12, <1>13, <1>14 DEF Advance

------------------------------------------------------------------------------
(* The history *)

LEMMA HistoryQuiet ==
    ASSUME StudyTypes, HistoryHolds, NEW c \in Threads, NEW r, GoesOn(c, r), UNCHANGED <<historyVars, day>>, ~raced' => ~raced,
           ~raced /\ r.op = "drawing" => r.seen.upTo <= made /\ Masks(r.seen, history, day)
    PROVE  HistoryHolds'
  <1>. SUFFICES ASSUME ~raced'
                PROVE  /\ KeptUpTo(history', made')
                       /\ \A e \in Threads : call'[e].op = "drawing" =>
                             call'[e].seen.upTo <= made' /\ Masks(call'[e].seen, history', day')
    BY DEF HistoryHolds
  <1>1. KeptUpTo(history', made')
    BY DEF HistoryHolds, historyVars
  <1>2. ASSUME NEW e \in Threads, call'[e].op = "drawing"
        PROVE  call'[e].seen.upTo <= made' /\ Masks(call'[e].seen, history', day')
    <2>1. call'[e] = IF e = c THEN r ELSE call[e]
      BY DEF GoesOn, StudyTypes
    <2>2. call'[e].seen.upTo <= made /\ Masks(call'[e].seen, history, day)
      BY <1>2, <2>1 DEF HistoryHolds
    <2>. QED  BY <2>2 DEF historyVars
  <1>. QED  BY <1>1, <1>2

\* What was read of the history masks what it holds.
LEMMA SeenMasks ==
    ASSUME StudyTypes, KeptUpTo(history, made), NEW seen \in {Seen(history), Seen(<< >>)}
    PROVE  seen.upTo <= made /\ Masks(seen, history, day)
  <1>1. CASE history = << >> \/ seen = Seen(<< >>)
    <2>1. seen.upTo = 0
      BY <1>1 DEF Seen
    <2>2. \A n \in 1..Len(history) : history[n] \in Records
      BY DEF StudyTypes
    <2>3. \A n \in 1..Len(history) : ~(history[n].no <= 0)
      BY <2>2 DEF Records
    <2>. QED  BY <2>1, <2>3 DEF Masks, StudyTypes
  <1>2. CASE history # << >> /\ seen = Seen(history)
    <2>1. Len(history) \in 1..Len(history)
      BY <1>2 DEF StudyTypes
    <2>2. seen.upTo = history[Len(history)].no /\ seen.items = Mastered(history)
      BY <1>2 DEF Seen
    <2>3. history[Len(history)].no = made
      BY <2>1 DEF KeptUpTo, StudyTypes
    <2>4. \A n \in 1..Len(history) : Masters(history[n]) => history[n].item \in Mastered(history)
      BY DEF Mastered, StudyTypes
    <2>. QED  BY <2>2, <2>3, <2>4 DEF Masks, Masters, StudyTypes
  <1>. QED  BY <1>1, <1>2

LEMMA HistoryNoted ==
    ASSUME StudyTypes, HistoryHolds, NEW c \in Threads, Notes(c), UNCHANGED day
    PROVE  HistoryHolds'
  <1>. DEFINE new == NewRecord(c)
  <1>. SUFFICES ASSUME ~raced'
                PROVE  /\ KeptUpTo(history', made')
                       /\ \A e \in Threads : call'[e].op = "drawing" =>
                             call'[e].seen.upTo <= made' /\ Masks(call'[e].seen, history', day')
    BY DEF HistoryHolds
  <1>1. ~raced /\ history' = LastKept(Append(history, new)) /\ made' = made + 1 /\ made \in Nat
    BY DEF Notes, StudyTypes
  <1>2. new \in Records /\ new.no = made + 1 /\ history \in Seq(Records)
    BY DEF StudyTypes, Notes, Fits, Records, NewRecord
  <1>. HIDE DEF new
  <1>3. KeptUpTo(history, made)
    BY <1>1 DEF HistoryHolds
  <1>4. KeptUpTo(history', made')
    BY <1>1, <1>2, <1>3, KeptUpToNext
  <1>5. \A n \in 1..Len(history') : history'[n] = new \/ \E m \in 1..Len(history) : history'[n] = history[m]
    BY <1>1, <1>2, SavedFacts
  <1>6. ASSUME NEW e \in Threads, call'[e].op = "drawing"
        PROVE  call'[e].seen.upTo <= made' /\ Masks(call'[e].seen, history', day')
    <2>1. call'[e] = call[e]
      BY <1>6 DEF Notes, GoesOn, Nothing, StudyTypes
    <2>2. call[e].seen.upTo \in Nat /\ call[e].seen.upTo <= made /\ Masks(call[e].seen, history, day)
      BY <1>1, <1>6, <2>1 DEF HistoryHolds, StudyTypes, Fits
    <2>3. ASSUME NEW n \in 1..Len(history'), history'[n].no <= call[e].seen.upTo, history'[n].right, history'[n].day + Window >= day'
          PROVE  history'[n].item \in call[e].seen.items
      <3>1. history'[n] # new
        BY <1>1, <1>2, <2>2, <2>3
      <3>. QED  BY <1>5, <2>2, <2>3, <3>1 DEF Masks
    <2>4. Masks(call[e].seen, history', day')
      BY <2>3 DEF Masks
    <2>. QED  BY <1>1, <2>1, <2>2, <2>4
  <1>. QED  BY <1>4, <1>6

LEMMA HistoryStep ==
    StudyTypes /\ HistoryHolds /\ [Next]_vars => HistoryHolds'
  <1>. SUFFICES ASSUME StudyTypes, HistoryHolds, [Next]_vars
                PROVE  HistoryHolds'
    OBVIOUS
  <1>1. ASSUME NEW c \in Threads, OneOf(c), day' = day
        PROVE  HistoryHolds'
    <2>1. ASSUME NEW r, Quiet(c, r)
          PROVE  HistoryHolds'
      <3>1. ~raced /\ r.op = "drawing" => r.seen.upTo <= made /\ Masks(r.seen, history, day)
        BY <2>1, SeenMasks DEF HistoryHolds, Quiet
      <3>. QED  BY <1>1, <2>1, <3>1, HistoryQuiet DEF Quiet
    <2>2. ASSUME NEW r, r.op # "drawing", GoesOn(c, r), UNCHANGED historyVars, ~raced' => ~raced
          PROVE  HistoryHolds'
      BY <1>1, <2>2, HistoryQuiet
    <2>3. ASSUME NEW b, NEW then, Changes(c, b, then), UNCHANGED raced
          PROVE  HistoryHolds'
      BY <2>2, <2>3 DEF Changes, historyVars
    <2>4. ASSUME NEW b, NEW then, Marks(c, b, then)
          PROVE  HistoryHolds'
      BY <2>3, <2>4 DEF Marks
    <2>5. CASE ChecksIn(c)
      BY <2>3, <2>5 DEF ChecksIn, Archives
    <2>6. CASE Copy(c)
      BY <2>2, <2>6 DEF Copy, Goes
    <2>7. CASE Writes(c)
      <3>1. call[c].then.op # "drawing"
        <4>1. call[c].then \in Thens
          BY <2>7 DEF Writes, StudyTypes, Fits
        <4>2. \A r \in Uploads : r.op # "drawing"
          BY DEF Uploads
        <4>3. \A r \in [op : {"loading"}, item : Its, right : {FALSE}] : r.op # "drawing"
          OBVIOUS
        <4>4. Nothing.op # "drawing"
          BY DEF Nothing
        <4>. QED  BY <4>1, <4>2, <4>3, <4>4 DEF Thens
      <3>. QED  BY <2>2, <2>7, <3>1 DEF Writes
    <2>8. CASE Notes(c)
      BY <1>1, <2>8, HistoryNoted
    <2>. QED  BY <1>1, <2>1, <2>4, <2>5, <2>6, <2>7, <2>8 DEF OneOf
  <1>2. CASE Tick
    <2>1. UNCHANGED <<history, made, call, raced>> /\ day' = day + 1 /\ day \in Nat
      BY <1>2 DEF Tick, historyVars, StudyTypes
    <2>2. \A n \in 1..Len(history) : history[n].day + Window >= day' => history[n].day + Window >= day
      <3>1. \A n \in 1..Len(history) : history[n].day \in Nat
        <4>1. \A n \in 1..Len(history) : history[n] \in Records
          BY DEF StudyTypes
        <4>. QED  BY <4>1 DEF Records
      <3>. QED  BY <2>1, <3>1, RecordsAssumption
    <2>3. \A c \in Threads : Masks(call[c].seen, history, day) => Masks(call[c].seen, history, day')
      BY <2>2 DEF Masks
    <2>. QED  BY <2>1, <2>3 DEF HistoryHolds
  <1>3. CASE Restart
    <2>1. \A c \in Threads : call'[c].op # "drawing"
      BY <1>3 DEF Restart, Nothing
    <2>. QED  BY <1>3, <2>1 DEF HistoryHolds, Restart, historyVars
  <1>4. CASE UNCHANGED vars
    BY <1>4 DEF vars, HistoryHolds, historyVars
  <1>. QED  BY <1>1, <1>2, <1>3, <1>4, StartingIsOneOf, AdvanceIsOneOf DEF Next

LEMMA HistoryStart ==
    Init => HistoryHolds
  BY RecordsAssumption DEF Init, HistoryHolds, KeptUpTo, Nothing

------------------------------------------------------------------------------
(* The book: counting the threads *)

\* A set that changes in one member at most.
LEMMA CountMoved ==
    ASSUME NEW S, NEW S2, NEW c, IsFiniteSet(S), S2 \ {c} = S \ {c}
    PROVE  /\ Cardinality(S) \in Nat /\ Cardinality(S2) \in Nat
           /\ (c \in S <=> c \in S2) => Cardinality(S2) = Cardinality(S)
           /\ c \in S /\ c \notin S2 => Cardinality(S2) = Cardinality(S) - 1
           /\ c \notin S /\ c \in S2 => Cardinality(S2) = Cardinality(S) + 1
  <1>1. Cardinality(S) \in Nat
    BY FS_CardinalityType
  <1>2. CASE c \in S <=> c \in S2
    <2>1. S2 = S
      BY <1>2
    <2>. QED  BY <1>1, <1>2, <2>1
  <1>3. CASE c \in S /\ c \notin S2
    <2>1. S2 = S \ {c}
      BY <1>3
    <2>. QED  BY <1>1, <1>3, <2>1, FS_RemoveElement, FS_CardinalityType
  <1>4. CASE c \notin S /\ c \in S2
    <2>1. S2 = S \cup {c}
      BY <1>4
    <2>. QED  BY <1>1, <1>4, <2>1, FS_AddElement, FS_CardinalityType
  <1>. QED  BY <1>2, <1>3, <1>4

\* One thread goes on with r.
LEMMA ThreadsCounted ==
    ASSUME NEW cl, DOMAIN cl = Threads, NEW c \in Threads, NEW r
    PROVE  LET cl2 == [cl EXCEPT ![c] = r] IN
           /\ Cardinality(Recorders(cl)) \in Nat /\ Cardinality(Recorders(cl2)) \in Nat
           /\ Cardinality(Owing(cl)) \in Nat /\ Cardinality(Owing(cl2)) \in Nat
           /\ (ToRecord(r) => ToRecord(cl[c])) => Cardinality(Recorders(cl2)) <= Cardinality(Recorders(cl))
           /\ Cardinality(Recorders(cl2)) <= Cardinality(Recorders(cl)) + 1
           /\ ToRecord(cl[c]) /\ ~ToRecord(r) => Cardinality(Recorders(cl2)) = Cardinality(Recorders(cl)) - 1
           /\ ~Owes(r) => Cardinality(Owing(cl2)) <= Cardinality(Owing(cl))
           /\ Cardinality(Owing(cl2)) <= Cardinality(Owing(cl)) + 1
           /\ (Owes(r) <=> Owes(cl[c])) => Cardinality(Owing(cl2)) = Cardinality(Owing(cl))
           /\ Owes(cl[c]) /\ ~Owes(r) => Cardinality(Owing(cl2)) = Cardinality(Owing(cl)) - 1
  <1>. DEFINE cl2 == [cl EXCEPT ![c] = r]
  <1>1. cl2[c] = r /\ \A e \in Threads \ {c} : cl2[e] = cl[e]
    OBVIOUS
  <1>. HIDE DEF cl2
  <1>2. IsFiniteSet(Recorders(cl)) /\ IsFiniteSet(Owing(cl))
    <2>1. Recorders(cl) \in SUBSET Threads /\ Owing(cl) \in SUBSET Threads
      BY DEF Recorders, Owing
    <2>. QED  BY <2>1, ThreadsAssumption, FS_Subset
  <1>3. /\ Recorders(cl2) \ {c} = Recorders(cl) \ {c} /\ Owing(cl2) \ {c} = Owing(cl) \ {c}
        /\ c \in Recorders(cl2) <=> ToRecord(r)
    BY <1>1 DEF Recorders, Owing
  <1>4. /\ c \in Recorders(cl) <=> ToRecord(cl[c])
        /\ c \in Owing(cl2) <=> Owes(r)
        /\ c \in Owing(cl) <=> Owes(cl[c])
    BY <1>1 DEF Recorders, Owing
  <1>5. /\ Cardinality(Recorders(cl)) \in Nat /\ Cardinality(Recorders(cl2)) \in Nat
        /\ (ToRecord(cl[c]) <=> ToRecord(r)) => Cardinality(Recorders(cl2)) = Cardinality(Recorders(cl))
        /\ ToRecord(cl[c]) /\ ~ToRecord(r) => Cardinality(Recorders(cl2)) = Cardinality(Recorders(cl)) - 1
        /\ ~ToRecord(cl[c]) /\ ToRecord(r) => Cardinality(Recorders(cl2)) = Cardinality(Recorders(cl)) + 1
    BY <1>2, <1>3, <1>4, CountMoved
  <1>6. /\ Cardinality(Owing(cl)) \in Nat /\ Cardinality(Owing(cl2)) \in Nat
        /\ (Owes(cl[c]) <=> Owes(r)) => Cardinality(Owing(cl2)) = Cardinality(Owing(cl))
        /\ Owes(cl[c]) /\ ~Owes(r) => Cardinality(Owing(cl2)) = Cardinality(Owing(cl)) - 1
        /\ ~Owes(cl[c]) /\ Owes(r) => Cardinality(Owing(cl2)) = Cardinality(Owing(cl)) + 1
    BY <1>2, <1>3, <1>4, CountMoved
  <1>7. /\ (ToRecord(r) => ToRecord(cl[c])) => Cardinality(Recorders(cl2)) <= Cardinality(Recorders(cl))
        /\ Cardinality(Recorders(cl2)) <= Cardinality(Recorders(cl)) + 1
    BY <1>5
  <1>8. /\ ~Owes(r) => Cardinality(Owing(cl2)) <= Cardinality(Owing(cl))
        /\ Cardinality(Owing(cl2)) <= Cardinality(Owing(cl)) + 1
    BY <1>6
  <1>. QED  BY <1>5, <1>6, <1>7, <1>8 DEF cl2

\* Those that owe with a copy are among those that owe.
LEMMA OwedInFacts ==
    ASSUME NEW cl, NEW no
    PROVE  /\ IsFiniteSet(OwingIn(cl, no)) /\ Cardinality(OwingIn(cl, no)) \in Nat
           /\ Cardinality(OwingIn(cl, no)) <= Cardinality(Owing(cl)) /\ Cardinality(Owing(cl)) \in Nat
  <1>1. OwingIn(cl, no) \in SUBSET Owing(cl) /\ Owing(cl) \in SUBSET Threads
    BY DEF OwingIn, OwesIn, Owing
  <1>2. IsFiniteSet(Owing(cl))
    BY <1>1, ThreadsAssumption, FS_Subset
  <1>. QED  BY <1>1, <1>2, FS_Subset, FS_CardinalityType

LEMMA OwedInMoved ==
    ASSUME NEW cl, DOMAIN cl = Threads, NEW c \in Threads, NEW r, NEW no
    PROVE  LET cl2 == [cl EXCEPT ![c] = r] IN
           /\ ~OwesIn(r, no) => Cardinality(OwingIn(cl2, no)) <= Cardinality(OwingIn(cl, no))
           /\ OwesIn(cl[c], no) /\ ~OwesIn(r, no) => Cardinality(OwingIn(cl2, no)) + 1 <= Cardinality(OwingIn(cl, no))
  <1>. DEFINE cl2 == [cl EXCEPT ![c] = r]
  <1>1. cl2[c] = r /\ \A e \in Threads \ {c} : cl2[e] = cl[e]
    OBVIOUS
  <1>. HIDE DEF cl2
  <1>2. OwingIn(cl2, no) \ {c} = OwingIn(cl, no) \ {c}
    BY <1>1 DEF OwingIn
  <1>3. (c \in OwingIn(cl2, no) <=> OwesIn(r, no)) /\ (c \in OwingIn(cl, no) <=> OwesIn(cl[c], no))
    BY <1>1 DEF OwingIn
  <1>4. IsFiniteSet(OwingIn(cl, no))
    BY OwedInFacts
  <1>5. /\ Cardinality(OwingIn(cl, no)) \in Nat /\ Cardinality(OwingIn(cl2, no)) \in Nat
        /\ (OwesIn(cl[c], no) <=> OwesIn(r, no)) => Cardinality(OwingIn(cl2, no)) = Cardinality(OwingIn(cl, no))
        /\ OwesIn(cl[c], no) /\ ~OwesIn(r, no) => Cardinality(OwingIn(cl2, no)) = Cardinality(OwingIn(cl, no)) - 1
    BY <1>2, <1>3, <1>4, CountMoved
  <1>6. ~OwesIn(r, no) => Cardinality(OwingIn(cl2, no)) <= Cardinality(OwingIn(cl, no))
    BY <1>5
  <1>7. OwesIn(cl[c], no) /\ ~OwesIn(r, no) => Cardinality(OwingIn(cl2, no)) + 1 <= Cardinality(OwingIn(cl, no))
    BY <1>5
  <1>. QED  BY <1>6, <1>7 DEF cl2

LEMMA FromCheckFacts ==
    ASSUME NEW b \in Seq(Mistakes)
    PROVE  /\ Cardinality(FromCheck(b)) \in Nat
           /\ Cardinality(FromCheck(Append(b, Mistake("check")))) = Cardinality(FromCheck(b)) + 1
  <1>. DEFINE b2 == Append(b, Mistake("check"))
  <1>1. Len(b) \in Nat /\ Len(b2) = Len(b) + 1 /\ b2[Len(b) + 1].by = "check" /\ \A n \in 1..Len(b) : b2[n] = b[n]
    BY DEF Mistake
  <1>. HIDE DEF b2
  <1>2. IsFiniteSet(1..Len(b)) /\ FromCheck(b) \in SUBSET (1..Len(b))
    BY <1>1, FS_Interval DEF FromCheck
  <1>3. IsFiniteSet(FromCheck(b))
    BY <1>2, FS_Subset
  <1>4. FromCheck(b2) = FromCheck(b) \cup {Len(b) + 1} /\ Len(b) + 1 \notin FromCheck(b)
    <2>1. \A n \in 1..(Len(b) + 1) : n = Len(b) + 1 \/ n \in 1..Len(b)
      BY <1>1
    <2>. QED  BY <1>1, <2>1 DEF FromCheck
  <1>. QED  BY <1>3, <1>4, FS_AddElement, FS_CardinalityType DEF b2

------------------------------------------------------------------------------
(* The book: what each kind of step does to the counts *)

Calls(cl) == DOMAIN cl = Threads /\ \A e \in Threads : Fits(cl[e])

\* A thread goes on with what owes nothing.
LEMMA BookGoesOn ==
    ASSUME NEW b, NEW d, NEW h \in Seq(Records), NEW cl, Calls(cl), NEW c \in Threads, NEW r,
           b \in Seq(Mistakes), d \in Books, BookHolds(b, d, h, cl),
           ~Owes(r), r.op # "writing", ToRecord(r) => ToRecord(cl[c])
    PROVE  BookHolds(b, d, h, [cl EXCEPT ![c] = r])
  <1>. DEFINE cl2 == [cl EXCEPT ![c] = r]
  <1>1. DOMAIN cl = Threads /\ cl2[c] = r /\ \A e \in Threads \ {c} : cl2[e] = cl[e]
    BY DEF Calls
  <1>2. /\ Cardinality(Recorders(cl)) \in Nat /\ Cardinality(Recorders(cl2)) \in Nat
        /\ Cardinality(Owing(cl)) \in Nat /\ Cardinality(Owing(cl2)) \in Nat
        /\ Cardinality(Recorders(cl2)) <= Cardinality(Recorders(cl)) /\ Cardinality(Owing(cl2)) <= Cardinality(Owing(cl))
    BY <1>1, ThreadsCounted
  <1>3. \A no : Cardinality(OwingIn(cl2, no)) <= Cardinality(OwingIn(cl, no))
    <2>1. \A no : ~OwesIn(r, no)
      BY DEF OwesIn
    <2>. QED  BY <1>1, <2>1, OwedInMoved
  <1>. HIDE DEF cl2
  <1>4. Cardinality(Wrong(h)) \in Nat /\ Cardinality(FromCheck(d.book)) \in Nat /\ Cardinality(FromCheck(b)) \in Nat
    BY WrongFinite, FromCheckFacts DEF Books
  <1>5. Due(h, cl) \in Nat /\ Due(h, cl2) \in Nat /\ Due(h, cl2) <= Due(h, cl)
    BY <1>2, <1>4 DEF Due
  <1>6. Cardinality(FromCheck(d.book)) >= Due(h, cl2) /\ Cardinality(FromCheck(b)) >= Due(h, cl2) + Cardinality(Owing(cl2))
    BY <1>2, <1>4, <1>5 DEF BookHolds
  <1>7. ASSUME NEW e \in Threads, cl2[e].op = "writing", cl2[e].copy.no >= d.no
        PROVE  Cardinality(FromCheck(cl2[e].copy.book)) >= Due(h, cl2) + Cardinality(OwingIn(cl2, cl2[e].copy.no))
    <2>1. cl2[e] = cl[e] /\ cl[e].copy \in Books
      BY <1>1, <1>7 DEF Calls, Fits
    <2>2. Cardinality(FromCheck(cl[e].copy.book)) >= Due(h, cl) + Cardinality(OwingIn(cl, cl[e].copy.no))
      BY <1>7, <2>1 DEF BookHolds
    <2>3. Cardinality(FromCheck(cl[e].copy.book)) \in Nat
      BY <2>1, FromCheckFacts DEF Books
    <2>4. Cardinality(OwingIn(cl, cl[e].copy.no)) \in Nat /\ Cardinality(OwingIn(cl2, cl[e].copy.no)) \in Nat
          /\ Cardinality(OwingIn(cl2, cl[e].copy.no)) <= Cardinality(OwingIn(cl, cl[e].copy.no))
      BY <1>3, OwedInFacts
    <2>. QED  BY <1>5, <2>1, <2>2, <2>3, <2>4
  <1>8. BookHolds(b, d, h, cl2)
    BY <1>6, <1>7 DEF BookHolds
  <1>. QED  BY <1>8 DEF cl2

\* The check archives a mistake, and owes the answer's record.
LEMMA BookArchived ==
    ASSUME NEW b, NEW d, NEW h \in Seq(Records), NEW cl, Calls(cl), NEW c \in Threads, NEW r,
           b \in Seq(Mistakes), d \in Books, BookHolds(b, d, h, cl), r.op = "changed"
    PROVE  BookHolds(Append(b, Mistake("check")), d, h, [cl EXCEPT ![c] = r])
  <1>. DEFINE cl2 == [cl EXCEPT ![c] = r]
              b2 == Append(b, Mistake("check"))
  <1>1. DOMAIN cl = Threads /\ cl2[c] = r /\ \A e \in Threads \ {c} : cl2[e] = cl[e]
    BY DEF Calls
  <1>2. /\ Cardinality(Recorders(cl)) \in Nat /\ Cardinality(Recorders(cl2)) \in Nat
        /\ Cardinality(Owing(cl)) \in Nat /\ Cardinality(Owing(cl2)) \in Nat
        /\ Cardinality(Recorders(cl2)) <= Cardinality(Recorders(cl)) /\ Cardinality(Owing(cl2)) <= Cardinality(Owing(cl)) + 1
    <2>1. ~ToRecord(r)
      BY DEF ToRecord
    <2>. QED  BY <1>1, <2>1, ThreadsCounted
  <1>3. \A no : Cardinality(OwingIn(cl2, no)) <= Cardinality(OwingIn(cl, no))
    <2>1. \A no : ~OwesIn(r, no)
      BY DEF OwesIn
    <2>. QED  BY <1>1, <2>1, OwedInMoved
  <1>4. Cardinality(Wrong(h)) \in Nat /\ Cardinality(FromCheck(d.book)) \in Nat /\ Cardinality(FromCheck(b)) \in Nat
        /\ Cardinality(FromCheck(b2)) = Cardinality(FromCheck(b)) + 1
    BY WrongFinite, FromCheckFacts DEF Books
  <1>. HIDE DEF cl2, b2
  <1>5. Due(h, cl) \in Nat /\ Due(h, cl2) \in Nat /\ Due(h, cl2) <= Due(h, cl)
    BY <1>2, <1>4 DEF Due
  <1>6. Cardinality(FromCheck(d.book)) >= Due(h, cl2) /\ Cardinality(FromCheck(b2)) >= Due(h, cl2) + Cardinality(Owing(cl2))
    BY <1>2, <1>4, <1>5 DEF BookHolds
  <1>7. ASSUME NEW e \in Threads, cl2[e].op = "writing", cl2[e].copy.no >= d.no
        PROVE  Cardinality(FromCheck(cl2[e].copy.book)) >= Due(h, cl2) + Cardinality(OwingIn(cl2, cl2[e].copy.no))
    <2>1. cl2[e] = cl[e] /\ cl[e].copy \in Books
      BY <1>1, <1>7 DEF Calls, Fits
    <2>2. Cardinality(FromCheck(cl[e].copy.book)) >= Due(h, cl) + Cardinality(OwingIn(cl, cl[e].copy.no))
      BY <1>7, <2>1 DEF BookHolds
    <2>3. Cardinality(FromCheck(cl[e].copy.book)) \in Nat
      BY <2>1, FromCheckFacts DEF Books
    <2>4. Cardinality(OwingIn(cl, cl[e].copy.no)) \in Nat /\ Cardinality(OwingIn(cl2, cl[e].copy.no)) \in Nat
          /\ Cardinality(OwingIn(cl2, cl[e].copy.no)) <= Cardinality(OwingIn(cl, cl[e].copy.no))
      BY <1>3, OwedInFacts
    <2>. QED  BY <1>5, <2>1, <2>2, <2>3, <2>4
  <1>8. BookHolds(b2, d, h, cl2)
    BY <1>6, <1>7 DEF BookHolds
  <1>. QED  BY <1>8 DEF cl2, b2

\* A copy is taken.
LEMMA BookCopied ==
    ASSUME NEW b, NEW d, NEW n \in Nat, NEW h \in Seq(Records), NEW cl, Calls(cl), NEW c \in Threads, cl[c].op = "changed",
           b \in Seq(Mistakes), d \in Books, BookHolds(b, d, h, cl), CopiesHold(b, d, n, cl)
    PROVE  BookHolds(b, d, h, [cl EXCEPT ![c] = [op |-> "writing", then |-> cl[c].then, copy |-> [book |-> b, no |-> n]]])
  <1>. DEFINE r == [op |-> "writing", then |-> cl[c].then, copy |-> [book |-> b, no |-> n]]
              cl2 == [cl EXCEPT ![c] = r]
  <1>1. DOMAIN cl = Threads /\ cl2[c] = r /\ \A e \in Threads \ {c} : cl2[e] = cl[e]
    BY DEF Calls
  <1>2. /\ Cardinality(Recorders(cl)) \in Nat /\ Cardinality(Recorders(cl2)) \in Nat
        /\ Cardinality(Owing(cl)) \in Nat /\ Cardinality(Owing(cl2)) \in Nat
        /\ Cardinality(Recorders(cl2)) <= Cardinality(Recorders(cl)) /\ Cardinality(Owing(cl2)) = Cardinality(Owing(cl))
    <2>1. ~ToRecord(r) /\ (Owes(r) <=> Owes(cl[c]))
      BY DEF ToRecord, Owes
    <2>. HIDE DEF r
    <2>. QED  BY <1>1, <2>1, ThreadsCounted
  <1>3. ASSUME NEW no \in Nat, no < n
        PROVE  Cardinality(OwingIn(cl2, no)) <= Cardinality(OwingIn(cl, no))
    <2>1. ~OwesIn(r, no)
      BY <1>3 DEF OwesIn
    <2>. HIDE DEF r
    <2>. QED  BY <1>1, <2>1, OwedInMoved
  <1>4. Cardinality(Wrong(h)) \in Nat /\ Cardinality(FromCheck(d.book)) \in Nat /\ Cardinality(FromCheck(b)) \in Nat
    BY WrongFinite, FromCheckFacts DEF Books
  <1>. HIDE DEF cl2
  <1>5. Due(h, cl) \in Nat /\ Due(h, cl2) \in Nat /\ Due(h, cl2) <= Due(h, cl)
    BY <1>2, <1>4 DEF Due
  <1>6. Cardinality(FromCheck(d.book)) >= Due(h, cl2) /\ Cardinality(FromCheck(b)) >= Due(h, cl2) + Cardinality(Owing(cl2))
    BY <1>2, <1>4, <1>5 DEF BookHolds
  <1>7. ASSUME NEW e \in Threads, cl2[e].op = "writing", cl2[e].copy.no >= d.no
        PROVE  Cardinality(FromCheck(cl2[e].copy.book)) >= Due(h, cl2) + Cardinality(OwingIn(cl2, cl2[e].copy.no))
    <2>1. CASE cl2[e].copy.book = b
      <3>1. Cardinality(OwingIn(cl2, cl2[e].copy.no)) \in Nat
            /\ Cardinality(OwingIn(cl2, cl2[e].copy.no)) <= Cardinality(Owing(cl2))
        BY OwedInFacts
      <3>. QED  BY <1>2, <1>4, <1>5, <1>6, <2>1, <3>1
    <2>2. CASE cl2[e].copy.book # b
      <3>1. e # c /\ cl2[e] = cl[e]
        BY <1>1, <2>2
      <3>2. cl[e].copy \in Books /\ cl[e].copy.no \in Nat /\ cl[e].copy.no < n
        BY <1>7, <2>2, <3>1 DEF Calls, Fits, CopiesHold, Books
      <3>3. Cardinality(FromCheck(cl[e].copy.book)) >= Due(h, cl) + Cardinality(OwingIn(cl, cl[e].copy.no))
        BY <1>7, <3>1 DEF BookHolds
      <3>4. Cardinality(FromCheck(cl[e].copy.book)) \in Nat
        BY <3>2, FromCheckFacts DEF Books
      <3>5. Cardinality(OwingIn(cl, cl[e].copy.no)) \in Nat /\ Cardinality(OwingIn(cl2, cl[e].copy.no)) \in Nat
            /\ Cardinality(OwingIn(cl2, cl[e].copy.no)) <= Cardinality(OwingIn(cl, cl[e].copy.no))
        BY <1>3, <3>2, OwedInFacts
      <3>. QED  BY <1>5, <3>1, <3>3, <3>4, <3>5
    <2>. QED  BY <2>1, <2>2
  <1>8. BookHolds(b, d, h, cl2)
    BY <1>6, <1>7 DEF BookHolds
  <1>. QED  BY <1>8 DEF cl2

\* A copy that is not older than the file is written.
LEMMA BookWritten ==
    ASSUME NEW b, NEW d, NEW h \in Seq(Records), NEW cl, Calls(cl), NEW c \in Threads, cl[c].op = "writing",
           b \in Seq(Mistakes), d \in Books, BookHolds(b, d, h, cl), cl[c].copy.no >= d.no
    PROVE  BookHolds(b, cl[c].copy, h, [cl EXCEPT ![c] = cl[c].then])
  <1>. DEFINE r == cl[c].then
              cl2 == [cl EXCEPT ![c] = r]
              d2 == cl[c].copy
  <1>1. DOMAIN cl = Threads /\ cl2[c] = r /\ \A e \in Threads \ {c} : cl2[e] = cl[e]
    BY DEF Calls
  <1>2. r \in Thens /\ d2 \in Books
    BY DEF Calls, Fits
  <1>3. r.op \in {"none", "upload", "loading"} /\ (ToRecord(r) => Owes(cl[c])) /\ ~ToRecord(cl[c])
    <2>1. \A u \in Uploads : u.op = "upload"
      BY DEF Uploads
    <2>2. \A u \in [op : {"loading"}, item : Its, right : {FALSE}] : u.op = "loading"
      OBVIOUS
    <2>3. r.op \in {"none", "upload", "loading"}
      <3>1. Nothing.op = "none"
        BY DEF Nothing
      <3>. QED  BY <1>2, <2>1, <2>2, <3>1 DEF Thens
    <2>4. ~ToRecord(cl[c])
      BY DEF ToRecord
    <2>5. ToRecord(r) => Owes(cl[c])
      BY <2>3 DEF ToRecord, Owes
    <2>. QED  BY <2>3, <2>4, <2>5
  <1>4. ~Owes(r) /\ \A no : ~OwesIn(r, no)
    BY <1>3 DEF Owes, OwesIn
  <1>. HIDE DEF r
  <1>5. /\ Cardinality(Recorders(cl)) \in Nat /\ Cardinality(Recorders(cl2)) \in Nat
        /\ Cardinality(Owing(cl)) \in Nat /\ Cardinality(Owing(cl2)) \in Nat
    BY <1>1, ThreadsCounted
  <1>6. \/ Cardinality(Recorders(cl2)) <= Cardinality(Recorders(cl)) /\ Cardinality(Owing(cl2)) <= Cardinality(Owing(cl))
        \/ /\ Owes(cl[c])
           /\ Cardinality(Recorders(cl2)) <= Cardinality(Recorders(cl)) + 1
           /\ Cardinality(Owing(cl2)) = Cardinality(Owing(cl)) - 1
    BY <1>1, <1>3, <1>4, ThreadsCounted
  <1>7. \A no : /\ Cardinality(OwingIn(cl2, no)) <= Cardinality(OwingIn(cl, no))
                /\ OwesIn(cl[c], no) => Cardinality(OwingIn(cl2, no)) + 1 <= Cardinality(OwingIn(cl, no))
    <2>. TAKE no
    <2>1. ~OwesIn(r, no)
      BY <1>4
    <2>2. Cardinality(OwingIn(cl2, no)) <= Cardinality(OwingIn(cl, no))
      BY <1>1, <2>1, OwedInMoved
    <2>3. ASSUME OwesIn(cl[c], no)
          PROVE  Cardinality(OwingIn(cl2, no)) + 1 <= Cardinality(OwingIn(cl, no))
      BY <1>1, <2>1, <2>3, OwedInMoved
    <2>. QED  BY <2>2, <2>3
  <1>. HIDE DEF cl2
  <1>8. Cardinality(Wrong(h)) \in Nat /\ Cardinality(FromCheck(d2.book)) \in Nat /\ Cardinality(FromCheck(b)) \in Nat
    BY <1>2, WrongFinite, FromCheckFacts DEF Books
  <1>9. Due(h, cl) \in Nat /\ Due(h, cl2) \in Nat
        /\ Due(h, cl2) - Due(h, cl) = Cardinality(Recorders(cl2)) - Cardinality(Recorders(cl))
    BY <1>5, <1>8 DEF Due
  <1>10. Cardinality(FromCheck(b)) >= Due(h, cl2) + Cardinality(Owing(cl2))
    <2>1. Cardinality(FromCheck(b)) >= Due(h, cl) + Cardinality(Owing(cl))
      BY DEF BookHolds
    <2>. DEFINE due == Due(h, cl) due2 == Due(h, cl2)
                owing == Cardinality(Owing(cl)) owing2 == Cardinality(Owing(cl2))
                known == Cardinality(FromCheck(b))
    <2>2. due \in Nat /\ due2 \in Nat /\ owing \in Nat /\ owing2 \in Nat /\ known \in Nat
      BY <1>5, <1>8, <1>9
    <2>3. (due2 <= due /\ owing2 <= owing) \/ (due2 <= due + 1 /\ owing2 = owing - 1)
      <3>. DEFINE toCome == Cardinality(Recorders(cl)) toCome2 == Cardinality(Recorders(cl2))
      <3>1. toCome \in Nat /\ toCome2 \in Nat /\ due2 - due = toCome2 - toCome
        BY <1>5, <1>9
      <3>2. (toCome2 <= toCome /\ owing2 <= owing) \/ (toCome2 <= toCome + 1 /\ owing2 = owing - 1)
        BY <1>6
      <3>. HIDE DEF toCome, toCome2, due, due2, owing, owing2
      <3>. QED  BY <2>2, <3>1, <3>2
    <2>4. known >= due + owing
      BY <2>1
    <2>. HIDE DEF due, due2, owing, owing2, known
    <2>5. known >= due2 + owing2
      BY <2>2, <2>3, <2>4
    <2>. QED  BY <2>5 DEF due2, owing2, known
  <1>11. ASSUME NEW e \in Threads, cl[e].op = "writing", cl[e].copy.no >= d2.no
         PROVE  Cardinality(FromCheck(cl[e].copy.book)) >= Due(h, cl2) + Cardinality(OwingIn(cl2, cl[e].copy.no))
    <2>1. cl[e].copy \in Books /\ d2.no \in Nat /\ d.no \in Nat /\ cl[e].copy.no \in Nat
      BY <1>2, <1>11 DEF Calls, Fits, Books
    <2>2. Cardinality(FromCheck(cl[e].copy.book)) >= Due(h, cl) + Cardinality(OwingIn(cl, cl[e].copy.no))
      BY <1>11, <2>1 DEF BookHolds
    <2>3. Cardinality(FromCheck(cl[e].copy.book)) \in Nat
      BY <2>1, FromCheckFacts DEF Books
    <2>4. Owes(cl[c]) => OwesIn(cl[c], cl[e].copy.no)
      BY <1>11, <2>1 DEF OwesIn
    <2>5. Cardinality(OwingIn(cl, cl[e].copy.no)) \in Nat /\ Cardinality(OwingIn(cl2, cl[e].copy.no)) \in Nat
      BY OwedInFacts
    <2>6. /\ Cardinality(OwingIn(cl2, cl[e].copy.no)) <= Cardinality(OwingIn(cl, cl[e].copy.no))
          /\ Owes(cl[c]) => Cardinality(OwingIn(cl2, cl[e].copy.no)) + 1 <= Cardinality(OwingIn(cl, cl[e].copy.no))
      BY <1>7, <2>4
    <2>7. \/ Due(h, cl2) <= Due(h, cl)
          \/ Owes(cl[c]) /\ Due(h, cl2) <= Due(h, cl) + 1
      BY <1>5, <1>6, <1>9
    <2>. QED  BY <1>9, <2>2, <2>3, <2>5, <2>6, <2>7
  <1>12. Cardinality(FromCheck(d2.book)) >= Due(h, cl2)
    <2>1. d2.no \in Nat /\ d2.no >= d2.no
      BY <1>2 DEF Books
    <2>2. Cardinality(FromCheck(d2.book)) >= Due(h, cl2) + Cardinality(OwingIn(cl2, d2.no))
      BY <1>11, <2>1
    <2>3. Cardinality(OwingIn(cl2, d2.no)) \in Nat
      BY OwedInFacts
    <2>. QED  BY <1>8, <1>9, <2>2, <2>3
  <1>13. \A e \in Threads : cl2[e].op = "writing" => cl2[e] = cl[e]
    BY <1>1, <1>3
  <1>. HIDE DEF d2
  <1>14. BookHolds(b, d2, h, cl2)
    BY <1>10, <1>11, <1>12, <1>13 DEF BookHolds
  <1>. QED  BY <1>14 DEF cl2, d2, r

\* An answer is recorded; a wrong one was due.
LEMMA BookNoted ==
    ASSUME NEW b, NEW d, NEW h \in Seq(Records), NEW cl, Calls(cl), NEW c \in Threads, cl[c].op = "recording",
           b \in Seq(Mistakes), d \in Books, BookHolds(b, d, h, cl),
           NEW h2 \in Seq(Records), Cardinality(Wrong(h2)) <= Cardinality(Wrong(h)) + (IF cl[c].right THEN 0 ELSE 1)
    PROVE  BookHolds(b, d, h2, [cl EXCEPT ![c] = Nothing])
  <1>. DEFINE cl2 == [cl EXCEPT ![c] = Nothing]
  <1>1. DOMAIN cl = Threads /\ cl2[c] = Nothing /\ \A e \in Threads \ {c} : cl2[e] = cl[e]
    BY DEF Calls
  <1>2. ~Owes(Nothing) /\ (\A no : ~OwesIn(Nothing, no)) /\ ~ToRecord(Nothing) /\ (ToRecord(cl[c]) <=> ~cl[c].right)
    BY DEF Owes, OwesIn, ToRecord, Nothing
  <1>3. /\ Cardinality(Recorders(cl)) \in Nat /\ Cardinality(Recorders(cl2)) \in Nat
        /\ Cardinality(Owing(cl)) \in Nat /\ Cardinality(Owing(cl2)) \in Nat
        /\ Cardinality(Recorders(cl2)) <= Cardinality(Recorders(cl)) /\ Cardinality(Owing(cl2)) <= Cardinality(Owing(cl))
        /\ ~cl[c].right => Cardinality(Recorders(cl2)) = Cardinality(Recorders(cl)) - 1
    BY <1>1, <1>2, ThreadsCounted
  <1>4. \A no : Cardinality(OwingIn(cl2, no)) <= Cardinality(OwingIn(cl, no))
    BY <1>1, <1>2, OwedInMoved
  <1>. HIDE DEF cl2
  <1>5. /\ Cardinality(Wrong(h)) \in Nat /\ Cardinality(Wrong(h2)) \in Nat
        /\ Cardinality(FromCheck(d.book)) \in Nat /\ Cardinality(FromCheck(b)) \in Nat
    BY WrongFinite, FromCheckFacts DEF Books
  <1>6. Due(h, cl) \in Nat /\ Due(h2, cl2) \in Nat /\ Due(h2, cl2) <= Due(h, cl)
    <2>1. /\ Due(h, cl) = Cardinality(Wrong(h)) + Cardinality(Recorders(cl))
          /\ Due(h2, cl2) = Cardinality(Wrong(h2)) + Cardinality(Recorders(cl2))
      BY DEF Due
    <2>. DEFINE wrong == Cardinality(Wrong(h)) wrong2 == Cardinality(Wrong(h2))
                toCome == Cardinality(Recorders(cl)) toCome2 == Cardinality(Recorders(cl2))
    <2>2. wrong \in Nat /\ wrong2 \in Nat /\ toCome \in Nat /\ toCome2 \in Nat
      BY <1>3, <1>5
    <2>3. (wrong2 <= wrong /\ toCome2 <= toCome) \/ (wrong2 <= wrong + 1 /\ toCome2 = toCome - 1)
      <3>1. CASE cl[c].right
        BY <1>3, <1>5, <3>1
      <3>2. CASE ~cl[c].right
        BY <1>3, <1>5, <3>2
      <3>. QED  BY <3>1, <3>2
    <2>. HIDE DEF wrong, wrong2, toCome, toCome2
    <2>4. wrong + toCome \in Nat /\ wrong2 + toCome2 \in Nat /\ wrong2 + toCome2 <= wrong + toCome
      BY <2>2, <2>3
    <2>. QED  BY <2>1, <2>4 DEF wrong, wrong2, toCome, toCome2
  <1>7. Cardinality(FromCheck(d.book)) >= Due(h2, cl2) /\ Cardinality(FromCheck(b)) >= Due(h2, cl2) + Cardinality(Owing(cl2))
    BY <1>3, <1>5, <1>6 DEF BookHolds
  <1>8. ASSUME NEW e \in Threads, cl2[e].op = "writing", cl2[e].copy.no >= d.no
        PROVE  Cardinality(FromCheck(cl2[e].copy.book)) >= Due(h2, cl2) + Cardinality(OwingIn(cl2, cl2[e].copy.no))
    <2>1. cl2[e] = cl[e] /\ cl[e].copy \in Books
      BY <1>1, <1>8 DEF Calls, Fits, Nothing
    <2>2. Cardinality(FromCheck(cl[e].copy.book)) >= Due(h, cl) + Cardinality(OwingIn(cl, cl[e].copy.no))
      BY <1>8, <2>1 DEF BookHolds
    <2>3. Cardinality(FromCheck(cl[e].copy.book)) \in Nat
      BY <2>1, FromCheckFacts DEF Books
    <2>4. Cardinality(OwingIn(cl, cl[e].copy.no)) \in Nat /\ Cardinality(OwingIn(cl2, cl[e].copy.no)) \in Nat
          /\ Cardinality(OwingIn(cl2, cl[e].copy.no)) <= Cardinality(OwingIn(cl, cl[e].copy.no))
      BY <1>4, OwedInFacts
    <2>. QED  BY <1>6, <2>1, <2>2, <2>3, <2>4
  <1>9. BookHolds(b, d, h2, cl2)
    BY <1>7, <1>8 DEF BookHolds
  <1>. QED  BY <1>9 DEF cl2

------------------------------------------------------------------------------
(* StudyTools: the inductive invariant *)

LEMMA StudyInvStart ==
    Init => StudyInv
  <1>. SUFFICES ASSUME Init
                PROVE  StudyInv
    OBVIOUS
  <1>1. StudyTypes /\ HistoryHolds
    BY StudyTypesStart, HistoryStart
  <1>2. \A c \in Threads : call[c].op = "none"
    BY DEF Init, Nothing
  <1>3. CopiesHold(book, disk, changes, call)
    BY <1>2 DEF Init, CopiesHold
  <1>4. Recorders(call) = {} /\ Owing(call) = {}
    BY <1>2 DEF Recorders, Owing, ToRecord, Owes
  <1>5. Wrong(history) = {} /\ FromCheck(book) = {} /\ FromCheck(disk.book) = {}
    BY DEF Init, Wrong, FromCheck
  <1>6. BookHolds(book, disk, history, call)
    BY <1>2, <1>4, <1>5, FS_EmptySet DEF BookHolds, Due
  <1>. QED  BY <1>1, <1>3, <1>6 DEF StudyInv

LEMMA BookStep ==
    ASSUME StudyInv, NEW c \in Threads, OneOf(c)
    PROVE  CopiesHold(book', disk', changes', call') /\ (~raced' => BookHolds(book', disk', history', call'))
  <1>1. /\ StudyTypes /\ CopiesHold(book, disk, changes, call) /\ (~raced => BookHolds(book, disk, history, call))
        /\ Calls(call) /\ history \in Seq(Records) /\ book \in Seq(Mistakes) /\ disk \in Books /\ changes \in Nat
    BY DEF StudyInv, StudyTypes, Calls
  <1>2. ASSUME NEW r, call' = [call EXCEPT ![c] = r]
        PROVE  DOMAIN call = Threads /\ call'[c] = r /\ \A e \in Threads \ {c} : call'[e] = call[e]
    BY <1>1, <1>2 DEF Calls
  <1>3. ASSUME NEW r, Quiet(c, r)
        PROVE  CopiesHold(book', disk', changes', call') /\ (~raced' => BookHolds(book', disk', history', call'))
    <2>1. call' = [call EXCEPT ![c] = r] /\ r.op # "writing" /\ ~Owes(r) /\ (ToRecord(r) => ToRecord(call[c]))
      BY <1>3 DEF Quiet, GoesOn, Owes
    <2>2. UNCHANGED <<book, disk, changes, history, raced>>
      BY <1>3 DEF Quiet, bookVars, historyVars
    <2>3. CopiesHold(book', disk', changes', call')
      BY <1>1, <1>2, <2>1, <2>2 DEF CopiesHold
    <2>4. ~raced => BookHolds(book, disk, history, [call EXCEPT ![c] = r])
      BY <1>1, <2>1, BookGoesOn
    <2>. QED  BY <2>1, <2>2, <2>3, <2>4
  <1>4. ASSUME NEW b \in Seq(Mistakes), NEW then, Changes(c, b, then), UNCHANGED raced
        PROVE  /\ call' = [call EXCEPT ![c] = [op |-> "changed", then |-> then]] /\ book' = b
               /\ UNCHANGED <<disk, history, raced>>
               /\ CopiesHold(book', disk', changes', call')
    <2>1. call' = [call EXCEPT ![c] = [op |-> "changed", then |-> then]] /\ book' = b
          /\ UNCHANGED <<disk, history, raced>> /\ changes' = changes + 1
      BY <1>4 DEF Changes, GoesOn
    <2>2. disk.no \in Nat /\ \A e \in Threads : call[e].op = "writing" => call[e].copy.no \in Nat
      BY <1>1 DEF Calls, Fits, Books
    <2>3. \A e \in Threads : call'[e].op = "writing" => call[e].op = "writing" /\ call'[e] = call[e]
      BY <1>2, <2>1
    <2>4. \A e \in Threads : call[e].op = "writing" => call[e].copy.no <= changes + 1 /\ call[e].copy.no # changes + 1
      BY <1>1, <2>2 DEF CopiesHold
    <2>5. disk.no <= changes + 1
      BY <1>1, <2>2 DEF CopiesHold
    <2>. QED  BY <2>1, <2>3, <2>4, <2>5 DEF CopiesHold
  <1>5. ASSUME NEW b, NEW then, Marks(c, b, then)
        PROVE  CopiesHold(book', disk', changes', call') /\ (~raced' => BookHolds(book', disk', history', call'))
    <2>. DEFINE r == [op |-> "changed", then |-> then]
    <2>1. b \in Seq(Mistakes) /\ Changes(c, b, then) /\ UNCHANGED raced /\ FromCheck(b) = FromCheck(book)
      BY <1>5 DEF Marks
    <2>2. then.op # "loading"
      BY <1>5 DEF Marks, Nothing, Uploads
    <2>3. /\ call' = [call EXCEPT ![c] = r] /\ book' = b /\ UNCHANGED <<disk, history, raced>>
          /\ CopiesHold(book', disk', changes', call')
      BY <1>4, <2>1
    <2>4. ~raced => BookHolds(b, disk, history, call)
      BY <1>1, <2>1 DEF BookHolds
    <2>5. ~Owes(r) /\ r.op # "writing" /\ ~ToRecord(r)
      BY <2>2 DEF Owes, ToRecord
    <2>. HIDE DEF r
    <2>6. ~raced => BookHolds(b, disk, history, [call EXCEPT ![c] = r])
      BY <1>1, <2>1, <2>4, <2>5, BookGoesOn
    <2>. QED  BY <2>3, <2>6
  <1>6. CASE ChecksIn(c)
    <2>. DEFINE r == [op |-> "changed", then |-> Recording(c)]
                b == Append(book, Mistake("check"))
    <2>1. b \in Seq(Mistakes) /\ Changes(c, b, Recording(c)) /\ UNCHANGED raced
      BY <1>1, <1>6, ArchivesFit DEF ChecksIn, Archives
    <2>. HIDE DEF b
    <2>2. /\ call' = [call EXCEPT ![c] = r] /\ book' = b /\ UNCHANGED <<disk, history, raced>>
          /\ CopiesHold(book', disk', changes', call')
      BY <1>4, <2>1
    <2>3. r.op = "changed"
      OBVIOUS
    <2>. HIDE DEF r
    <2>4. ~raced => BookHolds(Append(book, Mistake("check")), disk, history, [call EXCEPT ![c] = r])
      BY <1>1, <2>3, BookArchived
    <2>. QED  BY <2>2, <2>4 DEF b
  <1>7. CASE Copy(c)
    <2>. DEFINE r == [op |-> "writing", then |-> call[c].then, copy |-> [book |-> book, no |-> changes]]
    <2>1. call[c].op = "changed" /\ call' = [call EXCEPT ![c] = r] /\ UNCHANGED <<book, disk, changes, history, raced>>
      BY <1>7 DEF Copy, GoesOn, Goes, bookVars, historyVars
    <2>2. r.copy.no <= changes /\ r.copy.book = book
      BY <1>1
    <2>3. ~raced => BookHolds(book, disk, history, [call EXCEPT ![c] = r])
      BY <1>1, <2>1, BookCopied
    <2>. HIDE DEF r
    <2>4. CopiesHold(book', disk', changes', call')
      BY <1>1, <1>2, <2>1, <2>2 DEF CopiesHold
    <2>. QED  BY <2>1, <2>3, <2>4
  <1>8. CASE Writes(c)
    <2>1. /\ call[c].op = "writing" /\ disk' = call[c].copy /\ (~raced' => ~raced /\ call[c].copy.no >= disk.no)
          /\ call' = [call EXCEPT ![c] = call[c].then] /\ UNCHANGED <<book, changes, history>>
      BY <1>8 DEF Writes, GoesOn, historyVars
    <2>2. ~raced' => BookHolds(book, call[c].copy, history, [call EXCEPT ![c] = call[c].then])
      BY <1>1, <2>1, BookWritten
    <2>3. call[c].then.op # "writing"
      <3>1. call[c].then \in Thens
        BY <1>1, <2>1 DEF Calls, Fits
      <3>2. \A u \in Uploads : u.op # "writing"
        BY DEF Uploads
      <3>3. \A u \in [op : {"loading"}, item : Its, right : {FALSE}] : u.op # "writing"
        OBVIOUS
      <3>4. Nothing.op # "writing"
        BY DEF Nothing
      <3>. QED  BY <3>1, <3>2, <3>3, <3>4 DEF Thens
    <2>4. CopiesHold(book', disk', changes', call')
      BY <1>1, <1>2, <2>1, <2>3 DEF CopiesHold
    <2>. QED  BY <2>1, <2>2, <2>4
  <1>9. CASE Notes(c)
    <2>. DEFINE h2 == LastKept(Append(history, NewRecord(c)))
    <2>1. /\ call[c].op = "recording" /\ call' = [call EXCEPT ![c] = Nothing]
          /\ UNCHANGED <<book, disk, changes>> /\ (~raced' => ~raced /\ history' = h2)
      BY <1>9 DEF Notes, GoesOn, bookVars
    <2>2. NewRecord(c) \in Records /\ NewRecord(c).right = call[c].right
      BY <1>1, <2>1 DEF NewRecord, Records, Calls, Fits, StudyTypes
    <2>3. h2 \in Seq(Records) /\ Cardinality(Wrong(h2)) <= Cardinality(Wrong(history)) + (IF call[c].right THEN 0 ELSE 1)
      BY <1>1, <2>2, SavedFacts, WrongSaved
    <2>. HIDE DEF h2
    <2>4. ~raced => BookHolds(book, disk, h2, [call EXCEPT ![c] = Nothing])
      BY <1>1, <2>1, <2>3, BookNoted
    <2>5. Nothing.op # "writing"
      BY DEF Nothing
    <2>6. CopiesHold(book', disk', changes', call')
      BY <1>1, <1>2, <2>1, <2>5 DEF CopiesHold
    <2>. QED  BY <2>1, <2>4, <2>6
  <1>. QED  BY <1>3, <1>5, <1>6, <1>7, <1>8, <1>9 DEF OneOf

LEMMA StudyInvStep ==
    StudyInv /\ [Next]_vars => StudyInv'
  <1>. SUFFICES ASSUME StudyInv, [Next]_vars
                PROVE  StudyInv'
    OBVIOUS
  <1>1. StudyTypes' /\ HistoryHolds' /\ StudyTypes
    BY StudyTypesStep, HistoryStep DEF StudyInv
  <1>. SUFFICES CopiesHold(book', disk', changes', call') /\ (~raced' => BookHolds(book', disk', history', call'))
    BY <1>1 DEF StudyInv
  <1>2. CASE Restart
    <2>1. book' = disk.book /\ UNCHANGED <<disk, changes, history, raced>> /\ \A e \in Threads : call'[e].op = "none"
      BY <1>2 DEF Restart, historyVars, Nothing
    <2>2. Recorders(call') = {} /\ Owing(call') = {}
      BY <2>1 DEF Recorders, Owing, ToRecord, Owes
    <2>3. CopiesHold(book', disk', changes', call')
      BY <2>1 DEF StudyInv, CopiesHold
    <2>4. /\ Cardinality(Wrong(history)) \in Nat /\ Cardinality(FromCheck(disk.book)) \in Nat
          /\ Cardinality(Recorders(call)) \in Nat
      <3>1. Recorders(call) \in SUBSET Threads
        BY DEF Recorders
      <3>2. IsFiniteSet(Recorders(call))
        BY <3>1, ThreadsAssumption, FS_Subset
      <3>. QED  BY <1>1, <3>2, WrongFinite, FromCheckFacts, FS_CardinalityType DEF StudyTypes, Books
    <2>5. ~raced => Cardinality(FromCheck(disk.book)) >= Cardinality(Wrong(history))
      BY <2>4 DEF StudyInv, BookHolds, Due
    <2>6. ~raced' => BookHolds(book', disk', history', call')
      BY <2>1, <2>2, <2>4, <2>5, FS_EmptySet DEF BookHolds, Due
    <2>. QED  BY <2>3, <2>6
  <1>3. CASE Tick \/ UNCHANGED vars
    <2>1. UNCHANGED <<book, disk, changes, history, call, raced>>
      BY <1>3 DEF Tick, vars, bookVars, historyVars
    <2>. QED  BY <2>1 DEF StudyInv
  <1>4. ASSUME NEW c \in Threads, Starting(c) \/ Advance(c)
        PROVE  CopiesHold(book', disk', changes', call') /\ (~raced' => BookHolds(book', disk', history', call'))
    BY <1>1, <1>4, StartingIsOneOf, AdvanceIsOneOf, BookStep
  <1>. QED  BY <1>2, <1>3, <1>4 DEF Next

LEMMA StudyInvAlways ==
    Spec => []StudyInv
  <1>. QED  BY StudyInvStart, StudyInvStep, PTL DEF Spec

\* The history is what is left of the answers, in their order (record_attempt).
THEOREM HistoryIsKept ==
    Spec => []KeptWhenAlone
  <1>1. StudyInv => KeptWhenAlone
    <2>. SUFFICES ASSUME StudyInv
                  PROVE  KeptWhenAlone
      OBVIOUS
    <2>1. StudyTypes /\ HistoryHolds /\ disk.no <= changes
      BY DEF StudyInv, CopiesHold
    <2>2. \A n \in 1..Len(history) : history[n] \in Records
      BY <2>1 DEF StudyTypes
    <2>5. \A n \in DOMAIN history : history[n].item \in Items \cup {Freeform}
      <3>1. DOMAIN history = 1..Len(history)
        BY <2>1 DEF StudyTypes
      <3>2. \A r \in Records : r.item \in Items \cup {Freeform}
        BY DEF Records, Its
      <3>. QED  BY <2>2, <3>1, <3>2
    <2>3. TypeOK
      BY <2>1, <2>5 DEF StudyTypes, TypeOK
    <2>. DEFINE kept == IF made < MaxRecords THEN made ELSE MaxRecords
    <2>4. ASSUME ~raced
          PROVE  [n \in DOMAIN history |-> history[n].no] = [n \in 1..kept |-> made - kept + n]
      <3>1. Len(history) = kept /\ DOMAIN history = 1..kept
        BY <2>1, <2>4 DEF HistoryHolds, KeptUpTo, StudyTypes
      <3>2. \A n \in 1..kept : history[n].no = made - kept + n
        BY <2>1, <2>4, <3>1 DEF HistoryHolds, KeptUpTo
      <3>. QED  BY <3>1, <3>2
    <2>. QED  BY <2>3, <2>4 DEF KeptWhenAlone
  <1>. QED  BY <1>1, StudyInvAlways, PTL

\* A wrong answer of the history has its mistake in the book's file (check).
THEOREM WrongAnswersAreArchived ==
    Spec => []WrongIsArchived
  <1>1. StudyInv => WrongIsArchived
    <2>. SUFFICES ASSUME StudyInv, ~raced
                  PROVE  Cardinality({n \in DOMAIN history : ~history[n].right})
                         <= Cardinality({k \in DOMAIN disk.book : disk.book[k].by = "check"})
      BY DEF WrongIsArchived
    <2>1. history \in Seq(Records) /\ disk.book \in Seq(Mistakes) /\ Cardinality(FromCheck(disk.book)) >= Due(history, call)
      BY DEF StudyInv, StudyTypes, Books, BookHolds
    <2>2. {n \in DOMAIN history : ~history[n].right} = Wrong(history)
          /\ {k \in DOMAIN disk.book : disk.book[k].by = "check"} = FromCheck(disk.book)
      BY <2>1 DEF Wrong, FromCheck
    <2>3. Cardinality(Recorders(call)) \in Nat
      <3>1. Recorders(call) \in SUBSET Threads
        BY DEF Recorders
      <3>2. IsFiniteSet(Recorders(call))
        BY <3>1, ThreadsAssumption, FS_Subset
      <3>. QED  BY <3>2, FS_CardinalityType
    <2>4. Cardinality(Wrong(history)) \in Nat /\ Cardinality(FromCheck(disk.book)) \in Nat
      BY <2>1, WrongFinite, FromCheckFacts
    <2>5. Cardinality(Wrong(history)) <= Cardinality(FromCheck(disk.book))
      BY <2>1, <2>3, <2>4 DEF Due
    <2>. QED  BY <2>2, <2>5
  <1>. QED  BY <1>1, StudyInvAlways, PTL

\* What is given was not solved by the records up to those that were seen
\* (recent_mastered, draw).
THEOREM SolvedIsNotGiven ==
    Spec => GivenIsNew
  <1>1. ASSUME StudyInv, [Next]_vars, NEW c \in Threads,
               ~raced, call'[c].op = "given", call'[c] # call[c], call'[c].item # Freeform,
               NEW n \in DOMAIN history, Masters(history[n]), history[n].item = call'[c].item
        PROVE  history[n].no > call'[c].seen.upTo
    <2>1. /\ StudyTypes /\ n \in 1..Len(history) /\ history[n] \in Records /\ KeptUpTo(history, made)
          /\ \A e \in Threads : call[e].op = "drawing" => Masks(call[e].seen, history, day)
          /\ history[n].item \in Mastered(history)
      BY <1>1 DEF StudyInv, StudyTypes, HistoryHolds, Mastered
    <2>2. history[n].no > 0
      BY <2>1 DEF Records
    <2>3. PICK e \in Threads : Starting(e) \/ Advance(e)
      <3>1. ~(UNCHANGED vars) /\ ~Tick
        BY <1>1 DEF vars, Tick
      <3>2. ~Restart
        BY <1>1 DEF Restart, Nothing
      <3>. QED  BY <1>1, <3>1, <3>2 DEF Next
    <2>4. ASSUME NEW r, GoesOn(e, r)
          PROVE  e = c /\ call'[c] = r
      BY <1>1, <2>1, <2>4 DEF GoesOn, StudyTypes
    <2>5. ASSUME NEW r, GoesOn(e, r), r.op # "given"
          PROVE  FALSE
      BY <1>1, <2>4, <2>5
    <2>6. Written.op = "given" /\ Written.item = Freeform /\ Nothing.op = "none"
      BY DEF Written, Given, Nothing
    <2>7. ~GoesOn(e, Written) /\ ~GoesOn(e, Nothing)
      BY <1>1, <2>4, <2>5, <2>6
    <2>8. ASSUME NEW p \in Points, Generate(e, p)
          PROVE  history[n].no > call'[c].seen.upTo
      <3>1. PICK records \in {history, << >>} :
               GoesOn(e, IF Template[p] \notin Mastered(records) \cup {NoItem} THEN Given(Template[p], Seen(records))
                          ELSE [op |-> "drafting", tries |-> 0])
        BY <2>8 DEF Generate
      <3>2. ~GoesOn(e, [op |-> "drafting", tries |-> 0])
        BY <2>5
      <3>3. Template[p] \notin Mastered(records) /\ GoesOn(e, Given(Template[p], Seen(records)))
        BY <3>1, <3>2
      <3>4. call'[c].item = Template[p] /\ call'[c].seen = Seen(records)
        BY <2>4, <3>3 DEF Given
      <3>5. records = << >>
        BY <1>1, <2>1, <3>3, <3>4
      <3>. QED  BY <2>2, <3>4, <3>5 DEF Seen
    <2>9. CASE Draw(e)
      <3>1. call[e].op = "drawing" /\ \E i : i \notin call[e].seen.items /\ GoesOn(e, Given(i, call[e].seen))
        BY <2>7, <2>9 DEF Draw
      <3>2. e = c /\ call'[c].item \notin call[c].seen.items /\ call'[c].seen = call[c].seen
        BY <2>4, <3>1 DEF Given
      <3>3. Masks(call[c].seen, history, day)
        BY <2>1, <3>1, <3>2
      <3>4. ~(history[n].no <= call[c].seen.upTo)
        BY <1>1, <2>1, <3>2, <3>3 DEF Masks, Masters
      <3>5. history[n].no \in Nat /\ call[c].seen.upTo \in Nat
        BY <2>1, <3>1, <3>2 DEF Records, StudyTypes, Fits
      <3>. QED  BY <3>2, <3>4, <3>5
    <2>10. ~(\E k \in DOMAIN book, right \in BOOLEAN : Update(e, k, right)) /\ ~(\E ks \in SUBSET DOMAIN book : RemoveMany(e, ks))
      BY <2>5 DEF Update, RemoveMany, Changes
    <2>11. ~(\E wrong \in 0..MaxUpload : Upload(e, wrong)) /\ ~(\E i \in Items \cup {Freeform} : Check(e, i))
      BY <2>5 DEF Upload, Uploading, Check, Nothing
    <2>12. ~(\E p \in Points : Exam(e, p))
      BY <2>5 DEF Exam
    <2>13. ~Copy(e) /\ ~ArchiveNext(e) /\ ~Archive(e)
      BY <2>5 DEF Copy, ArchiveNext, Archive, Archives, Changes
    <2>14. ~Write(e)
      <3>1. call[e].op = "writing" => call[e].then.op # "given"
        <4>1. call[e].op = "writing" => call[e].then \in Thens
          BY <2>1 DEF StudyTypes, Fits
        <4>2. \A u \in Uploads : u.op # "given"
          BY DEF Uploads
        <4>3. \A u \in [op : {"loading"}, item : Its, right : {FALSE}] : u.op # "given"
          OBVIOUS
        <4>. QED  BY <2>6, <4>1, <4>2, <4>3 DEF Thens
      <3>. QED  BY <2>5, <2>7, <3>1 DEF Write
    <2>15. ~LoadHistory(e) /\ ~Record(e) /\ ~GiveUp(e)
      BY <2>5, <2>7 DEF LoadHistory, Record, GiveUp
    <2>16. ~(\E right \in BOOLEAN : Judge(e, right))
      BY <2>5 DEF Judge
    <2>17. call[e].op \in {"drafting", "verifying"} => call[e] \in [op : {"drafting", "verifying"}, tries : Nat]
      BY <2>1 DEF StudyTypes, Fits
    <2>18. ~(\E figure \in BOOLEAN : Draft(e, figure))
      <3>1. call[e].op = "drafting" => [call[e] EXCEPT !.op = "verifying", !.tries = @ + 1].op = "verifying"
        BY <2>17
      <3>. QED  BY <2>5, <2>7, <3>1 DEF Draft
    <2>19. ~(\E verdict \in {"ok", "away", "fail", "error"} : Verify(e, verdict))
      <3>1. call[e].op = "verifying" => [call[e] EXCEPT !.op = "drafting"].op = "drafting"
        BY <2>17
      <3>. QED  BY <2>5, <2>7, <3>1 DEF Verify
    <2>. QED  BY <2>3, <2>8, <2>9, <2>10, <2>11, <2>12, <2>13, <2>14, <2>15, <2>16, <2>18, <2>19 DEF Starting, Advance
  <1>2. StudyInv /\ [Next]_vars =>
          (\A c \in Threads :
             ~raced /\ call'[c].op = "given" /\ call'[c] # call[c] /\ call'[c].item # Freeform =>
                \A n \in DOMAIN history :
                   Masters(history[n]) /\ history[n].item = call'[c].item => history[n].no > call'[c].seen.upTo)
    BY <1>1
  <1>. QED  BY <1>2, StudyInvAlways, PTL DEF Spec, GivenIsNew

------------------------------------------------------------------------------
(* WeakPoints: the book *)

BookEntry == [point : KnowledgePoints, right : BOOLEAN, day : Nat]
PointHolds == mistakes \in Seq(BookEntry) /\ today \in 1..LastDay

LEMMA PointBegins == PointInit => PointHolds
  BY PointsAssumption DEF PointInit, PointHolds

LEMMA PointHoldsOn == PointHolds /\ [PointNext]_pointVars => PointHolds'
  <1>. SUFFICES ASSUME PointHolds, [PointNext]_pointVars PROVE PointHolds'
    OBVIOUS
  <1>0. today \in Nat /\ LastDay \in Nat /\ Len(mistakes) \in Nat
    BY PointsAssumption DEF PointHolds
  <1>1. ASSUME NEW p \in KnowledgePoints, NEW right \in BOOLEAN, Archived(p, right) PROVE PointHolds'
    <2>1. [point |-> p, right |-> right, day |-> today] \in BookEntry
      BY <1>0 DEF BookEntry
    <2>. QED  BY <1>1, <2>1 DEF Archived, PointHolds
  <1>2. ASSUME NEW k \in DOMAIN mistakes, Removed(k) PROVE PointHolds'
    <2>. DEFINE n == Len(mistakes) - 1
    <2>1. n \in Nat /\ DOMAIN mistakes = 1..Len(mistakes) /\ k \in 1..Len(mistakes)
      BY <1>0, <1>2 DEF PointHolds
    <2>2. \A i \in 1..n : mistakes[IF i < k THEN i ELSE i + 1] \in BookEntry
      <3>1. \A i \in 1..n : (IF i < k THEN i ELSE i + 1) \in 1..Len(mistakes)
        BY <1>0, <2>1
      <3>. QED  BY <3>1 DEF PointHolds
    <2>3. mistakes' = [i \in 1..n |-> mistakes[IF i < k THEN i ELSE i + 1]]
      BY <1>2 DEF Removed
    <2>4. n \in Nat /\ UNCHANGED today
      BY <1>2, <2>1 DEF Removed
    <2>. HIDE DEF n
    <2>5. mistakes' \in [1..n -> BookEntry]
      BY <2>2, <2>3
    <2>6. mistakes' \in Seq(BookEntry)
      BY <2>4, <2>5
    <2>. QED  BY <2>4, <2>6 DEF PointHolds
  <1>3. ASSUME NEW k \in DOMAIN mistakes, NEW right \in BOOLEAN, Corrected(k, right) PROVE PointHolds'
    <2>1. mistakes[k] \in BookEntry
      BY <1>3 DEF PointHolds
    <2>2. [mistakes[k] EXCEPT !.right = right] \in BookEntry
      BY <2>1 DEF BookEntry
    <2>3. mistakes' = [mistakes EXCEPT ![k] = [mistakes[k] EXCEPT !.right = right]]
      BY <1>3 DEF Corrected
    <2>. QED  BY <1>3, <2>2, <2>3 DEF Corrected, PointHolds
  <1>4. CASE Passes
    BY <1>0, <1>4 DEF Passes, PointHolds
  <1>5. CASE UNCHANGED pointVars
    BY <1>5 DEF pointVars, PointHolds
  <1>. QED  BY <1>1, <1>2, <1>3, <1>4, <1>5 DEF PointNext

------------------------------------------------------------------------------
(* The tally *)

Below == {pair \in Nat \X Nat : pair[1] < pair[2]}
LEMMA BelowIsFounded == IsWellFoundedOn(Below, Nat)
  BY NatLessThanWellFounded, Zenon DEF OpToRel, Below
LEMMA LeastOf ==
    ASSUME NEW T \in SUBSET Nat, T # {}
    PROVE  \E n \in T : \A m \in T : n <= m
  <1>1. PICK n \in T : \A m \in T : ~ (<<m, n>> \in Below)
    BY BelowIsFounded, WFMin, Zenon
  <1>2. \A m \in T : ~ (m < n)
    BY <1>1 DEF Below
  <1>. QED  BY <1>2
\* What holds at 0, and at each number up to N behind one at which it holds,
\* holds up to N.
LEMMA UpTo ==
    ASSUME NEW N \in Nat, NEW G, 0 \in G, \A n \in 1..N : n - 1 \in G => n \in G
    PROVE  0..N \subseteq G
  <1>. DEFINE bad == {n \in 0..N : n \notin G}
  <1>. SUFFICES ASSUME bad # {} PROVE FALSE
    OBVIOUS
  <1>1. PICK n \in bad : \A m \in bad : n <= m
    <2>1. bad \in SUBSET Nat /\ bad # {}
      OBVIOUS
    <2>. HIDE DEF bad
    <2>. QED  BY <2>1, LeastOf
  <1>2. n \in 1..N /\ n - 1 \in 0..N /\ ~ (n <= n - 1)
    BY <1>1
  <1>. QED  BY <1>1, <1>2

TallySteps(days, f) == f[0] = NoneYet /\ \A n \in 1..Len(mistakes) : f[n] = Tallied(f[n - 1], mistakes[n], days)
LEMMA TallyReads ==
    ASSUME NEW days, Len(mistakes) \in Nat
    PROVE  \E f : TallySteps(days, f) /\ Tally(days) = f[Len(mistakes)]
  <1>. DEFINE Def(m, f) == [n \in 0..m |-> IF n = 0 THEN NoneYet ELSE Tallied(f[n - 1], mistakes[n], days)]
              G == {m \in 0..Len(mistakes) : \E f : f = Def(m, f)}
  <1>1. 0 \in G
    <2>. DEFINE first == [n \in 0..0 |-> NoneYet]
    <2>1. first = Def(0, first)
      <3>1. \A n \in 0..0 : n = 0
        OBVIOUS
      <3>. QED  BY <3>1
    <2>. HIDE DEF first, Def
    <2>. QED  BY <2>1
  <1>2. ASSUME NEW m \in 1..Len(mistakes), m - 1 \in G PROVE m \in G
    <2>1. PICK f : f = Def(m - 1, f)
      BY <1>2
    <2>. DEFINE longer == [n \in 0..m |-> IF n = m THEN Tallied(f[m - 1], mistakes[m], days) ELSE f[n]]
    <2>2. /\ m \in 0..m /\ 0 \in 0..(m - 1) /\ 0 \in 0..m /\ 0 # m
          /\ \A n \in 0..m : n = m \/ n \in 0..(m - 1)
          /\ \A n \in 0..(m - 1) : n \in 0..m /\ n # m
          /\ \A n \in 1..m : n - 1 \in 0..(m - 1) /\ n \in 0..m /\ n # 0
          /\ \A n \in 0..m : n = 0 \/ n \in 1..m
      OBVIOUS
    <2>3. longer[m] = Tallied(f[m - 1], mistakes[m], days) /\ \A n \in 0..(m - 1) : longer[n] = f[n]
      BY <2>2, Zenon
    <2>4. \A n \in 0..(m - 1) : f[n] = IF n = 0 THEN NoneYet ELSE Tallied(f[n - 1], mistakes[n], days)
      BY <2>1, Zenon
    <2>5. longer = [n \in 0..m |-> longer[n]]
      OBVIOUS
    <2>. HIDE DEF longer
    <2>6. ASSUME NEW n \in 0..m
          PROVE  longer[n] = IF n = 0 THEN NoneYet ELSE Tallied(longer[n - 1], mistakes[n], days)
      <3>1. CASE n = m
        BY <2>2, <2>3, <3>1, Zenon
      <3>2. CASE n \in 0..(m - 1)
        <4>1. CASE n = 0
          BY <2>2, <2>3, <2>4, <4>1, Zenon
        <4>2. CASE n # 0
          BY <2>2, <2>3, <2>4, <3>2, <4>2, Zenon
        <4>. QED  BY <4>1, <4>2
      <3>. QED  BY <2>2, <3>1, <3>2
    <2>7. longer = Def(m, longer)
      BY <2>5, <2>6, Zenon
    <2>. HIDE DEF Def
    <2>. QED  BY <2>7
  <1>3. PICK g : g = Def(Len(mistakes), g)
    <2>1. 0..Len(mistakes) \subseteq G
      <3>. HIDE DEF G
      <3>. QED  BY <1>1, <1>2, UpTo
    <2>2. Len(mistakes) \in G
      <3>. HIDE DEF G
      <3>. QED  BY <2>1
    <2>. HIDE DEF Def
    <2>. QED  BY <2>2
  <1>. DEFINE t == CHOOSE f : f = Def(Len(mistakes), f)
  <1>4. t = Def(Len(mistakes), t)
    <2>. HIDE DEF Def
    <2>. QED  BY <1>3, Zenon
  <1>5. Tally(days) = t[Len(mistakes)]
    BY Zenon DEF Tally
  <1>. HIDE DEF t
  <1>6. TallySteps(days, t)
    <2>1. \A n \in 0..Len(mistakes) : t[n] = IF n = 0 THEN NoneYet ELSE Tallied(t[n - 1], mistakes[n], days)
      BY <1>4, Zenon
    <2>2. 0 \in 0..Len(mistakes) /\ \A n \in 1..Len(mistakes) : n \in 0..Len(mistakes) /\ n # 0
      OBVIOUS
    <2>. QED  BY <2>1, <2>2, Zenon DEF TallySteps
  <1>. QED  BY <1>5, <1>6

\* Where the mistakes of a point that count are among the first n.
Places(p, days, n) == {k \in 1..n : mistakes[k].point = p /\ Counted(mistakes[k], days)}
Totals == [KnowledgePoints -> [wrong : Nat, latest : Nat]]
TallyAt(t, days, n) ==
    /\ t \in Totals
    /\ \A p \in KnowledgePoints : t[p].wrong = Cardinality(Places(p, days, n))

LEMMA PlacesMore ==
    ASSUME NEW p, NEW days, NEW n \in Nat
    PROVE  /\ IsFiniteSet(Places(p, days, n)) /\ Cardinality(Places(p, days, n)) \in Nat
           /\ Cardinality(Places(p, days, n + 1)) =
                 IF mistakes[n + 1].point = p /\ Counted(mistakes[n + 1], days)
                 THEN Cardinality(Places(p, days, n)) + 1 ELSE Cardinality(Places(p, days, n))
  <1>1. IsFiniteSet(1..n) /\ Places(p, days, n) \subseteq 1..n
    BY FS_Interval DEF Places
  <1>2. IsFiniteSet(Places(p, days, n)) /\ Cardinality(Places(p, days, n)) \in Nat
    BY <1>1, FS_Subset, FS_CardinalityType
  <1>3. 1..(n + 1) = 1..n \cup {n + 1} /\ n + 1 \notin 1..n
    OBVIOUS
  <1>4. CASE mistakes[n + 1].point = p /\ Counted(mistakes[n + 1], days)
    <2>1. Places(p, days, n + 1) = Places(p, days, n) \cup {n + 1} /\ n + 1 \notin Places(p, days, n)
      BY <1>3, <1>4, Zenon DEF Places
    <2>. QED  BY <1>2, <1>4, <2>1, FS_AddElement
  <1>5. CASE ~(mistakes[n + 1].point = p /\ Counted(mistakes[n + 1], days))
    <2>1. Places(p, days, n + 1) = Places(p, days, n)
      BY <1>3, <1>5, Zenon DEF Places
    <2>. QED  BY <1>2, <1>5, <2>1
  <1>. QED  BY <1>2, <1>4, <1>5

LEMMA TallyIs ==
    ASSUME PointHolds, NEW days
    PROVE  TallyAt(Tally(days), days, Len(mistakes))
  <1>1. Len(mistakes) \in Nat /\ \A n \in 1..Len(mistakes) : mistakes[n] \in BookEntry
    BY DEF PointHolds
  <1>2. PICK f : TallySteps(days, f) /\ Tally(days) = f[Len(mistakes)]
    BY <1>1, TallyReads
  <1>. DEFINE G == {n \in 0..Len(mistakes) : TallyAt(f[n], days, n)}
  <1>3. 0 \in G
    <2>1. \A p : Places(p, days, 0) = {}
      BY DEF Places
    <2>2. \A p : Cardinality(Places(p, days, 0)) = 0
      BY <2>1, FS_EmptySet
    <2>. QED  BY <1>1, <1>2, <2>2 DEF TallySteps, TallyAt, Totals, NoneYet
  <1>4. ASSUME NEW n \in 1..Len(mistakes), n - 1 \in G PROVE n \in G
    <2>. DEFINE t == f[n - 1] m == mistakes[n] was == t[m.point]
                new == [wrong |-> was.wrong + 1, latest |-> IF m.day > was.latest THEN m.day ELSE was.latest]
    <2>1. TallyAt(t, days, n - 1) /\ n - 1 \in Nat /\ (n - 1) + 1 = n /\ n \in 0..Len(mistakes)
      BY <1>4
    <2>2. m \in BookEntry /\ m.point \in KnowledgePoints /\ m.day \in Nat
      BY <1>1 DEF BookEntry
    <2>3. f[n] = IF Counted(m, days) THEN [t EXCEPT ![m.point] = new] ELSE t
      BY <1>2, Zenon DEF TallySteps, Tallied
    <2>4. \A p \in KnowledgePoints :
             Cardinality(Places(p, days, n)) = IF m.point = p /\ Counted(m, days)
                                               THEN Cardinality(Places(p, days, n - 1)) + 1
                                               ELSE Cardinality(Places(p, days, n - 1))
      BY <2>1, PlacesMore
    <2>5. t \in Totals /\ \A p \in KnowledgePoints : t[p].wrong = Cardinality(Places(p, days, n - 1))
      BY <2>1 DEF TallyAt
    <2>6. was.wrong \in Nat /\ was.latest \in Nat
      BY <2>2, <2>5 DEF Totals
    <2>7. new \in [wrong : Nat, latest : Nat] /\ new.wrong = was.wrong + 1
      BY <2>2, <2>6
    <2>. HIDE DEF new, t, m
    <2>8. CASE Counted(m, days)
      <3>1. f[n] = [t EXCEPT ![m.point] = new]
        BY <2>3, <2>8
      <3>2. f[n] \in Totals /\ f[n][m.point] = new /\ \A p \in KnowledgePoints \ {m.point} : f[n][p] = t[p]
        BY <2>2, <2>5, <2>7, <3>1 DEF Totals
      <3>3. \A p \in KnowledgePoints : f[n][p].wrong = Cardinality(Places(p, days, n))
        BY <2>2, <2>4, <2>5, <2>7, <2>8, <3>2
      <3>. QED  BY <2>1, <3>2, <3>3 DEF TallyAt
    <2>9. CASE ~Counted(m, days)
      BY <2>1, <2>3, <2>4, <2>5, <2>9 DEF TallyAt
    <2>. QED  BY <2>8, <2>9
  <1>5. Len(mistakes) \in G
    <2>. HIDE DEF G
    <2>1. 0..Len(mistakes) \subseteq G
      BY <1>1, <1>3, <1>4, UpTo
    <2>. QED  BY <1>1, <2>1
  <1>. QED  BY <1>2, <1>5

LEMMA WrongReads ==
    ASSUME PointHolds, NEW p \in KnowledgePoints, NEW days \in Nat
    PROVE  OpenOf(p, days) = Cardinality(Places(p, days, Len(mistakes)))
  <1>1. DOMAIN mistakes = 1..Len(mistakes) /\ today \in Nat
        /\ \A n \in 1..Len(mistakes) : mistakes[n] \in BookEntry
    BY PointsAssumption DEF PointHolds
  <1>2. \A k \in 1..Len(mistakes) : today - mistakes[k].day <= days <=> Recent(mistakes[k], days)
    <2>1. \A k \in 1..Len(mistakes) : mistakes[k].day \in Nat
      BY <1>1 DEF BookEntry
    <2>. QED  BY <1>1, <2>1 DEF Recent
  <1>3. {k \in DOMAIN mistakes : mistakes[k].point = p /\ ~mistakes[k].right /\ today - mistakes[k].day <= days}
          = Places(p, days, Len(mistakes))
    BY <1>1, <1>2, Zenon DEF Places, Counted
  <1>. QED  BY <1>3, Zenon DEF OpenOf

\* All time is today's days as it is LastDay.
LEMMA AllTime ==
    ASSUME PointHolds, NEW p
    PROVE  Places(p, today, Len(mistakes)) = Places(p, LastDay, Len(mistakes))
  <1>1. \A n \in 1..Len(mistakes) : mistakes[n] \in BookEntry
    BY DEF PointHolds
  <1>2. today \in Nat /\ LastDay \in Nat /\ today <= LastDay
    BY PointsAssumption DEF PointHolds
  <1>3. \A k \in 1..Len(mistakes) : Recent(mistakes[k], today) /\ Recent(mistakes[k], LastDay)
    <2>1. \A k \in 1..Len(mistakes) : mistakes[k].day \in Nat
      BY <1>1 DEF BookEntry
    <2>. QED  BY <1>2, <2>1 DEF Recent
  <1>. QED  BY <1>3, Zenon DEF Places, Counted

------------------------------------------------------------------------------
(* The rankings of a tally *)

Weak(t) == {p \in KnowledgePoints : t[p].wrong > 0}
Size(t) == Cardinality(Weak(t))
LEMMA WeakIsFinite ==
    ASSUME NEW t
    PROVE  IsFiniteSet(Weak(t)) /\ Size(t) \in Nat
  BY PointsAssumption, FS_Subset, FS_CardinalityType DEF Weak, Size

LEMMA TotalsHold ==
    ASSUME NEW t \in Totals, NEW p \in KnowledgePoints
    PROVE  t[p].wrong \in Nat /\ t[p].latest \in Nat /\ Alphabetic[p] \in Nat
  BY PointsAssumption DEF Totals

\* A ranking names every weak point, once, and the weaker before.
Ranks(list, t, then) ==
    /\ list \in [1..Size(t) -> Weak(t)]
    /\ \A i, j \in 1..Size(t) : i < j => list[i] # list[j] /\ ~Before(t, then, list[j], list[i])
LEMMA RankingsRank ==
    ASSUME NEW t, NEW then, NEW list
    PROVE  list \in Rankings(t, then) <=> Ranks(list, t, then)
  <1>1. Rankings(t, then) = {l \in [1..Size(t) -> Weak(t)] :
            \A i, j \in DOMAIN l : i < j => l[i] # l[j] /\ ~Before(t, then, l[j], l[i])}
    BY Zenon DEF Rankings, Size, Weak
  <1>. QED  BY <1>1 DEF Ranks

AllOnce(list, t) ==
    /\ \A i, j \in 1..Size(t) : i # j => list[i] # list[j]
    /\ \A p \in Weak(t) : \E i \in 1..Size(t) : list[i] = p
LEMMA RanksAll ==
    ASSUME NEW t, NEW then, NEW list, Ranks(list, t, then)
    PROVE  AllOnce(list, t)
  <1>1. Size(t) \in Nat /\ IsFiniteSet(Weak(t))
    BY WeakIsFinite
  <1>2. \A i, j \in 1..Size(t) : i # j => list[i] # list[j]
    <2>. SUFFICES ASSUME NEW i \in 1..Size(t), NEW j \in 1..Size(t), i # j PROVE list[i] # list[j]
      OBVIOUS
    <2>1. i < j \/ j < i
      BY <1>1
    <2>. QED  BY <2>1 DEF Ranks
  <1>3. list \in Injection(1..Size(t), Weak(t))
    BY <1>2 DEF Ranks, Injection, IsInjective
  <1>4. Cardinality(1..Size(t)) = Cardinality(Weak(t))
    BY <1>1, FS_Interval DEF Size
  <1>5. list \in Surjection(1..Size(t), Weak(t))
    BY <1>1, <1>3, <1>4, FS_Injection, Zenon
  <1>. QED  BY <1>2, <1>5 DEF Surjection, AllOnce

LEMMA RanksFall ==
    ASSUME NEW t \in Totals, NEW then, NEW list, Ranks(list, t, then),
           NEW i \in 1..Size(t), NEW j \in 1..Size(t), i <= j
    PROVE  t[list[i]].wrong >= t[list[j]].wrong
  <1>1. list[i] \in KnowledgePoints /\ list[j] \in KnowledgePoints
    BY DEF Ranks, Weak
  <1>2. t[list[i]].wrong \in Nat /\ t[list[j]].wrong \in Nat
    BY <1>1, TotalsHold
  <1>3. CASE i = j
    BY <1>2, <1>3
  <1>4. CASE i < j
    <2>1. ~Before(t, then, list[j], list[i])
      BY <1>4 DEF Ranks
    <2>2. ~(t[list[j]].wrong > t[list[i]].wrong)
      BY <2>1, Zenon DEF Before
    <2>. QED  BY <1>2, <2>2
  <1>5. i \in Nat /\ j \in Nat
    BY WeakIsFinite
  <1>. QED  BY <1>3, <1>4, <1>5

\* The points at the first n places of a list: n of them.
Foremost(list, n) == {list[i] : i \in 1..n}
LEMMA HeadsCount ==
    ASSUME NEW t, NEW then, NEW list, Ranks(list, t, then), NEW n \in 0..Size(t)
    PROVE  IsFiniteSet(Foremost(list, n)) /\ Cardinality(Foremost(list, n)) = n
  <1>1. Size(t) \in Nat /\ n \in Nat
    BY WeakIsFinite
  <1>2. 1..n \subseteq 1..Size(t)
    BY <1>1
  <1>3. IsFiniteSet(1..n) /\ Cardinality(1..n) = n
    BY <1>1, FS_Interval
  <1>. DEFINE f == [i \in 1..n |-> list[i]]
  <1>4. f \in Surjection(1..n, Foremost(list, n))
    BY DEF Surjection, Foremost
  <1>5. f \in Injection(1..n, Foremost(list, n))
    <2>0. \A i \in 1..n : f[i] = list[i] /\ i \in 1..Size(t)
      BY <1>2
    <2>1. \A i, j \in 1..n : f[i] = f[j] => i = j
      <3>1. AllOnce(list, t)
        BY RanksAll
      <3>. HIDE DEF f
      <3>. QED  BY <2>0, <3>1 DEF AllOnce
    <2>2. f \in [1..n -> Foremost(list, n)]
      BY DEF Foremost
    <2>. QED  BY <2>1, <2>2, Zenon DEF Injection, IsInjective
  <1>. HIDE DEF f
  <1>. QED  BY <1>3, <1>4, <1>5, FS_Surjection

TallyOf(t, days) == t \in Totals /\ \A p \in KnowledgePoints : t[p].wrong = OpenOf(p, days)
LEMMA TallyCounts ==
    ASSUME PointHolds, NEW days \in Nat
    PROVE  TallyOf(Tally(days), days)
  <1>1. TallyAt(Tally(days), days, Len(mistakes))
    BY TallyIs
  <1>. QED  BY <1>1, WrongReads DEF TallyAt, TallyOf

LEMMA TodayCounts ==
    ASSUME PointHolds
    PROVE  TallyOf(Tally(today), LastDay)
  <1>0. today \in Nat /\ LastDay \in Nat
    BY PointsAssumption DEF PointHolds
  <1>1. TallyAt(Tally(today), today, Len(mistakes))
    BY TallyIs
  <1>2. \A p \in KnowledgePoints : Cardinality(Places(p, today, Len(mistakes))) = OpenOf(p, LastDay)
    BY <1>0, WrongReads, AllTime
  <1>. QED  BY <1>1, <1>2 DEF TallyAt, TallyOf

------------------------------------------------------------------------------
(* The lists that are shown *)

Cut(t, limit) == IF Size(t) < limit THEN Size(t) ELSE limit
Shows(s, list, n) == Len(s) = n /\ DOMAIN s = 1..n /\ \A i \in 1..n : s[i] = list[i]
LEMMA FirstShows ==
    ASSUME NEW t, NEW then, NEW list, Ranks(list, t, then), NEW limit \in Nat
    PROVE  Shows(First(list, limit), list, Cut(t, limit))
  <1>1. Size(t) \in Nat
    BY WeakIsFinite
  <1>2. Len(list) = Size(t)
    BY <1>1 DEF Ranks
  <1>3. Cut(t, limit) \in Nat /\ Cut(t, limit) <= Size(t) /\ Cut(t, limit) - 1 + 1 = Cut(t, limit)
    BY <1>1 DEF Cut
  <1>4. First(list, limit) = SubSeq(list, 1, Cut(t, limit))
    BY <1>2, Zenon DEF First, Cut
  <1>. DEFINE n == Cut(t, limit) s == SubSeq(list, 1, n)
  <1>5. n \in Nat /\ 1 \in Int /\ n \in Int /\ n <= Size(t)
    BY <1>3
  <1>6. \A i \in 1..n : list[i] \in Weak(t)
    <2>. HIDE DEF n
    <2>. QED  BY <1>1, <1>5 DEF Ranks
  <1>. HIDE DEF n
  <1>7. /\ s \in Seq(Weak(t)) /\ Len(s) = IF 1 <= n THEN n - 1 + 1 ELSE 0
        /\ \A i \in 1..(n - 1 + 1) : s[i] = list[1 + i - 1]
    BY <1>5, <1>6, SubSeqProperties
  <1>. HIDE DEF s
  <1>8. Len(s) = n /\ \A i \in 1..n : s[i] = list[i]
    BY <1>5, <1>7
  <1>9. DOMAIN s = 1..n
    BY <1>7, <1>8
  <1>. QED  BY <1>4, <1>8, <1>9 DEF Shows, n, s

LEMMA ListLeads ==
    ASSUME NEW t, NEW days, TallyOf(t, days), NEW then, NEW list, Ranks(list, t, then), NEW limit \in Nat \ {0}
    PROVE  Leads(First(list, limit), limit, days)
  <1>. DEFINE n == Cut(t, limit) s == First(list, limit)
  <1>1. Size(t) \in Nat /\ n \in Nat /\ n <= Size(t) /\ n <= limit /\ limit \in 1..limit
        /\ (n < Size(t) => n = limit)
    BY WeakIsFinite DEF Cut
  <1>2. Len(s) = n /\ DOMAIN s = 1..n /\ \A i \in 1..n : s[i] = list[i]
    BY FirstShows DEF Shows
  <1>3. \A i \in 1..Size(t) : list[i] \in KnowledgePoints /\ t[list[i]].wrong > 0
    BY DEF Ranks, Weak
  <1>4. t \in Totals /\ \A p \in KnowledgePoints : t[p].wrong = OpenOf(p, days) /\ t[p].wrong \in Nat
    BY TotalsHold DEF TallyOf
  <1>. HIDE DEF n, s
  <1>5. \A i \in 1..n : i \in 1..Size(t)
    BY <1>1
  <1>6. \A i \in DOMAIN s : OpenOf(s[i], days) > 0
    BY <1>2, <1>3, <1>4, <1>5
  <1>7. ASSUME NEW i \in DOMAIN s, NEW j \in DOMAIN s, i < j
        PROVE  s[i] # s[j] /\ OpenOf(s[i], days) >= OpenOf(s[j], days)
    <2>1. i \in 1..Size(t) /\ j \in 1..Size(t) /\ s[i] = list[i] /\ s[j] = list[j] /\ i <= j
      BY <1>1, <1>2, <1>5, <1>7
    <2>2. list[i] # list[j]
      BY <1>7, <2>1 DEF Ranks
    <2>3. t[list[i]].wrong >= t[list[j]].wrong
      BY <1>4, <2>1, RanksFall
    <2>. QED  BY <1>3, <1>4, <2>1, <2>2, <2>3
  <1>8. ASSUME NEW p \in KnowledgePoints \ {s[i] : i \in DOMAIN s}
        PROVE  OpenOf(p, days) = 0 \/ (Len(s) = limit /\ OpenOf(p, days) <= OpenOf(s[limit], days))
    <2>1. CASE t[p].wrong = 0
      BY <1>4, <2>1
    <2>2. CASE t[p].wrong # 0
      <3>1. p \in Weak(t)
        BY <1>4, <2>2 DEF Weak
      <3>2. PICK j \in 1..Size(t) : list[j] = p
        BY <3>1, RanksAll DEF AllOnce
      <3>3. j \notin 1..n
        BY <1>2, <3>2
      <3>4. n = limit /\ limit \in 1..n /\ limit \in 1..Size(t) /\ limit <= j
        BY <1>1, <3>3
      <3>5. t[list[limit]].wrong >= t[list[j]].wrong
        BY <1>4, <3>4, RanksFall
      <3>6. s[limit] = list[limit] /\ list[limit] \in KnowledgePoints
        BY <1>2, <1>3, <3>4
      <3>. QED  BY <1>2, <1>4, <3>2, <3>4, <3>5, <3>6
    <2>. QED  BY <2>1, <2>2
  <1>9. Leads(s, limit, days)
    BY <1>6, <1>7, <1>8 DEF Leads
  <1>. QED  BY <1>9 DEF s

------------------------------------------------------------------------------
(* The paper *)

Paper(list, limit) == {list[n] : n \in {n \in DOMAIN list : n <= limit /\ list[n] \in Templated}}
LEMMA PaperExamines ==
    ASSUME NEW t, TallyOf(t, LastDay), NEW then, NEW list, Ranks(list, t, then), NEW limit \in Nat \ {0}
    PROVE  Examines(Paper(list, limit), limit)
  <1>1. Size(t) \in Nat /\ DOMAIN list = 1..Size(t) /\ IsFiniteSet(KnowledgePoints) /\ Templated \subseteq KnowledgePoints
    BY WeakIsFinite, PointsAssumption DEF Ranks
  <1>2. \A i \in 1..Size(t) : list[i] \in KnowledgePoints /\ t[list[i]].wrong > 0
    BY DEF Ranks, Weak
  <1>3. t \in Totals /\ \A p \in KnowledgePoints : t[p].wrong = OpenOf(p, LastDay) /\ t[p].wrong \in Nat
    BY TotalsHold DEF TallyOf
  <1>4. ASSUME NEW p \in Paper(list, limit)
        PROVE  Cardinality(Weaker(p, LastDay)) < limit /\ OpenOf(p, LastDay) > 0 /\ p \in Templated
    <2>1. PICK i \in 1..Size(t) : p = list[i] /\ i <= limit /\ p \in Templated
      BY <1>1 DEF Paper
    <2>2. i - 1 \in 0..Size(t) /\ i \in Nat /\ i - 1 < limit /\ i - 1 \in Nat
      BY <1>1, <2>1
    <2>3. Weaker(p, LastDay) \subseteq Foremost(list, i - 1)
      <3>. SUFFICES ASSUME NEW q \in Weaker(p, LastDay) PROVE q \in Foremost(list, i - 1)
        OBVIOUS
      <3>1. q \in KnowledgePoints /\ t[q].wrong > t[p].wrong /\ p \in KnowledgePoints
        BY <1>2, <1>3, <2>1 DEF Weaker
      <3>2. q \in Weak(t)
        BY <1>3, <3>1 DEF Weak
      <3>3. PICK j \in 1..Size(t) : list[j] = q
        BY <3>2, RanksAll DEF AllOnce
      <3>4. ~ (i <= j)
        <4>. SUFFICES ASSUME i <= j PROVE FALSE
          OBVIOUS
        <4>1. t[list[i]].wrong >= t[list[j]].wrong
          BY <1>3, RanksFall
        <4>. QED  BY <1>3, <2>1, <3>1, <3>3, <4>1
      <3>5. j \in 1..(i - 1)
        BY <1>1, <2>2, <3>4
      <3>. QED  BY <3>3, <3>5 DEF Foremost
    <2>4. IsFiniteSet(Foremost(list, i - 1)) /\ Cardinality(Foremost(list, i - 1)) = i - 1
      BY <2>2, HeadsCount
    <2>5. Cardinality(Weaker(p, LastDay)) \in Nat /\ Cardinality(Weaker(p, LastDay)) <= i - 1
      BY <2>3, <2>4, FS_Subset, FS_CardinalityType
    <2>. QED  BY <1>2, <1>3, <2>1, <2>2, <2>5
  <1>5. ASSUME NEW p \in Templated \ Paper(list, limit), OpenOf(p, LastDay) > 0
        PROVE  Cardinality(AtLeast(p, LastDay)) > limit
    <2>1. p \in KnowledgePoints /\ p \in Weak(t)
      BY <1>1, <1>3, <1>5 DEF Weak
    <2>2. PICK i \in 1..Size(t) : list[i] = p
      BY <2>1, RanksAll DEF AllOnce
    <2>3. i > limit /\ i \in 0..Size(t) /\ i \in Nat
      BY <1>1, <1>5, <2>2 DEF Paper
    <2>4. Foremost(list, i) \subseteq AtLeast(p, LastDay)
      <3>. SUFFICES ASSUME NEW j \in 1..i PROVE list[j] \in AtLeast(p, LastDay)
        BY DEF Foremost
      <3>1. j \in 1..Size(t) /\ j <= i
        BY <1>1, <2>3
      <3>2. t[list[j]].wrong >= t[list[i]].wrong
        BY <1>3, <3>1, RanksFall
      <3>. QED  BY <1>2, <1>3, <2>1, <2>2, <3>1, <3>2 DEF AtLeast
    <2>5. Cardinality(Foremost(list, i)) = i
      BY <2>3, HeadsCount
    <2>6. IsFiniteSet(AtLeast(p, LastDay)) /\ Cardinality(AtLeast(p, LastDay)) \in Nat
      BY <1>1, FS_Subset, FS_CardinalityType DEF AtLeast
    <2>7. i <= Cardinality(AtLeast(p, LastDay))
      BY <2>4, <2>5, <2>6, FS_Subset
    <2>. QED  BY <2>3, <2>6, <2>7
  <1>. QED  BY <1>4, <1>5 DEF Examines

\* With the names the order leaves no two points equal.
InOrder(t, p, q) == Before(t, "name", p, q)
LEMMA NamesOrder ==
    ASSUME NEW t \in Totals, NEW p \in KnowledgePoints, NEW q \in KnowledgePoints
    PROVE  ~InOrder(t, p, p) /\ (p # q => InOrder(t, p, q) \/ InOrder(t, q, p))
           /\ ~(InOrder(t, p, q) /\ InOrder(t, q, p))
  <1>1. InOrder(t, p, q) <=> \/ t[p].wrong > t[q].wrong
                             \/ t[p].wrong = t[q].wrong /\ Alphabetic[p] < Alphabetic[q]
    BY DEF InOrder, Before
  <1>2. InOrder(t, q, p) <=> \/ t[q].wrong > t[p].wrong
                             \/ t[q].wrong = t[p].wrong /\ Alphabetic[q] < Alphabetic[p]
    BY DEF InOrder, Before
  <1>3. InOrder(t, p, p) <=> \/ t[p].wrong > t[p].wrong
                             \/ t[p].wrong = t[p].wrong /\ Alphabetic[p] < Alphabetic[p]
    BY DEF InOrder, Before
  <1>4. p # q => Alphabetic[p] # Alphabetic[q]
    BY PointsAssumption
  <1>5. /\ t[p].wrong \in Nat /\ Alphabetic[p] \in Nat /\ t[q].wrong \in Nat /\ Alphabetic[q] \in Nat
    BY TotalsHold
  <1>. QED  BY <1>1, <1>2, <1>3, <1>4, <1>5

LEMMA NamesPassOn ==
    ASSUME NEW t \in Totals, NEW p \in KnowledgePoints, NEW q \in KnowledgePoints, NEW r \in KnowledgePoints,
           InOrder(t, p, q), InOrder(t, q, r)
    PROVE  InOrder(t, p, r)
  <1>1. \/ t[p].wrong > t[q].wrong
        \/ t[p].wrong = t[q].wrong /\ Alphabetic[p] < Alphabetic[q]
    BY DEF InOrder, Before
  <1>2. \/ t[q].wrong > t[r].wrong
        \/ t[q].wrong = t[r].wrong /\ Alphabetic[q] < Alphabetic[r]
    BY DEF InOrder, Before
  <1>3. InOrder(t, p, r) <=> \/ t[p].wrong > t[r].wrong
                             \/ t[p].wrong = t[r].wrong /\ Alphabetic[p] < Alphabetic[r]
    BY DEF InOrder, Before
  <1>4. t[p].wrong \in Nat /\ Alphabetic[p] \in Nat /\ t[q].wrong \in Nat /\ Alphabetic[q] \in Nat
        /\ t[r].wrong \in Nat /\ Alphabetic[r] \in Nat
    BY TotalsHold
  <1>. QED  BY <1>1, <1>2, <1>3, <1>4

\* How many weak points come before one is its place, from 0.
Ahead(t, p) == {q \in Weak(t) : InOrder(t, q, p)}
Place(t, p) == Cardinality(Ahead(t, p))
LEMMA PlaceIs ==
    ASSUME NEW t \in Totals, NEW p \in Weak(t)
    PROVE  Place(t, p) \in Nat /\ IsFiniteSet(Ahead(t, p)) /\ Place(t, p) + 1 \in 1..Size(t)
  <1>1. IsFiniteSet(Weak(t)) /\ Size(t) \in Nat /\ p \in KnowledgePoints
    BY WeakIsFinite DEF Weak
  <1>2. Ahead(t, p) \subseteq Weak(t) /\ p \notin Ahead(t, p)
    BY <1>1, NamesOrder DEF Ahead
  <1>3. IsFiniteSet(Ahead(t, p)) /\ Place(t, p) \in Nat /\ Place(t, p) <= Size(t) /\ Place(t, p) # Size(t)
    BY <1>1, <1>2, FS_Subset, FS_CardinalityType DEF Place, Size
  <1>. QED  BY <1>1, <1>3

LEMMA PlacesOrder ==
    ASSUME NEW t \in Totals, NEW p \in Weak(t), NEW q \in Weak(t), InOrder(t, p, q)
    PROVE  Place(t, p) < Place(t, q)
  <1>1. p \in KnowledgePoints /\ q \in KnowledgePoints /\ Weak(t) \subseteq KnowledgePoints
    BY DEF Weak
  <1>2. Ahead(t, p) \subseteq Ahead(t, q)
    <2>. SUFFICES ASSUME NEW r \in Weak(t), InOrder(t, r, p) PROVE InOrder(t, r, q)
      BY DEF Ahead
    <2>. QED  BY <1>1, NamesPassOn
  <1>3. p \in Ahead(t, q) /\ p \notin Ahead(t, p)
    BY <1>1, NamesOrder DEF Ahead
  <1>4. IsFiniteSet(Ahead(t, q)) /\ Place(t, q) \in Nat /\ Place(t, p) \in Nat
    BY PlaceIs
  <1>5. Place(t, p) <= Place(t, q) /\ Place(t, p) # Place(t, q)
    BY <1>2, <1>3, <1>4, FS_Subset DEF Place
  <1>. QED  BY <1>4, <1>5

LEMMA RankedByPlace ==
    ASSUME NEW t \in Totals
    PROVE  \E list : Ranks(list, t, "name")
  <1>0. IsFiniteSet(Weak(t)) /\ Size(t) \in Nat /\ Weak(t) \subseteq KnowledgePoints
    BY WeakIsFinite DEF Weak
  <1>. DEFINE f == [p \in Weak(t) |-> Place(t, p) + 1]
  <1>1. \A p, q \in Weak(t) : p # q => f[p] # f[q]
    <2>. SUFFICES ASSUME NEW p \in Weak(t), NEW q \in Weak(t), p # q PROVE f[p] # f[q]
      OBVIOUS
    <2>1. InOrder(t, p, q) \/ InOrder(t, q, p)
      BY <1>0, NamesOrder
    <2>2. Place(t, p) < Place(t, q) \/ Place(t, q) < Place(t, p)
      BY <2>1, PlacesOrder
    <2>3. Place(t, p) \in Nat /\ Place(t, q) \in Nat
      BY PlaceIs
    <2>. QED  BY <2>2, <2>3
  <1>2. \A p \in Weak(t) : f[p] \in 1..Size(t) /\ f[p] = Place(t, p) + 1
    BY PlaceIs
  <1>3. f \in [Weak(t) -> 1..Size(t)] /\ DOMAIN f = Weak(t)
    BY <1>2
  <1>. HIDE DEF f
  <1>4. f \in Injection(Weak(t), 1..Size(t))
    BY <1>1, <1>3 DEF Injection, IsInjective
  <1>5. IsFiniteSet(1..Size(t)) /\ Cardinality(1..Size(t)) = Cardinality(Weak(t))
    BY <1>0, FS_Interval DEF Size
  <1>6. f \in Surjection(Weak(t), 1..Size(t))
    BY <1>4, <1>5, FS_Injection, Zenon
  <1>7. \A i \in 1..Size(t) : \E p \in Weak(t) : f[p] = i
    BY <1>6 DEF Surjection
  <1>. DEFINE list == [i \in 1..Size(t) |-> CHOOSE p \in Weak(t) : f[p] = i]
  <1>8. \A i \in 1..Size(t) : list[i] \in Weak(t) /\ f[list[i]] = i
    BY <1>7
  <1>9. list \in [1..Size(t) -> Weak(t)]
    BY <1>8
  <1>. HIDE DEF list
  <1>10. ASSUME NEW i \in 1..Size(t), NEW j \in 1..Size(t), i < j
         PROVE  list[i] # list[j] /\ ~InOrder(t, list[j], list[i])
    <2>1. list[i] \in Weak(t) /\ list[j] \in Weak(t) /\ i # j /\ ~ (j < i)
      BY <1>0, <1>8, <1>10
    <2>2. list[i] # list[j]
      BY <1>8, <2>1
    <2>3. Place(t, list[i]) + 1 = i /\ Place(t, list[j]) + 1 = j
          /\ Place(t, list[i]) \in Nat /\ Place(t, list[j]) \in Nat
      BY <1>2, <1>8, <2>1, PlaceIs
    <2>4. ~ (Place(t, list[j]) < Place(t, list[i]))
      BY <1>10, <2>3
    <2>. QED  BY <2>1, <2>2, <2>4, PlacesOrder
  <1>11. Ranks(list, t, "name")
    BY <1>9, <1>10, Zenon DEF Ranks, InOrder
  <1>. QED  BY <1>11

LEMMA NamedPlace ==
    ASSUME NEW t \in Totals, NEW list, Ranks(list, t, "name"), NEW i \in 1..Size(t)
    PROVE  Place(t, list[i]) = i - 1
  <1>0. Size(t) \in Nat /\ list[i] \in Weak(t) /\ Weak(t) \subseteq KnowledgePoints
    BY WeakIsFinite DEF Ranks, Weak
  <1>1. \A j \in 1..Size(t) : InOrder(t, list[j], list[i]) <=> j < i
    <2>. SUFFICES ASSUME NEW j \in 1..Size(t) PROVE InOrder(t, list[j], list[i]) <=> j < i
      OBVIOUS
    <2>1. list[j] \in KnowledgePoints /\ list[i] \in KnowledgePoints
      BY <1>0 DEF Ranks
    <2>2. CASE j < i
      <3>1. list[j] # list[i] /\ ~InOrder(t, list[i], list[j])
        BY <2>2 DEF Ranks, InOrder
      <3>. QED  BY <2>1, <2>2, <3>1, NamesOrder
    <2>3. CASE j = i
      BY <1>0, <2>1, <2>3, NamesOrder
    <2>4. CASE i < j
      <3>1. ~InOrder(t, list[j], list[i])
        BY <2>4 DEF Ranks, InOrder
      <3>. QED  BY <1>0, <2>4, <3>1
    <2>. QED  BY <1>0, <2>2, <2>3, <2>4
  <1>2. i - 1 \in 0..Size(t) /\ \A j : j \in 1..(i - 1) <=> j \in 1..Size(t) /\ j < i
    BY <1>0
  <1>3. Ahead(t, list[i]) = Foremost(list, i - 1)
    <2>1. ASSUME NEW q \in Ahead(t, list[i]) PROVE q \in Foremost(list, i - 1)
      <3>1. PICK j \in 1..Size(t) : list[j] = q
        BY RanksAll DEF Ahead, AllOnce
      <3>2. j \in 1..(i - 1)
        BY <1>1, <1>2, <3>1 DEF Ahead
      <3>. QED  BY <3>1, <3>2 DEF Foremost
    <2>2. ASSUME NEW j \in 1..(i - 1) PROVE list[j] \in Ahead(t, list[i])
      BY <1>1, <1>2 DEF Ahead, Ranks
    <2>. QED  BY <2>1, <2>2 DEF Foremost
  <1>. QED  BY <1>2, <1>3, HeadsCount DEF Place

LEMMA OneRanking ==
    ASSUME NEW t \in Totals
    PROVE  \E list : Ranks(list, t, "name") /\ Rankings(t, "name") = {list}
  <1>1. PICK list : Ranks(list, t, "name")
    BY RankedByPlace
  <1>2. ASSUME NEW other, Ranks(other, t, "name") PROVE other = list
    <2>1. ASSUME NEW i \in 1..Size(t) PROVE other[i] = list[i]
      <3>1. list[i] \in Weak(t)
        BY <1>1 DEF Ranks
      <3>2. PICK j \in 1..Size(t) : other[j] = list[i]
        BY <1>2, <3>1, RanksAll DEF AllOnce
      <3>3. j - 1 = i - 1
        BY <1>1, <1>2, <3>2, NamedPlace
      <3>4. Size(t) \in Nat
        BY WeakIsFinite
      <3>. QED  BY <3>2, <3>3, <3>4
    <2>2. other \in [1..Size(t) -> Weak(t)] /\ list \in [1..Size(t) -> Weak(t)]
      BY <1>1, <1>2 DEF Ranks
    <2>3. other = [i \in 1..Size(t) |-> other[i]] /\ list = [i \in 1..Size(t) |-> list[i]]
      BY <2>2
    <2>4. [i \in 1..Size(t) |-> other[i]] = [i \in 1..Size(t) |-> list[i]]
      BY <2>1, Zenon
    <2>. QED  BY <2>3, <2>4, Zenon
  <1>3. Rankings(t, "name") = {list}
    BY <1>1, <1>2, RankingsRank
  <1>. QED  BY <1>1, <1>3

------------------------------------------------------------------------------
(* WeakestFirst *)

LEMMA ClampedHolds ==
    ASSUME NEW low \in Nat, NEW high \in Nat, NEW n \in low..high
    PROVE  Clamped(n, low, high) = n
  BY DEF Clamped

LEMMA WeakestHolds ==
    ASSUME PointHolds
    PROVE  WeakestFirst
  <1>0. /\ GapDays \in 1..LastDay /\ WeekDays \in 1..LastDay /\ LastDay \in Nat /\ 1 \in Nat /\ 3 \in Nat \ {0}
        /\ MaxShown \in Nat \ {0} /\ MaxShown \in Nat /\ MaxShown \in 1..MaxShown
        /\ GapDays \in Nat /\ WeekDays \in Nat
    BY PointsAssumption
  <1>1. Clamped(GapDays, 1, LastDay) = GapDays /\ Clamped(WeekDays, 1, LastDay) = WeekDays
        /\ Clamped(MaxShown, 1, MaxShown) = MaxShown
    BY <1>0, ClampedHolds
  <1>2. ASSUME NEW s \in Gaps(GapDays, MaxShown) PROVE Leads(s, MaxShown, GapDays)
    <2>1. PICK list \in Rankings(Tally(GapDays), "day") : s = First(list, MaxShown)
      BY <1>1, <1>2, Zenon DEF Gaps
    <2>2. Ranks(list, Tally(GapDays), "day") /\ TallyOf(Tally(GapDays), GapDays)
      BY <1>0, RankingsRank, TallyCounts
    <2>. QED  BY <1>0, <2>1, <2>2, ListLeads
  <1>3. ASSUME NEW s \in Weekly(WeekDays) PROVE Leads(s, 3, WeekDays)
    <2>1. PICK list \in Rankings(Tally(WeekDays), "any") : s = First(list, 3)
      BY <1>1, <1>3, Zenon DEF Weekly
    <2>2. Ranks(list, Tally(WeekDays), "any") /\ TallyOf(Tally(WeekDays), WeekDays)
      BY <1>0, RankingsRank, TallyCounts
    <2>. QED  BY <1>0, <2>1, <2>2, ListLeads
  <1>4. TallyOf(Tally(today), LastDay)
    BY TodayCounts
  <1>5. PICK list : Ranks(list, Tally(today), "name") /\ Rankings(Tally(today), "name") = {list}
    BY <1>4, OneRanking DEF TallyOf
  <1>6. Compose(MaxShown) = {Paper(list, MaxShown)}
    <2>1. Compose(MaxShown) = {Paper(l, MaxShown) : l \in Rankings(Tally(today), "name")}
      BY <1>1 DEF Compose, Paper
    <2>. QED  BY <1>5, <2>1
  <1>7. Examines(Paper(list, MaxShown), MaxShown)
    BY <1>0, <1>4, <1>5, PaperExamines
  <1>8. Cardinality(Compose(MaxShown)) = 1
    BY <1>6, FS_Singleton
  <1>. QED  BY <1>2, <1>3, <1>6, <1>7, <1>8 DEF WeakestFirst

\* For any points, periods and book, and in whichever order a hash map gives
\* its points up: the lists of gaps_handler and weekly_handler name the points
\* with the most open mistakes, most first, and compose_handler makes one
\* paper, of the weakest that have a template (WeakPoints!WeakestFirst).
THEOREM ListsAreWeakestFirst == PointSpec => []WeakestFirst
  <1>1. PointInit => PointHolds
    BY PointBegins
  <1>2. PointHolds /\ [PointNext]_pointVars => PointHolds'
    BY PointHoldsOn
  <1>3. PointHolds => WeakestFirst
    BY WeakestHolds
  <1>. QED  BY <1>1, <1>2, <1>3, PTL DEF PointSpec
==============================================================================
