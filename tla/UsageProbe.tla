------------------------------ MODULE UsageProbe -----------------------------
(***************************************************************************)
(* A streamed answer on its way through the relay: the upstream's events,  *)
(* the bytes they are cut into, the probe that reads them in passing       *)
(* (server/src/relay/sse.rs) and the settlement that is made of what it    *)
(* read (handlers.rs settlement_for, billing/ladder.rs).                   *)
(*                                                                         *)
(* An event is the record of what a reader looks up in it.  On the wire it *)
(* is lines, and a line is two pieces, so that a chunk can end within one. *)
(***************************************************************************)
EXTENDS Naturals, Sequences, FiniteSets

CONSTANTS
    MaxItems,      \* items of an answer
    MaxCalls,      \* tool calls among them
    MaxEvents,     \* events of an answer on the other two faces
    MaxChunk,      \* pieces that arrive together
    Ladder         \* the thresholds of the ladder, ascending

ASSUME ProbeBounds == MaxItems \in Nat /\ MaxCalls \in Nat /\ MaxEvents \in Nat /\ MaxChunk \in Nat

VARIABLES
    protocol,      \* the face of the upstream: responses, chat, anthropic
    items,         \* the items of the answer so far
    sent,          \* its events so far
    wire,          \* pieces on their way to the relay
    link,          \* the upstream's connection: up or over
    probe,         \* the relay's UsageProbe
    seen,          \* events whose last piece the relay has read
    down,          \* pieces on their way to the client
    letGo,         \* the client has let go of the answer
    settled        \* what the relay made of it

upVars == <<protocol, items, sent, link>>
relayVars == <<probe, seen, settled>>
probeVars == <<upVars, wire, relayVars, down, letGo>>

------------------------------------------------------------------------------
(* Events and the wire *)

NoUsage == [input |-> 0, cached |-> 0, created |-> 0, output |-> 0]
Early == [input |-> 1, cached |-> 1, created |-> 1, output |-> 0]
Late == [input |-> 1, cached |-> 1, created |-> 1, output |-> 3]

\* at: where the event's JSON has a usage.
Event(name, item, at, usage) == [name |-> name, item |-> item, at |-> at, usage |-> usage]
Plain(name) == Event(name, 0, "none", NoUsage)
Note == Plain("keep-alive")

Field(f, e) == [field |-> f, of |-> e]
Blank == Field("blank", Plain("none"))
Garbage == Field("other", Plain("none"))

Piece(line, part) == [line |-> line, part |-> part]
Pieces(line) == IF line = Blank THEN <<Piece(line, "end")>> ELSE <<Piece(line, "head"), Piece(line, "end")>>
\* An event is one line or two, and a blank one.
Wired(e) ==
    LET first == IF e = Note THEN Field("comment", e)
                 ELSE IF protocol = "chat" THEN Field("data", e) ELSE Field("event", e)
        second == IF e = Note \/ protocol = "chat" THEN <<>> ELSE Pieces(Field("data", e))
    IN  Pieces(first) \o second \o Pieces(Blank)
EventsIn(pieces) == Cardinality({n \in DOMAIN pieces : pieces[n].line = Blank})
\* A line is what its pieces say together; the end of one alone says nothing.
Whole(pieces) ==
    IF pieces = Pieces(pieces[Len(pieces)].line) THEN pieces[Len(pieces)].line ELSE Garbage

------------------------------------------------------------------------------
(* The upstream *)

\* What ends an answer well and what ends it badly; "completed" also stands for
\* response.incomplete, "cancelled" for response.canceled.
Good == {"completed", "response.done", "[DONE]", "message_stop"}
Bad == {"failed", "cancelled", "error"}
Over == \E i \in DOMAIN sent : sent[i].name \in Good \cup Bad
Open == {i \in DOMAIN items : items[i].phase # "done"}
Calls == {i \in DOMAIN items : items[i].kind = "call"}

Says(e) ==
    /\ link = "up" /\ Len(wire) <= 1
    /\ sent' = Append(sent, e)
    /\ wire' = wire \o Wired(e)
    /\ UNCHANGED <<protocol, link, relayVars, down, letGo>>
Alters(i, phase) == items' = [items EXCEPT ![i].phase = phase]

\* The model thinks first, says one thing, and writes only calls side by side.
Adds(kind) ==
    /\ protocol = "responses" /\ ~Over /\ Len(items) < MaxItems
    /\ IF kind = "call" THEN Open \subseteq Calls /\ Len(SelectSeq(items, LAMBDA i : i.kind = "call")) < MaxCalls
       ELSE Open = {} /\ (IF kind = "reasoning" THEN items = <<>> ELSE \A i \in DOMAIN items : items[i].kind # kind)
    /\ items' = Append(items, [kind |-> kind, phase |-> "added"])
    /\ Says(Event("added", Len(items) + 1, "none", NoUsage))
Gives(i) ==
    /\ ~Over /\ items[i].phase = "added"
    /\ Alters(i, "given") /\ Says(Event("delta", i, "none", NoUsage))
Ends(i) ==
    /\ ~Over /\ items[i].phase # "done"
    /\ Alters(i, "done") /\ Says(Event("done", i, "none", NoUsage))

Verdicts ==
    CASE protocol = "responses" -> {Event("completed", 0, "nested", Late), Event("completed", 0, "top", Late),
                                    Event("response.done", 0, "nested", Late), Plain("failed"), Plain("cancelled")}
      [] protocol = "chat" -> {Plain("[DONE]"), Plain("error")}
      [] protocol = "anthropic" -> {Plain("message_stop"), Plain("error")}
Others ==
    CASE protocol = "responses" -> {}
      [] protocol = "chat" -> {Plain("delta"), Event("delta", 0, "top", Late)}
      [] protocol = "anthropic" -> {Event("message_start", 0, "nested", Early), Plain("content_block_delta"),
                                    Event("message_delta", 0, "top", Late), Plain("ping")}
Concludes(e) == ~Over /\ e \in Verdicts /\ Says(e) /\ UNCHANGED items
Tells(e) == ~Over /\ Len(sent) < MaxEvents /\ e \in Others /\ Says(e) /\ UNCHANGED items
\* While the model has not begun to answer.
KeepsAlive == protocol # "responses" /\ sent = <<>> /\ Says(Note) /\ UNCHANGED items

\* The connection ends, or breaks and takes along what is still on its way.
Hangs ==
    /\ link = "up" /\ link' = "over"
    /\ wire' = <<>>
    /\ UNCHANGED <<protocol, items, sent, relayVars, down, letGo>>

------------------------------------------------------------------------------
(* The probe *)

\* Anthropic counts apart from the input what it read from or wrote to the cache.
Tokens(p, u) ==
    [input |-> IF p = "anthropic" THEN u.input + u.cached + u.created ELSE u.input, output |-> u.output]
Takes(r, u) == [r EXCEPT !.usage = <<Tokens(protocol, u)>>]
Ruled(r, verdict) == [r EXCEPT !.terminal = verdict]

\* Only the place the official service has the usage in.
ObserveNested(r, d) ==
    LET known == IF d.at = "nested" THEN Takes(r, d.usage) ELSE r IN
    CASE d.name \in {"completed", "response.done"} -> Ruled(known, "completed")
      [] d.name \in {"failed", "cancelled"} -> Ruled(known, "failed")
      [] OTHER -> known
ObserveResponses(r, d) ==
    LET known == IF d.at # "none" THEN Takes(r, d.usage) ELSE r IN
    CASE d.name \in {"completed", "response.done"} -> Ruled(known, "completed")
      [] d.name \in {"failed", "cancelled"} -> Ruled(known, "failed")
      [] OTHER -> known
ObserveChat(r, d) ==
    LET known == IF d.at = "top" THEN Takes(r, d.usage) ELSE r IN
    CASE d.name = "[DONE]" -> Ruled(r, "completed")
      [] d.name = "error" -> Ruled(known, "failed")
      [] OTHER -> known
ObserveAnthropic(r, event, d) ==
    CASE event = "message_start" /\ d.at = "nested" -> Takes(r, d.usage)
      [] event = "message_delta" /\ d.at = "top" -> Takes(r, d.usage)
      [] event = "message_stop" -> Ruled(r, "completed")
      [] event = "error" -> Ruled(r, "failed")
      [] OTHER -> r

\* Two data lines make a text that is no JSON, and so does none.
Observe(r, event, data) ==
    IF Len(data) # 1 THEN r
    ELSE CASE protocol = "responses" -> ObserveResponses(r, data[1])
           [] protocol = "chat" -> ObserveChat(r, data[1])
           [] protocol = "anthropic" -> ObserveAnthropic(r, event, data[1])

\* The event field is empty.
NoEvent == "no event line"
NewProbe == [buffer |-> <<>>, event |-> NoEvent, data |-> <<>>,
             result |-> [usage |-> <<>>, saw |-> FALSE, terminal |-> "pending"]]

Dispatch(q) ==
    IF q.event = NoEvent /\ q.data = <<>> THEN q
    ELSE [q EXCEPT !.event = NoEvent, !.data = <<>>, !.result = Observe([q.result EXCEPT !.saw = TRUE], q.event, q.data)]
Line(q, line) ==
    CASE line.field = "blank" -> Dispatch(q)
      [] line.field = "event" -> [q EXCEPT !.event = line.of.name]
      [] line.field = "data" -> [q EXCEPT !.data = Append(q.data, line.of)]
      [] OTHER -> q
Read(q, piece) ==
    LET b == Append(q.buffer, piece) IN
    IF piece.part = "end" THEN [Line(q, Whole(b)) EXCEPT !.buffer = <<>>] ELSE [q EXCEPT !.buffer = b]

\* Each chunk for itself.
PushAlone(q, chunk) ==
    LET read[n \in 0..Len(chunk)] ==
            IF n = 0 THEN [q EXCEPT !.buffer = <<>>] ELSE Read(read[n - 1], chunk[n])
    IN  read[Len(chunk)]
Push(q, chunk) ==
    LET read[n \in 0..Len(chunk)] == IF n = 0 THEN q ELSE Read(read[n - 1], chunk[n])
    IN  read[Len(chunk)]

------------------------------------------------------------------------------
(* The relay *)

Unsettled == [status |-> "open", uses |-> 0]
\* One use, and one more for every threshold that is passed.
BilledUses(total) == 1 + Len(SelectSeq(Ladder, LAMBDA t : total > t))
Billable(u) == u.input + u.output

Settlement(r) ==
    CASE r.terminal = "failed" -> [status |-> "upstream_error", uses |-> 0]
      [] r.terminal # "failed" /\ r.usage # <<>> -> [status |-> "ok", uses |-> BilledUses(Billable(r.usage[1]))]
      [] OTHER -> [status |-> "aborted", uses |-> IF r.saw THEN 1 ELSE 0]

\* A chunk is probed and then sent on; when nobody takes it, that is the end.
SendsOn ==
    /\ settled = Unsettled /\ wire # <<>>
    /\ \E n \in 1..MaxChunk :
         /\ n <= Len(wire) /\ down = <<>>
         /\ LET chunk == SubSeq(wire, 1, n) IN
            /\ wire' = SubSeq(wire, n + 1, Len(wire))
            /\ probe' = Push(probe, chunk)
            /\ seen' = seen + EventsIn(chunk)
            /\ IF letGo THEN settled' = Settlement(probe'.result) /\ UNCHANGED down
               ELSE down' = down \o chunk /\ UNCHANGED settled
    /\ UNCHANGED <<upVars, letGo>>

\* An error of the upstream's stream ends the loop as its end does.
Settle ==
    /\ settled = Unsettled /\ wire = <<>> /\ link = "over"
    /\ settled' = Settlement(probe.result)
    /\ UNCHANGED <<upVars, wire, probe, seen, down, letGo>>

ProbeInit ==
    /\ protocol \in {"responses", "chat", "anthropic"}
    /\ items = <<>> /\ sent = <<>> /\ wire = <<>> /\ link = "up"
    /\ probe = NewProbe /\ seen = 0 /\ down = <<>> /\ letGo = FALSE /\ settled = Unsettled

UpstreamNext ==
    \/ \E kind \in {"reasoning", "message", "call"} : Adds(kind)
    \/ \E i \in DOMAIN items : Gives(i) \/ Ends(i)
    \/ \E e \in Verdicts : Concludes(e)
    \/ \E e \in Others : Tells(e)
    \/ KeepsAlive
RelayNext == SendsOn \/ Settle

------------------------------------------------------------------------------
(* Properties *)

\* However the upstream's bytes are cut and wherever they break off, the probe
\* knows the last usage a whole event reported, the last verdict, and whether
\* there was an event (UsageProbe::push, observe_responses, observe_chat,
\* observe_anthropic).
ProbeAgrees ==
    LET usages == {n \in 1..seen : sent[n].at # "none"}
        verdicts == {n \in 1..seen : sent[n].name \in Good \cup Bad}
        Latest(places) == sent[CHOOSE n \in places : \A m \in places : m <= n]
    IN  /\ probe.result.saw <=> \E n \in 1..seen : sent[n] # Note
        /\ probe.result.usage =
              IF usages = {} THEN <<>> ELSE <<Tokens(protocol, Latest(usages).usage)>>
        /\ probe.result.terminal =
              IF verdicts = {} THEN "pending" ELSE IF Latest(verdicts).name \in Good THEN "completed" ELSE "failed"
==============================================================================
