----------------------------- MODULE ModelClient -----------------------------
(***************************************************************************)
(* One round of the agent loop against the relay: the posts until an       *)
(* answer streams (responses.rs, loop_mod), the desktop's reader of the    *)
(* stream, the loop that makes messages and tool calls of its chunks, and  *)
(* the input the next request makes of those (model/mod.rs).               *)
(***************************************************************************)
EXTENDS UsageProbe, SequencesExt

VARIABLES
    indexed,       \* the upstream's events say which item they are about
    posting,       \* the post that is out: its attempt, its form, what became of it
    signal,        \* the user has aborted the turn
    reader,        \* the SseParser and the last call it has heard of
    heard,         \* events whose last piece the client has read
    turn           \* what the loop holds of the round

clientVars == <<indexed, posting, signal, reader, heard, turn>>

\* An item of the conversation, of no text or of the deltas of its items.
Message(kind, item, text) == [kind |-> kind, item |-> item, text |-> text]
\* An earlier turn that ended in a call, and the user's words that begin this one.
Earlier == <<Message("reasoning", 0, <<>>), Message("call", 0, <<>>), Message("user", 0, <<>>)>>

NewReader == [buffer |-> <<>>, event |-> NoEvent, data |-> <<>>, last |-> 0]
NewTurn == [bubble |-> <<>>, reasoning |-> <<>>, calls |-> <<>>, finished |-> <<>>,
            path |-> Earlier, usage |-> <<>>, outcome |-> "reading"]
Post(attempt, stripped, state) == [attempt |-> attempt, stripped |-> stripped, state |-> state]

Closed(how) == turn' = [turn EXCEPT !.outcome = how]
Streaming == posting.state = "streaming"
Reading == Streaming /\ turn.outcome = "reading"

------------------------------------------------------------------------------
(* The posts *)

\* The loop looks at the signal before it builds a request, and again between
\* its two tries.
BeginsRound ==
    /\ posting.state = "idle"
    /\ IF signal THEN Closed("aborted") /\ posting' = [posting EXCEPT !.state = "over"]
       ELSE posting' = [posting EXCEPT !.state = "posted"] /\ UNCHANGED turn
    /\ UNCHANGED <<probeVars, indexed, signal, reader, heard>>
Again ==
    /\ posting.state = "pausing"
    /\ IF signal THEN Closed("aborted") /\ posting' = [posting EXCEPT !.state = "over"]
       ELSE posting' = Post(2, FALSE, "posted") /\ UNCHANGED turn
    /\ UNCHANGED <<probeVars, indexed, signal, reader, heard>>

Accepted ==
    /\ posting.state = "posted" /\ posting' = Post(1, FALSE, "streaming")
    /\ UNCHANGED <<probeVars, indexed, signal, reader, heard, turn>>
\* The input lacks the reasoning of a call: once more without any, and without
\* thinking.
Strips ==
    /\ posting.state = "posted" /\ ~posting.stripped
    /\ posting' = [posting EXCEPT !.stripped = TRUE]
    /\ UNCHANGED <<probeVars, indexed, signal, reader, heard, turn>>
\* Not authorised, nothing left, no such model.
Unavailable ==
    /\ posting.state = "posted" /\ posting' = [posting EXCEPT !.state = "over"]
    /\ Closed("unavailable")
    /\ UNCHANGED <<probeVars, indexed, signal, reader, heard>>
\* Anything else, a timeout too, is tried once more after a pause.
Refused ==
    /\ posting.state = "posted"
    /\ IF posting.attempt = 1 THEN posting' = [posting EXCEPT !.state = "pausing"] /\ UNCHANGED turn
       ELSE posting' = [posting EXCEPT !.state = "over"] /\ Closed("error")
    /\ UNCHANGED <<probeVars, indexed, signal, reader, heard>>

------------------------------------------------------------------------------
(* The loop, chunk by chunk *)

\* Which of the open calls an ItemDone(FunctionCall) is taken to be about.
LastOpen(calls) == CHOOSE i \in DOMAIN calls : \A j \in DOMAIN calls : j <= i
FirstOpen(calls) == CHOOSE i \in DOMAIN calls : \A j \in DOMAIN calls : i <= j
CallsBut(calls, i) == [j \in DOMAIN calls \ {i} |-> calls[j]]

ReasoningItemStart(t, id) ==
    [t EXCEPT !.reasoning = <<Message("reasoning", id, IF t.reasoning = <<>> THEN <<>> ELSE t.reasoning[1].text)>>]
ReasoningDelta(t, text) ==
    [t EXCEPT !.reasoning = IF t.reasoning = <<>> THEN <<Message("reasoning", 0, text)>>
                            ELSE <<[t.reasoning[1] EXCEPT !.text = t.reasoning[1].text \o text]>>]
TextDelta(t, text) == [t EXCEPT !.bubble = t.bubble \o text]
ToolCallStart(t, index, id) ==
    [t EXCEPT !.calls = [i \in DOMAIN t.calls \cup {index} |->
                           IF i = index THEN Message("call", id, <<>>) ELSE t.calls[i]]]
ToolCallDelta(t, index, text) ==
    IF index \in DOMAIN t.calls THEN [t EXCEPT !.calls[index].text = t.calls[index].text \o text] ELSE t
ItemDone(t, kind) ==
    CASE kind = "message" /\ t.bubble # <<>> ->
           [t EXCEPT !.bubble = <<>>, !.path = Append(t.path, Message("message", 0, t.bubble))]
      [] kind = "reasoning" /\ t.reasoning # <<>> ->
           [t EXCEPT !.reasoning = <<>>, !.path = Append(t.path, t.reasoning[1])]
      [] kind = "call" /\ DOMAIN t.calls # {} ->
           [t EXCEPT !.finished = Append(t.finished, t.calls[FirstOpen(t.calls)]),
                     !.calls = CallsBut(t.calls, FirstOpen(t.calls))]
      [] OTHER -> t
\* The stream is over: open items are dropped, finished calls are made, unless
\* the turn has been aborted.
Done(t) ==
    IF signal THEN [t EXCEPT !.outcome = "aborted"]
    ELSE [t EXCEPT !.outcome = "done", !.path = t.path \o t.finished]
Usage(t, e) == [t EXCEPT !.usage = <<Tokens("responses", e.usage)>>]

------------------------------------------------------------------------------
(* The reader *)

\* The chunks an event is turned into, and the loop that takes them at once.
\* Of the verdicts, "response.done" and "cancelled" are none to this reader.
Heard(c, name, e) ==
    LET kind == items[e.item].kind
        last == IF name = "added" /\ kind = "call" THEN c.reader.last + 1 ELSE c.reader.last
        index == IF indexed THEN e.item ELSE last
        t == c.turn
    IN  [reader |-> [c.reader EXCEPT !.last = IF e.item = 0 THEN c.reader.last ELSE last],
         turn |-> IF t.outcome # "reading" THEN t
                  ELSE CASE name = "completed" -> Done(Usage(t, e))
                         [] name = "failed" -> [t EXCEPT !.outcome = "error"]
                         [] name = "added" /\ kind = "reasoning" -> ReasoningItemStart(t, e.item)
                         [] name = "added" /\ kind = "call" -> ToolCallStart(t, index, e.item)
                         [] name = "delta" /\ kind = "reasoning" -> ReasoningDelta(t, <<e.item>>)
                         [] name = "delta" /\ kind = "message" -> TextDelta(t, <<e.item>>)
                         [] name = "delta" /\ kind = "call" -> ToolCallDelta(t, index, <<e.item>>)
                         [] name = "done" -> ItemDone(t, kind)
                         [] OTHER -> t]

ReadLine(c, line) ==
    LET r == c.reader
        empty == [c EXCEPT !.reader = [r EXCEPT !.event = NoEvent, !.data = <<>>]]
    IN  CASE line.field = "blank" -> IF Len(r.data) = 1 THEN Heard(empty, r.event, r.data[1]) ELSE empty
          [] line.field = "event" -> [c EXCEPT !.reader = [r EXCEPT !.event = line.of.name]]
          [] line.field = "data" -> [c EXCEPT !.reader = [r EXCEPT !.data = Append(r.data, line.of)]]
          [] OTHER -> c
ReadPiece(c, piece) ==
    LET b == Append(c.reader.buffer, piece)
        next == IF piece.part = "end" THEN ReadLine(c, Whole(b)) ELSE c
    IN  [next EXCEPT !.reader = [next.reader EXCEPT !.buffer = IF piece.part = "end" THEN <<>> ELSE b]]
FeedChunk(c, chunk) ==
    LET read[n \in 0..Len(chunk)] == IF n = 0 THEN c ELSE ReadPiece(read[n - 1], chunk[n])
    IN  read[Len(chunk)]

\* What has arrived is one chunk.
Reads ==
    /\ Streaming /\ down # <<>> /\ down' = <<>>
    /\ IF protocol = "responses"
       THEN LET c == FeedChunk([reader |-> reader, turn |-> turn], down) IN
            reader' = c.reader /\ turn' = c.turn
       ELSE UNCHANGED <<reader, turn>>
    /\ heard' = heard + EventsIn(down)
    /\ UNCHANGED <<upVars, wire, relayVars, letGo, indexed, posting, signal>>
\* The relay's stream ends without a word: that is the end of the answer.
EndsRound ==
    /\ Reading /\ down = <<>> /\ settled # Unsettled
    /\ turn' = Done(turn)
    /\ UNCHANGED <<probeVars, indexed, posting, signal, reader, heard>>
\* The reader sees the signal, and lets go of the connection; or loses it, by
\* an error or the client's own timeout.
LetsGo == letGo' = TRUE /\ down' = <<>> /\ UNCHANGED <<upVars, wire, relayVars, indexed, posting, signal, reader, heard>>
Cancels == Reading /\ signal /\ turn' = Done(turn) /\ LetsGo
Loses == Reading /\ Closed("error") /\ LetsGo

Abort ==
    /\ ~signal /\ turn.outcome = "reading" /\ protocol = "responses" /\ signal' = TRUE
    /\ UNCHANGED <<probeVars, indexed, posting, reader, heard, turn>>

------------------------------------------------------------------------------
(* The next request's input *)

Item(kind, id) == [kind |-> kind, id |-> id]
NoInput == [out |-> <<>>, pending |-> <<>>, calls |-> 0]
\* A message more; a call stands for itself and its output.
AddItem(acc, m, withReasoning, copy) ==
    CASE m.kind = "user" -> [acc EXCEPT !.out = Append(@, Item("user", 0)), !.pending = <<>>, !.calls = 0]
      [] m.kind = "message" -> [acc EXCEPT !.out = Append(@, Item("message", 0))]
      [] m.kind = "reasoning" ->
           [acc EXCEPT !.out = IF withReasoning THEN Append(@, Item("reasoning", m.item)) ELSE @,
                       !.pending = <<m.item>>, !.calls = 0]
      [] m.kind = "call" -> [acc EXCEPT !.out = (@ \o copy) \o <<Item("call", m.item)>>, !.calls = @ + 1]
\* messages_to_responses_input_impl.
ItemsOnce(messages, withReasoning) ==
    LET after[n \in 0..Len(messages)] ==
            IF n = 0 THEN NoInput ELSE AddItem(after[n - 1], messages[n], withReasoning, <<>>)
    IN  after[Len(messages)].out
Items(messages, withReasoning) ==
    LET Copy(acc) == IF withReasoning /\ acc.pending # <<>> /\ acc.calls > 0
                     THEN <<Item("reasoning", acc.pending[1])>> ELSE <<>>
        after[n \in 0..Len(messages)] ==
            IF n = 0 THEN NoInput
            ELSE AddItem(after[n - 1], messages[n], withReasoning, Copy(after[n - 1]))
    IN  after[Len(messages)].out

------------------------------------------------------------------------------
\* What the upstream says to a client that has stopped listening is left out.
ClientInit ==
    /\ ProbeInit
    /\ indexed \in IF protocol = "responses" THEN BOOLEAN ELSE {FALSE}
    /\ posting = Post(1, FALSE, IF protocol = "responses" THEN "idle" ELSE "streaming")
    /\ signal = FALSE /\ reader = NewReader /\ heard = 0 /\ turn = NewTurn

RoundNext ==
    \/ BeginsRound \/ Again \/ Accepted \/ Strips \/ Unavailable \/ Refused
    \/ Reads \/ EndsRound \/ Cancels \/ Loses \/ Abort
    \/ Reading /\ ~signal /\ UpstreamNext /\ UNCHANGED clientVars
    \/ Streaming /\ (RelayNext \/ Hangs) /\ UNCHANGED clientVars

RoundSpec == ClientInit /\ [][RoundNext]_<<probeVars, clientVars>>

------------------------------------------------------------------------------
(* Properties *)

Past == SubSeq(sent, 1, heard)
Given(i) == \E k \in DOMAIN Past : Past[k].name = "delta" /\ Past[k].item = i
\* What s has at some of its places, in order.
InOrder(s, places) ==
    LET upto[n \in 0..Len(s)] ==
            IF n = 0 THEN <<>> ELSE IF n \in places THEN Append(upto[n - 1], s[n]) ELSE upto[n - 1]
    IN  upto[Len(s)]
IsCall(e) == items[e.item].kind = "call"
\* Calls are done in the order they were added in, and one that events without
\* an index are about is the latest.
Tidy ==
    \A i, j \in Calls : i < j =>
        LET Place(name, item) == {k \in DOMAIN Past : Past[k].name = name /\ Past[k].item = item} IN
        /\ \A k \in Place("done", j) : \E h \in Place("done", i) : h < k
        /\ indexed \/ \A k \in Place("delta", i) : \A h \in Place("added", j) : k < h

\* However the stream is cut, a round that ends well has every item that was
\* finished, once and in order, the calls after the rest and each with its own
\* arguments; it ends in an error only if the upstream says response.failed or
\* the connection is lost (SseParser::push_chunk, AgentLoop::run).
RoundIsWhole ==
    LET done == {k \in DOMAIN Past : Past[k].name = "done"}
        calls == {k \in done : IsCall(Past[k])}
        rest == {k \in done \ calls : items[Past[k].item].kind = "message" => Given(Past[k].item)}
        Of(e) == Message(items[e.item].kind, IF items[e.item].kind = "message" THEN 0 ELSE e.item,
                         IF Given(e.item) THEN <<e.item>> ELSE <<>>)
        made == [k \in DOMAIN Past |-> IF k \in done THEN Of(Past[k]) ELSE <<>>]
        failed == \E k \in DOMAIN Past : Past[k].name = "failed"
    IN  protocol = "responses" =>
        /\ turn.outcome = "done" /\ Tidy =>
              turn.path = (Earlier \o InOrder(made, rest)) \o InOrder(made, calls)
        /\ turn.outcome = "done" => ~failed
        /\ turn.outcome = "error" /\ Streaming => failed \/ letGo

\* The desktop and the relay agree on what a round used: what the desktop is
\* told is what is billed, a round that failed for the desktop is free, and one
\* that ended for it without a usage costs one use at most, unless the
\* upstream's last word was response.done, whose usage the relay alone takes
\* (observe_responses, settlement_for, the reader's response.completed and
\* response.failed).
SameBill ==
    protocol = "responses" /\ settled # Unsettled =>
        /\ turn.usage # <<>> => settled.uses = BilledUses(Billable(turn.usage[1]))
        /\ turn.outcome = "error" /\ ~letGo => settled.uses = 0
        /\ turn.outcome = "done" /\ turn.usage = <<>> =>
              settled.uses <= 1 \/ \E n \in 1..heard : sent[n].name = "response.done"

\* Replayed, every call of the round has the last reasoning of the round
\* between it and the call before, and none that the user's words have closed;
\* the stripped input has none at all (messages_to_responses_input_impl).
ReplayCarriesReasoning ==
    turn.outcome = "done" =>
        LET input == Items(turn.path, TRUE)
            Ids(kind, from, to) == {input[k].id : k \in {k \in from..to : input[k].kind = kind}}
            mine == {k \in DOMAIN turn.path : turn.path[k].kind = "reasoning" /\ turn.path[k].item # 0}
            first == CHOOSE k \in DOMAIN input : input[k].kind = "user"
            before(k) == CHOOSE h \in first..(k - 1) :
                           /\ h = first \/ input[h].kind = "call"
                           /\ \A n \in (h + 1)..(k - 1) : input[n].kind # "call"
        IN  /\ \A k \in (first + 1)..Len(input) : input[k].kind = "call" =>
                  LET own == {h \in (before(k) + 1)..(k - 1) : input[h].kind = "reasoning"} IN
                  IF mine = {} THEN own = {} ELSE own # {} /\ input[Max(own)].id = turn.path[Max(mine)].item
            /\ 0 \notin Ids("reasoning", first, Len(input))
            /\ \A k \in DOMAIN Items(turn.path, FALSE) : Items(turn.path, FALSE)[k].kind # "reasoning"
==============================================================================
