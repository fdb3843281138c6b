--------------------------- MODULE RequestLoopProofs ---------------------------
(***************************************************************************)
(* Proofs about RequestLoop, for every set of entries with any declared    *)
(* timeouts, every budget, grace period and worker timeout, and any number *)
(* of requests.                                                            *)
(***************************************************************************)
EXTENDS RequestLoop, TLAPS

------------------------------------------------------------------------------
(* Types *)

\* A call starts well typed and with a deadline inside its budget.
LEMMA StartedTyped ==
    ASSUME NEW e \in Entries
    PROVE  /\ Started(e) \in Call
           /\ TimeoutOf(e) \in Nat /\ TimeoutOf(e) <= Budget
  <1>1. TimeoutOf(e) \in Nat /\ TimeoutOf(e) <= Budget
    BY EntryAssumption, TimeAssumption DEF TimeoutOf, Lesser
  <1>2. NoCall \in Call
    BY DEF NoCall, Call
  <1>. QED  BY <1>1, <1>2 DEF Started, NoCall, Call

\* Each change of a call keeps it well typed.
LEMMA ChangeTyped ==
    ASSUME NEW d \in Call
    PROVE  /\ \A extra \in Nat : Extended(d, extra) \in Call
           /\ Interrupted(d) \in Call
           /\ Rearmed(d) \in Call
           /\ Terminated(d) \in Call
           /\ \A id, ask \in Nat : Sending(d, id, ask) \in Call
           /\ \A ask \in Nat : Answered(d, ask) \in Call
           /\ Dropped(d, "silent") \in Call /\ Dropped(d, "failed") \in Call
  <1>1. \A extra \in Nat : Extended(d, extra) \in Call
    BY DEF Extended, Call
  <1>2. Interrupted(d) \in Call
    BY DEF Interrupted, Call
  <1>3. Rearmed(d) \in Call
    BY DEF Rearmed, Call
  <1>4. Terminated(d) \in Call
    BY TimeAssumption DEF Terminated, Call
  <1>5. ASSUME NEW id \in Nat, NEW ask \in Nat
        PROVE  Sending(d, id, ask) \in Call
    <2>1. d.asks + 1 \in Nat /\ ExecTimeout \in Nat
      BY TimeAssumption DEF Call
    <2>. QED  BY <1>5, <2>1 DEF Sending, Call
  <1>6. \A ask \in Nat : Answered(d, ask) \in Call
    BY DEF Answered, Call
  <1>7. Dropped(d, "silent") \in Call /\ Dropped(d, "failed") \in Call
    BY DEF Dropped, Call
  <1>. QED  BY <1>1, <1>2, <1>3, <1>4, <1>5, <1>6, <1>7

\* Counting a result keeps the turn well typed.
LEMMA BookedTyped ==
    ASSUME NEW t \in Turn, NEW code \in Codes
    PROVE  Booked(t, code) \in Turn
  <1>1. FailsAfter(t, code) \in Nat
    BY DEF FailsAfter, Turn
  <1>. QED  BY <1>1 DEF Booked, Turn, TurnStates, Codes

\* The end of a call keeps the types.
LEMMA CallEndsTyped ==
    ASSUME TypeOK, NEW c \in Callers, NEW code \in Codes, CallEnds(c, code)
    PROVE  turn' \in Turn /\ call' \in [Callers -> Call]
  <1>1. NoCall \in Call
    BY DEF NoCall, Call
  <1>. QED  BY <1>1, BookedTyped DEF TypeOK, CallEnds

\* The request at the head of a queue that holds one.
LEMMA HeadTyped ==
    ASSUME TypeOK, queue # <<>>
    PROVE  /\ Head(queue) \in Request /\ Tail(queue) \in Seq(Request)
           /\ Head(queue).kind = "command" => Head(queue).entry \in Entries
           /\ Head(queue).kind = "result" =>
                  Head(queue).id \in Nat /\ Head(queue).ask \in Nat
  <1>1. Head(queue) \in Request /\ Tail(queue) \in Seq(Request)
    BY DEF TypeOK
  <1>. QED  BY <1>1 DEF Request

\* A result is a request.
LEMMA ResultTyped ==
    ASSUME NEW a \in Ask
    PROVE  Result(a) \in Request
  BY DEF Result, Ask, Request

\* The user's requests keep the types.
LEMMA GuiTyped ==
    ASSUME TypeOK, GuiStep
    PROVE  TypeOK'
  <1>1. CASE UserRequest
    <2>1. PICK r \in Request : UserSends(r)
      BY <1>1 DEF UserRequest, Request
    <2>. QED  BY <2>1 DEF TypeOK, UserSends, bridge
  <1>2. CASE \E a \in asked : WorkerAnswers(a)
    <2>1. PICK a \in asked : WorkerAnswers(a)
      BY <1>2
    <2>2. Result(a) \in Request
      BY <2>1, ResultTyped DEF TypeOK
    <2>. QED  BY <2>1, <2>2 DEF TypeOK, WorkerAnswers
  <1>3. CASE \E a \in awaiting : ResultTimesOut(a)
    <2>1. PICK a \in awaiting : ResultTimesOut(a)
      BY <1>3
    <2>2. Result(a) \in Request
      BY <2>1, ResultTyped DEF TypeOK
    <2>. QED  BY <2>1, <2>2 DEF TypeOK, ResultTimesOut
  <1>. QED  BY <1>1, <1>2, <1>3 DEF GuiStep

\* The loop's steps keep the types.
LEMMA TakeTyped ==
    ASSUME TypeOK, Take
    PROVE  TypeOK'
  <1>1. queue # <<>> /\ queue' = Tail(queue)
    BY DEF Take, TakeSend, TakeCommand, TakeAbort, TakeResult, Takes
  <1>2. queue' \in Seq(Request)
    BY <1>1, HeadTyped
  <1>3. CASE TakeSend
    <2>1. [NoTurn EXCEPT !.st = "head", !.left = Budget] \in Turn
      BY TimeAssumption DEF NoTurn, Turn, TurnStates, Codes
    <2>. QED  BY <1>2, <1>3, <2>1 DEF TypeOK, TakeSend, bridge
  <1>4. CASE TakeCommand
    <2>1. Started(Head(queue).entry) \in Call
      BY <1>1, <1>4, HeadTyped, StartedTyped DEF TakeCommand, Takes
    <2>2. call' \in [Callers -> Call]
      BY <1>4, <2>1 DEF TypeOK, TakeCommand
    <2>. QED  BY <1>2, <1>4, <2>2 DEF TypeOK, TakeCommand, bridge
  <1>5. CASE TakeAbort
    BY <1>2, <1>5 DEF TypeOK, TakeAbort, bridge, Turn
  <1>6. CASE TakeResult
    <2>1. Head(queue).id \in Nat /\ Head(queue).ask \in Nat
      BY <1>1, <1>6, HeadTyped DEF TakeResult, Takes
    <2>2. Delivered(Head(queue)) \in [Callers -> Call]
      BY <2>1, ChangeTyped DEF Delivered, TypeOK
    <2>. QED  BY <1>2, <1>6, <2>1, <2>2 DEF TypeOK, TakeResult
  <1>. QED  BY <1>3, <1>4, <1>5, <1>6 DEF Take

\* What a handler, the watchdog and the bridge do keeps the types.
LEMMA CallTyped ==
    ASSUME TypeOK, NEW c \in Callers, CallStep(c)
    PROVE  TypeOK'
  <1>. USE ChangeTyped
  <1>0. call[c] \in Call /\ nextId \in Nat /\ asks + 1 \in Nat
    BY DEF TypeOK
  <1>1. CASE HandlerDone(c)
    <2>1. turn' \in Turn /\ call' \in [Callers -> Call]
      BY <1>1, CallEndsTyped DEF HandlerDone, Codes
    <2>. QED  BY <1>1, <2>1 DEF HandlerDone, TypeOK, bridge
  <1>2. CASE HandlerAsks(c)
    <2>1. Sending(call[c], nextId, asks + 1) \in Call
      BY <1>0
    <2>2. call' \in [Callers -> Call]
      BY <1>2, <2>1 DEF TypeOK, HandlerAsks
    <2>3. [id |-> nextId, ask |-> asks + 1] \in Ask
      BY <1>0 DEF Ask
    <2>4. nextId' \in Nat /\ asks' \in Nat
      BY <1>0, <1>2 DEF HandlerAsks, NextCompute
    <2>6. pending' \subseteq Nat
      BY <1>0, <1>2 DEF TypeOK, HandlerAsks
    <2>5. asked' \subseteq Ask
      BY <1>2, <2>3 DEF TypeOK, HandlerAsks
    <2>. QED  BY <1>2, <2>2, <2>4, <2>5, <2>6 DEF TypeOK, HandlerAsks
  <1>3. CASE HandlerInterrupts(c)
    <2>1. call' \in [Callers -> Call]
      BY <1>0, <1>3 DEF HandlerInterrupts, TypeOK
    <2>. QED  BY <1>3, <2>1 DEF HandlerInterrupts, TypeOK, bridge
  <1>4. CASE \E extra \in Extras : HandlerExtends(c, extra)
    <2>1. call' \in [Callers -> Call]
      BY <1>0, <1>4, TimeAssumption DEF HandlerExtends, TypeOK
    <2>. QED  BY <1>4, <2>1 DEF HandlerExtends, TypeOK, bridge
  <1>5. CASE Expire(c)
    <2>1. turn' \in Turn /\ call' \in [Callers -> Call]
      <3>1. CASE CallEnds(c, "timeout")
        BY <3>1, CallEndsTyped DEF Codes
      <3>2. CASE call' = [call EXCEPT ![c] = Rearmed(call[c])] /\ UNCHANGED turn
        BY <1>0, <3>2 DEF TypeOK
      <3>. QED  BY <1>5, <3>1, <3>2 DEF Expire
    <2>. QED  BY <1>5, <2>1 DEF Expire, TypeOK, bridge
  <1>6. CASE Sigterm(c)
    <2>1. call' \in [Callers -> Call]
      BY <1>0, <1>6 DEF Sigterm, TypeOK
    <2>. QED  BY <1>6, <2>1 DEF Sigterm, TypeOK, bridge
  <1>7. CASE Sigkill(c)
    <2>1. turn' \in Turn /\ call' \in [Callers -> Call]
      BY <1>7, CallEndsTyped DEF Sigkill, Codes
    <2>. QED  BY <1>7, <2>1 DEF Sigkill, TypeOK, bridge
  <1>8. CASE AskTimesOut(c) \/ AskCancelled(c)
    <2>1. call' \in [Callers -> Call]
      BY <1>0, <1>8 DEF AskTimesOut, AskCancelled, DropPending, TypeOK
    <2>. QED  BY <1>8, <2>1 DEF AskTimesOut, AskCancelled, DropPending, TypeOK
  <1>. QED  BY <1>1, <1>2, <1>3, <1>4, <1>5, <1>6, <1>7, <1>8
            DEF CallStep, HandlerStep, TimerStep

\* The turn's own steps keep the types.
LEMMA TurnTyped ==
    ASSUME TypeOK, TurnStep
    PROVE  TypeOK'
  <1>1. ASSUME NEW from \in TurnStates, NEW to \in TurnStates, Goes(from, to)
        PROVE  TypeOK'
    BY <1>1 DEF Goes, TypeOK, bridge, Turn
  <1>2. CASE NextToolCall
    <2>. DEFINE t == OneCall(turn)
    <2>1. t \in Turn
      <3>1. turn \in Turn /\ turn.todo - 1 \in Nat /\ turn.calls + 1 \in Nat
        BY <1>2 DEF NextToolCall, TypeOK, Turn
      <3>. QED  BY <3>1 DEF OneCall, Turn
    <2>2. Booked(t, "other") \in Turn
      BY <2>1, BookedTyped DEF Codes
    <2>3. \A e \in Entries : Started(e) \in Call
      BY StartedTyped
    <2>4. [t EXCEPT !.st = "ending"] \in Turn
      BY <2>1 DEF Turn, TurnStates
    <2>5. turn' \in Turn /\ call' \in [Callers -> Call]
      <3>. HIDE DEF t
      <3>1. CASE turn' = [t EXCEPT !.st = "ending"] /\ UNCHANGED call
        BY <2>4, <3>1 DEF TypeOK
      <3>2. CASE turn' = Booked(t, "other") /\ UNCHANGED call
        BY <2>2, <3>2 DEF TypeOK
      <3>3. CASE /\ turn' = t
                 /\ \E e \in Entries : call' = [call EXCEPT !["turn"] = Started(e)]
        BY <2>1, <2>3, <3>3 DEF TypeOK
      <3>. QED  BY <1>2, <3>1, <3>2, <3>3 DEF NextToolCall, t
    <2>. QED  BY <1>2, <2>5 DEF NextToolCall, TypeOK, bridge
  <1>3. CASE StreamEnds
    <2>1. CASE Goes("streaming", "ending")
      BY <2>1, <1>1 DEF TurnStates
    <2>2. CASE ~Goes("streaming", "ending")
      <3>1. PICK n \in 1..MaxBatch : turn' = [turn EXCEPT !.st = "calling", !.todo = n]
        BY <1>3, <2>2 DEF StreamEnds
      <3>2. n \in Nat /\ turn \in Turn
        BY LimitAssumption DEF TypeOK
      <3>3. turn' \in Turn
        BY <3>1, <3>2 DEF Turn, TurnStates
      <3>. QED  BY <1>3, <2>2, <3>3 DEF StreamEnds, TypeOK, bridge
    <2>. QED  BY <2>1, <2>2
  <1>4. CASE TurnEnds
    BY <1>4 DEF TurnEnds, TypeOK, bridge, NoTurn, Turn, TurnStates, Codes
  <1>5. CASE RoundHead \/ StreamOpens \/ StreamFails \/ Retry \/ BatchDone
    BY <1>5, <1>1 DEF RoundHead, StreamOpens, StreamFails, Retry, BatchDone, TurnStates
  <1>. QED  BY <1>2, <1>3, <1>4, <1>5 DEF TurnStep

\* Time keeps the types.
LEMMA TickTyped ==
    ASSUME TypeOK, Tick
    PROVE  TypeOK'
  <1>1. \A n \in Nat : Down(n) \in Nat
    BY DEF Down
  <1>2. ASSUME NEW d \in Call PROVE Aged(d) \in Call
    <2>1. Lesser(d.age + 1, Budget + Grace + 1) \in Nat
      BY <1>2, TimeAssumption DEF Lesser, Call
    <2>. QED  BY <1>1, <1>2, <2>1 DEF Aged, Call
  <1>3. turn' \in Turn
    BY <1>1 DEF Tick, TypeOK, Turn
  <1>4. call' \in [Callers -> Call]
    BY <1>2 DEF Tick, TypeOK
  <1>. QED  BY <1>3, <1>4 DEF Tick, TypeOK, bridge

\* The types of the state hold in every reachable state: no timer and no
\* counter of the loop, of a call or of a turn ever goes below zero.
THEOREM TypeCorrect == Spec => []TypeOK
  <1>1. Init => TypeOK
    BY DEF Init, TypeOK, NoTurn, Turn, TurnStates, Codes, NoCall, Call
  <1>2. TypeOK /\ [Next]_vars => TypeOK'
    <2>. SUFFICES ASSUME TypeOK, [Next]_vars PROVE TypeOK'
      OBVIOUS
    <2>1. CASE UNCHANGED vars
      BY <2>1 DEF TypeOK, vars
    <2>. QED  BY <2>1, GuiTyped, TakeTyped, CallTyped, TurnTyped, TickTyped DEF Next
  <1>. QED  BY <1>1, <1>2, PTL DEF Spec

------------------------------------------------------------------------------
(* How a step changes a call *)

\* The shapes a call can take in one step, with what held before.
CallChange(c) ==
    \/ call'[c] \in {call[c], NoCall, Interrupted(call[c])}
    \/ \E e \in Entries : call'[c] = Started(e)
    \/ \E extra \in Extras :
           /\ call[c].phase = "running" /\ extra <= Budget - call[c].age
           /\ call'[c] = Extended(call[c], extra)
    \/ call[c].phase = "running" /\ call'[c] \in {Rearmed(call[c]), Terminated(call[c])}
    \/ HandlerAsks(c) /\ call'[c] = Sending(call[c], nextId, asks + 1)
    \/ /\ TakeResult /\ Waiting(c) /\ call[c].id = Head(queue).id
       /\ call'[c] = Answered(call[c], Head(queue).ask)
    \/ Waiting(c) /\ \E why \in {"silent", "failed"} : call'[c] = Dropped(call[c], why)
    \/ ~Due(c) /\ call'[c] = Aged(call[c])

LEMMA CallChanges ==
    ASSUME TypeOK, [Next]_vars, NEW c \in Callers
    PROVE  CallChange(c)
  <1>. USE DEF CallChange
  <1>0. call \in [Callers -> Call]
    BY DEF TypeOK
  <1>1. CASE UNCHANGED call
    BY <1>1
  <1>2. CASE GuiStep
    BY <1>2, <1>1 DEF GuiStep, UserRequest, UserSends, WorkerAnswers, ResultTimesOut
  <1>3. CASE Take
    <2>1. CASE TakeSend \/ TakeAbort
      BY <2>1, <1>1 DEF TakeSend, TakeAbort
    <2>2. CASE TakeCommand
      <3>1. Head(queue).entry \in Entries
        BY <2>2, HeadTyped DEF TakeCommand, Takes
      <3>. QED  BY <1>0, <1>1, <2>2, <3>1 DEF TakeCommand
    <2>3. CASE TakeResult
      <3>1. call'[c] = Delivered(Head(queue))[c]
        BY <2>3 DEF TakeResult
      <3>. QED  BY <2>3, <3>1 DEF Delivered
    <2>. QED  BY <1>3, <2>1, <2>2, <2>3 DEF Take
  <1>4. ASSUME NEW d \in Callers, CallStep(d) PROVE CallChange(c)
    <2>1. CASE c # d
      <3>1. call'[c] = call[c]
        BY <1>0, <1>4, <2>1 DEF CallStep, HandlerStep, TimerStep, HandlerDone, CallEnds,
              HandlerAsks, HandlerInterrupts, HandlerExtends, Expire, Sigterm, Sigkill,
              AskTimesOut, AskCancelled, DropPending
      <3>. QED  BY <3>1
    <2>2. CASE c = d
      <3>1. CASE HandlerDone(c) \/ Sigkill(c)
        BY <1>0, <3>1 DEF HandlerDone, Sigkill, CallEnds
      <3>2. CASE HandlerAsks(c)
        BY <1>0, <3>2 DEF HandlerAsks
      <3>3. CASE HandlerInterrupts(c)
        BY <1>0, <3>3 DEF HandlerInterrupts
      <3>4. CASE \E extra \in Extras : HandlerExtends(c, extra)
        BY <1>0, <3>4 DEF HandlerExtends
      <3>5. CASE Expire(c)
        BY <1>0, <3>5 DEF Expire, CallEnds
      <3>6. CASE Sigterm(c)
        BY <1>0, <3>6 DEF Sigterm
      <3>7. CASE AskTimesOut(c) \/ AskCancelled(c)
        BY <1>0, <3>7 DEF AskTimesOut, AskCancelled, DropPending
      <3>. QED  BY <1>4, <2>2, <3>1, <3>2, <3>3, <3>4, <3>5, <3>6, <3>7
                DEF CallStep, HandlerStep, TimerStep
    <2>. QED  BY <2>1, <2>2
  <1>5. CASE TurnStep
    <2>1. CASE NextToolCall
      BY <1>0, <1>1, <2>1 DEF NextToolCall
    <2>2. CASE ~NextToolCall
      BY <1>1, <1>5, <2>2 DEF TurnStep, RoundHead, StreamOpens, StreamFails, Retry,
            StreamEnds, BatchDone, TurnEnds, Goes
    <2>. QED  BY <2>1, <2>2
  <1>6. CASE Tick
    BY <1>6 DEF Tick, Immediate
  <1>. QED  BY <1>1, <1>2, <1>3, <1>4, <1>5, <1>6 DEF Next, vars

------------------------------------------------------------------------------
(* Every call is out in time *)

\* While it runs, deadline and watchdog stay inside what is left of the call's
\* budget; in the grace period the rest of it is inside the grace.
Timed(d) ==
    /\ d.phase = "running" => d.age + d.left <= Budget /\ d.age + d.watch <= Budget
    /\ d.phase = "grace" => d.age + d.grace <= Budget + Grace
    /\ d.phase = "none" => d.age = 0
CallsTimed == \A c \in Callers : Timed(call[c])

\* Each shape of a changed call is timed.
LEMMA TimedChange ==
    ASSUME TypeOK, CallsTimed, NEW c \in Callers, CallChange(c)
    PROVE  Timed(call'[c])
  <1>. DEFINE d == call[c]
  <1>0. d \in Call /\ Timed(d)
    BY DEF TypeOK, CallsTimed
  <1>. HIDE DEF d
  <1>1. Timed(NoCall) /\ Timed(Interrupted(d))
    BY <1>0 DEF Timed, NoCall, Interrupted, Call
  <1>2. \A e \in Entries : Timed(Started(e))
    <2>. TAKE e \in Entries
    <2>1. Started(e).phase = "running" /\ Started(e).age = 0
          /\ Started(e).left = TimeoutOf(e) /\ Started(e).watch = TimeoutOf(e)
      BY DEF Started, NoCall
    <2>. QED  BY <2>1, StartedTyped DEF Timed
  <1>3. ASSUME NEW extra \in Extras, d.phase = "running", extra <= Budget - d.age
        PROVE  Timed(Extended(d, extra))
    BY <1>0, <1>3, TimeAssumption DEF Timed, Extended, Call
  <1>4. ASSUME d.phase = "running" PROVE Timed(Rearmed(d)) /\ Timed(Terminated(d))
    <2>1. Timed(Rearmed(d))
      BY <1>0, <1>4 DEF Timed, Rearmed, Call
    <2>2. Timed(Terminated(d))
      BY <1>0, <1>4, TimeAssumption DEF Timed, Terminated, Call
    <2>. QED  BY <2>1, <2>2
  <1>5. ASSUME NEW id, NEW ask PROVE Timed(Sending(d, id, ask)) /\ Timed(Answered(d, ask))
    BY <1>0 DEF Timed, Sending, Answered, Call
  <1>6. ASSUME NEW why PROVE Timed(Dropped(d, why))
    BY <1>0 DEF Timed, Dropped, Call
  <1>7. ASSUME ~Due(c) PROVE Timed(Aged(d))
    <2>1. d.phase = "running" => d.watch # 0
      BY <1>7 DEF Due, d
    <2>2. d.phase = "grace" => d.grace # 0
      BY <1>7 DEF Due, d
    <2>3. CASE d.phase = "none"
      BY <1>0, <2>3 DEF Aged
    <2>4. CASE d.phase # "none"
      <3>1. /\ Aged(d).phase = d.phase
            /\ Aged(d).age = Lesser(d.age + 1, Budget + Grace + 1)
            /\ Aged(d).left = Down(d.left) /\ Aged(d).watch = Down(d.watch)
            /\ Aged(d).grace = Down(d.grace)
        BY <1>0, <2>4 DEF Aged, Call
      <3>2. /\ d.age \in Nat /\ d.left \in Nat /\ d.watch \in Nat /\ d.grace \in Nat
            /\ Budget \in Nat /\ Grace \in Nat
        BY <1>0, TimeAssumption DEF Call
      <3>3. Aged(d).phase = "running" =>
                Aged(d).age + Aged(d).left <= Budget /\ Aged(d).age + Aged(d).watch <= Budget
        BY <1>0, <2>1, <3>1, <3>2 DEF Timed, Lesser, Down
      <3>4. Aged(d).phase = "grace" => Aged(d).age + Aged(d).grace <= Budget + Grace
        BY <1>0, <2>2, <3>1, <3>2 DEF Timed, Lesser, Down
      <3>. QED  BY <2>4, <3>1, <3>3, <3>4 DEF Timed
    <2>. QED  BY <2>3, <2>4
  <1>. QED  BY <1>0, <1>1, <1>2, <1>3, <1>4, <1>5, <1>6, <1>7 DEF CallChange, d

\* No call is inside the dispatch longer than its budget and a grace period.
THEOREM CallsAreBounded == Spec => []CallsEndInBudget
  <1>1. Init => CallsTimed
    BY DEF Init, CallsTimed, Timed, NoCall
  <1>2. TypeOK /\ CallsTimed /\ [Next]_vars => CallsTimed'
    BY CallChanges, TimedChange DEF CallsTimed
  <1>3. TypeOK /\ CallsTimed => CallsEndInBudget
    <2>. SUFFICES ASSUME TypeOK, CallsTimed, NEW c \in Callers
                  PROVE  call[c].age <= Budget + Grace
      BY DEF CallsEndInBudget
    <2>1. call[c] \in Call /\ Timed(call[c])
      BY DEF TypeOK, CallsTimed
    <2>. QED  BY <2>1, TimeAssumption DEF Timed, Call
  <1>. QED  BY <1>1, <1>2, <1>3, TypeCorrect, PTL DEF Spec

------------------------------------------------------------------------------
(* The bridge *)

\* An id belongs to one request for good: the counter of ids and the count of
\* requests go together, so a result that comes late or twice still carries
\* the request it is for.
Paired(r) == r.id = r.ask
PairsHold ==
    /\ nextId = asks + 1
    /\ \A a \in asked \cup awaiting : Paired(a)
    /\ \A i \in 1..Len(queue) : queue[i].kind = "result" => Paired(queue[i])

\* Who waits is registered under an id that nobody else waits for.
WaitersHold ==
    /\ \A c \in Callers : Waiting(c) =>
           call[c].id = call[c].ask /\ call[c].id \in pending /\ call[c].id < nextId
    /\ \A c, d \in Callers :
           c # d /\ Waiting(c) /\ Waiting(d) => call[c].id # call[d].id
BridgeInv == PairsHold /\ WaitersHold /\ ReplyIsOwn

\* Requests and results are paired when they are made and passed on.
LEMMA PairsStep ==
    ASSUME TypeOK, PairsHold, [Next]_vars
    PROVE  PairsHold'
  <1>0. queue \in Seq(Request) /\ asks \in Nat /\ nextId \in Nat
    BY DEF TypeOK
  <1>1. ASSUME NEW r, r.kind = "result" => Paired(r), queue' = Append(queue, r)
        PROVE  \A i \in 1..Len(queue') : queue'[i].kind = "result" => Paired(queue'[i])
    BY <1>0, <1>1 DEF PairsHold
  <1>2. CASE UserRequest
    <2>1. \A kind \in {"send", "abort"} : [kind |-> kind].kind # "result"
      OBVIOUS
    <2>2. \A e \in Entries : [kind |-> "command", entry |-> e].kind # "result"
      OBVIOUS
    <2>3. PICK r : UserSends(r) /\ r.kind # "result"
      BY <1>2, <2>1, <2>2 DEF UserRequest
    <2>. QED  BY <1>1, <2>3 DEF UserSends, bridge, PairsHold
  <1>3. ASSUME NEW a \in asked \cup awaiting
        PROVE  Result(a).kind = "result" => Paired(Result(a))
    BY DEF PairsHold, Result, Paired
  <1>4. CASE \E a \in asked : WorkerAnswers(a)
    BY <1>1, <1>3, <1>4 DEF WorkerAnswers, PairsHold
  <1>5. CASE \E a \in awaiting : ResultTimesOut(a)
    BY <1>1, <1>3, <1>5 DEF ResultTimesOut, PairsHold
  <1>6. CASE Take
    <2>1. queue # <<>> /\ queue' = Tail(queue)
      BY <1>6 DEF Take, TakeSend, TakeCommand, TakeAbort, TakeResult, Takes
    <2>2. \A i \in 1..Len(queue') : queue'[i].kind = "result" => Paired(queue'[i])
      <3>. SUFFICES ASSUME NEW i \in 1..Len(queue') PROVE queue'[i].kind = "result" => Paired(queue'[i])
        OBVIOUS
      <3>1. i + 1 \in 1..Len(queue) /\ queue'[i] = queue[i + 1]
        BY <1>0, <2>1
      <3>. QED  BY <3>1 DEF PairsHold
    <2>3. nextId' = nextId /\ asks' = asks /\ asked' = asked /\ awaiting' \subseteq awaiting
      BY <1>6 DEF Take, TakeSend, TakeCommand, TakeAbort, TakeResult, bridge
    <2>. QED  BY <2>2, <2>3 DEF PairsHold
  <1>7. ASSUME NEW c \in Callers, HandlerAsks(c) PROVE PairsHold'
    <2>1. Paired([id |-> nextId, ask |-> asks + 1])
      BY DEF PairsHold, Paired
    <2>. QED  BY <1>0, <1>7, <2>1 DEF HandlerAsks, NextCompute, PairsHold
  <1>8. CASE UNCHANGED <<queue, nextId, asks, asked, awaiting>>
    BY <1>8 DEF PairsHold
  <1>9. ASSUME NEW c \in Callers, CallStep(c), ~HandlerAsks(c)
        PROVE  UNCHANGED <<queue, nextId, asks, asked, awaiting>>
    BY <1>9 DEF CallStep, HandlerStep, TimerStep, HandlerDone, HandlerInterrupts,
       HandlerExtends, Expire, Sigterm, Sigkill, AskTimesOut, AskCancelled, DropPending, bridge
  <1>10. CASE TurnStep
    BY <1>8, <1>10 DEF TurnStep, RoundHead, StreamOpens, StreamFails, Retry, StreamEnds,
       NextToolCall, BatchDone, TurnEnds, Goes, bridge
  <1>11. CASE Tick \/ UNCHANGED vars
    BY <1>8, <1>11 DEF Tick, bridge, vars
  <1>. QED  BY <1>2, <1>4, <1>5, <1>6, <1>7, <1>8, <1>9, <1>10, <1>11 DEF Next, GuiStep

\* How a change of a call touches its waiting and its reply.
LEMMA WaitingChange ==
    ASSUME TypeOK, [Next]_vars, NEW c \in Callers, ~HandlerAsks(c)
    PROVE  /\ Waiting(c)' => Waiting(c) /\ call'[c].id = call[c].id
                             /\ call'[c].ask = call[c].ask
           /\ call'[c].asking = "answered" =>
                  \/ call[c].asking = "answered" /\ call'[c].reply = call[c].reply
                                                 /\ call'[c].ask = call[c].ask
                  \/ /\ TakeResult /\ Waiting(c) /\ call'[c].reply = Head(queue).ask
                     /\ call[c].id = Head(queue).id /\ call'[c].ask = call[c].ask
  <1>. DEFINE d == call[c]
              e == call'[c]
              Kept == /\ e.asking = d.asking /\ e.id = d.id
                      /\ e.ask = d.ask /\ e.reply = d.reply
  <1>0. d \in Call
    BY DEF TypeOK
  <1>1. CASE e \in {d, NoCall, Interrupted(d)}
    BY <1>0, <1>1 DEF NoCall, Interrupted, Call, Waiting
  <1>2. CASE \E x \in Entries : e = Started(x)
    BY <1>2 DEF Started, NoCall, Waiting
  <1>3. CASE \E extra \in Extras : e = Extended(d, extra)
    BY <1>0, <1>3 DEF Extended, Call, Waiting
  <1>4. CASE e \in {Rearmed(d), Terminated(d)}
    BY <1>0, <1>4 DEF Rearmed, Terminated, Call, Waiting
  <1>5. CASE \E why \in {"silent", "failed"} : e = Dropped(d, why)
    BY <1>0, <1>5 DEF Dropped, Call, Waiting
  <1>6. CASE e = Aged(d)
    BY <1>0, <1>6 DEF Aged, Call, Waiting
  <1>7. CASE /\ TakeResult /\ Waiting(c) /\ call[c].id = Head(queue).id
             /\ e = Answered(d, Head(queue).ask)
    <2>1. /\ Answered(d, Head(queue).ask).asking = "answered"
          /\ Answered(d, Head(queue).ask).reply = Head(queue).ask
          /\ Answered(d, Head(queue).ask).ask = d.ask
      BY <1>0 DEF Answered, Call
    <2>. QED  BY <1>7, <2>1 DEF Waiting
  <1>. QED  BY <1>1, <1>2, <1>3, <1>4, <1>5, <1>6, <1>7, CallChanges DEF CallChange

\* Waiting, registration and reply stay together.
LEMMA WaitersStep ==
    ASSUME TypeOK, BridgeInv, [Next]_vars
    PROVE  WaitersHold' /\ ReplyIsOwn'
  <1>0. call \in [Callers -> Call] /\ nextId \in Nat
    BY DEF TypeOK
  <1>1. CASE \E c \in Callers : HandlerAsks(c)
    <2>1. PICK c \in Callers : HandlerAsks(c)
      BY <1>1
    <2>2. /\ call'[c].asking = "waiting" /\ call'[c].id = nextId
          /\ call'[c].ask = asks + 1
      BY <1>0, <2>1 DEF HandlerAsks, Sending, Call
    <2>3. \A d \in Callers : d # c => call'[d] = call[d]
      BY <1>0, <2>1 DEF HandlerAsks
    <2>4. pending' = pending \cup {nextId} /\ nextId' = nextId + 1
      BY <2>1 DEF HandlerAsks, NextCompute
    <2>5. \A d \in Callers : Waiting(d) => call[d].id < nextId /\ call[d].id \in Nat
      BY <1>0 DEF BridgeInv, WaitersHold, Call
    <2>6. WaitersHold'
      BY <1>0, <2>2, <2>3, <2>4, <2>5 DEF BridgeInv, PairsHold, WaitersHold, Waiting
    <2>. QED  BY <2>2, <2>3, <2>6 DEF BridgeInv, ReplyIsOwn
  <1>2. CASE ~\E c \in Callers : HandlerAsks(c)
    <2>1. \A c \in Callers :
              /\ Waiting(c)' => Waiting(c) /\ call'[c].id = call[c].id
                                           /\ call'[c].ask = call[c].ask
              /\ call'[c].asking = "answered" =>
                  \/ call[c].asking = "answered" /\ call'[c].reply = call[c].reply
                                                 /\ call'[c].ask = call[c].ask
                  \/ /\ TakeResult /\ Waiting(c) /\ call'[c].reply = Head(queue).ask
                     /\ call[c].id = Head(queue).id /\ call'[c].ask = call[c].ask
      BY <1>2, WaitingChange
    <2>2. nextId' = nextId
      BY <1>2 DEF Next, vars, bridge, GuiStep, UserRequest, UserSends, WorkerAnswers,
         ResultTimesOut, Take, TakeSend, TakeCommand, TakeAbort, TakeResult, CallStep,
         HandlerStep, TimerStep, HandlerDone, HandlerInterrupts, HandlerExtends, Expire,
         Sigterm, Sigkill, AskTimesOut, AskCancelled, DropPending, TurnStep, RoundHead,
         StreamOpens, StreamFails, Retry, StreamEnds, NextToolCall, BatchDone, TurnEnds,
         Goes, Tick
    <2>3. ASSUME NEW c \in Callers, Waiting(c)' PROVE call[c].id \in pending'
      <3>1. Waiting(c) /\ call[c].id \in pending
        BY <2>1, <2>3 DEF BridgeInv, WaitersHold
      <3>2. CASE TakeResult
        <4>1. call[c].id # Head(queue).id
          <5>. SUFFICES ASSUME call[c].id = Head(queue).id PROVE FALSE
            OBVIOUS
          <5>1. call'[c] = Answered(call[c], Head(queue).ask)
            BY <3>1, <3>2 DEF TakeResult, Delivered
          <5>2. call'[c].asking = "answered"
            BY <1>0, <5>1 DEF Answered, Call
          <5>. QED  BY <2>3, <5>2 DEF Waiting
        <4>. QED  BY <3>1, <3>2, <4>1 DEF TakeResult
      <3>3. CASE \E d \in Callers : AskTimesOut(d) \/ AskCancelled(d)
        <4>1. PICK d \in Callers : AskTimesOut(d) \/ AskCancelled(d)
          BY <3>3
        <4>2. PICK why \in {"silent", "failed"} : Waiting(d) /\ DropPending(d, why)
          BY <4>1 DEF AskTimesOut, AskCancelled
        <4>3. call'[d].asking = why
          BY <1>0, <4>2 DEF DropPending, Dropped, Call
        <4>4. c # d
          BY <2>3, <4>3 DEF Waiting
        <4>. QED  BY <3>1, <4>2, <4>4 DEF DropPending, BridgeInv, WaitersHold
      <3>4. CASE ~TakeResult /\ ~\E d \in Callers : AskTimesOut(d) \/ AskCancelled(d)
        <4>1. pending' = pending
          BY <1>2, <3>4 DEF Next, vars, bridge, GuiStep, UserRequest, UserSends,
             WorkerAnswers, ResultTimesOut, Take, TakeSend, TakeCommand, TakeAbort,
             CallStep, HandlerStep, TimerStep, HandlerDone, HandlerInterrupts,
             HandlerExtends, Expire, Sigterm, Sigkill, TurnStep, RoundHead, StreamOpens,
             StreamFails, Retry, StreamEnds, NextToolCall, BatchDone, TurnEnds, Goes, Tick
        <4>. QED  BY <3>1, <4>1
      <3>. QED  BY <3>2, <3>3, <3>4
    <2>4. WaitersHold'
      BY <2>1, <2>2, <2>3 DEF BridgeInv, WaitersHold
    <2>5. TakeResult => Head(queue).id = Head(queue).ask
      <3>. SUFFICES ASSUME TakeResult PROVE Head(queue).id = Head(queue).ask
        OBVIOUS
      <3>1. queue # <<>> /\ queue \in Seq(Request) /\ Head(queue).kind = "result"
        BY DEF TakeResult, Takes, TypeOK
      <3>2. 1 \in 1..Len(queue) /\ Head(queue) = queue[1]
        BY <3>1
      <3>. QED  BY <3>1, <3>2 DEF BridgeInv, PairsHold, Paired
    <2>6. ReplyIsOwn'
      BY <2>1, <2>5 DEF BridgeInv, WaitersHold, ReplyIsOwn
    <2>. QED  BY <2>4, <2>6
  <1>. QED  BY <1>1, <1>2

\* The bridge's invariant holds from the start.
THEOREM BridgeHolds == Spec => []BridgeInv
  <1>1. Init => BridgeInv
    BY DEF Init, BridgeInv, PairsHold, WaitersHold, ReplyIsOwn, Waiting, NoCall
  <1>2. TypeOK /\ BridgeInv /\ [Next]_vars => BridgeInv'
    BY PairsStep, WaitersStep DEF BridgeInv
  <1>. QED  BY <1>1, <1>2, TypeCorrect, PTL DEF Spec

\* A handler that goes on with a result goes on with its own.
THEOREM RepliesAreOwn == Spec => []ReplyIsOwn
  <1>1. BridgeInv => ReplyIsOwn
    BY DEF BridgeInv
  <1>. QED  BY <1>1, BridgeHolds, PTL

\* A handler that waits is registered and can be answered.
THEOREM WaitersCanBeReached == Spec => []WaitersAreReachable
  <1>1. BridgeInv => WaitersAreReachable
    BY DEF BridgeInv, WaitersHold, WaitersAreReachable
  <1>. QED  BY <1>1, BridgeHolds, PTL

------------------------------------------------------------------------------
(* What a step may not do *)

\* Results and timeouts of one call reach neither the handler of another nor
\* the place where it waits, however late and often they come.
THEOREM BridgeIsAlwaysSound == Spec => []BridgeIsSound
  <1>1. ReplyIsOwn /\ WaitersAreReachable => BridgeIsSound
    BY DEF BridgeIsSound
  <1>. QED  BY <1>1, RepliesAreOwn, WaitersCanBeReached, PTL

\* After an abort the turn asks the model nothing more.
THEOREM AbortEndsRounds == Spec => NoRoundAfterAbort
  <1>1. TypeOK /\ [Next]_vars =>
            (turn.cancelled /\ turn'.st \in {"opening", "reopening"} => turn'.st = turn.st)
    <2>. SUFFICES ASSUME TypeOK, [Next]_vars, turn.cancelled,
                         turn'.st \in {"opening", "reopening"}
                  PROVE  turn'.st = turn.st
      OBVIOUS
    <2>0. turn \in Turn
      BY DEF TypeOK
    <2>1. CASE UNCHANGED turn
      BY <2>1
    <2>2. CASE Take
      BY <2>0, <2>2 DEF Take, TakeSend, TakeCommand, TakeAbort, TakeResult, NoTurn, Turn
    <2>3. ASSUME NEW code PROVE Booked(turn, code).st \in {turn.st, "ending"}
      BY <2>0 DEF Booked, Turn
    <2>4. ASSUME NEW c \in Callers, CallStep(c) PROVE turn'.st \in {turn.st, "ending"}
      BY <2>3, <2>4 DEF CallStep, HandlerStep, TimerStep, HandlerDone, HandlerAsks,
         HandlerInterrupts, HandlerExtends, Expire, Sigterm, Sigkill, AskTimesOut,
         AskCancelled, DropPending, CallEnds
    <2>5. CASE TurnStep
      <3>1. ASSUME NEW from, NEW to, Goes(from, to) PROVE turn'.st = to /\ turn.st = from
        BY <2>0, <3>1 DEF Goes, Turn
      <3>2. CASE RoundHead \/ StreamOpens \/ StreamFails \/ Retry \/ BatchDone
        BY <3>1, <3>2 DEF RoundHead, MustStop, StreamOpens, StreamFails, Retry, BatchDone
      <3>3. CASE StreamEnds
        BY <2>0, <3>1, <3>3 DEF StreamEnds, Turn
      <3>4. CASE TurnEnds
        BY <3>4 DEF TurnEnds, NoTurn
      <3>5. CASE NextToolCall
        <4>1. OneCall(turn).st = turn.st /\ [OneCall(turn) EXCEPT !.st = "ending"].st = "ending"
          BY <2>0 DEF OneCall, Turn
        <4>2. Booked(OneCall(turn), "other").st \in {OneCall(turn).st, "ending"}
          BY <2>0 DEF Booked, OneCall, Turn
        <4>. QED  BY <3>5, <4>1, <4>2 DEF NextToolCall
      <3>. QED  BY <2>5, <3>2, <3>3, <3>4, <3>5 DEF TurnStep
    <2>6. CASE Tick
      BY <2>0, <2>6 DEF Tick, Turn
    <2>. QED  BY <2>1, <2>2, <2>4, <2>5, <2>6
              DEF Next, vars, GuiStep, UserRequest, UserSends, WorkerAnswers, ResultTimesOut
  <1>. QED  BY <1>1, TypeCorrect, PTL DEF Spec, NoRoundAfterAbort

\* An awaiting handler is not killed before its deadline, the extended one.
THEOREM DeadlinesAreKept == Spec => ExtensionsCount
  <1>1. ASSUME TypeOK, [Next]_vars, NEW c \in Callers, call[c].phase = "running",
               call[c].left > 0, Waiting(c)
        PROVE  call'[c].phase # "none"
    <2>0. call \in [Callers -> Call] /\ call[c] \in Call
      BY <1>1 DEF TypeOK
    <2>1. CASE UNCHANGED call
      BY <1>1, <2>1
    <2>2. CASE CallStep(c)
      <3>1. ~HandlerStep(c)
        BY <1>1 DEF HandlerStep, HandlerDone, HandlerAsks, HandlerInterrupts,
           HandlerExtends, HandlerRuns
      <3>2. CASE Expire(c)
        <4>1. call'[c] = Rearmed(call[c])
          BY <1>1, <2>0, <3>2 DEF Expire
        <4>. QED  BY <1>1, <2>0, <4>1 DEF Rearmed, Call
      <3>3. CASE Sigterm(c)
        BY <1>1, <2>0, <3>3 DEF Sigterm, Terminated, Call
      <3>4. CASE Sigkill(c)
        BY <1>1, <3>4 DEF Sigkill
      <3>5. CASE AskTimesOut(c) \/ AskCancelled(c)
        <4>1. \A why : Dropped(call[c], why).phase = call[c].phase
          BY <2>0 DEF Dropped, Call
        <4>. QED  BY <1>1, <2>0, <3>5, <4>1 DEF AskTimesOut, AskCancelled, DropPending
      <3>. QED  BY <2>2, <3>1, <3>2, <3>3, <3>4, <3>5 DEF CallStep, TimerStep
    <2>3. ASSUME NEW d \in Callers, d # c, CallStep(d) PROVE call'[c] = call[c]
      BY <2>0, <2>3 DEF CallStep, HandlerStep, TimerStep, HandlerDone, CallEnds,
         HandlerAsks, HandlerInterrupts, HandlerExtends, Expire, Sigterm, Sigkill,
         AskTimesOut, AskCancelled, DropPending
    <2>4. CASE TakeCommand \/ NextToolCall
      BY <1>1, <2>0, <2>4 DEF TakeCommand, Takes, Busy, NextToolCall, Live, Callers
    <2>5. CASE TakeResult
      BY <1>1, <2>0, <2>5 DEF TakeResult, Delivered, Answered, Call
    <2>6. CASE Tick
      BY <1>1, <2>0, <2>6 DEF Tick, Aged, Call
    <2>. QED  BY <1>1, <2>1, <2>2, <2>3, <2>4, <2>5, <2>6
              DEF Next, vars, GuiStep, UserRequest, UserSends, WorkerAnswers,
              ResultTimesOut, Take, TakeSend, TakeAbort, TurnStep, RoundHead, StreamOpens,
              StreamFails, Retry, StreamEnds, BatchDone, TurnEnds, Goes
  <1>2. TypeOK /\ [Next]_vars =>
            \A c \in Callers :
                call[c].phase = "running" /\ call[c].left > 0 /\ Waiting(c)
                => call'[c].phase # "none"
    BY <1>1
  <1>. QED  BY <1>2, TypeCorrect, PTL DEF Spec, ExtensionsCount
==============================================================================
