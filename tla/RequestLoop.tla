------------------------------ MODULE RequestLoop ------------------------------
(***************************************************************************)
(* The desktop kernel's request loop (src/main.rs), the tool dispatch with *)
(* its watchdog (kernel/agent/dispatch.rs), the bridge to the GUI's compute*)
(* worker (kernel/plugin/compute/mod.rs) and the outline of an agent turn  *)
(* (kernel/agent/rpc/mod.rs start_turn, kernel/agent/loop_mod/mod.rs).     *)
(*                                                                         *)
(* The loop takes one request at a time and awaits its handler.  A turn    *)
(* runs in a task of its own.  Two callers can be inside the dispatch at   *)
(* once: the command the loop is handling and the tool call of the turn.   *)
(* Python runs in the GUI, and its result comes back as one more request.  *)
(*                                                                         *)
(* Time is discrete: every timer holds what is left of it and Tick lets one*)
(* unit pass when no timer is due and nothing immediate is left to do.     *)
(***************************************************************************)
EXTENDS Integers, Sequences, FiniteSets

CONSTANTS
    Entries,       \* the registered commands and tools
    NoEntry,
    Undeclared,    \* ToolDef.timeout is None
    Declared,      \* [Entries -> Nat or Undeclared], ToolDef.timeout
    DefaultTimeout,\* the dispatch's default_tool_timeout
    Budget,        \* turn_budget, of the dispatch and of the agent loop
    Grace,         \* the dispatch's grace period
    ExecTimeout,   \* BridgeCompute.exec_timeout
    AskLimit,      \* [Entries -> Nat], how often its handler runs Python
    Extras,        \* what a handler may ask of DeadlineHandle::extend
    MaxToolCalls,  \* LoopConfig.max_tool_calls
    MaxFailures,   \* LoopConfig.max_consecutive_failures
    MaxBatch,      \* bound: tool calls in one answer of the model
    MaxRequests    \* bound: requests of the user

ASSUME EntryAssumption ==
    /\ NoEntry \notin Entries /\ Undeclared \notin Nat
    /\ Declared \in [Entries -> Nat \cup {Undeclared}]
    /\ AskLimit \in [Entries -> Nat]
ASSUME TimeAssumption ==
    /\ DefaultTimeout \in Nat /\ Budget \in Nat /\ Grace \in Nat
    /\ ExecTimeout \in Nat /\ Extras \subseteq Nat
ASSUME LimitAssumption ==
    /\ MaxToolCalls \in Nat /\ MaxFailures \in Nat
    /\ MaxBatch \in Nat /\ MaxRequests \in Nat

VARIABLES
    queue,    \* the unbounded channel behind kernel_send
    sent,     \* how many requests the user has made
    turn,     \* KernelState.turn and the locals of run_turn
    call,     \* what is inside the dispatch for each caller
    pending,  \* BridgeCompute.pending, the ids
    nextId,   \* BridgeCompute.next_id
    asks,     \* how many ComputeRequest events were emitted
    asked,    \* requests the GUI's worker has not answered
    awaiting  \* results whose compute_result call is not answered yet

vars == <<queue, sent, turn, call, pending, nextId, asks, asked, awaiting>>
bridge == <<pending, nextId, asks, asked, awaiting>>

Callers == {"command", "turn"}

\* id is what travels as compute_id; ask names the request it belongs to.
Ask == [id : Nat, ask : Nat]
Request == [kind : {"send", "abort"}] \cup [kind : {"command"}, entry : Entries]
           \cup [kind : {"result"}, id : Nat, ask : Nat]
Result(a) == [kind |-> "result", id |-> a.id, ask |-> a.ask]

Call == [phase : {"none", "running", "grace"}, entry : Entries \cup {NoEntry},
         age : Nat, left : Nat, watch : Nat, grace : Nat, cancelled : BOOLEAN,
         asking : {"none", "waiting", "answered", "silent", "failed"},
         asks : Nat, id : Nat, ask : Nat, reply : Nat, execLeft : Nat]
NoCall == [phase |-> "none", entry |-> NoEntry,
           age |-> 0, left |-> 0, watch |-> 0, grace |-> 0, cancelled |-> FALSE,
           asking |-> "none",
           asks |-> 0, id |-> 0, ask |-> 0, reply |-> 0, execLeft |-> 0]

TurnStates == {"none", "head", "opening", "retrying", "reopening",
               "streaming", "calling", "ending"}
Codes == {"ok", "timeout", "aborted", "other"}
Turn == [st : TurnStates, cancelled : BOOLEAN, left : Nat, todo : Nat,
         calls : Nat, fails : Nat, code : Codes]
NoTurn == [st |-> "none", cancelled |-> FALSE, left |-> 0, todo |-> 0,
           calls |-> 0, fails |-> 0, code |-> "ok"]

Init ==
    /\ queue = <<>> /\ sent = 0
    /\ turn = NoTurn
    /\ call = [c \in Callers |-> NoCall]
    /\ pending = {} /\ nextId = 1
    /\ asks = 0 /\ asked = {} /\ awaiting = {}

------------------------------------------------------------------------------
(* Dispatch::run *)

Lesser(m, n) == IF m <= n THEN m ELSE n
Down(n) == IF n = 0 THEN 0 ELSE n - 1

TimeoutOf(e) ==
    Lesser(IF Declared[e] = Undeclared THEN DefaultTimeout ELSE Declared[e], Budget)

\* The deadline, the watchdog's copy of it, and a turn_end of its own: age
\* counts from here, so Budget - age is what DeadlineHandle may still give.
Started(e) == [NoCall EXCEPT !.phase = "running", !.entry = e,
                             !.left = TimeoutOf(e), !.watch = TimeoutOf(e)]

Extended(d, extra) == [d EXCEPT !.left = extra]
Interrupted(d) == [d EXCEPT !.cancelled = TRUE]
Rearmed(d) == [d EXCEPT !.watch = d.left]
Terminated(d) == [d EXCEPT !.phase = "grace", !.grace = Grace,
                           !.left = 0, !.watch = 0]
\* What BridgeCompute::run does to its caller: wait, be answered, give up.
Sending(d, id, ask) ==
    [d EXCEPT !.asking = "waiting", !.asks = d.asks + 1, !.id = id, !.ask = ask,
              !.reply = 0, !.execLeft = ExecTimeout]
Answered(d, ask) == [d EXCEPT !.asking = "answered", !.reply = ask, !.execLeft = 0]
Dropped(d, why) == [d EXCEPT !.asking = why, !.execLeft = 0]

Live(c) == call[c].phase # "none"
Waiting(c) == call[c].asking = "waiting"
\* The handler's own code runs only when it is not awaiting the worker.
HandlerRuns(c) == Live(c) /\ ~Waiting(c)

\* How the agent loop takes a result: equal codes in a row are counted.
FailsAfter(t, code) ==
    CASE code = "ok" -> 0
      [] code # "ok" /\ code = t.code -> t.fails + 1
      [] OTHER -> 1
Booked(t, code) ==
    LET fails == FailsAfter(t, code) IN
    [t EXCEPT !.fails = fails,
              !.code = IF code = "ok" THEN t.code ELSE code,
              !.st = IF code # "ok" /\ fails >= MaxFailures THEN "ending" ELSE t.st]

\* The dispatch returns to its caller: the loop replies, the turn goes on.
CallEnds(c, code) ==
    /\ call' = [call EXCEPT ![c] = NoCall]
    /\ turn' = IF c = "turn" THEN Booked(turn, code) ELSE turn

HandlerDone(c) ==
    /\ HandlerRuns(c)
    /\ \E code \in {"ok", "timeout", "other"} : CallEnds(c, code)
    /\ UNCHANGED <<queue, sent, bridge>>

\* Mutant: extend forgets that the budget is running down.
ExtendsPast(c, extra) ==
    /\ HandlerRuns(c) /\ call[c].phase = "running" /\ extra <= Budget
    /\ call' = [call EXCEPT ![c] = Extended(call[c], extra)]
    /\ UNCHANGED <<queue, sent, turn, bridge>>
\* DeadlineHandle::extend when it answers true; nobody reads the deadline any
\* more once the watchdog is in the grace period.
HandlerExtends(c, extra) ==
    /\ HandlerRuns(c) /\ call[c].phase = "running"
    /\ extra <= Budget - call[c].age
    /\ call' = [call EXCEPT ![c] = Extended(call[c], extra)]
    /\ UNCHANGED <<queue, sent, turn, bridge>>

\* TurnControl::interrupt.
HandlerInterrupts(c) ==
    /\ HandlerRuns(c) /\ ~call[c].cancelled
    /\ call' = [call EXCEPT ![c] = Interrupted(call[c])]
    /\ UNCHANGED <<queue, sent, turn, bridge>>

Expire(c) ==
    /\ call[c].phase = "running" /\ call[c].watch = 0
    /\ \/ /\ call[c].left = 0
          /\ CallEnds(c, "timeout")
       \/ /\ call[c].left > 0
          /\ call' = [call EXCEPT ![c] = Rearmed(call[c])]
          /\ UNCHANGED turn
    /\ UNCHANGED <<queue, sent, bridge>>
Sigterm(c) ==
    /\ call[c].phase = "running" /\ call[c].cancelled
    /\ call' = [call EXCEPT ![c] = Terminated(call[c])]
    /\ UNCHANGED <<queue, sent, turn, bridge>>
Sigkill(c) ==
    /\ call[c].phase = "grace" /\ call[c].grace = 0
    /\ CallEnds(c, "aborted")
    /\ UNCHANGED <<queue, sent, bridge>>

------------------------------------------------------------------------------
(* BridgeCompute::run and deliver *)

\* Mutant: every request goes out under the same id.
SameCompute(n) == n
\* next_id.fetch_add.
NextCompute(n) == n + 1

\* A handler runs Python: register the waiter and emit ComputeRequest.
HandlerAsks(c) ==
    /\ HandlerRuns(c) /\ call[c].asking \in {"none", "answered"}
    /\ call[c].asks < AskLimit[call[c].entry]
    /\ call' = [call EXCEPT ![c] = Sending(call[c], nextId, asks + 1)]
    /\ pending' = pending \cup {nextId}
    /\ nextId' = NextCompute(nextId)
    /\ asks' = asks + 1
    /\ asked' = asked \cup {[id |-> nextId, ask |-> asks + 1]}
    /\ UNCHANGED <<queue, sent, turn, awaiting>>

DropPending(c, why) ==
    /\ call' = [call EXCEPT ![c] = Dropped(call[c], why)]
    /\ pending' = pending \ {call[c].id}
    /\ UNCHANGED <<queue, sent, turn, nextId, asks, asked, awaiting>>
AskTimesOut(c) == Waiting(c) /\ call[c].execLeft = 0 /\ DropPending(c, "silent")
AskCancelled(c) == Waiting(c) /\ call[c].cancelled /\ DropPending(c, "failed")

\* The sender that was registered under the id wakes its receiver, if the
\* watchdog has not taken that away.
Delivered(r) ==
    [c \in Callers |->
        IF r.id \in pending /\ Waiting(c) /\ call[c].id = r.id
        THEN Answered(call[c], r.ask)
        ELSE call[c]]

------------------------------------------------------------------------------
(* The GUI *)

UserSends(r) ==
    /\ sent < MaxRequests /\ sent' = sent + 1
    /\ queue' = Append(queue, r)
    /\ UNCHANGED <<turn, call, bridge>>

\* handleComputeRequest: Python has run, the result is called in.
WorkerAnswers(a) ==
    /\ a \in asked /\ asked' = asked \ {a}
    /\ awaiting' = awaiting \cup {a}
    /\ queue' = Append(queue, Result(a))
    /\ UNCHANGED <<sent, turn, call, pending, nextId, asks>>

\* That call was not answered in 20 s, and the catch block calls once more.
ResultTimesOut(a) ==
    /\ a \in awaiting /\ awaiting' = awaiting \ {a}
    /\ queue' = Append(queue, Result(a))
    /\ UNCHANGED <<sent, turn, call, pending, nextId, asks, asked>>

------------------------------------------------------------------------------
(* The request loop: the next request, when the last handler has returned *)

Busy == Live("command")
Takes(kind) ==
    /\ ~Busy /\ queue # <<>> /\ Head(queue).kind = kind
    /\ queue' = Tail(queue)

\* send_user_message: refused when a turn runs, else start_turn spawns one.
TakeSend ==
    /\ Takes("send")
    /\ turn' = IF turn.st = "none"
               THEN [NoTurn EXCEPT !.st = "head", !.left = Budget] ELSE turn
    /\ UNCHANGED <<sent, call, bridge>>

\* trigger_command: awaits the dispatch, unless the entry or its parameters
\* are refused at once.
TakeCommand ==
    /\ Takes("command")
    /\ call' \in {call, [call EXCEPT !["command"] = Started(Head(queue).entry)]}
    /\ UNCHANGED <<sent, turn, bridge>>

\* abort cancels the turn's signal, and nothing else.
TakeAbort ==
    /\ Takes("abort")
    /\ turn' = IF turn.st = "none" THEN turn ELSE [turn EXCEPT !.cancelled = TRUE]
    /\ UNCHANGED <<sent, call, bridge>>

TakeResult ==
    /\ Takes("result")
    /\ call' = Delivered(Head(queue))
    /\ pending' = pending \ {Head(queue).id}
    /\ awaiting' = awaiting \ {[id |-> Head(queue).id, ask |-> Head(queue).ask]}
    /\ UNCHANGED <<sent, turn, nextId, asks, asked>>

Take == TakeSend \/ TakeCommand \/ TakeAbort \/ TakeResult

------------------------------------------------------------------------------
(* A turn: run_turn's loop *)

Goes(from, to) ==
    /\ turn.st = from /\ turn' = [turn EXCEPT !.st = to]
    /\ UNCHANGED <<queue, sent, call, bridge>>

MustStop == turn.cancelled \/ turn.left = 0

RoundHead ==
    \/ MustStop /\ Goes("head", "ending")
    \/ ~MustStop /\ Goes("head", "opening")

\* model.stream: answered, or failed and tried once more after a pause, at
\* the end of which the signal is read again.
StreamOpens == Goes("opening", "streaming") \/ Goes("reopening", "streaming")
StreamFails ==
    \/ Goes("opening", "retrying")
    \/ \E st \in {"opening", "reopening"} : Goes(st, "ending")
Retry ==
    \/ turn.cancelled /\ Goes("retrying", "ending")
    \/ ~turn.cancelled /\ Goes("retrying", "reopening")

\* The stream is over: an error, an abort or an answer without calls ends
\* the turn, else the calls of the answer are executed one by one.
StreamEnds ==
    \/ Goes("streaming", "ending")
    \/ /\ turn.st = "streaming" /\ ~turn.cancelled
       /\ \E n \in 1..MaxBatch :
              turn' = [turn EXCEPT !.st = "calling", !.todo = n]
       /\ UNCHANGED <<queue, sent, call, bridge>>

OneCall(t) == [t EXCEPT !.todo = t.todo - 1, !.calls = t.calls + 1]

\* The next call of the batch: past the limit the turn stops, an unknown
\* tool fails at once, any other call goes through the dispatch.
NextToolCall ==
    /\ turn.st = "calling" /\ ~Live("turn") /\ turn.todo > 0
    /\ LET t == OneCall(turn) IN
       \/ /\ t.calls > MaxToolCalls
          /\ turn' = [t EXCEPT !.st = "ending"] /\ UNCHANGED call
       \/ /\ t.calls <= MaxToolCalls
          /\ turn' = Booked(t, "other") /\ UNCHANGED call
       \/ /\ t.calls <= MaxToolCalls
          /\ \E e \in Entries : call' = [call EXCEPT !["turn"] = Started(e)]
          /\ turn' = t
    /\ UNCHANGED <<queue, sent, bridge>>
BatchDone == turn.todo = 0 /\ ~Live("turn") /\ Goes("calling", "head")

\* Mutant: the handle is cleared only when the turn was not aborted.
KeepsHandle ==
    /\ turn.st = "ending" /\ ~turn.cancelled /\ turn' = NoTurn
    /\ UNCHANGED <<queue, sent, call, bridge>>
\* What is left of start_turn's task, to the clearing of the handle.
TurnEnds ==
    /\ turn.st = "ending" /\ turn' = NoTurn
    /\ UNCHANGED <<queue, sent, call, bridge>>

TurnStep == RoundHead \/ StreamOpens \/ StreamFails \/ Retry \/ StreamEnds
            \/ NextToolCall \/ BatchDone \/ TurnEnds

------------------------------------------------------------------------------
(* Time *)

Due(c) == \/ call[c].phase = "running" /\ (call[c].watch = 0 \/ call[c].cancelled)
          \/ call[c].phase = "grace" /\ call[c].grace = 0
          \/ Waiting(c) /\ (call[c].execLeft = 0 \/ call[c].cancelled)
Immediate == \/ ~Busy /\ queue # <<>>
             \/ turn.st = "head"
             \/ turn.st = "calling" /\ ~Live("turn")
             \/ \E c \in Callers : Due(c)

\* age is capped one above the longest a call can last.
Aged(d) ==
    IF d.phase = "none" THEN d
    ELSE [d EXCEPT !.age = Lesser(d.age + 1, Budget + Grace + 1),
                   !.left = Down(d.left), !.watch = Down(d.watch),
                   !.grace = Down(d.grace), !.execLeft = Down(d.execLeft)]
Tick ==
    /\ ~Immediate
    /\ call' = [c \in Callers |-> Aged(call[c])]
    /\ turn' = [turn EXCEPT !.left = Down(turn.left)]
    /\ UNCHANGED <<queue, sent, bridge>>

------------------------------------------------------------------------------
UserRequest == \/ \E kind \in {"send", "abort"} : UserSends([kind |-> kind])
               \/ \E e \in Entries : UserSends([kind |-> "command", entry |-> e])
GuiStep == \/ UserRequest
           \/ \E a \in asked : WorkerAnswers(a)
           \/ \E a \in awaiting : ResultTimesOut(a)
HandlerStep(c) == \/ HandlerDone(c) \/ HandlerAsks(c) \/ HandlerInterrupts(c)
                  \/ \E extra \in Extras : HandlerExtends(c, extra)
TimerStep(c) == \/ Expire(c) \/ Sigterm(c) \/ Sigkill(c)
                \/ AskTimesOut(c) \/ AskCancelled(c)
CallStep(c) == HandlerStep(c) \/ TimerStep(c)

Next == GuiStep \/ Take \/ (\E c \in Callers : CallStep(c)) \/ TurnStep \/ Tick
Spec == Init /\ [][Next]_vars

\* The runtime polls its timers and the loop, the turn's task is scheduled and
\* the HTTP client ends every stream (300 s).  Nothing is assumed of a handler,
\* of the worker or of the user.
Fairness == /\ WF_vars(Tick) /\ WF_vars(Take) /\ WF_vars(TurnStep)
            /\ \A c \in Callers : WF_vars(TimerStep(c))
FairSpec == Spec /\ Fairness

------------------------------------------------------------------------------
(* Properties *)

TypeOK ==
    /\ queue \in Seq(Request) /\ sent \in Nat
    /\ turn \in Turn /\ call \in [Callers -> Call]
    /\ pending \subseteq Nat /\ nextId \in Nat /\ asks \in Nat
    /\ asked \subseteq Ask /\ awaiting \subseteq Ask

\* However its handler extends the deadline and whenever it is interrupted, a
\* call is out of the dispatch a grace period after its budget at the latest
\* (dispatch.rs DeadlineHandle::extend, run).
CallsEndInBudget == \A c \in Callers : call[c].age <= Budget + Grace

\* A handler that goes on with a result goes on with the result of the code it
\* sent last, although results of calls that were timed out, cancelled or
\* aborted come in late and some come in twice (compute/mod.rs deliver).
ReplyIsOwn == \A c \in Callers :
    call[c].asking = "answered" => call[c].reply = call[c].ask

\* A handler that waits for the worker can still be answered: nobody else's
\* timeout, cancellation or late result has removed its sender.
WaitersAreReachable == \A c \in Callers : Waiting(c) => call[c].id \in pending

\* The bridge between handlers and worker: results and timeouts of one call
\* reach neither the handler nor the place of another.
BridgeIsSound == ReplyIsOwn /\ WaitersAreReachable

\* Once the loop has handled an abort, the turn asks the model nothing more:
\* it may finish its batch of calls but opens no other round (run_turn).
NoRoundAfterAbort ==
    [][turn.cancelled /\ turn'.st \in {"opening", "reopening"}
        => turn'.st = turn.st]_vars

\* A handler whose deadline, extended or not, lies ahead and that is awaiting
\* the worker is not killed: the watchdog looks at the deadline once more when
\* its own copy has run out (dispatch.rs run).
ExtensionsCount ==
    [][\A c \in Callers :
        call[c].phase = "running" /\ call[c].left > 0 /\ Waiting(c)
        => call'[c].phase # "none"]_vars

\* Whatever a handler does, the command the loop awaits comes to an end and
\* the loop takes requests again.
CommandsEnd == Busy ~> ~Busy

\* Every turn ends and gives its handle back, or every later message of the
\* user would be refused as turn_in_progress.
TurnsEnd == turn.st # "none" ~> turn.st = "none"

\* The loop and the turn's handle, of which there is one each, always come back.
LoopComesBack == CommandsEnd /\ TurnsEnd

==============================================================================
