----------------------------- MODULE SessionKernel -----------------------------
(***************************************************************************)
(* Sessions of the desktop kernel while turns run: the requests that       *)
(* create, open, rename, delete, edit and switch (kernel/agent/rpc), the   *)
(* scheduler (kernel/agent/session), the end of a turn (rpc/mod.rs         *)
(* start_turn, loop_mod/mod.rs) and the message trees of the store         *)
(* (kernel/plugin/storage).                                                *)
(*                                                                         *)
(* Three kinds of actors share the store: the request loop, which takes    *)
(* one request at a time, the task of the turn, and one task per title.    *)
(* An operation of the store is atomic in memory.  Its write to the disk   *)
(* comes after it, so an operation that fails has already happened: f is   *)
(* the number of the first failing write of a handler, if there is one.    *)
(* Requests that run only between turns are one action: title tasks, all   *)
(* that is left beside them, touch nothing but titles.                     *)
(***************************************************************************)
EXTENDS Integers, Sequences, FiniteSets

CONSTANTS
    Keys,       \* session keys, each used for one session only
    NoKey,
    Backend,    \* which storage AnyStorage routes to: "file" or "memory"
    ReplyKinds, \* kinds of message the model can complete
    KeepLast,   \* compaction_keep_last
    MaxId,      \* bound: messages ever created
    MaxReply,   \* bound: messages of one turn
    MaxFaults   \* bound: writes to the disk that fail

ASSUME KeyAssumption == NoKey \notin Keys
ASSUME BackendAssumption == Backend \in {"file", "memory"}
ASSUME KindAssumption == ReplyKinds \subseteq {"assistant", "tool"}
ASSUME BoundAssumption ==
    KeepLast \in Nat \ {0} /\ MaxId \in Nat /\ MaxReply \in Nat /\ MaxFaults \in Nat

VARIABLES
    meta,    \* Inner.sessions: status, title and active_path of each key
    msgs,    \* Inner.messages: every branch, in the order of creation
    nextId,  \* MessageId::new, fresh for ever
    turn,    \* KernelState.turn and the locals of its task
    edit,    \* the edit_message request in progress
    titling, \* [Keys -> title tasks by phase]
    faults   \* writes that failed

vars == <<meta, msgs, nextId, turn, edit, titling, faults>>

None == 0
Ids == 1..MaxId
Kinds == {"user", "system", "assistant", "tool"}
Message == [id : Ids, parent : Ids \cup {None}, kind : Kinds]
Statuses == {"unborn", "active", "archived", "gone"}
Meta == [status : Statuses, title : {"none", "user", "model"}, path : Ids \cup {None}]
TitleTasks == [check : Nat, ask : Nat, write : Nat]

NoSummary == [id |-> None, parent |-> None, kind |-> "system"]
NoTurn == [st |-> "none", key |-> NoKey, base |-> <<>>, new |-> <<>>, out |-> <<>>,
           summary |-> NoSummary, tailStart |-> None, tailEnd |-> None, last |-> None]
NoEdit == [st |-> "none", key |-> NoKey, of |-> None, parent |-> None, path |-> <<>>]

Live(k) == meta[k].status \in {"active", "archived"}
Actives == {k \in Keys : meta[k].status = "active"}
Unborn == {k \in Keys : meta[k].status = "unborn"}
IdsOf(s) == {s[i].id : i \in DOMAIN s}
\* HashMap::from_iter keeps the last message of an id.
ById(s, id) == s[CHOOSE i \in DOMAIN s : s[i].id = id /\ \A j \in DOMAIN s : s[j].id = id => j <= i]

\* From the end of the path up its parents, until one is None or missing.
Chain(s, end) ==
    IF end \notin IdsOf(s) THEN s
    ELSE LET up[n \in 0..Len(s)] ==
                 IF n = 0 THEN <<ById(s, end)>>
                 ELSE LET top == Head(up[n - 1])
                      IN  IF top.parent \in IdsOf(s)
                            THEN <<ById(s, top.parent)>> \o up[n - 1]
                            ELSE up[n - 1]
         IN  up[Len(s)]
ReadPath(k) == Chain(msgs[k], meta[k].path)
LastId(s) == IF s = <<>> THEN None ELSE s[Len(s)].id
LastN(s, n) == IF Len(s) <= n THEN s ELSE SubSeq(s, Len(s) - n + 1, Len(s))

------------------------------------------------------------------------------
(* The store.  Each operation gives the new value of what it changes. *)

Appended(k, m) == [msgs EXCEPT ![k] = Append(msgs[k], m)]
WithPath(k, id) == [meta EXCEPT ![k].path = id]
WithTitle(k, t) == [meta EXCEPT ![k].title = t]
NewMeta == [status |-> "active", title |-> "none", path |-> None]
Removed(k) == [meta EXCEPT ![k] = [NewMeta EXCEPT !.status = "gone"]]

SplicedTruncating(s, summary, tailStart) ==
    IF tailStart \notin IdsOf(s) THEN s
    ELSE LET from == CHOOSE i \in DOMAIN s : s[i].id = tailStart
         IN  Append([SubSeq(s, from, Len(s)) EXCEPT ![1].parent = summary.id], summary)
Spliced(s, summary, tailStart) ==
    IF tailStart \notin IdsOf(s) THEN s
    ELSE Append([i \in DOMAIN s |->
                    IF s[i].id = tailStart THEN [s[i] EXCEPT !.parent = summary.id] ELSE s[i]],
                summary)

\* f > n: none of the handler's n writes failed.  f <= n: the f-th one did,
\* after the operation it belongs to had changed the memory.
MayFail == Backend = "file" /\ faults < MaxFaults
Writes(n, f) ==
    /\ f <= n => MayFail
    /\ faults' = IF f <= n THEN faults + 1 ELSE faults

------------------------------------------------------------------------------
(* Requests *)

IdleWhileRunning == edit.st = "none"
Idle == turn.st = "none" /\ edit.st = "none"

StartTurn(k, path) ==
    turn' = [NoTurn EXCEPT !.st = "run", !.key = k, !.base = path]

\* The active session, or a first one if there is none.
SendTargets == IF Actives # {} THEN Actives ELSE Unborn

\* on_new_message: the activity, the message under the end of the path, the path.
OnNewMessage(k, f) ==
    LET was == IF k \in Actives THEN meta ELSE [meta EXCEPT ![k] = NewMeta]
        m == [id |-> nextId, parent |-> LastId(Chain(msgs[k], was[k].path)), kind |-> "user"]
    IN  /\ Writes(3, f)
        /\ meta' = IF f >= 3 THEN [was EXCEPT ![k].path = nextId] ELSE was
        /\ msgs' = IF f >= 2 THEN Appended(k, m) ELSE msgs
        /\ nextId' = nextId + 1

Send ==
    /\ Idle /\ nextId <= MaxId
    /\ \E k \in SendTargets, f \in 1..4 :
         /\ OnNewMessage(k, f)
         /\ IF f > 3 THEN StartTurn(k, Chain(msgs'[k], nextId)) ELSE UNCHANGED turn
    /\ UNCHANGED <<edit, titling>>

Archived(m) ==
    [k \in Keys |-> IF m[k].status = "active" THEN [m[k] EXCEPT !.status = "archived"] ELSE m[k]]

\* create_new_session: archive, create, and attach the summary of the old session.
CreateNewSession(new, carry) ==
    /\ new \in Unborn
    /\ carry => \E k \in Actives : msgs[k] # <<>>
    /\ carry => nextId <= MaxId
    /\ \E f \in 1..5 :
         LET n == Cardinality(Actives)
             made == [Archived(meta) EXCEPT ![new] = NewMeta]
             m == [id |-> nextId, parent |-> None, kind |-> "system"]
         IN  /\ Writes(n + (IF carry THEN 3 ELSE 1), f)
             /\ meta' = IF f <= n THEN Archived(meta)
                        ELSE IF carry /\ f >= n + 3 THEN [made EXCEPT ![new].path = nextId]
                        ELSE made
             /\ msgs' = IF carry /\ f >= n + 2 THEN Appended(new, m) ELSE msgs
    /\ nextId' = IF carry THEN nextId + 1 ELSE nextId

Create(new, carry) ==
    /\ Idle
    /\ CreateNewSession(new, carry)
    /\ UNCHANGED <<turn, edit, titling>>

ActivateOnly(k) ==
    /\ meta' = [meta EXCEPT ![k].status = "active"]
    /\ \E f \in 1..2 : Writes(1, f)
OpenExisting(k) ==
    \E f \in 1..3 :
      LET n == Cardinality(Actives) IN
      /\ Writes(n + 1, f)
      /\ meta' = IF f <= n THEN Archived(meta)
                 ELSE [Archived(meta) EXCEPT ![k].status = "active"]

Open(k) ==
    /\ Idle /\ Live(k)
    /\ OpenExisting(k)
    /\ UNCHANGED <<msgs, nextId, turn, edit, titling>>

\* The user types a name, or clears it.
Rename(k, t) ==
    /\ edit.st = "none" /\ Live(k) /\ t \in {"none", "user"}
    /\ meta' = WithTitle(k, t)
    /\ \E f \in 1..2 : Writes(1, f)
    /\ UNCHANGED <<msgs, nextId, turn, edit, titling>>

\* Deleting the active session makes an empty one in its place.
Delete(k) ==
    /\ Idle /\ Live(k)
    /\ \E f \in 1..3 :
         IF k \in Actives
           THEN \E new \in Unborn :
                  /\ Writes(2, f)
                  /\ meta' = IF f = 1 THEN Removed(k) ELSE [Removed(k) EXCEPT ![new] = NewMeta]
           ELSE /\ Writes(1, f)
                /\ meta' = Removed(k)
    /\ msgs' = [msgs EXCEPT ![k] = <<>>]
    /\ UNCHANGED <<nextId, turn, edit, titling>>

\* edit_message does not look at the turn before it derives the branch.
EditRead(k, id) ==
    /\ edit.st = "none" /\ k \in Actives
    /\ LET path == ReadPath(k) IN \E i \in DOMAIN path :
         /\ path[i].id = id /\ path[i].kind = "user"
         /\ edit' = [st |-> "derive", key |-> k, of |-> id, parent |-> path[i].parent,
                     path |-> SubSeq(path, 1, i - 1)]
    /\ UNCHANGED <<meta, msgs, nextId, turn, titling, faults>>

EditDerive ==
    /\ edit.st = "derive" /\ nextId <= MaxId
    /\ LET m == [id |-> nextId, parent |-> edit.parent, kind |-> "user"] IN
       /\ msgs' = Appended(edit.key, m)
       /\ meta' = WithPath(edit.key, nextId)
       /\ \E f \in 1..2 :
            /\ Writes(1, f)
            /\ edit' = IF f = 1 THEN NoEdit
                       ELSE [edit EXCEPT !.st = "start", !.path = Append(edit.path, m)]
    /\ nextId' = nextId + 1
    /\ UNCHANGED <<turn, titling>>

\* start_turn looks at the turn under the lock: it starts one, or refuses.
EditStart ==
    /\ edit.st = "start"
    /\ IF turn.st = "none" THEN StartTurn(edit.key, edit.path) ELSE UNCHANGED turn
    /\ edit' = NoEdit
    /\ UNCHANGED <<meta, msgs, nextId, titling, faults>>

\* switch_branch does not look at the turn at all.
Switch(k, id) ==
    /\ edit.st = "none" /\ k \in Actives /\ id \in IdsOf(msgs[k])
    /\ meta' = WithPath(k, id)
    /\ \E f \in 1..2 : Writes(1, f)
    /\ UNCHANGED <<msgs, nextId, turn, edit, titling>>

------------------------------------------------------------------------------
(* The task of the turn *)

Conversation == turn.base \o turn.new

\* One more item of the answer is complete: append_to_path.
Bubble(kind) ==
    /\ turn.st = "run" /\ nextId <= MaxId /\ Len(turn.new) < MaxReply
    /\ turn' = [turn EXCEPT !.new = Append(turn.new,
                  [id |-> nextId, parent |-> LastId(Conversation), kind |-> kind])]
    /\ nextId' = nextId + 1
    /\ UNCHANGED <<meta, msgs, edit, titling, faults>>

\* A natural end, a limit, an abort, or a systemic error: Ok(TurnOutcome).
EndRun ==
    /\ turn.st = "run"
    /\ turn' = [turn EXCEPT !.st = "persist", !.out = turn.new]
    /\ UNCHANGED <<meta, msgs, nextId, edit, titling, faults>>

\* maybe_compact: all but the last KeepLast messages become one summary.
EndCompacted ==
    /\ turn.st = "run" /\ nextId <= MaxId /\ Len(Conversation) >= KeepLast
    /\ LET tail == LastN(Conversation, KeepLast)
           summary == [id |-> nextId, parent |-> None, kind |-> "system"]
           kept == LastN(turn.new, KeepLast)   \* the rest of turn.new is not persisted
           first == tail[1].id
       IN  /\ turn' = [turn EXCEPT !.st = "persist", !.summary = summary,
                          !.tailStart = first, !.tailEnd = LastId(tail),
                          !.out = <<summary>> \o [i \in DOMAIN kept |->
                              IF kept[i].id = first THEN [kept[i] EXCEPT !.parent = nextId]
                                                    ELSE kept[i]]]
    /\ nextId' = nextId + 1
    /\ UNCHANGED <<meta, msgs, edit, titling, faults>>

\* Any other model error: Err(LoopError), nothing is persisted.
FailRun ==
    /\ turn.st = "run"
    /\ turn' = [turn EXCEPT !.st = "clear"]
    /\ UNCHANGED <<meta, msgs, nextId, edit, titling, faults>>

\* persist_turn_messages, one append at a time; a failure ends it.  The
\* summary is left to splice_compaction.
NeverSkip(m) == FALSE
Skip(m) == m.id = turn.summary.id

PersistSkip ==
    /\ turn.st = "persist" /\ turn.out # <<>> /\ Skip(Head(turn.out))
    /\ turn' = [turn EXCEPT !.out = Tail(turn.out)]
    /\ UNCHANGED <<meta, msgs, nextId, edit, titling, faults>>

Persist ==
    /\ turn.st = "persist" /\ turn.out # <<>> /\ ~Skip(Head(turn.out))
    /\ msgs' = Appended(turn.key, Head(turn.out))
    /\ \E f \in 1..2 :
         /\ Writes(1, f)
         /\ turn' = IF f = 1 THEN [turn EXCEPT !.out = <<>>, !.last = None]
                    ELSE [turn EXCEPT !.out = Tail(turn.out), !.last = Head(turn.out).id]
    /\ UNCHANGED <<meta, nextId, edit, titling>>

Persisted ==
    /\ turn.st = "persist" /\ turn.out = <<>>
    /\ turn' = [turn EXCEPT !.st = IF turn.summary = NoSummary THEN "path" ELSE "splice"]
    /\ UNCHANGED <<meta, msgs, nextId, edit, titling, faults>>

Splice ==
    /\ turn.st = "splice"
    /\ msgs' = [msgs EXCEPT ![turn.key] = Spliced(msgs[turn.key], turn.summary, turn.tailStart)]
    /\ \E f \in 1..2 : Writes(1, f)
    /\ turn' = [turn EXCEPT !.st = "path"]
    /\ UNCHANGED <<meta, nextId, edit, titling>>

SummaryActive == IF turn.summary # NoSummary THEN turn.summary.id ELSE turn.last
NextActive == IF turn.summary # NoSummary THEN turn.tailEnd ELSE turn.last

SetPath ==
    /\ turn.st = "path"
    /\ IF NextActive = None
         THEN UNCHANGED <<meta, faults>>
         ELSE meta' = WithPath(turn.key, NextActive) /\ \E f \in 1..2 : Writes(1, f)
    /\ turn' = [turn EXCEPT !.st = "emit"]
    /\ UNCHANGED <<msgs, nextId, edit, titling>>

\* TurnEnd goes out and the title gets a task of its own.
Emit ==
    /\ turn.st = "emit"
    /\ titling' = [titling EXCEPT ![turn.key].check = titling[turn.key].check + 1]
    /\ turn' = [turn EXCEPT !.st = "clear"]
    /\ UNCHANGED <<meta, msgs, nextId, edit, faults>>

Clear ==
    /\ turn.st = "clear"
    /\ turn' = NoTurn
    /\ UNCHANGED <<meta, msgs, nextId, edit, titling, faults>>

------------------------------------------------------------------------------
(* Title tasks: maybe_generate_title *)

HasKind(k, kind) == \E i \in DOMAIN msgs[k] : msgs[k][i].kind = kind
NeedsTitle(k) ==
    Live(k) /\ meta[k].title = "none" /\ HasKind(k, "user") /\ HasKind(k, "assistant")

TitleCheck(k) ==
    /\ titling[k].check > 0
    /\ titling' = [titling EXCEPT ![k].check = titling[k].check - 1,
                                  ![k].ask = titling[k].ask + (IF NeedsTitle(k) THEN 1 ELSE 0)]
    /\ UNCHANGED <<meta, msgs, nextId, turn, edit, faults>>

\* The titler has answered or given up; the task looks at the title again.
\* A session that is gone passes the test and fails at the write.
TitledOnly(k) == Live(k) /\ meta[k].title # "none"
Untitled(k) == ~Live(k) \/ meta[k].title = "none"

TitleRecheck(k) ==
    /\ titling[k].ask > 0
    /\ titling' = [titling EXCEPT ![k].ask = titling[k].ask - 1,
                                  ![k].write = titling[k].write + (IF Untitled(k) THEN 1 ELSE 0)]
    /\ UNCHANGED <<meta, msgs, nextId, turn, edit, faults>>

TitleWrite(k) ==
    /\ titling[k].write > 0
    /\ titling' = [titling EXCEPT ![k].write = titling[k].write - 1]
    /\ IF Live(k) THEN meta' = WithTitle(k, "model") /\ \E f \in 1..2 : Writes(1, f)
                  ELSE UNCHANGED <<meta, faults>>
    /\ UNCHANGED <<msgs, nextId, turn, edit>>

------------------------------------------------------------------------------
Init ==
    /\ meta = [k \in Keys |-> [status |-> "unborn", title |-> "none", path |-> None]]
    /\ msgs = [k \in Keys |-> <<>>]
    /\ nextId = 1 /\ turn = NoTurn /\ edit = NoEdit
    /\ titling = [k \in Keys |-> [check |-> 0, ask |-> 0, write |-> 0]]
    /\ faults = 0

Requests ==
    \/ Send
    \/ \E k \in Keys : Open(k) \/ Delete(k)
    \/ \E k \in Keys, carry \in BOOLEAN : Create(k, carry)
    \/ \E k \in Keys, t \in {"none", "user"} : Rename(k, t)
    \/ \E k \in Keys, id \in Ids : EditRead(k, id) \/ Switch(k, id)
EditSteps == EditDerive \/ EditStart
Answer == EndRun \/ EndCompacted \/ FailRun
TurnSteps == PersistSkip \/ Persist \/ Persisted \/ Splice \/ SetPath \/ Emit \/ Clear
TitleSteps(k) == TitleCheck(k) \/ TitleRecheck(k) \/ TitleWrite(k)

Next ==
    \/ Requests \/ EditSteps
    \/ \E kind \in ReplyKinds : Bubble(kind)
    \/ Answer \/ TurnSteps
    \/ \E k \in Keys : TitleSteps(k)

Spec == Init /\ [][Next]_vars

\* Tasks are scheduled, and the model ends its answer (TurnsEnd of RequestLoop).
\* That a titler ever answers is not assumed.
TurnFairness == WF_vars(Answer) /\ WF_vars(TurnSteps)
TitleFairness == \A k \in Keys : WF_vars(TitleCheck(k)) /\ WF_vars(TitleWrite(k))
FairSpec == Spec /\ TurnFairness /\ TitleFairness

------------------------------------------------------------------------------
(* Properties *)

\* The values the variables take.
TypeOK ==
    /\ meta \in [Keys -> Meta] /\ msgs \in [Keys -> Seq(Message)]
    /\ nextId \in 1..(MaxId + 1)
    /\ turn.st \in {"none", "run", "persist", "splice", "path", "emit", "clear"}
    /\ turn.key \in Keys \cup {NoKey} /\ (turn.st = "none") = (turn.key = NoKey)
    /\ turn.base \in Seq(Message) /\ turn.new \in Seq(Message) /\ turn.out \in Seq(Message)
    /\ turn.summary \in Message \cup {NoSummary}
    /\ {turn.tailStart, turn.tailEnd, turn.last} \subseteq Ids \cup {None}
    /\ edit.st \in {"none", "derive", "start"} /\ edit.key \in Keys \cup {NoKey}
    /\ titling \in [Keys -> TitleTasks]
    /\ faults \in 0..MaxFaults

\* At most one session is active, whatever request fails half way
\* (scheduler.rs archive_all_active is the only thing that ensures it).
OneActive == \A j, k \in Actives : j = k

\* The session a turn writes to is the active one until the turn is over:
\* none of the requests that are allowed meanwhile takes it away.
TurnInActive == turn.st # "none" => turn.key \in Actives

\* A message is in its session once: a turn's end, its compaction and the
\* requests beside it never store one twice (persist_turn_messages skips the
\* summary that splice_compaction stores).
StoredOnce == \A k \in Keys : Cardinality(IdsOf(msgs[k])) = Len(msgs[k])

\* A parent is in the store, except for the first kept message of a compaction
\* between its append and the splice: active_chain then stops short of nothing
\* that was there, unless a write has failed.
Dangling(k) == {i \in DOMAIN msgs[k] : msgs[k][i].parent \notin IdsOf(msgs[k]) \cup {None}}
LinksHold ==
    faults = 0 => \A k \in Keys : \A i \in Dangling(k) :
        /\ k = turn.key /\ turn.st \in {"persist", "splice"}
        /\ msgs[k][i].id = turn.tailStart /\ msgs[k][i].parent = turn.summary.id

\* The active path is a stored message (else active_chain falls back to every
\* message of every branch), unless a write has failed.
PathIsStored ==
    faults = 0 => \A k \in Actives :
        IF meta[k].path = None THEN msgs[k] = <<>> ELSE meta[k].path \in IdsOf(msgs[k])

\* The messages of a session are a tree in the file and the active path a
\* place in it, through edits, turns and compactions that interleave.
TreeIsSound == TypeOK /\ StoredOnce /\ LinksHold /\ PathIsStored

\* When a turn has moved the active path to its end, the chain the GUI reads
\* back is the conversation the loop ended with, compacted or not, whatever
\* was edited or switched while it ran (rpc/mod.rs: a chain read after
\* TurnEnd does not lose the new messages).  Except for a branch that was
\* read before another turn's compaction and answered after it: its
\* conversation is the old one, and the chain begins at the summary.
Ended == IF turn.summary = NoSummary THEN Conversation
         ELSE <<turn.summary>> \o LastN(Conversation, KeepLast)
IdSeq(s) == [i \in DOMAIN s |-> s[i].id]
CutShort(chain, s) ==
    /\ Len(chain) > 1 /\ chain[1].kind = "system" /\ chain[1].id \notin IdsOf(s)
    /\ \E i \in DOMAIN s : IdSeq(Tail(chain)) = IdSeq(SubSeq(s, i, Len(s)))
PathFollowsTurn ==
    [][(turn.st = "path" /\ turn'.st = "emit" /\ NextActive # None /\ faults' = 0)
         => \E chain \in {Chain(msgs[turn.key], meta'[turn.key].path)} :
               /\ IdSeq(chain) = IdSeq(Ended) \/ CutShort(chain, Ended)
               /\ UNCHANGED msgs]_vars

\* Nothing the store holds of a living session is lost or rewritten: messages
\* are added at the end, and only a compaction gives one a new parent, the
\* summary it adds (ADR-0007: the history is a tree and never truncated).
HistoryGrows ==
    [][\A k \in Keys : Live(k) /\ Live(k)' =>
         /\ Len(msgs[k]) <= Len(msgs'[k])
         /\ \A i \in DOMAIN msgs[k] :
              \/ msgs'[k][i] = msgs[k][i]
              \/ /\ turn.st = "splice" /\ msgs'[k][i].id = turn.tailStart
                 /\ msgs'[k][i] = [msgs[k][i] EXCEPT !.parent = LastId(msgs'[k])]]_vars

\* A turn is over even if the titler never answers: a title is not on the way
\* to the turn handle (rpc/mod.rs: it must not hold up its release).
TurnReleased == (turn.st # "none") ~> (turn.st = "none")

\* If the titler answers, a session that had its first answered turn gets a
\* title, or the user gives it one, or it is deleted.
TitleArrives == \A k \in Keys :
    WF_vars(TitleRecheck(k)) =>
        ((turn.st = "emit" /\ turn.key = k /\ NeedsTitle(k))
            ~> (meta[k].title # "none" \/ ~Live(k)))

\* The turn hands over to the titler and neither waits for the other.
TailEnds == TurnReleased /\ TitleArrives
==============================================================================
