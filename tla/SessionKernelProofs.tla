-------------------------- MODULE SessionKernelProofs --------------------------
(***************************************************************************)
(* At most one session is active, and a turn always writes to it, for any  *)
(* number of sessions, messages and failing writes.  Of the values of the  *)
(* other fields the proof needs nothing: Shape only says which fields the  *)
(* records have, so that EXCEPT leaves the rest of a record alone.         *)
(*                                                                         *)
(* The history of a session only grows: what the store holds is lost to no *)
(* request, turn, branch or compaction.  Of a message that proof needs     *)
(* only that it has its fields: the ids and the parents may be anything,   *)
(* so that nothing has to be known of the chains they are taken from.      *)
(*                                                                         *)
(* The messages of a session are a tree and its active path a place in it. *)
(* A request finds the parent of its message by climbing a chain, and a    *)
(* turn stores what it has made later, one message at a time and after     *)
(* edits and switches of the path: so the invariant of the second half     *)
(* follows the messages of a turn from the answer over the list of what is *)
(* left to be stored to the splice, and says of each what it hangs on.     *)
(* The chain is a recursive function over the length of the log.  That it  *)
(* exists, and what it ends in, is shown by the least number of steps at   *)
(* which it would not.                                                     *)
(*                                                                         *)
(* The last part says which chain it is: a turn leaves the active path on  *)
(* the conversation it ended with.  What is followed there is how each     *)
(* message of a conversation hangs in the log, from the request that read  *)
(* or branched it to the end of its turn, past the summaries that others   *)
(* splice in.                                                              *)
(***************************************************************************)
EXTENDS SessionKernel, SequenceTheorems, WellFoundedInduction, FiniteSetTheorems, TLAPS

Shape ==
    /\ DOMAIN meta = Keys
    /\ \A k \in Keys : {"status", "title", "path"} \subseteq DOMAIN meta[k]
    /\ {"st", "key"} \subseteq DOMAIN turn
    /\ {"st", "key"} \subseteq DOMAIN edit

\* A request that has derived a branch starts its turn in the active session:
\* the request loop takes no other request in between.
EditInActive == edit.st # "none" => edit.key \in Actives

Inv == Shape /\ OneActive /\ TurnInActive /\ EditInActive

\* What most steps do to the sessions: no status changes.
SameStatus ==
    /\ DOMAIN meta' = Keys
    /\ \A k \in Keys : /\ {"status", "title", "path"} \subseteq DOMAIN meta'[k]
                       /\ meta'[k].status = meta[k].status
LEMMA PathKeepsStatus ==
    ASSUME Shape, NEW k \in Keys, NEW id, meta' = WithPath(k, id)
    PROVE  SameStatus
  BY DEF Shape, SameStatus, WithPath

LEMMA TitleKeepsStatus ==
    ASSUME Shape, NEW k \in Keys, NEW t, meta' = WithTitle(k, t)
    PROVE  SameStatus
  BY DEF Shape, SameStatus, WithTitle

LEMMA NothingKeepsStatus ==
    ASSUME Shape, UNCHANGED meta
    PROVE  SameStatus
  BY DEF Shape, SameStatus

LEMMA SameActives ==
    ASSUME SameStatus
    PROVE  Actives' = Actives
  BY DEF SameStatus, Actives

\* Archiving leaves no session active, and every record its fields.
LEMMA ArchivedHasNone ==
    ASSUME Shape
    PROVE  /\ DOMAIN Archived(meta) = Keys
           /\ \A k \in Keys : /\ Archived(meta)[k].status # "active"
                              /\ {"status", "title", "path"} \subseteq DOMAIN Archived(meta)[k]
  BY DEF Shape, Archived

\* With the same sessions active, the invariant depends on the requests and
\* the turn alone.
LEMMA InvAfterSameStatus ==
    ASSUME Inv, SameStatus,
           {"st", "key"} \subseteq DOMAIN turn', {"st", "key"} \subseteq DOMAIN edit',
           turn'.st # "none" => turn'.key \in Actives,
           edit'.st # "none" => edit'.key \in Actives
    PROVE  Inv'
  <1>1. Actives' = Actives
    BY SameActives
  <1>2. Shape'
    BY DEF Shape, SameStatus
  <1>. QED  BY <1>1, <1>2 DEF Inv, OneActive, TurnInActive, EditInActive

\* Between turns and requests there is nothing to keep but the one session.
LEMMA InvWhenIdle ==
    ASSUME Inv, Idle, UNCHANGED <<turn, edit>>, OneActive', DOMAIN meta' = Keys,
           \A j \in Keys : {"status", "title", "path"} \subseteq DOMAIN meta'[j]
    PROVE  Inv'
  BY DEF Inv, Idle, Shape, TurnInActive, EditInActive

LEMMA NewMetaFields == {"status", "title", "path"} \subseteq DOMAIN NewMeta /\ NewMeta.status = "active"
  BY DEF NewMeta

------------------------------------------------------------------------------
(* Requests *)

LEMMA SendSafe ==
    ASSUME Inv, Send
    PROVE  Inv'
  <1>. Idle /\ UNCHANGED edit
    BY DEF Send
  <1>1. PICK k \in SendTargets, f \in 1..4 :
            /\ OnNewMessage(k, f)
            /\ IF f > 3 THEN StartTurn(k, Chain(msgs'[k], nextId)) ELSE UNCHANGED turn
    BY DEF Send
  <1>2. k \in Keys /\ (k \in Actives \/ Actives = {})
    BY DEF SendTargets, Actives, Unborn
  <1>. DEFINE was == IF k \in Actives THEN meta ELSE [meta EXCEPT ![k] = NewMeta]
  <1>3. /\ DOMAIN was = Keys /\ was[k].status = "active"
        /\ \A j \in Keys : {"status", "title", "path"} \subseteq DOMAIN was[j]
        /\ \A j \in Keys \ {k} : was[j] = meta[j]
    BY <1>2, NewMetaFields DEF Inv, Shape, Actives
  <1>4. \A j \in Keys \ {k} : meta[j].status # "active"
    BY <1>2 DEF Inv, OneActive, Actives
  <1>5. meta' = [was EXCEPT ![k].path = nextId] \/ meta' = was
    BY <1>1 DEF OnNewMessage
  <1>6. /\ DOMAIN meta' = Keys /\ meta'[k].status = "active"
        /\ \A j \in Keys : {"status", "title", "path"} \subseteq DOMAIN meta'[j]
        /\ \A j \in Keys \ {k} : meta'[j].status # "active"
    <2>. HIDE DEF was
    <2>1. CASE meta' = was
      BY <2>1, <1>3, <1>4
    <2>2. CASE meta' = [was EXCEPT ![k].path = nextId]
      <3>1. /\ DOMAIN meta' = Keys /\ meta'[k].status = "active"
            /\ {"status", "title", "path"} \subseteq DOMAIN meta'[k]
        BY <2>2, <1>2, <1>3
      <3>2. \A j \in Keys \ {k} : meta'[j] = was[j]
        BY <2>2, <1>2, <1>3
      <3>. QED  BY <3>1, <3>2, <1>3, <1>4
    <2>. QED  BY <1>5, <2>1, <2>2
  <1>7. Actives' = {k}
    BY <1>6, <1>2 DEF Actives
  <1>8. /\ {"st", "key"} \subseteq DOMAIN turn'
        /\ turn'.st # "none" => turn'.key = k
    <2>1. CASE f > 3
      BY <2>1, <1>1 DEF StartTurn, NoTurn
    <2>2. CASE ~(f > 3)
      BY <2>2, <1>1 DEF Idle, Inv, Shape
    <2>. QED  BY <2>1, <2>2
  <1>. QED  BY <1>6, <1>7, <1>8 DEF Inv, Shape, OneActive, TurnInActive, EditInActive, Idle

LEMMA CreateSafe ==
    ASSUME Inv, NEW new \in Keys, NEW carry \in BOOLEAN, Create(new, carry)
    PROVE  Inv'
  <1>. Idle /\ UNCHANGED <<turn, edit>> /\ CreateNewSession(new, carry)
    BY DEF Create
  <1>. DEFINE made == [Archived(meta) EXCEPT ![new] = NewMeta]
  <1>1. /\ DOMAIN made = Keys
        /\ \A j \in Keys : {"status", "title", "path"} \subseteq DOMAIN made[j]
        /\ \A j \in Keys \ {new} : made[j].status # "active"
    BY ArchivedHasNone, NewMetaFields DEF Inv
  <1>2. \/ meta' = Archived(meta) \/ meta' = made
        \/ meta' = [made EXCEPT ![new].path = nextId]
    BY DEF CreateNewSession
  <1>3. /\ DOMAIN meta' = Keys
        /\ \A j \in Keys : {"status", "title", "path"} \subseteq DOMAIN meta'[j]
        /\ \A j \in Keys \ {new} : meta'[j].status # "active"
    <2>. HIDE DEF made
    <2>1. CASE meta' = Archived(meta)
      BY <2>1, ArchivedHasNone DEF Inv
    <2>2. CASE meta' = made
      BY <2>2, <1>1
    <2>3. CASE meta' = [made EXCEPT ![new].path = nextId]
      <3>1. /\ DOMAIN meta' = Keys
            /\ {"status", "title", "path"} \subseteq DOMAIN meta'[new]
        BY <2>3, <1>1
      <3>2. \A j \in Keys \ {new} : meta'[j] = made[j]
        BY <2>3, <1>1
      <3>. QED  BY <3>1, <3>2, <1>1
    <2>. QED  BY <1>2, <2>1, <2>2, <2>3
  <1>4. OneActive'
    BY <1>3 DEF OneActive, Actives
  <1>. QED  BY <1>3, <1>4, InvWhenIdle

LEMMA OpenSafe ==
    ASSUME Inv, NEW k \in Keys, Open(k)
    PROVE  Inv'
  <1>. Idle /\ UNCHANGED <<turn, edit>> /\ OpenExisting(k)
    BY DEF Open
  <1>1. meta' = Archived(meta) \/ meta' = [Archived(meta) EXCEPT ![k].status = "active"]
    BY DEF OpenExisting
  <1>2. /\ DOMAIN meta' = Keys
        /\ \A j \in Keys : {"status", "title", "path"} \subseteq DOMAIN meta'[j]
        /\ \A j \in Keys \ {k} : meta'[j].status # "active"
    <2>1. CASE meta' = Archived(meta)
      BY <2>1, ArchivedHasNone DEF Inv
    <2>2. CASE meta' = [Archived(meta) EXCEPT ![k].status = "active"]
      <3>1. /\ DOMAIN meta' = Keys
            /\ {"status", "title", "path"} \subseteq DOMAIN meta'[k]
        BY <2>2, ArchivedHasNone DEF Inv
      <3>2. \A j \in Keys \ {k} : meta'[j] = Archived(meta)[j]
        BY <2>2, ArchivedHasNone DEF Inv
      <3>. QED  BY <3>1, <3>2, ArchivedHasNone DEF Inv
    <2>. QED  BY <1>1, <2>1, <2>2
  <1>3. OneActive'
    BY <1>2 DEF OneActive, Actives
  <1>. QED  BY <1>2, <1>3, InvWhenIdle

LEMMA DeleteSafe ==
    ASSUME Inv, NEW k \in Keys, Delete(k)
    PROVE  Inv'
  <1>. Idle /\ UNCHANGED <<turn, edit>>
    BY DEF Delete
  <1>1. /\ DOMAIN Removed(k) = Keys /\ Removed(k)[k].status # "active"
        /\ \A j \in Keys : {"status", "title", "path"} \subseteq DOMAIN Removed(k)[j]
        /\ \A j \in Keys \ {k} : Removed(k)[j] = meta[j]
    BY DEF Inv, Shape, Removed, NewMeta
  <1>2. \/ meta' = Removed(k)
        \/ k \in Actives /\ \E new \in Unborn : meta' = [Removed(k) EXCEPT ![new] = NewMeta]
    BY DEF Delete
  <1>3. /\ OneActive' /\ DOMAIN meta' = Keys
        /\ \A j \in Keys : {"status", "title", "path"} \subseteq DOMAIN meta'[j]
    <2>1. CASE meta' = Removed(k)
      BY <2>1, <1>1 DEF Inv, OneActive, Actives
    <2>2. CASE k \in Actives /\ \E new \in Unborn : meta' = [Removed(k) EXCEPT ![new] = NewMeta]
      <3>1. PICK new \in Unborn : meta' = [Removed(k) EXCEPT ![new] = NewMeta]
        BY <2>2
      <3>2. new \in Keys /\ \A j \in Keys : Removed(k)[j].status # "active"
        BY <2>2, <1>1 DEF Unborn, Inv, OneActive, Actives
      <3>3. /\ DOMAIN meta' = Keys /\ meta'[new] = NewMeta
            /\ \A j \in Keys \ {new} : meta'[j] = Removed(k)[j]
        BY <3>1, <3>2, <1>1
      <3>. QED  BY <3>2, <3>3, <1>1, NewMetaFields DEF OneActive, Actives
    <2>. QED  BY <1>2, <2>1, <2>2
  <1>. QED  BY <1>3, InvWhenIdle

LEMMA RenameSafe ==
    ASSUME Inv, NEW k \in Keys, NEW t, Rename(k, t)
    PROVE  Inv'
  <1>1. SameStatus
    BY TitleKeepsStatus DEF Rename, Inv
  <1>. QED  BY <1>1, InvAfterSameStatus DEF Rename, Inv, Shape, TurnInActive, EditInActive

LEMMA SwitchSafe ==
    ASSUME Inv, NEW k \in Keys, NEW id, Switch(k, id)
    PROVE  Inv'
  <1>1. SameStatus
    BY PathKeepsStatus DEF Switch, Inv
  <1>. QED  BY <1>1, InvAfterSameStatus DEF Switch, Inv, Shape, TurnInActive, EditInActive

LEMMA EditReadSafe ==
    ASSUME Inv, NEW k \in Keys, NEW id, EditRead(k, id)
    PROVE  Inv'
  <1>1. SameStatus /\ UNCHANGED turn /\ k \in Actives
    BY NothingKeepsStatus DEF EditRead, Inv
  <1>2. \E parent, path : edit' = [st |-> "derive", key |-> k, of |-> id,
                                  parent |-> parent, path |-> path]
    BY DEF EditRead
  <1>3. {"st", "key"} \subseteq DOMAIN edit' /\ edit'.key = k
    BY <1>2
  <1>. QED  BY <1>1, <1>3, InvAfterSameStatus DEF Inv, Shape, TurnInActive

LEMMA EditDeriveSafe ==
    ASSUME Inv, EditDerive
    PROVE  Inv'
  <1>1. edit.key \in Actives /\ edit.key \in Keys
    BY DEF EditDerive, Inv, EditInActive, Actives
  <1>2. SameStatus /\ UNCHANGED turn
    BY <1>1, PathKeepsStatus DEF EditDerive, Inv
  <1>3. /\ {"st", "key"} \subseteq DOMAIN edit'
        /\ edit'.st # "none" => edit'.key = edit.key
    <2>1. edit' = NoEdit \/ \E p : edit' = [edit EXCEPT !.st = "start", !.path = p]
      BY DEF EditDerive
    <2>2. CASE edit' = NoEdit
      BY <2>2 DEF NoEdit
    <2>3. CASE \E p : edit' = [edit EXCEPT !.st = "start", !.path = p]
      BY <2>3 DEF Inv, Shape
    <2>. QED  BY <2>1, <2>2, <2>3
  <1>. QED  BY <1>1, <1>2, <1>3, InvAfterSameStatus DEF Inv, Shape, TurnInActive

LEMMA EditStartSafe ==
    ASSUME Inv, EditStart
    PROVE  Inv'
  <1>1. SameStatus /\ edit' = NoEdit /\ edit.key \in Actives
    BY NothingKeepsStatus DEF EditStart, Inv, EditInActive
  <1>2. /\ {"st", "key"} \subseteq DOMAIN turn'
        /\ turn'.st # "none" => turn'.key \in Actives
    BY <1>1 DEF EditStart, StartTurn, NoTurn, Inv, Shape, TurnInActive
  <1>. QED  BY <1>1, <1>2, InvAfterSameStatus DEF NoEdit

------------------------------------------------------------------------------
(* The turn and the titles *)

\* The steps of a turn keep its session until Clear forgets it.
KeepsKey == /\ turn.st # "none"
            /\ {"st", "key"} \subseteq DOMAIN turn'
            /\ turn'.st # "none" => turn'.key = turn.key
LEMMA TurnSafe ==
    ASSUME Inv, KeepsKey, UNCHANGED edit,
           UNCHANGED meta \/ \E id : meta' = WithPath(turn.key, id)
    PROVE  Inv'
  <1>1. turn.key \in Actives /\ turn.key \in Keys
    BY DEF Inv, KeepsKey, TurnInActive, Actives
  <1>2. SameStatus
    BY <1>1, NothingKeepsStatus, PathKeepsStatus DEF Inv
  <1>. QED  BY <1>1, <1>2, InvAfterSameStatus DEF KeepsKey, Inv, Shape, EditInActive

LEMMA TurnStepSafe ==
    ASSUME Inv, Answer \/ TurnSteps \/ \E kind \in ReplyKinds : Bubble(kind)
    PROVE  Inv'
  <1>. {"st", "key"} \subseteq DOMAIN turn
    BY DEF Inv, Shape
  <1>1. ASSUME NEW kind \in ReplyKinds, Bubble(kind) PROVE Inv'
    <2>1. KeepsKey
      BY <1>1 DEF Bubble, KeepsKey
    <2>. QED  BY <1>1, <2>1, TurnSafe DEF Bubble
  <1>2. CASE EndRun
    <2>1. KeepsKey
      BY <1>2 DEF EndRun, KeepsKey
    <2>. QED  BY <1>2, <2>1, TurnSafe DEF EndRun
  <1>3. CASE EndCompacted
    <2>1. \E a, b, c, d : turn' = [turn EXCEPT !.st = "persist", !.summary = a,
                                      !.tailStart = b, !.tailEnd = c, !.out = d]
      BY <1>3 DEF EndCompacted
    <2>2. KeepsKey
      BY <1>3, <2>1 DEF EndCompacted, KeepsKey
    <2>. QED  BY <1>3, <2>2, TurnSafe DEF EndCompacted
  <1>4. CASE FailRun
    <2>1. KeepsKey
      BY <1>4 DEF FailRun, KeepsKey
    <2>. QED  BY <1>4, <2>1, TurnSafe DEF FailRun
  <1>5. CASE PersistSkip
    <2>1. KeepsKey
      BY <1>5 DEF PersistSkip, KeepsKey
    <2>. QED  BY <1>5, <2>1, TurnSafe DEF PersistSkip
  <1>6. CASE Persist
    <2>1. \E a, b : turn' = [turn EXCEPT !.out = a, !.last = b]
      BY <1>6 DEF Persist
    <2>2. KeepsKey
      BY <1>6, <2>1 DEF Persist, KeepsKey
    <2>. QED  BY <1>6, <2>2, TurnSafe DEF Persist
  <1>7. CASE Persisted
    <2>1. \E a : turn' = [turn EXCEPT !.st = a]
      BY <1>7 DEF Persisted
    <2>2. KeepsKey
      BY <1>7, <2>1 DEF Persisted, KeepsKey
    <2>. QED  BY <1>7, <2>2, TurnSafe DEF Persisted
  <1>8. CASE Splice
    <2>1. KeepsKey
      BY <1>8 DEF Splice, KeepsKey
    <2>. QED  BY <1>8, <2>1, TurnSafe DEF Splice
  <1>9. CASE SetPath
    <2>1. KeepsKey
      BY <1>9 DEF SetPath, KeepsKey
    <2>. QED  BY <1>9, <2>1, TurnSafe DEF SetPath
  <1>10. CASE Emit
    <2>1. KeepsKey
      BY <1>10 DEF Emit, KeepsKey
    <2>. QED  BY <1>10, <2>1, TurnSafe DEF Emit
  <1>11. CASE Clear
    <2>1. KeepsKey
      BY <1>11 DEF Clear, KeepsKey, NoTurn
    <2>. QED  BY <1>11, <2>1, TurnSafe DEF Clear
  <1>. QED
    BY <1>1, <1>2, <1>3, <1>4, <1>5, <1>6, <1>7, <1>8, <1>9, <1>10, <1>11 DEF Answer, TurnSteps

LEMMA TitleSafe ==
    ASSUME Inv, NEW k \in Keys, TitleSteps(k)
    PROVE  Inv'
  <1>1. UNCHANGED <<turn, edit>> /\ (UNCHANGED meta \/ meta' = WithTitle(k, "model"))
    BY DEF TitleSteps, TitleCheck, TitleRecheck, TitleWrite
  <1>2. SameStatus
    BY <1>1, NothingKeepsStatus, TitleKeepsStatus DEF Inv
  <1>. QED  BY <1>1, <1>2, InvAfterSameStatus DEF Inv, Shape, TurnInActive, EditInActive

------------------------------------------------------------------------------
LEMMA InitInv == Init => Inv
  BY DEF Init, Inv, Shape, NoTurn, NoEdit, OneActive, Actives, TurnInActive, EditInActive

LEMMA NextInv == Inv /\ [Next]_vars => Inv'
  <1>. SUFFICES ASSUME Inv, [Next]_vars PROVE Inv'
    OBVIOUS
  <1>1. CASE Requests
    BY <1>1, SendSafe, OpenSafe, DeleteSafe, CreateSafe, RenameSafe, EditReadSafe, SwitchSafe
       DEF Requests
  <1>2. CASE EditSteps
    BY <1>2, EditDeriveSafe, EditStartSafe DEF EditSteps
  <1>3. CASE Answer \/ TurnSteps \/ \E kind \in ReplyKinds : Bubble(kind)
    BY <1>3, TurnStepSafe
  <1>4. CASE \E k \in Keys : TitleSteps(k)
    BY <1>4, TitleSafe
  <1>5. CASE UNCHANGED vars
    BY <1>5 DEF vars, Inv, Shape, OneActive, Actives, TurnInActive, EditInActive
  <1>. QED  BY <1>1, <1>2, <1>3, <1>4, <1>5 DEF Next

\* At most one session is active: the list of sessions always names the one
\* the next message goes to, whatever request failed in the middle.
THEOREM OneActiveAlways == Spec => []OneActive
  <1>1. Inv => OneActive
    BY DEF Inv
  <1>. QED  BY <1>1, InitInv, NextInv, PTL DEF Spec

\* A turn writes to the active session from its start to its end.
THEOREM TurnStaysInActive == Spec => []TurnInActive
  <1>1. Inv => TurnInActive
    BY DEF Inv
  <1>. QED  BY <1>1, InitInv, NextInv, PTL DEF Spec

------------------------------------------------------------------------------
(* The history *)

IsMessage(m) == {"id", "parent", "kind"} \subseteq DOMAIN m
IsLog(s) == \E S : s \in Seq(S) /\ \A m \in S : IsMessage(m)

TurnFields == {"st", "key", "base", "new", "out", "summary", "tailStart", "tailEnd", "last"}

\* What the store and the turn hold are sequences of messages.
Logs ==
    /\ DOMAIN msgs = Keys
    /\ \A k \in Keys : IsLog(msgs[k])
    /\ TurnFields \subseteq DOMAIN turn
    /\ IsLog(turn.new) /\ IsLog(turn.out) /\ IsMessage(turn.summary)

\* What a step may do to the messages of the living.
Grows ==
    \A k \in Keys : Live(k) /\ Live(k)' =>
         /\ Len(msgs[k]) <= Len(msgs'[k])
         /\ \A i \in DOMAIN msgs[k] :
              \/ msgs'[k][i] = msgs[k][i]
              \/ /\ turn.st = "splice" /\ msgs'[k][i].id = turn.tailStart
                 /\ msgs'[k][i] = [msgs[k][i] EXCEPT !.parent = LastId(msgs'[k])]

------------------------------------------------------------------------------
(* Sequences of messages *)

\* A log is indexed from 1, and each place holds a message.
LEMMA LogPlaces ==
    ASSUME NEW s, IsLog(s)
    PROVE  /\ Len(s) \in Nat /\ DOMAIN s = 1..Len(s)
           /\ \A i \in DOMAIN s : IsMessage(s[i])
  <1>1. PICK S : s \in Seq(S) /\ \A m \in S : IsMessage(m)
    BY DEF IsLog
  <1>. QED  BY <1>1

LEMMA EmptyLog == IsLog(<<>>)
  <1>1. ASSUME NEW S, S = {} PROVE IsLog(<<>>)
    <2>1. <<>> \in Seq(S) /\ \A m \in S : IsMessage(m)
      BY <1>1
    <2>. QED  BY <2>1 DEF IsLog
  <1>. QED  BY <1>1

\* A function on the first n numbers whose values are messages is a log.
LEMMA LogOf ==
    ASSUME NEW n \in Nat, NEW f, DOMAIN f = 1..n, f = [i \in 1..n |-> f[i]],
           \A i \in 1..n : IsMessage(f[i])
    PROVE  IsLog(f)
  <1>. DEFINE S == {f[i] : i \in 1..n}
  <1>1. f \in [1..n -> S]
    OBVIOUS
  <1>2. f \in Seq(S)
    BY <1>1
  <1>3. \A m \in S : IsMessage(m)
    OBVIOUS
  <1>. QED  BY <1>2, <1>3 DEF IsLog

\* A log with one more message is a log that begins as it did.
LEMMA LogAppend ==
    ASSUME NEW s, IsLog(s), NEW m, IsMessage(m)
    PROVE  /\ IsLog(Append(s, m))
           /\ Len(Append(s, m)) = Len(s) + 1
           /\ \A i \in DOMAIN s : Append(s, m)[i] = s[i]
           /\ Append(s, m)[Len(s) + 1] = m
           /\ Append(s, m) # <<>>
  <1>1. PICK S : s \in Seq(S) /\ \A x \in S : IsMessage(x)
    BY DEF IsLog
  <1>. DEFINE T == S \cup {m}
  <1>2. s \in Seq(T) /\ m \in T
    BY <1>1
  <1>3. Append(s, m) \in Seq(T) /\ \A x \in T : IsMessage(x)
    BY <1>1, <1>2, AppendProperties
  <1>4. /\ Append(s, m) # <<>>
        /\ Len(Append(s, m)) = Len(s) + 1
        /\ \A i \in 1..Len(s) : Append(s, m)[i] = s[i]
        /\ Append(s, m)[Len(s) + 1] = m
    BY <1>2, AppendProperties
  <1>5. DOMAIN s = 1..Len(s)
    BY LogPlaces
  <1>. QED  BY <1>3, <1>4, <1>5 DEF IsLog

\* Its first message is one, and the rest is a log.
LEMMA LogTail ==
    ASSUME NEW s, IsLog(s), s # <<>>
    PROVE  IsMessage(Head(s)) /\ IsLog(Tail(s))
  <1>1. PICK S : s \in Seq(S) /\ \A x \in S : IsMessage(x)
    BY DEF IsLog
  <1>2. Head(s) \in S /\ Tail(s) \in Seq(S)
    BY <1>1, HeadTailProperties
  <1>. QED  BY <1>1, <1>2 DEF IsLog

\* So is its end.
LEMMA LogLastN ==
    ASSUME NEW s, IsLog(s), NEW n \in Nat \ {0}
    PROVE  IsLog(LastN(s, n))
  <1>1. CASE Len(s) <= n
    BY <1>1 DEF LastN
  <1>2. CASE ~(Len(s) <= n)
    <2>1. PICK S : s \in Seq(S) /\ \A x \in S : IsMessage(x)
      BY DEF IsLog
    <2>2. Len(s) \in Nat /\ Len(s) - n + 1 \in 1..Len(s)
      BY <1>2, LogPlaces
    <2>3. \A i \in (Len(s) - n + 1)..Len(s) : s[i] \in S
      BY <2>1, <2>2
    <2>4. SubSeq(s, Len(s) - n + 1, Len(s)) \in Seq(S)
      BY <2>1, <2>2, <2>3, SubSeqProperties
    <2>. QED  BY <1>2, <2>1, <2>4 DEF LastN, IsLog
  <1>. QED  BY <1>1, <1>2

Reparented(s, x, y) ==
    [i \in DOMAIN s |-> IF s[i].id = x THEN [s[i] EXCEPT !.parent = y] ELSE s[i]]

\* Giving some of its messages a parent leaves a log of the same length.
LEMMA LogReparented ==
    ASSUME NEW s, IsLog(s), NEW x, NEW y
    PROVE  IsLog(Reparented(s, x, y)) /\ Len(Reparented(s, x, y)) = Len(s)
  <1>. DEFINE t == Reparented(s, x, y)
  <1>1. Len(s) \in Nat /\ DOMAIN s = 1..Len(s) /\ \A i \in DOMAIN s : IsMessage(s[i])
    BY LogPlaces
  <1>2. \A i \in DOMAIN s : IsMessage([s[i] EXCEPT !.parent = y])
    BY <1>1 DEF IsMessage
  <1>3. DOMAIN t = 1..Len(s) /\ t = [i \in 1..Len(s) |-> t[i]] /\ \A i \in 1..Len(s) : IsMessage(t[i])
    BY <1>1, <1>2 DEF Reparented
  <1>. HIDE DEF t
  <1>4. IsLog(t)
    BY <1>1, <1>3, LogOf
  <1>5. DOMAIN t = 1..Len(t) /\ Len(t) \in Nat
    BY <1>4, LogPlaces
  <1>6. Len(t) = Len(s)
    BY <1>1, <1>3, <1>5
  <1>. QED  BY <1>4, <1>6 DEF t

\* A message in front of a log makes a log.
LEMMA LogPrepend ==
    ASSUME NEW s, IsLog(s), NEW m, IsMessage(m)
    PROVE  IsLog(<<m>> \o s)
  <1>1. PICK S : s \in Seq(S) /\ \A x \in S : IsMessage(x)
    BY DEF IsLog
  <1>. DEFINE T == S \cup {m}
  <1>2. s \in Seq(T) /\ <<m>> \in Seq(T) /\ \A x \in T : IsMessage(x)
    BY <1>1
  <1>3. <<m>> \o s \in Seq(T)
    BY <1>2, ConcatProperties
  <1>. QED  BY <1>2, <1>3 DEF IsLog

------------------------------------------------------------------------------
(* What the steps do to the messages *)

\* The turn keeps its fields.
TurnLogs ==
    /\ TurnFields \subseteq DOMAIN turn'
    /\ IsLog(turn'.new) /\ IsLog(turn'.out) /\ IsMessage(turn'.summary)

LEMMA NoTurnLogs ==
    /\ TurnFields \subseteq DOMAIN NoTurn
    /\ IsLog(NoTurn.new) /\ IsLog(NoTurn.out) /\ IsMessage(NoTurn.summary)
  BY EmptyLog DEF NoTurn, TurnFields, NoSummary, IsMessage

LEMMA StartTurnLogs ==
    ASSUME NEW k, NEW path, StartTurn(k, path)
    PROVE  TurnLogs
  <1>1. turn'.new = NoTurn.new /\ turn'.out = NoTurn.out /\ turn'.summary = NoTurn.summary
    BY DEF StartTurn, NoTurn
  <1>2. TurnFields \subseteq DOMAIN turn'
    BY DEF StartTurn, NoTurn, TurnFields
  <1>. QED  BY <1>1, <1>2, NoTurnLogs DEF TurnLogs

LEMMA SameMessages ==
    ASSUME Logs, DOMAIN msgs' = Keys, \A k \in Keys : msgs'[k] = msgs[k], TurnLogs
    PROVE  Logs' /\ Grows
  <1>1. Logs'
    BY DEF Logs, TurnLogs
  <1>2. \A k \in Keys : Len(msgs[k]) \in Nat
    BY LogPlaces DEF Logs
  <1>. QED  BY <1>1, <1>2 DEF Grows

LEMMA MessagesStay ==
    ASSUME Logs, UNCHANGED msgs, TurnLogs
    PROVE  Logs' /\ Grows
  <1>1. DOMAIN msgs' = Keys /\ \A k \in Keys : msgs'[k] = msgs[k]
    BY DEF Logs
  <1>. QED  BY <1>1, SameMessages

LEMMA MessageAdded ==
    ASSUME Logs, NEW k \in Keys, NEW m, IsMessage(m), msgs' = Appended(k, m), TurnLogs
    PROVE  Logs' /\ Grows
  <1>1. /\ DOMAIN msgs' = Keys /\ msgs'[k] = Append(msgs[k], m)
        /\ \A j \in Keys \ {k} : msgs'[j] = msgs[j]
    BY DEF Appended, Logs
  <1>2. IsLog(msgs[k])
    BY DEF Logs
  <1>3. /\ IsLog(msgs'[k]) /\ Len(msgs'[k]) = Len(msgs[k]) + 1
        /\ \A i \in DOMAIN msgs[k] : msgs'[k][i] = msgs[k][i]
    BY <1>1, <1>2, LogAppend
  <1>4. \A j \in Keys : Len(msgs[j]) \in Nat
    BY LogPlaces DEF Logs
  <1>5. Logs'
    BY <1>1, <1>3 DEF Logs, TurnLogs
  <1>6. Grows
    BY <1>1, <1>3, <1>4 DEF Grows
  <1>. QED  BY <1>5, <1>6

\* A record made as a message is one.
LEMMA MadeMessage == \A a, b, c : IsMessage([id |-> a, parent |-> b, kind |-> c])
  BY DEF IsMessage

LEMMA SendGrows ==
    ASSUME Inv, Logs, Send
    PROVE  Logs' /\ Grows
  <1>1. PICK k \in SendTargets, f \in 1..4 :
          /\ OnNewMessage(k, f)
          /\ IF f > 3 THEN StartTurn(k, Chain(msgs'[k], nextId)) ELSE UNCHANGED turn
    BY DEF Send
  <1>2. k \in Keys
    BY DEF SendTargets, Actives, Unborn
  <1>3. TurnLogs
    BY <1>1, StartTurnLogs DEF Logs, TurnLogs
  <1>4. UNCHANGED msgs \/ \E m : IsMessage(m) /\ msgs' = Appended(k, m)
    BY <1>1, MadeMessage DEF OnNewMessage
  <1>. QED  BY <1>2, <1>3, <1>4, MessagesStay, MessageAdded

LEMMA CreateGrows ==
    ASSUME Inv, Logs, NEW new \in Keys, NEW carry \in BOOLEAN, Create(new, carry)
    PROVE  Logs' /\ Grows
  <1>1. UNCHANGED turn /\ CreateNewSession(new, carry)
    BY DEF Create
  <1>2. TurnLogs
    BY <1>1 DEF Logs, TurnLogs
  <1>3. UNCHANGED msgs \/ \E m : IsMessage(m) /\ msgs' = Appended(new, m)
    BY <1>1, MadeMessage DEF CreateNewSession
  <1>. QED  BY <1>2, <1>3, MessagesStay, MessageAdded

\* A session that is deleted lives no more; the others keep theirs.
LEMMA DeleteGrows ==
    ASSUME Inv, Logs, NEW k \in Keys, Delete(k)
    PROVE  Logs' /\ Grows
  <1>1. /\ UNCHANGED turn /\ msgs' = [msgs EXCEPT ![k] = <<>>]
        /\ \/ meta' = Removed(k)
           \/ \E new \in Unborn : meta' = [Removed(k) EXCEPT ![new] = NewMeta]
    BY DEF Delete
  <1>2. ~Live(k)'
    <2>1. DOMAIN meta = Keys /\ k \notin Unborn
      BY DEF Inv, Shape, Unborn, Delete, Live
    <2>2. meta'[k] = [NewMeta EXCEPT !.status = "gone"]
      BY <1>1, <2>1 DEF Removed
    <2>3. meta'[k].status = "gone"
      BY <2>2 DEF NewMeta
    <2>. QED  BY <2>3 DEF Live
  <1>3. DOMAIN msgs' = Keys /\ msgs'[k] = <<>> /\ \A j \in Keys \ {k} : msgs'[j] = msgs[j]
    BY <1>1 DEF Logs
  <1>4. Logs'
    BY <1>1, <1>3, EmptyLog DEF Logs
  <1>5. \A j \in Keys : Len(msgs[j]) \in Nat
    BY LogPlaces DEF Logs
  <1>. QED  BY <1>2, <1>3, <1>4, <1>5 DEF Grows

LEMMA EditDeriveGrows ==
    ASSUME Inv, Logs, EditDerive
    PROVE  Logs' /\ Grows
  <1>1. edit.key \in Keys /\ UNCHANGED turn
    BY DEF Inv, EditInActive, EditDerive, Actives
  <1>2. PICK m : IsMessage(m) /\ msgs' = Appended(edit.key, m)
    BY MadeMessage DEF EditDerive
  <1>3. TurnLogs
    BY <1>1 DEF Logs, TurnLogs
  <1>. QED  BY <1>1, <1>2, <1>3, MessageAdded

LEMMA EditStartGrows ==
    ASSUME Inv, Logs, EditStart
    PROVE  Logs' /\ Grows
  <1>1. TurnLogs
    BY StartTurnLogs DEF EditStart, Logs, TurnLogs
  <1>. QED  BY <1>1, MessagesStay DEF EditStart

------------------------------------------------------------------------------
(* The turn *)

LEMMA BubbleGrows ==
    ASSUME Inv, Logs, NEW kind, Bubble(kind)
    PROVE  Logs' /\ Grows
  <1>. DEFINE m == [id |-> nextId, parent |-> LastId(Conversation), kind |-> kind]
  <1>1. turn' = [turn EXCEPT !.new = Append(turn.new, m)] /\ UNCHANGED msgs
    BY DEF Bubble
  <1>2. IsMessage(m)
    BY MadeMessage
  <1>. HIDE DEF m
  <1>3. IsLog(Append(turn.new, m))
    BY <1>2, LogAppend DEF Logs
  <1>4. TurnLogs
    BY <1>1, <1>3 DEF Logs, TurnLogs, TurnFields
  <1>. QED  BY <1>1, <1>4, MessagesStay

LEMMA CompactedGrows ==
    ASSUME Inv, Logs, EndCompacted
    PROVE  Logs' /\ Grows
  <1>. DEFINE tail == LastN(Conversation, KeepLast)
              summary == [id |-> nextId, parent |-> None, kind |-> "system"]
              kept == LastN(turn.new, KeepLast)
              first == tail[1].id
              moved == Reparented(kept, first, nextId)
  <1>1. /\ turn' = [turn EXCEPT !.st = "persist", !.summary = summary, !.tailStart = first,
                                !.tailEnd = LastId(tail), !.out = <<summary>> \o moved]
        /\ UNCHANGED msgs
    BY DEF EndCompacted, Reparented
  <1>2. IsMessage(summary)
    BY MadeMessage
  <1>3. IsLog(kept)
    BY LogLastN, BoundAssumption DEF Logs
  <1>4. IsLog(moved)
    BY <1>3, LogReparented
  <1>. HIDE DEF moved, summary, first, tail
  <1>5. IsLog(<<summary>> \o moved)
    BY <1>2, <1>4, LogPrepend
  <1>6. TurnLogs
    BY <1>1, <1>2, <1>5 DEF Logs, TurnLogs, TurnFields
  <1>. QED  BY <1>1, <1>6, MessagesStay

LEMMA PersistGrows ==
    ASSUME Inv, Logs, Persist
    PROVE  Logs' /\ Grows
  <1>1. turn.key \in Keys
    BY DEF Persist, Inv, TurnInActive, Actives
  <1>2. IsMessage(Head(turn.out)) /\ IsLog(Tail(turn.out))
    BY LogTail DEF Persist, Logs
  <1>3. msgs' = Appended(turn.key, Head(turn.out))
    BY DEF Persist
  <1>4. \/ turn' = [turn EXCEPT !.out = <<>>, !.last = None]
        \/ turn' = [turn EXCEPT !.out = Tail(turn.out), !.last = Head(turn.out).id]
    BY DEF Persist
  <1>5. TurnLogs
    BY <1>2, <1>4, EmptyLog DEF Logs, TurnLogs, TurnFields
  <1>. QED  BY <1>1, <1>2, <1>3, <1>5, MessageAdded

\* A compaction gives one message a parent, the summary that comes last.
LEMMA SpliceGrows ==
    ASSUME Inv, Logs, Splice
    PROVE  Logs' /\ Grows
  <1>. DEFINE s == msgs[turn.key]
              t == Reparented(s, turn.tailStart, turn.summary.id)
  <1>1. turn.key \in Keys /\ turn.st = "splice"
    BY DEF Splice, Inv, TurnInActive, Actives
  <1>2. TurnLogs
    BY DEF Splice, Logs, TurnLogs, TurnFields
  <1>3. CASE turn.tailStart \notin IdsOf(s)
    <2>1. DOMAIN msgs' = Keys /\ \A k \in Keys : msgs'[k] = msgs[k]
      BY <1>1, <1>3 DEF Splice, Spliced, Logs
    <2>. QED  BY <2>1, <1>2, SameMessages
  <1>4. CASE turn.tailStart \in IdsOf(s)
    <2>1. /\ DOMAIN msgs' = Keys /\ msgs'[turn.key] = Append(t, turn.summary)
          /\ \A j \in Keys \ {turn.key} : msgs'[j] = msgs[j]
      BY <1>1, <1>4 DEF Splice, Spliced, Logs, Reparented
    <2>2. IsLog(s) /\ IsMessage(turn.summary)
      BY <1>1 DEF Logs
    <2>3. IsLog(t) /\ Len(t) = Len(s)
      BY <2>2, LogReparented
    <2>4. \A i \in DOMAIN s : /\ i \in DOMAIN t
                              /\ \/ t[i] = s[i]
                                 \/ /\ s[i].id = turn.tailStart
                                    /\ t[i] = [s[i] EXCEPT !.parent = turn.summary.id]
      BY DEF Reparented
    <2>5. \A i \in DOMAIN s : [s[i] EXCEPT !.parent = turn.summary.id].id = s[i].id
      BY <2>2, LogPlaces DEF IsMessage
    <2>. HIDE DEF s, t
    <2>6. /\ IsLog(msgs'[turn.key]) /\ Len(msgs'[turn.key]) = Len(s) + 1
          /\ \A i \in DOMAIN t : msgs'[turn.key][i] = t[i]
          /\ msgs'[turn.key][Len(s) + 1] = turn.summary /\ msgs'[turn.key] # <<>>
      BY <2>1, <2>2, <2>3, LogAppend
    <2>7. LastId(msgs'[turn.key]) = turn.summary.id
      BY <2>6 DEF LastId
    <2>8. Logs'
      BY <1>2, <2>1, <2>6 DEF Logs, TurnLogs
    <2>9. \A j \in Keys : Len(msgs[j]) \in Nat
      BY LogPlaces DEF Logs
    <2>10. /\ Len(msgs[turn.key]) <= Len(msgs'[turn.key])
           /\ \A i \in DOMAIN msgs[turn.key] :
                \/ msgs'[turn.key][i] = msgs[turn.key][i]
                \/ /\ turn.st = "splice" /\ msgs'[turn.key][i].id = turn.tailStart
                   /\ msgs'[turn.key][i] = [msgs[turn.key][i] EXCEPT !.parent = LastId(msgs'[turn.key])]
      <3>1. msgs[turn.key] = s
        BY DEF s
      <3>2. ASSUME NEW i \in DOMAIN s
            PROVE  \/ msgs'[turn.key][i] = s[i]
                   \/ /\ msgs'[turn.key][i].id = turn.tailStart
                      /\ msgs'[turn.key][i] = [s[i] EXCEPT !.parent = LastId(msgs'[turn.key])]
        <4>1. msgs'[turn.key][i] = t[i]
          BY <2>4, <2>6
        <4>2. CASE t[i] = s[i]
          BY <4>1, <4>2
        <4>3. CASE s[i].id = turn.tailStart /\ t[i] = [s[i] EXCEPT !.parent = turn.summary.id]
          <5>1. msgs'[turn.key][i] = [s[i] EXCEPT !.parent = LastId(msgs'[turn.key])]
            BY <2>7, <4>1, <4>3
          <5>2. msgs'[turn.key][i].id = turn.tailStart
            BY <2>5, <4>1, <4>3
          <5>. QED  BY <5>1, <5>2
        <4>. QED  BY <2>4, <4>2, <4>3
      <3>3. Len(s) <= Len(msgs'[turn.key])
        BY <1>1, <2>6, <2>9, <3>1
      <3>. QED  BY <1>1, <3>1, <3>2, <3>3
    <2>11. \A j \in Keys \ {turn.key} : Len(msgs[j]) <= Len(msgs'[j])
      BY <2>1, <2>9
    <2>12. Grows
      <3>. SUFFICES ASSUME NEW j \in Keys
                    PROVE  /\ Len(msgs[j]) <= Len(msgs'[j])
                           /\ \A i \in DOMAIN msgs[j] :
                                \/ msgs'[j][i] = msgs[j][i]
                                \/ /\ turn.st = "splice" /\ msgs'[j][i].id = turn.tailStart
                                   /\ msgs'[j][i] = [msgs[j][i] EXCEPT !.parent = LastId(msgs'[j])]
        BY DEF Grows
      <3>1. CASE j = turn.key
        BY <2>10, <3>1
      <3>2. CASE j # turn.key
        BY <2>1, <2>11, <3>2
      <3>. QED  BY <3>1, <3>2
    <2>. QED  BY <2>8, <2>12
  <1>. QED  BY <1>3, <1>4

\* The other steps of the turn store nothing.
LEMMA TurnGrows ==
    ASSUME Inv, Logs,
           EndRun \/ FailRun \/ PersistSkip \/ Persisted \/ SetPath \/ Emit \/ Clear
    PROVE  Logs' /\ Grows
  <1>1. UNCHANGED msgs
    BY DEF EndRun, FailRun, PersistSkip, Persisted, SetPath, Emit, Clear
  <1>2. TurnLogs
    <2>1. CASE EndRun
      BY <2>1 DEF EndRun, Logs, TurnLogs, TurnFields
    <2>2. CASE PersistSkip
      <3>1. IsLog(Tail(turn.out)) /\ turn' = [turn EXCEPT !.out = Tail(turn.out)]
        BY <2>2, LogTail DEF PersistSkip, Logs
      <3>. QED  BY <3>1 DEF Logs, TurnLogs, TurnFields
    <2>3. CASE Clear
      BY <2>3, NoTurnLogs DEF Clear, TurnLogs
    <2>4. CASE FailRun \/ Persisted \/ SetPath \/ Emit
      <3>1. PICK st : turn' = [turn EXCEPT !.st = st]
        BY <2>4 DEF FailRun, Persisted, SetPath, Emit
      <3>. QED  BY <3>1 DEF Logs, TurnLogs, TurnFields
    <2>. QED  BY <2>1, <2>2, <2>3, <2>4
  <1>. QED  BY <1>1, <1>2, MessagesStay

\* Requests and title tasks that look at messages and leave them.
LEMMA OthersGrow ==
    ASSUME Inv, Logs, UNCHANGED <<msgs, turn>>
    PROVE  Logs' /\ Grows
  <1>1. TurnLogs
    BY DEF Logs, TurnLogs
  <1>. QED  BY <1>1, MessagesStay

LEMMA InitLogs == Init => Logs
  BY EmptyLog, NoTurnLogs DEF Init, Logs

LEMMA NextGrows ==
    ASSUME Inv, Logs, [Next]_vars
    PROVE  Logs' /\ Grows
  <1>1. CASE Requests
    <2>1. CASE \E k \in Keys : Open(k)
      BY <2>1, OthersGrow DEF Open
    <2>2. CASE \E k \in Keys, t \in {"none", "user"} : Rename(k, t)
      BY <2>2, OthersGrow DEF Rename
    <2>3. CASE \E k \in Keys, id \in Ids : EditRead(k, id) \/ Switch(k, id)
      BY <2>3, OthersGrow DEF EditRead, Switch
    <2>. QED  BY <1>1, <2>1, <2>2, <2>3, SendGrows, CreateGrows, DeleteGrows DEF Requests
  <1>2. CASE EditSteps
    BY <1>2, EditDeriveGrows, EditStartGrows DEF EditSteps
  <1>3. CASE Answer \/ TurnSteps \/ \E kind \in ReplyKinds : Bubble(kind)
    BY <1>3, BubbleGrows, CompactedGrows, PersistGrows, SpliceGrows, TurnGrows DEF Answer, TurnSteps
  <1>4. CASE \E k \in Keys : TitleSteps(k)
    BY <1>4, OthersGrow DEF TitleSteps, TitleCheck, TitleRecheck, TitleWrite
  <1>5. CASE UNCHANGED vars
    BY <1>5, OthersGrow DEF vars
  <1>. QED  BY <1>1, <1>2, <1>3, <1>4, <1>5 DEF Next

------------------------------------------------------------------------------
\* Nothing the store holds of a living session is lost or rewritten, whatever
\* is sent, edited, switched, compacted or fails to be written: messages are
\* added at the end, and only a compaction gives one a new parent.
THEOREM HistoryOnlyGrows == Spec => HistoryGrows
  <1>1. Grows => [\A k \in Keys : Live(k) /\ Live(k)' =>
         /\ Len(msgs[k]) <= Len(msgs'[k])
         /\ \A i \in DOMAIN msgs[k] :
              \/ msgs'[k][i] = msgs[k][i]
              \/ /\ turn.st = "splice" /\ msgs'[k][i].id = turn.tailStart
                 /\ msgs'[k][i] = [msgs[k][i] EXCEPT !.parent = LastId(msgs'[k])]]_vars
    BY DEF Grows
  <1>2. Inv /\ Logs /\ [Next]_vars => Logs' /\ Grows
    BY NextGrows
  <1>. QED  BY <1>1, <1>2, InitInv, NextInv, InitLogs, PTL DEF Spec, HistoryGrows

------------------------------------------------------------------------------
(* The tree: the invariant *)

Turns == [st : {"none", "run", "persist", "splice", "path", "emit", "clear"}, key : Keys \cup {NoKey},
          base : Seq(Message), new : Seq(Message), out : Seq(Message), summary : Message \cup {NoSummary},
          tailStart : Ids \cup {None}, tailEnd : Ids \cup {None}, last : Ids \cup {None}]
Edits == [st : {"none", "derive", "start"}, key : Keys \cup {NoKey}, of : Ids \cup {None},
          parent : Ids \cup {None}, path : Seq(Message)]
Types ==
    /\ meta \in [Keys -> Meta] /\ msgs \in [Keys -> Seq(Message)]
    /\ nextId \in 1..(MaxId + 1)
    /\ turn \in Turns /\ (turn.st = "none") = (turn.key = NoKey)
    /\ edit \in Edits
    /\ titling \in [Keys -> TitleTasks]
    /\ faults \in 0..MaxFaults

\* The ids of a log differ and are known, below n.
Once(s) == \A i, j \in DOMAIN s : s[i].id = s[j].id => i = j
Known(S, n) == \A id \in S : id < n
StoreHolds ==
    \A k \in Keys : /\ Once(msgs[k]) /\ Known(IdsOf(msgs[k]), nextId)
                    /\ meta[k].status = "unborn" => msgs[k] = <<>>

\* A message whose parent comes with the splice is one of the turn's own.
Waits(t, m) == m.id = t.tailStart /\ m.parent = t.summary.id /\ m.kind # "user"
LinksOf(k) ==
    \A i \in DOMAIN msgs[k] :
        \/ msgs[k][i].parent \in IdsOf(msgs[k]) \cup {None}
        \/ k = turn.key /\ turn.st \in {"persist", "splice"} /\ Waits(turn, msgs[k][i])
PathOf(k) == IF meta[k].path = None THEN msgs[k] = <<>> ELSE meta[k].path \in IdsOf(msgs[k])
TreeHolds == faults = 0 => \A k \in Keys : LinksOf(k) /\ PathOf(k)

\* A turn t in a session with the ids S, before n is given; ok: no write failed.
\* Its messages are new to the session, hang on the end of what it began with,
\* and one after the other.
Running(t, S, n) ==
    /\ t.summary = NoSummary
    /\ t.base # <<>> /\ LastId(t.base) \in S
    /\ Once(t.new) /\ Known(IdsOf(t.new), n) /\ IdsOf(t.new) \cap S = {}
    /\ \A i \in DOMAIN t.new :
         /\ t.new[i].kind # "user"
         /\ t.new[i].parent = IF i = 1 THEN LastId(t.base) ELSE t.new[i - 1].id
\* What is left to be stored comes after what it hangs on.
Linked(t, S, i) ==
    \/ t.out[i].id = t.summary.id
    \/ Waits(t, t.out[i])
    \/ t.out[i].parent \in S
    \/ \E j \in DOMAIN t.out : j < i /\ t.out[j].id = t.out[i].parent /\ t.out[j].id # t.summary.id
Storing(t, S, n, ok) ==
    /\ Once(t.out) /\ Known(IdsOf(t.out), n) /\ IdsOf(t.out) \cap S = {}
    /\ \A i \in DOMAIN t.out : t.out[i].id = t.summary.id \/ t.out[i].kind # "user"
    /\ ok => \A i \in DOMAIN t.out : Linked(t, S, i)
    /\ ok /\ t.summary # NoSummary => t.tailEnd \in S \cup (IdsOf(t.out) \ {t.summary.id})
TurnSound(t, S, n, ok) ==
    /\ t.st # "none" => t.last \in S \cup {None}
    /\ t.st = "run" => Running(t, S, n)
    /\ t.st = "persist" => Storing(t, S, n, ok)
    /\ t.st \in {"run", "persist"} => S # {}
    /\ t.st \in {"persist", "splice"} => t.summary.id \notin S /\ t.summary.id < n /\ t.summary.parent = None
    /\ t.st = "splice" => t.summary # NoSummary
    /\ t.st \in {"splice", "path"} /\ ok /\ t.summary # NoSummary => t.tailEnd \in S
TurnHolds == turn.st # "none" => TurnSound(turn, IdsOf(msgs[turn.key]), nextId, faults = 0)

\* A branch hangs on a message of its session, and its turn begins with it.
EditHolds ==
    /\ edit.st = "derive" /\ faults = 0 => edit.parent \in IdsOf(msgs[edit.key]) \cup {None}
    /\ edit.st = "start" => edit.path # <<>> /\ LastId(edit.path) \in IdsOf(msgs[edit.key])

Tree == Types /\ StoreHolds /\ TreeHolds /\ TurnHolds /\ EditHolds
------------------------------------------------------------------------------
(* Chains *)

\* The least number of a set of them: the induction that chains need.
Below == {pair \in Nat \X Nat : pair[1] < pair[2]}
LEMMA BelowIsFounded == IsWellFoundedOn(Below, Nat)
  BY NatLessThanWellFounded, Zenon DEF OpToRel, Below

LEMMA Least ==
    ASSUME NEW T \in SUBSET Nat, T # {}
    PROVE  \E n \in T : \A m \in T : n <= m
  <1>1. PICK n \in T : \A m \in T : ~ (<<m, n>> \in Below)
    BY BelowIsFounded, WFMin, Zenon
  <1>2. \A m \in T : ~ (m < n)
    BY <1>1 DEF Below
  <1>. QED  BY <1>2

\* ById finds the last message that has the id.
LEMMA ByIdFinds ==
    ASSUME NEW s, Len(s) \in Nat, DOMAIN s = 1..Len(s), NEW id \in IdsOf(s)
    PROVE  \E i \in DOMAIN s : ById(s, id) = s[i] /\ s[i].id = id
  <1>. DEFINE behind == {n \in Nat : n < Len(s) /\ s[Len(s) - n].id = id}
              Last(i) == s[i].id = id /\ \A j \in DOMAIN s : s[j].id = id => j <= i
  <1>1. PICK i \in DOMAIN s : s[i].id = id
    BY DEF IdsOf
  <1>2. Len(s) - i \in behind
    BY <1>1
  <1>3. PICK n \in behind : \A m \in behind : n <= m
    <2>1. behind \in SUBSET Nat /\ behind # {}
      BY <1>2
    <2>. HIDE DEF behind
    <2>. QED  BY <2>1, Least
  <1>4. Len(s) - n \in DOMAIN s /\ s[Len(s) - n].id = id
    BY <1>3
  <1>5. ASSUME NEW j \in DOMAIN s, s[j].id = id PROVE j <= Len(s) - n
    <2>1. Len(s) - j \in behind
      BY <1>5
    <2>2. n <= Len(s) - j /\ n \in Nat
      BY <1>3, <2>1
    <2>. QED  BY <2>2
  <1>6. \E l \in DOMAIN s : Last(l)
    BY <1>4, <1>5
  <1>7. (CHOOSE l \in DOMAIN s : Last(l)) \in DOMAIN s /\ Last(CHOOSE l \in DOMAIN s : Last(l))
    <2>. HIDE DEF Last
    <2>. QED  BY <1>6, Zenon
  <1>. QED  BY <1>7, Zenon DEF ById

\* Chain climbs: one parent more in front at each of Len(s) steps.
Longer(s, v) == IF Head(v).parent \in IdsOf(s) THEN <<ById(s, Head(v).parent)>> \o v ELSE v
Climbs(s, end, m, up) ==
    up = [n \in 0..m |-> IF n = 0 THEN <<ById(s, end)>> ELSE Longer(s, up[n - 1])]
LEMMA ClimbExists ==
    ASSUME NEW s, NEW end
    PROVE  \A m \in Nat : \E up : Climbs(s, end, m, up)
  <1>. DEFINE bad == {m \in Nat : ~ \E up : Climbs(s, end, m, up)}
  <1>. SUFFICES ASSUME bad # {} PROVE FALSE
    OBVIOUS
  <1>1. PICK m \in bad : \A k \in bad : m <= k
    <2>1. bad \in SUBSET Nat
      OBVIOUS
    <2>. HIDE DEF bad
    <2>. QED  BY <2>1, Least
  <1>2. m # 0
    <2>1. Climbs(s, end, 0, [n \in 0..0 |-> <<ById(s, end)>>])
      BY DEF Climbs
    <2>. QED  BY <2>1
  <1>3. m - 1 \in Nat /\ m \in Nat
    BY <1>1, <1>2
  <1>4. PICK up : Climbs(s, end, m - 1, up)
    BY <1>1, <1>3
  <1>. DEFINE top == [n \in 0..m |-> IF n = m THEN Longer(s, up[m - 1]) ELSE up[n]]
  <1>5. DOMAIN up = 0..(m - 1)
        /\ \A n \in 0..(m - 1) : up[n] = IF n = 0 THEN <<ById(s, end)>> ELSE Longer(s, up[n - 1])
    BY <1>4 DEF Climbs
  <1>6. \A n \in 0..m : top[n] = IF n = 0 THEN <<ById(s, end)>> ELSE Longer(s, top[n - 1])
    BY <1>2, <1>3, <1>5
  <1>7. Climbs(s, end, m, top)
    <2>1. top = [n \in 0..m |-> top[n]]
      OBVIOUS
    <2>. HIDE DEF top
    <2>. QED  BY <1>6, <2>1 DEF Climbs
  <1>. QED  BY <1>1, <1>7

LEMMA ChainClimbs ==
    ASSUME NEW s, Len(s) \in Nat, NEW end \in IdsOf(s)
    PROVE  \E up : Climbs(s, end, Len(s), up) /\ Chain(s, end) = up[Len(s)]
  <1>. DEFINE Def(up) == [n \in 0..Len(s) |->
                 IF n = 0 THEN <<ById(s, end)>>
                 ELSE LET top == Head(up[n - 1])
                      IN  IF top.parent \in IdsOf(s)
                            THEN <<ById(s, top.parent)>> \o up[n - 1]
                            ELSE up[n - 1]]
  <1>1. \E up : up = Def(up)
    <2>1. PICK up : Climbs(s, end, Len(s), up)
      BY ClimbExists
    <2>. QED  BY <2>1, Zenon DEF Climbs, Longer
  <1>2. (CHOOSE up : up = Def(up)) = Def(CHOOSE up : up = Def(up))
    <2>. HIDE DEF Def
    <2>. QED  BY <1>1, Zenon
  <1>3. Chain(s, end) = (CHOOSE up : up = Def(up))[Len(s)]
    BY Zenon DEF Chain
  <1>4. \A up : up = Def(up) => Climbs(s, end, Len(s), up)
    BY Zenon DEF Climbs, Longer
  <1>. HIDE DEF Def
  <1>. QED  BY <1>2, <1>3, <1>4, Zenon

\* A chain is made of messages of the log and ends where it is asked to.
Within(v, s) == v \in Seq(Message) /\ \A i \in DOMAIN v : \E j \in DOMAIN s : v[i] = s[j]
LEMMA ChainEnds ==
    ASSUME NEW s \in Seq(Message), NEW end
    PROVE  /\ Within(Chain(s, end), s)
           /\ end \in IdsOf(s) => Chain(s, end) # <<>> /\ LastId(Chain(s, end)) = end
           /\ end \notin IdsOf(s) => Chain(s, end) = s
  <1>1. Len(s) \in Nat /\ DOMAIN s = 1..Len(s) /\ \A i \in DOMAIN s : s[i] \in Message
    BY LenProperties, ElementOfSeq
  <1>2. CASE end \notin IdsOf(s)
    <2>1. Chain(s, end) = s
      BY <1>2 DEF Chain
    <2>. QED  BY <1>2, <2>1 DEF Within
  <1>3. CASE end \in IdsOf(s)
    <2>1. PICK up : Climbs(s, end, Len(s), up) /\ Chain(s, end) = up[Len(s)]
      BY <1>1, <1>3, ChainClimbs
    <2>. DEFINE Good(v) == Within(v, s) /\ v # <<>> /\ LastId(v) = end
                bad == {n \in Nat : n <= Len(s) /\ ~ Good(up[n])}
    <2>2. \A n \in 0..Len(s) : up[n] = IF n = 0 THEN <<ById(s, end)>> ELSE Longer(s, up[n - 1])
      BY <2>1 DEF Climbs
    <2>3. \A id \in IdsOf(s) : \E i \in DOMAIN s : ById(s, id) = s[i] /\ s[i].id = id
      BY <1>1, ByIdFinds
    <2>4. Good(<<ById(s, end)>>)
      <3>1. PICK i \in DOMAIN s : ById(s, end) = s[i] /\ s[i].id = end
        BY <1>3, <2>3
      <3>2. /\ <<s[i]>> \in Seq(Message) /\ DOMAIN <<s[i]>> = 1..1 /\ <<s[i]>>[1] = s[i]
            /\ Len(<<s[i]>>) = 1 /\ <<s[i]>> # <<>>
        BY <1>1
      <3>. QED  BY <3>1, <3>2 DEF Within, LastId
    <2>5. ASSUME NEW v, Good(v) PROVE Good(Longer(s, v))
      <3>1. CASE Head(v).parent \notin IdsOf(s)
        BY <2>5, <3>1 DEF Longer
      <3>2. CASE Head(v).parent \in IdsOf(s)
        <4>1. PICK i \in DOMAIN s : ById(s, Head(v).parent) = s[i]
          BY <2>3, <3>2
        <4>. DEFINE w == <<s[i]>> \o v
        <4>2. Longer(s, v) = w
          BY <3>2, <4>1 DEF Longer
        <4>3. /\ v \in Seq(Message) /\ v # <<>> /\ Len(v) \in Nat /\ Len(v) > 0 /\ DOMAIN v = 1..Len(v)
              /\ <<s[i]>> \in Seq(Message) /\ Len(<<s[i]>>) = 1 /\ <<s[i]>>[1] = s[i]
          BY <2>5, <1>1, LenProperties, EmptySeq DEF Within
        <4>4. /\ w \in Seq(Message) /\ Len(w) = 1 + Len(v)
              /\ \A n \in 1..(1 + Len(v)) : w[n] = IF n <= 1 THEN <<s[i]>>[n] ELSE v[n - 1]
          BY <4>3, ConcatProperties
        <4>. HIDE DEF w
        <4>5. DOMAIN w = 1..(1 + Len(v)) /\ w # <<>> /\ w[Len(w)] = v[Len(v)] /\ w[1] = s[i]
              /\ \A n \in 2..(1 + Len(v)) : w[n] = v[n - 1] /\ n - 1 \in DOMAIN v
          BY <4>3, <4>4, LenProperties
        <4>6. \A n \in DOMAIN w : \E j \in DOMAIN s : w[n] = s[j]
          <5>1. \A n \in DOMAIN w : n = 1 \/ n \in 2..(1 + Len(v))
            BY <4>3, <4>5
          <5>. QED  BY <2>5, <4>5, <5>1 DEF Within
        <4>. QED  BY <2>5, <4>2, <4>3, <4>4, <4>5, <4>6 DEF Within, LastId
      <3>. QED  BY <3>1, <3>2
    <2>. HIDE DEF Good
    <2>6. bad = {}
      <3>. SUFFICES ASSUME bad # {} PROVE FALSE
        OBVIOUS
      <3>1. PICK n \in bad : \A m \in bad : n <= m
        <4>1. bad \in SUBSET Nat
          OBVIOUS
        <4>. HIDE DEF bad
        <4>. QED  BY <4>1, Least
      <3>2. n # 0
        BY <1>1, <2>2, <2>4, <3>1
      <3>3. n - 1 \in Nat /\ n \in 0..Len(s) /\ n - 1 <= Len(s) /\ n - 1 \notin bad
        BY <1>1, <3>1, <3>2
      <3>4. Good(up[n - 1]) /\ up[n] = Longer(s, up[n - 1])
        BY <2>2, <3>2, <3>3
      <3>. QED  BY <2>5, <3>1, <3>4
    <2>7. Good(up[Len(s)])
      BY <1>1, <2>6
    <2>. QED  BY <1>3, <2>1, <2>7 DEF Good
  <1>. QED  BY <1>2, <1>3

------------------------------------------------------------------------------
(* Logs of messages *)

LEMMA MessageFields ==
    /\ \A m \in Message : /\ m.id \in Ids /\ m.parent \in Ids \cup {None} /\ m.kind \in Kinds
                          /\ m.id # None /\ m.id \in Nat
    /\ \A a \in Ids, b \in Ids \cup {None}, c \in Kinds : [id |-> a, parent |-> b, kind |-> c] \in Message
    /\ \A m \in Message, b \in Ids \cup {None} :
         /\ [m EXCEPT !.parent = b] \in Message
         /\ [m EXCEPT !.parent = b].id = m.id /\ [m EXCEPT !.parent = b].kind = m.kind
         /\ [m EXCEPT !.parent = b].parent = b
  BY BoundAssumption DEF Message, Ids, None

LEMMA LogFacts ==
    ASSUME NEW s \in Seq(Message)
    PROVE  /\ Len(s) \in Nat /\ DOMAIN s = 1..Len(s) /\ \A i \in DOMAIN s : s[i] \in Message
           /\ \A i \in DOMAIN s : s[i].id \in IdsOf(s)
           /\ IdsOf(s) \subseteq Ids
           /\ LastId(s) \in Ids \cup {None}
           /\ s # <<>> => Len(s) \in DOMAIN s /\ LastId(s) = s[Len(s)].id /\ LastId(s) \in IdsOf(s)
           /\ s = <<>> <=> IdsOf(s) = {}
  <1>1. Len(s) \in Nat /\ DOMAIN s = 1..Len(s) /\ \A i \in DOMAIN s : s[i] \in Message
    BY LenProperties, ElementOfSeq
  <1>2. \A i \in DOMAIN s : s[i].id \in IdsOf(s)
    BY DEF IdsOf
  <1>3. IdsOf(s) \subseteq Ids
    BY <1>1, MessageFields DEF IdsOf
  <1>4. ASSUME s # <<>> PROVE Len(s) \in DOMAIN s /\ LastId(s) = s[Len(s)].id /\ LastId(s) \in IdsOf(s)
    <2>1. Len(s) # 0
      BY <1>4, EmptySeq
    <2>. QED  BY <1>1, <1>2, <1>4, <2>1 DEF LastId
  <1>5. LastId(s) \in Ids \cup {None}
    BY <1>3, <1>4 DEF LastId
  <1>6. s = <<>> => IdsOf(s) = {}
    BY DEF IdsOf
  <1>. QED  BY <1>1, <1>2, <1>3, <1>4, <1>5, <1>6

LEMMA Adds ==
    ASSUME NEW s \in Seq(Message), NEW m \in Message
    PROVE  /\ Append(s, m) \in Seq(Message) /\ Append(s, m) # <<>>
           /\ Len(Append(s, m)) = Len(s) + 1
           /\ DOMAIN Append(s, m) = 1..(Len(s) + 1)
           /\ \A i \in DOMAIN s : Append(s, m)[i] = s[i]
           /\ Append(s, m)[Len(s) + 1] = m
           /\ IdsOf(Append(s, m)) = IdsOf(s) \cup {m.id}
           /\ LastId(Append(s, m)) = m.id
           /\ Once(s) /\ m.id \notin IdsOf(s) => Once(Append(s, m))
  <1>. DEFINE t == Append(s, m)
  <1>1. Len(s) \in Nat /\ DOMAIN s = 1..Len(s)
    BY LogFacts
  <1>2. /\ t \in Seq(Message) /\ Len(t) = Len(s) + 1 /\ t[Len(s) + 1] = m
        /\ \A i \in 1..Len(s) : t[i] = s[i]
    BY AppendProperties
  <1>. HIDE DEF t
  <1>3. DOMAIN t = 1..(Len(s) + 1) /\ t # <<>>
    BY <1>1, <1>2, LogFacts, EmptySeq
  <1>4. \A i \in DOMAIN t : i \in DOMAIN s \/ i = Len(s) + 1
    BY <1>1, <1>3
  <1>5. IdsOf(t) = IdsOf(s) \cup {m.id}
    <2>1. DOMAIN s \subseteq DOMAIN t /\ Len(s) + 1 \in DOMAIN t
      BY <1>1, <1>3
    <2>. QED  BY <1>1, <1>2, <1>4, <2>1 DEF IdsOf
  <1>6. ASSUME Once(s), m.id \notin IdsOf(s) PROVE Once(t)
    <2>1. \A i \in DOMAIN s : s[i].id \in IdsOf(s) /\ t[i] = s[i]
      BY <1>1, <1>2 DEF IdsOf
    <2>. QED  BY <1>2, <1>4, <1>6, <2>1 DEF Once
  <1>7. LastId(t) = m.id
    BY <1>2, <1>3 DEF LastId
  <1>. QED  BY <1>1, <1>2, <1>3, <1>5, <1>6, <1>7 DEF t

LEMMA Drops ==
    ASSUME NEW s \in Seq(Message), s # <<>>
    PROVE  /\ Head(s) \in Message /\ Tail(s) \in Seq(Message) /\ Head(s) = s[1] /\ 1 \in DOMAIN s
           /\ \A i \in DOMAIN Tail(s) : i + 1 \in DOMAIN s /\ Tail(s)[i] = s[i + 1]
           /\ \A i \in DOMAIN s : i # 1 => i - 1 \in DOMAIN Tail(s) /\ s[i] = Tail(s)[i - 1]
           /\ IdsOf(s) = {Head(s).id} \cup IdsOf(Tail(s))
           /\ Once(s) => Once(Tail(s)) /\ Head(s).id \notin IdsOf(Tail(s))
  <1>1. /\ Head(s) \in Message /\ Tail(s) \in Seq(Message) /\ Len(Tail(s)) = Len(s) - 1
        /\ \A i \in 1..Len(Tail(s)) : Tail(s)[i] = s[i + 1]
    BY HeadTailProperties
  <1>2. Len(s) \in Nat /\ Len(s) > 0 /\ DOMAIN s = 1..Len(s) /\ DOMAIN Tail(s) = 1..Len(Tail(s))
    BY <1>1, LogFacts, EmptySeq
  <1>3. \A i \in DOMAIN Tail(s) : i + 1 \in DOMAIN s /\ Tail(s)[i] = s[i + 1]
    BY <1>1, <1>2
  <1>4. \A i \in DOMAIN s : i # 1 => i - 1 \in DOMAIN Tail(s) /\ s[i] = Tail(s)[i - 1]
    BY <1>1, <1>2
  <1>5. Head(s) = s[1] /\ 1 \in DOMAIN s
    BY <1>2
  <1>6. IdsOf(s) = {Head(s).id} \cup IdsOf(Tail(s))
    <2>1. IdsOf(s) \subseteq {Head(s).id} \cup IdsOf(Tail(s))
      BY <1>4, <1>5 DEF IdsOf
    <2>2. {Head(s).id} \cup IdsOf(Tail(s)) \subseteq IdsOf(s)
      BY <1>3, <1>5 DEF IdsOf
    <2>. QED  BY <2>1, <2>2
  <1>7. ASSUME Once(s) PROVE Once(Tail(s)) /\ Head(s).id \notin IdsOf(Tail(s))
    <2>1. \A i \in DOMAIN Tail(s) : i + 1 \in DOMAIN s /\ Tail(s)[i] = s[i + 1] /\ i \in Nat /\ i + 1 # 1
      BY <1>2, <1>3
    <2>2. Once(Tail(s))
      BY <1>7, <2>1 DEF Once
    <2>3. \A i \in DOMAIN Tail(s) : Tail(s)[i].id # s[1].id
      BY <1>5, <1>7, <2>1 DEF Once
    <2>. QED  BY <1>5, <2>2, <2>3 DEF IdsOf
  <1>. QED  BY <1>1, <1>3, <1>4, <1>5, <1>6, <1>7

------------------------------------------------------------------------------
(* What a step leaves alone *)

LEMMA Writing ==
    ASSUME Types, NEW n, NEW f, Writes(n, f)
    PROVE  faults' \in 0..MaxFaults /\ (faults' = 0 => faults = 0 /\ ~ (f <= n))
  <1>1. faults \in Nat /\ MaxFaults \in Nat /\ faults <= MaxFaults
    BY BoundAssumption DEF Types
  <1>2. CASE f <= n
    <2>1. faults < MaxFaults /\ faults' = faults + 1
      BY <1>2 DEF Writes, MayFail
    <2>. QED  BY <1>1, <2>1
  <1>3. CASE ~ (f <= n)
    BY <1>1, <1>3 DEF Writes
  <1>. QED  BY <1>2, <1>3

LEMMA StoreFacts ==
    ASSUME Types, NEW k \in Keys
    PROVE  msgs[k] \in Seq(Message) /\ meta[k] \in Meta /\ IdsOf(msgs[k]) \subseteq Ids
  BY LogFacts DEF Types

LEMMA NextIds ==
    ASSUME Types
    PROVE  /\ nextId \in Nat /\ nextId + 1 \in Nat /\ (nextId <= MaxId => nextId \in Ids /\ nextId + 1 \in 1..(MaxId + 1))
           /\ \A id \in Ids : id \in Nat /\ id # None
           /\ Ids \subseteq Nat
  BY BoundAssumption DEF Types, Ids, None

\* A turn stays sound when its session gets new messages.
LEMMA TurnStays ==
    ASSUME NEW t \in Turns, NEW S, NEW U, NEW n \in Nat, NEW m \in Nat, NEW ok, NEW ko,
           TurnSound(t, S, n, ok), S \subseteq U, \A id \in U : id \in S \/ ~ (id < n),
           n <= m, ko => ok
    PROVE  TurnSound(t, U, m, ko)
  <1>1. t.new \in Seq(Message) /\ t.out \in Seq(Message) /\ t.summary \in Message \cup {NoSummary}
    BY DEF Turns
  <1>2. IdsOf(t.new) \subseteq Nat /\ IdsOf(t.out) \subseteq Nat /\ t.summary.id \in Nat
    <2>1. Ids \subseteq Nat
      BY BoundAssumption DEF Ids
    <2>. QED  BY <1>1, <2>1, LogFacts, MessageFields DEF NoSummary, None
  <1>3. \A id \in Nat : id < n => id < m
    OBVIOUS
  <1>4. \A id \in Nat : id < n /\ id \notin S => id \notin U
    OBVIOUS
  <1>5. ASSUME Running(t, S, n) PROVE Running(t, U, m)
    <2>1. Known(IdsOf(t.new), m)
      BY <1>2, <1>3, <1>5 DEF Running, Known
    <2>2. IdsOf(t.new) \cap U = {}
      BY <1>2, <1>4, <1>5 DEF Running, Known
    <2>. QED  BY <1>5, <2>1, <2>2 DEF Running
  <1>6. ASSUME Storing(t, S, n, ok) PROVE Storing(t, U, m, ko)
    <2>1. Known(IdsOf(t.out), m)
      BY <1>2, <1>3, <1>6 DEF Storing, Known
    <2>2. IdsOf(t.out) \cap U = {}
      BY <1>2, <1>4, <1>6 DEF Storing, Known
    <2>3. \A i \in DOMAIN t.out : Linked(t, S, i) => Linked(t, U, i)
      BY DEF Linked
    <2>. QED  BY <1>6, <2>1, <2>2, <2>3 DEF Storing
  <1>. QED  BY <1>2, <1>3, <1>4, <1>5, <1>6 DEF TurnSound

\* What a step may add to a session that others look at.
More(k) ==
    /\ IdsOf(msgs[k]) \subseteq IdsOf(msgs'[k])
    /\ \A id \in IdsOf(msgs'[k]) : id \in IdsOf(msgs[k]) \/ id = nextId

LEMMA TurnUntouched ==
    ASSUME Types, TurnHolds, UNCHANGED turn, turn.st # "none" => More(turn.key),
           nextId' \in Nat, nextId <= nextId', faults' = 0 => faults = 0
    PROVE  TurnHolds'
  <1>. SUFFICES ASSUME turn.st # "none" PROVE TurnSound(turn, IdsOf(msgs'[turn.key]), nextId', faults' = 0)
    BY DEF TurnHolds
  <1>1. turn \in Turns /\ nextId \in Nat /\ TurnSound(turn, IdsOf(msgs[turn.key]), nextId, faults = 0)
    BY NextIds DEF Types, TurnHolds
  <1>2. \A id \in IdsOf(msgs'[turn.key]) : id \in IdsOf(msgs[turn.key]) \/ ~ (id < nextId)
    BY <1>1 DEF More
  <1>. DEFINE S == IdsOf(msgs[turn.key])
              U == IdsOf(msgs'[turn.key])
              ok == faults = 0
              ko == faults' = 0
  <1>3. S \subseteq U /\ (ko => ok)
    BY DEF More
  <1>4. TurnSound(turn, S, nextId, ok) /\ \A id \in U : id \in S \/ ~ (id < nextId)
    BY <1>1, <1>2
  <1>. HIDE DEF S, U, ok, ko
  <1>5. TurnSound(turn, U, nextId', ko)
    BY <1>1, <1>3, <1>4, TurnStays
  <1>. QED  BY <1>5 DEF U, ko

LEMMA EditUntouched ==
    ASSUME EditHolds, UNCHANGED edit, faults' = 0 => faults = 0,
           edit.st # "none" => IdsOf(msgs[edit.key]) \subseteq IdsOf(msgs'[edit.key])
    PROVE  EditHolds'
  <1>1. edit.st = "derive" /\ faults' = 0 => edit'.parent \in IdsOf(msgs'[edit'.key]) \cup {None}
    BY DEF EditHolds
  <1>2. edit.st = "start" => edit'.path # <<>> /\ LastId(edit'.path) \in IdsOf(msgs'[edit'.key])
    BY DEF EditHolds
  <1>. QED  BY <1>1, <1>2 DEF EditHolds

\* The sessions: one gets a message, the others stay.
StaysUnborn == \A k \in Keys : meta'[k].status = "unborn" => meta[k].status = "unborn"
LEMMA StoreStays ==
    ASSUME Types, StoreHolds, StaysUnborn, \A k \in Keys : msgs'[k] = msgs[k],
           nextId' \in Nat, nextId <= nextId'
    PROVE  StoreHolds'
  <1>. SUFFICES ASSUME NEW k \in Keys
                PROVE  /\ Once(msgs'[k]) /\ Known(IdsOf(msgs'[k]), nextId')
                       /\ meta'[k].status = "unborn" => msgs'[k] = <<>>
    BY DEF StoreHolds
  <1>1. IdsOf(msgs[k]) \subseteq Nat /\ nextId \in Nat
    BY StoreFacts, NextIds
  <1>2. Known(IdsOf(msgs[k]), nextId')
    BY <1>1 DEF StoreHolds, Known
  <1>. QED  BY <1>2 DEF StoreHolds, StaysUnborn

LEMMA StoreAdds ==
    ASSUME Types, StoreHolds, StaysUnborn, NEW k \in Keys, NEW m \in Message, msgs' = Appended(k, m),
           m.id \notin IdsOf(msgs[k]), m.id < nextId', nextId' \in Nat, nextId <= nextId',
           meta'[k].status # "unborn"
    PROVE  /\ StoreHolds' /\ msgs' \in [Keys -> Seq(Message)]
           /\ msgs'[k] = Append(msgs[k], m) /\ IdsOf(msgs'[k]) = IdsOf(msgs[k]) \cup {m.id}
           /\ \A j \in Keys \ {k} : msgs'[j] = msgs[j]
  <1>1. msgs[k] \in Seq(Message) /\ msgs \in [Keys -> Seq(Message)]
    BY DEF Types
  <1>2. msgs'[k] = Append(msgs[k], m) /\ \A j \in Keys \ {k} : msgs'[j] = msgs[j]
    BY <1>1 DEF Appended
  <1>3. /\ Append(msgs[k], m) \in Seq(Message)
        /\ IdsOf(msgs'[k]) = IdsOf(msgs[k]) \cup {m.id}
        /\ Once(msgs[k]) => Once(msgs'[k])
    BY <1>1, <1>2, Adds
  <1>4. msgs' \in [Keys -> Seq(Message)]
    BY <1>1, <1>3 DEF Appended
  <1>5. Once(msgs'[k]) /\ Known(IdsOf(msgs'[k]), nextId')
    <2>1. IdsOf(msgs[k]) \subseteq Nat /\ nextId \in Nat /\ Known(IdsOf(msgs[k]), nextId)
      BY StoreFacts, NextIds DEF StoreHolds
    <2>2. \A id \in IdsOf(msgs[k]) : id < nextId'
      BY <2>1 DEF Known
    <2>. QED  BY <1>3, <2>2 DEF StoreHolds, Known
  <1>6. ASSUME NEW j \in Keys, j # k
        PROVE  /\ Once(msgs'[j]) /\ Known(IdsOf(msgs'[j]), nextId')
               /\ meta'[j].status = "unborn" => msgs'[j] = <<>>
    <2>1. IdsOf(msgs[j]) \subseteq Nat /\ nextId \in Nat /\ Known(IdsOf(msgs[j]), nextId)
      BY StoreFacts, NextIds DEF StoreHolds
    <2>2. Known(IdsOf(msgs[j]), nextId')
      BY <2>1 DEF Known
    <2>. QED  BY <1>2, <1>6, <2>2 DEF StoreHolds, StaysUnborn
  <1>7. StoreHolds'
    <2>. SUFFICES ASSUME NEW j \in Keys
                  PROVE  /\ Once(msgs'[j]) /\ Known(IdsOf(msgs'[j]), nextId')
                         /\ meta'[j].status = "unborn" => msgs'[j] = <<>>
      BY DEF StoreHolds
    <2>. QED  BY <1>5, <1>6
  <1>. QED  BY <1>2, <1>3, <1>4, <1>7

\* Who waits for the splice goes on waiting.
WaitsKept(k) ==
    k = turn.key /\ turn.st \in {"persist", "splice"} =>
        /\ turn'.key = turn.key /\ turn'.st \in {"persist", "splice"}
        /\ turn'.tailStart = turn.tailStart /\ turn'.summary = turn.summary
LEMMA LinksStay ==
    ASSUME NEW k \in Keys, LinksOf(k), WaitsKept(k), msgs'[k] = msgs[k]
    PROVE  LinksOf(k)'
  BY DEF LinksOf, WaitsKept, Waits

LEMMA LinksAdd ==
    ASSUME Types, NEW k \in Keys, LinksOf(k), WaitsKept(k), NEW m \in Message, msgs'[k] = Append(msgs[k], m),
           \/ m.parent \in IdsOf(msgs[k]) \cup {None}
           \/ k = turn'.key /\ turn'.st \in {"persist", "splice"} /\ Waits(turn', m)
    PROVE  LinksOf(k)'
  <1>. SUFFICES ASSUME NEW i \in DOMAIN msgs'[k]
                PROVE  \/ msgs'[k][i].parent \in IdsOf(msgs'[k]) \cup {None}
                       \/ k = turn'.key /\ turn'.st \in {"persist", "splice"} /\ Waits(turn', msgs'[k][i])
    BY DEF LinksOf
  <1>1. msgs[k] \in Seq(Message)
    BY DEF Types
  <1>2. /\ DOMAIN msgs'[k] = 1..(Len(msgs[k]) + 1) /\ Len(msgs[k]) \in Nat /\ DOMAIN msgs[k] = 1..Len(msgs[k])
        /\ \A j \in DOMAIN msgs[k] : msgs'[k][j] = msgs[k][j]
        /\ msgs'[k][Len(msgs[k]) + 1] = m /\ IdsOf(msgs'[k]) = IdsOf(msgs[k]) \cup {m.id}
    BY <1>1, Adds, LogFacts
  <1>3. CASE i = Len(msgs[k]) + 1
    BY <1>2, <1>3
  <1>4. CASE i \in DOMAIN msgs[k]
    BY <1>2, <1>4 DEF LinksOf, WaitsKept, Waits
  <1>. QED  BY <1>2, <1>3, <1>4

------------------------------------------------------------------------------
(* Requests *)

LEMMA NewMetaType == NewMeta \in Meta /\ NewMeta.path = None /\ NewMeta.status = "active"
  BY DEF NewMeta, Meta, Statuses, None

LEMMA PathTypes ==
    ASSUME Types, NEW k \in Keys, NEW id \in Ids \cup {None}
    PROVE  /\ WithPath(k, id) \in [Keys -> Meta] /\ WithPath(k, id)[k].path = id
           /\ \A j \in Keys : WithPath(k, id)[j].status = meta[j].status
           /\ \A j \in Keys \ {k} : WithPath(k, id)[j] = meta[j]
  <1>1. meta \in [Keys -> Meta] /\ meta[k] \in Meta
    BY DEF Types
  <1>2. [meta[k] EXCEPT !.path = id] \in Meta
    BY <1>1 DEF Meta
  <1>. QED  BY <1>1, <1>2 DEF WithPath, Meta

LEMMA TitleTypes ==
    ASSUME Types, NEW k \in Keys, NEW t \in {"none", "user", "model"}
    PROVE  /\ WithTitle(k, t) \in [Keys -> Meta]
           /\ \A j \in Keys : WithTitle(k, t)[j].status = meta[j].status /\ WithTitle(k, t)[j].path = meta[j].path
  <1>1. meta \in [Keys -> Meta] /\ meta[k] \in Meta
    BY DEF Types
  <1>2. [meta[k] EXCEPT !.title = t] \in Meta
    BY <1>1 DEF Meta
  <1>. QED  BY <1>1, <1>2 DEF WithTitle, Meta

LEMMA ArchivedTypes ==
    ASSUME Types
    PROVE  /\ Archived(meta) \in [Keys -> Meta]
           /\ \A j \in Keys : /\ Archived(meta)[j].path = meta[j].path
                              /\ Archived(meta)[j].status = "unborn" => meta[j].status = "unborn"
  <1>1. \A j \in Keys : meta[j] \in Meta
    BY DEF Types
  <1>2. \A j \in Keys : /\ [meta[j] EXCEPT !.status = "archived"] \in Meta
                        /\ [meta[j] EXCEPT !.status = "archived"].path = meta[j].path
                        /\ [meta[j] EXCEPT !.status = "archived"].status = "archived"
    BY <1>1 DEF Meta, Statuses
  <1>. QED  BY <1>1, <1>2 DEF Archived

LEMMA PathStays ==
    ASSUME NEW k, PathOf(k), msgs'[k] = msgs[k], meta'[k].path = meta[k].path
    PROVE  PathOf(k)'
  BY DEF PathOf

\* Most steps of the others change nothing but titles, states and paths.
LEMMA OnlyMeta ==
    ASSUME Tree, UNCHANGED <<msgs, nextId, turn, edit>>, meta' \in [Keys -> Meta],
           titling' \in [Keys -> TitleTasks], faults' \in 0..MaxFaults, faults' = 0 => faults = 0,
           StaysUnborn, faults' = 0 => \A k \in Keys : PathOf(k)'
    PROVE  Tree'
  <1>1. Types'
    BY DEF Types, Tree
  <1>2. nextId \in Nat /\ Types
    BY NextIds DEF Tree
  <1>3. StoreHolds'
    BY <1>2, StoreStays DEF Tree
  <1>4. TreeHolds'
    <2>. SUFFICES ASSUME faults' = 0, NEW k \in Keys PROVE LinksOf(k)' /\ PathOf(k)'
      BY DEF TreeHolds
    <2>1. LinksOf(k) /\ WaitsKept(k)
      BY DEF Tree, TreeHolds, WaitsKept
    <2>. QED  BY <2>1, LinksStay
  <1>5. TurnHolds' /\ EditHolds'
    <2>1. \A k : More(k)
      BY DEF More
    <2>. QED  BY <1>2, <2>1, TurnUntouched, EditUntouched DEF Tree
  <1>. QED  BY <1>1, <1>3, <1>4, <1>5 DEF Tree

LEMMA TypesOfTree == ASSUME Tree PROVE Types /\ meta \in [Keys -> Meta] /\ titling \in [Keys -> TitleTasks] /\ faults \in 0..MaxFaults
  BY DEF Tree, Types

LEMMA OpenTree ==
    ASSUME Tree, NEW k \in Keys, Open(k)
    PROVE  Tree'
  <1>1. Types /\ UNCHANGED <<msgs, nextId, turn, edit, titling>> /\ Live(k)
    BY DEF Open, Tree
  <1>2. PICK f \in 1..3 : LET n == Cardinality(Actives) IN
                            /\ Writes(n + 1, f)
                            /\ meta' = IF f <= n THEN Archived(meta)
                                       ELSE [Archived(meta) EXCEPT ![k].status = "active"]
    BY DEF Open, OpenExisting
  <1>3. faults' \in 0..MaxFaults /\ (faults' = 0 => faults = 0)
    BY <1>1, <1>2, Writing
  <1>. DEFINE open == [Archived(meta) EXCEPT ![k].status = "active"]
  <1>4. /\ open \in [Keys -> Meta]
        /\ \A j \in Keys : open[j].path = meta[j].path /\ (open[j].status = "unborn" => meta[j].status = "unborn")
    <2>1. Archived(meta) \in [Keys -> Meta] /\ Archived(meta)[k] \in Meta
      BY <1>1, ArchivedTypes
    <2>2. [Archived(meta)[k] EXCEPT !.status = "active"] \in Meta
      BY <2>1 DEF Meta, Statuses
    <2>. HIDE DEF Archived
    <2>. QED  BY <1>1, <2>1, <2>2, ArchivedTypes DEF Meta
  <1>5. /\ meta' \in [Keys -> Meta]
        /\ \A j \in Keys : meta'[j].path = meta[j].path /\ (meta'[j].status = "unborn" => meta[j].status = "unborn")
    <2>1. meta' = Archived(meta) \/ meta' = open
      BY <1>2
    <2>. HIDE DEF open
    <2>. QED  BY <1>1, <1>4, <2>1, ArchivedTypes
  <1>6. faults' = 0 => \A j \in Keys : PathOf(j)'
    BY <1>1, <1>3, <1>5, PathStays DEF Tree, TreeHolds
  <1>. QED  BY <1>1, <1>3, <1>5, <1>6, OnlyMeta, TypesOfTree DEF StaysUnborn

LEMMA TitledTree ==
    ASSUME Tree, NEW k \in Keys, NEW t \in {"none", "user", "model"}, meta' = WithTitle(k, t),
           \E f \in 1..2 : Writes(1, f), UNCHANGED <<msgs, nextId, turn, edit>>,
           titling' \in [Keys -> TitleTasks]
    PROVE  Tree'
  <1>1. faults' \in 0..MaxFaults /\ (faults' = 0 => faults = 0)
    BY Writing, TypesOfTree
  <1>2. meta' \in [Keys -> Meta] /\ \A j \in Keys : meta'[j].status = meta[j].status /\ meta'[j].path = meta[j].path
    BY TitleTypes, TypesOfTree
  <1>3. faults' = 0 => \A j \in Keys : PathOf(j)'
    BY <1>1, <1>2, PathStays DEF Tree, TreeHolds
  <1>. QED  BY <1>1, <1>2, <1>3, OnlyMeta DEF StaysUnborn

LEMMA SwitchTree ==
    ASSUME Tree, NEW k \in Keys, NEW id, Switch(k, id)
    PROVE  Tree'
  <1>1. UNCHANGED <<msgs, nextId, turn, edit, titling>> /\ meta' = WithPath(k, id) /\ id \in IdsOf(msgs[k])
        /\ \E f \in 1..2 : Writes(1, f)
    BY DEF Switch
  <1>2. faults' \in 0..MaxFaults /\ (faults' = 0 => faults = 0)
    BY <1>1, Writing, TypesOfTree
  <1>3. id \in Ids /\ id # None
    BY <1>1, StoreFacts, NextIds, TypesOfTree
  <1>4. /\ meta' \in [Keys -> Meta] /\ meta'[k].path = id
        /\ \A j \in Keys : meta'[j].status = meta[j].status
        /\ \A j \in Keys \ {k} : meta'[j] = meta[j]
    BY <1>1, <1>3, PathTypes, TypesOfTree
  <1>5. faults' = 0 => \A j \in Keys : PathOf(j)'
    <2>1. PathOf(k)'
      BY <1>1, <1>3, <1>4 DEF PathOf
    <2>2. faults' = 0 => \A j \in Keys \ {k} : PathOf(j)'
      BY <1>1, <1>2, <1>4, PathStays DEF Tree, TreeHolds
    <2>. QED  BY <2>1, <2>2
  <1>. QED  BY <1>1, <1>2, <1>4, <1>5, OnlyMeta, TypesOfTree DEF StaysUnborn

LEMMA TitleStepsTree ==
    ASSUME Tree, NEW k \in Keys, TitleSteps(k)
    PROVE  Tree'
  <1>1. titling \in [Keys -> TitleTasks] /\ titling[k] \in TitleTasks /\ Types
    BY TypesOfTree
  <1>2. titling' \in [Keys -> TitleTasks]
    <2>1. titling[k].check \in Nat /\ titling[k].ask \in Nat /\ titling[k].write \in Nat
      BY <1>1 DEF TitleTasks
    <2>2. \A a \in Nat : /\ [titling[k] EXCEPT !.check = a] \in TitleTasks
                         /\ [titling[k] EXCEPT !.ask = a] \in TitleTasks
                         /\ [titling[k] EXCEPT !.write = a] \in TitleTasks
      BY <1>1 DEF TitleTasks
    <2>3. CASE TitleCheck(k)
      <3>1. PICK a \in Nat, b \in Nat : titling' = [titling EXCEPT ![k].check = a, ![k].ask = b]
        <4>1. titling[k].check - 1 \in Nat /\ titling[k].ask + (IF NeedsTitle(k) THEN 1 ELSE 0) \in Nat
          BY <2>1, <2>3 DEF TitleCheck
        <4>. QED  BY <2>3, <4>1 DEF TitleCheck
      <3>. QED  BY <1>1, <3>1 DEF TitleTasks
    <2>4. CASE TitleRecheck(k)
      <3>1. PICK a \in Nat, b \in Nat : titling' = [titling EXCEPT ![k].ask = a, ![k].write = b]
        <4>1. titling[k].ask - 1 \in Nat /\ titling[k].write + (IF Untitled(k) THEN 1 ELSE 0) \in Nat
          BY <2>1, <2>4 DEF TitleRecheck
        <4>. QED  BY <2>4, <4>1 DEF TitleRecheck
      <3>. QED  BY <1>1, <3>1 DEF TitleTasks
    <2>5. CASE TitleWrite(k)
      <3>1. titling[k].write - 1 \in Nat
        BY <2>1, <2>5 DEF TitleWrite
      <3>2. titling' = [titling EXCEPT ![k].write = titling[k].write - 1]
        BY <2>5 DEF TitleWrite
      <3>. QED  BY <1>1, <2>2, <3>1, <3>2
    <2>. QED  BY <2>3, <2>4, <2>5 DEF TitleSteps
  <1>3. UNCHANGED <<msgs, nextId, turn, edit>>
    BY DEF TitleSteps, TitleCheck, TitleRecheck, TitleWrite
  <1>4. \/ UNCHANGED <<meta, faults>>
        \/ meta' = WithTitle(k, "model") /\ \E f \in 1..2 : Writes(1, f)
    BY DEF TitleSteps, TitleCheck, TitleRecheck, TitleWrite
  <1>5. CASE UNCHANGED <<meta, faults>>
    <2>1. faults' = 0 => \A j \in Keys : PathOf(j)'
      BY <1>3, <1>5, PathStays DEF Tree, TreeHolds
    <2>. QED  BY <1>2, <1>3, <1>5, <2>1, OnlyMeta, TypesOfTree DEF StaysUnborn
  <1>. QED  BY <1>2, <1>3, <1>4, <1>5, TitledTree

\* The parts of the invariant put together when the messages stay.
LEMMA Keeps ==
    ASSUME Tree, UNCHANGED msgs, nextId' \in 1..(MaxId + 1), nextId <= nextId',
           meta' \in [Keys -> Meta], StaysUnborn, titling' \in [Keys -> TitleTasks],
           faults' \in 0..MaxFaults, faults' = 0 => faults = 0,
           turn' \in Turns, (turn'.st = "none") = (turn'.key = NoKey), edit' \in Edits,
           faults' = 0 => \A k \in Keys : LinksOf(k)' /\ PathOf(k)',
           TurnHolds', EditHolds'
    PROVE  Tree'
  <1>1. Types'
    BY DEF Types, Tree
  <1>2. nextId' \in Nat /\ Types
    BY <1>1, NextIds DEF Tree
  <1>3. StoreHolds'
    BY <1>2, StoreStays DEF Tree
  <1>. QED  BY <1>1, <1>3 DEF Tree, TreeHolds

LEMMA NoneTypes == NoTurn \in Turns /\ NoTurn.st = "none" /\ NoTurn.key = NoKey /\ NoEdit \in Edits /\ NoEdit.st = "none"
  BY DEF NoTurn, Turns, NoEdit, Edits, NoSummary, None

LEMMA Starts ==
    ASSUME NEW k \in Keys, NEW path \in Seq(Message), path # <<>>, LastId(path) \in IdsOf(msgs'[k]),
           StartTurn(k, path)
    PROVE  turn' \in Turns /\ (turn'.st = "none") = (turn'.key = NoKey) /\ turn'.key = k /\ TurnHolds'
  <1>1. /\ turn' \in Turns /\ turn'.st = "run" /\ turn'.key = k /\ turn'.base = path
        /\ turn'.new = <<>> /\ turn'.summary = NoSummary /\ turn'.last = None
    BY NoneTypes DEF StartTurn, NoTurn, Turns
  <1>2. IdsOf(<<>>) = {} /\ Once(<<>>)
    BY DEF IdsOf, Once
  <1>3. Running(turn', IdsOf(msgs'[turn'.key]), nextId')
    BY <1>1, <1>2 DEF Running, Known
  <1>4. TurnSound(turn', IdsOf(msgs'[turn'.key]), nextId', faults' = 0)
    BY <1>1, <1>3 DEF TurnSound, Running
  <1>5. TurnHolds'
    BY <1>4 DEF TurnHolds
  <1>. QED  BY <1>1, <1>5, KeyAssumption

LEMMA RenameTree ==
    ASSUME Tree, NEW k \in Keys, NEW t, Rename(k, t)
    PROVE  Tree'
  BY TitledTree, TypesOfTree DEF Rename

LEMMA EditReadTree ==
    ASSUME Tree, NEW k \in Keys, NEW id \in Ids, EditRead(k, id)
    PROVE  Tree'
  <1>. DEFINE path == ReadPath(k)
  <1>1. PICK i \in DOMAIN path :
          /\ path[i].id = id /\ path[i].kind = "user"
          /\ edit' = [st |-> "derive", key |-> k, of |-> id, parent |-> path[i].parent,
                      path |-> SubSeq(path, 1, i - 1)]
    BY DEF EditRead
  <1>2. UNCHANGED <<meta, msgs, nextId, turn, titling, faults>>
    BY DEF EditRead
  <1>3. msgs[k] \in Seq(Message) /\ Types
    BY StoreFacts, TypesOfTree
  <1>4. path \in Seq(Message) /\ \A j \in DOMAIN path : \E l \in DOMAIN msgs[k] : path[j] = msgs[k][l]
    BY <1>3, ChainEnds DEF ReadPath, Within
  <1>. HIDE DEF path
  <1>5. path[i] \in Message /\ i \in 1..Len(path) /\ Len(path) \in Nat
    BY <1>4, LogFacts
  <1>6. SubSeq(path, 1, i - 1) \in Seq(Message)
    BY <1>4, <1>5, SubSeqProperties
  <1>7. edit' \in Edits /\ edit'.st = "derive" /\ edit'.key = k /\ edit'.parent = path[i].parent
    BY <1>1, <1>5, <1>6, MessageFields DEF Edits
  <1>8. faults = 0 => path[i].parent \in IdsOf(msgs[k]) \cup {None}
    <2>1. PICK l \in DOMAIN msgs[k] : path[i] = msgs[k][l]
      BY <1>4
    <2>2. faults = 0 => LinksOf(k)
      BY DEF Tree, TreeHolds
    <2>. QED  BY <1>1, <2>1, <2>2 DEF LinksOf, Waits
  <1>9. EditHolds'
    BY <1>2, <1>7, <1>8 DEF EditHolds
  <1>10. StoreHolds' /\ TreeHolds' /\ TurnHolds'
    <2>1. StoreHolds' /\ TurnHolds'
      BY <1>2 DEF Tree, StoreHolds, TurnHolds
    <2>2. TreeHolds'
      <3>. SUFFICES ASSUME faults = 0, NEW j \in Keys PROVE LinksOf(j)' /\ PathOf(j)'
        BY <1>2 DEF TreeHolds
      <3>1. LinksOf(j) /\ PathOf(j) /\ WaitsKept(j)
        BY <1>2 DEF Tree, TreeHolds, WaitsKept
      <3>. QED  BY <1>2, <3>1, LinksStay, PathStays
    <2>. QED  BY <2>1, <2>2
  <1>11. Types'
    BY <1>2, <1>7 DEF Tree, Types
  <1>. QED  BY <1>9, <1>10, <1>11 DEF Tree

LEMMA EditStartTree ==
    ASSUME Inv, Tree, EditStart
    PROVE  Tree'
  <1>1. edit' = NoEdit /\ UNCHANGED <<meta, msgs, nextId, titling, faults>> /\ edit.st = "start"
    BY DEF EditStart
  <1>2. Types /\ edit \in Edits /\ edit.key \in Keys /\ edit.path \in Seq(Message)
    BY <1>1, TypesOfTree DEF Types, Edits, Inv, EditInActive, Actives
  <1>3. edit'.st = "none" /\ edit' \in Edits /\ EditHolds'
    BY <1>1, NoneTypes DEF EditHolds
  <1>4. /\ turn' \in Turns /\ (turn'.st = "none") = (turn'.key = NoKey) /\ TurnHolds'
        /\ turn.st # "none" => turn' = turn
    <2>1. CASE turn.st = "none"
      <3>1. StartTurn(edit.key, edit.path)
        BY <2>1 DEF EditStart
      <3>2. edit.path # <<>> /\ LastId(edit.path) \in IdsOf(msgs'[edit.key])
        BY <1>1 DEF Tree, EditHolds
      <3>. QED  BY <1>2, <2>1, <3>1, <3>2, Starts
    <2>2. CASE turn.st # "none"
      <3>1. turn' = turn
        BY <2>2 DEF EditStart
      <3>2. TurnHolds'
        BY <1>1, <3>1 DEF Tree, TurnHolds
      <3>. QED  BY <1>2, <3>1, <3>2 DEF Types
    <2>. QED  BY <2>1, <2>2
  <1>5. faults' = 0 => \A k \in Keys : LinksOf(k)' /\ PathOf(k)'
    <2>. SUFFICES ASSUME faults' = 0, NEW k \in Keys PROVE LinksOf(k)' /\ PathOf(k)'
      OBVIOUS
    <2>1. LinksOf(k) /\ PathOf(k) /\ WaitsKept(k)
      BY <1>1, <1>4 DEF Tree, TreeHolds, WaitsKept
    <2>. QED  BY <1>1, <2>1, LinksStay, PathStays
  <1>6. nextId' \in 1..(MaxId + 1) /\ nextId <= nextId'
    BY <1>1, <1>2 DEF Types
  <1>. QED  BY <1>1, <1>3, <1>4, <1>5, <1>6, Keeps, TypesOfTree DEF StaysUnborn

LEMMA NewMessage ==
    ASSUME Types, nextId <= MaxId, NEW p \in Ids \cup {None}, NEW kind \in Kinds
    PROVE  LET m == [id |-> nextId, parent |-> p, kind |-> kind] IN
           m \in Message /\ m.id = nextId /\ m.parent = p /\ m.kind = kind
  BY NextIds, MessageFields

LEMMA NextIsNew ==
    ASSUME Types, StoreHolds, NEW k \in Keys
    PROVE  nextId \notin IdsOf(msgs[k])
  <1>1. nextId \in Nat /\ Known(IdsOf(msgs[k]), nextId)
    BY NextIds DEF StoreHolds
  <1>2. ~ (nextId < nextId)
    BY <1>1
  <1>. QED  BY <1>1, <1>2 DEF Known

\* Between turns and requests only the store matters.
LEMMA IdleKeeps ==
    ASSUME Tree, Idle, UNCHANGED <<edit, titling>>,
           meta' \in [Keys -> Meta], msgs' \in [Keys -> Seq(Message)], nextId' \in 1..(MaxId + 1),
           faults' \in 0..MaxFaults, turn' \in Turns, (turn'.st = "none") = (turn'.key = NoKey),
           StoreHolds', TreeHolds', TurnHolds'
    PROVE  Tree'
  <1>1. edit' \in Edits /\ EditHolds'
    BY DEF Idle, Tree, Types, EditHolds
  <1>2. Types'
    BY <1>1 DEF Types, Tree
  <1>. QED  BY <1>1, <1>2 DEF Tree

LEMMA SendTree ==
    ASSUME Inv, Tree, Send
    PROVE  Tree'
  <1>1. Idle /\ nextId <= MaxId /\ UNCHANGED <<edit, titling>>
    BY DEF Send
  <1>2. PICK k \in SendTargets, f \in 1..4 :
          /\ OnNewMessage(k, f)
          /\ IF f > 3 THEN StartTurn(k, Chain(msgs'[k], nextId)) ELSE UNCHANGED turn
    BY DEF Send
  <1>3. k \in Keys /\ (k \notin Actives => meta[k].status = "unborn")
    BY DEF SendTargets, Actives, Unborn
  <1>4. Types /\ StoreHolds /\ meta \in [Keys -> Meta] /\ msgs[k] \in Seq(Message)
    BY <1>3, TypesOfTree, StoreFacts DEF Tree
  <1>. DEFINE was == IF k \in Actives THEN meta ELSE [meta EXCEPT ![k] = NewMeta]
              p == LastId(Chain(msgs[k], was[k].path))
              m == [id |-> nextId, parent |-> p, kind |-> "user"]
  <1>5. /\ was \in [Keys -> Meta] /\ was[k].status = "active" /\ \A j \in Keys \ {k} : was[j] = meta[j]
        /\ k \in Actives => was[k] = meta[k]
        /\ k \notin Actives => was[k].path = None
    BY <1>3, <1>4, NewMetaType DEF Actives
  <1>6. /\ Writes(3, f) /\ nextId' = nextId + 1
        /\ meta' = IF f >= 3 THEN [was EXCEPT ![k].path = nextId] ELSE was
        /\ msgs' = IF f >= 2 THEN Appended(k, m) ELSE msgs
    BY <1>2 DEF OnNewMessage
  <1>7. p \in Ids \cup {None}
    BY <1>4, ChainEnds, LogFacts DEF Within
  <1>8. faults = 0 => p \in IdsOf(msgs[k]) \cup {None}
    <2>. SUFFICES ASSUME faults = 0 PROVE p \in IdsOf(msgs[k]) \cup {None}
      OBVIOUS
    <2>1. IF was[k].path = None THEN msgs[k] = <<>> ELSE was[k].path \in IdsOf(msgs[k])
      BY <1>3, <1>4, <1>5 DEF Tree, TreeHolds, PathOf, StoreHolds
    <2>2. CASE was[k].path \in IdsOf(msgs[k])
      BY <1>4, <2>2, ChainEnds
    <2>3. CASE was[k].path \notin IdsOf(msgs[k])
      <3>1. msgs[k] = <<>> /\ Chain(msgs[k], was[k].path) = msgs[k]
        BY <1>4, <2>1, <2>3, ChainEnds
      <3>. QED  BY <3>1 DEF LastId
    <2>. QED  BY <2>2, <2>3
  <1>. HIDE DEF was, p
  <1>9. m \in Message /\ m.id = nextId /\ m.parent = p
    BY <1>1, <1>4, <1>7, NewMessage DEF Kinds
  <1>. HIDE DEF m
  <1>10. nextId \in Ids /\ nextId \in Nat /\ nextId' \in 1..(MaxId + 1) /\ nextId' \in Nat /\ nextId <= nextId' /\ nextId < nextId'
    BY <1>1, <1>4, <1>6, NextIds
  <1>11. /\ meta' \in [Keys -> Meta] /\ meta'[k].status = "active" /\ \A j \in Keys \ {k} : meta'[j] = meta[j]
         /\ f >= 3 => meta'[k].path = nextId
    <2>1. [was EXCEPT ![k].path = nextId] \in [Keys -> Meta]
      BY <1>3, <1>5, <1>10 DEF Meta
    <2>2. /\ [was EXCEPT ![k].path = nextId][k].status = "active" /\ [was EXCEPT ![k].path = nextId][k].path = nextId
          /\ \A j \in Keys \ {k} : [was EXCEPT ![k].path = nextId][j] = was[j]
      BY <1>3, <1>5 DEF Meta
    <2>. QED  BY <1>5, <1>6, <2>1, <2>2
  <1>12. StaysUnborn
    BY <1>11 DEF StaysUnborn
  <1>13. faults' \in 0..MaxFaults /\ (faults' = 0 => faults = 0 /\ f > 3)
    <2>1. faults' \in 0..MaxFaults /\ (faults' = 0 => faults = 0 /\ ~ (f <= 3))
      BY <1>4, <1>6, Writing
    <2>. QED  BY <2>1
  <1>14. CASE f >= 2
    <2>1. msgs' = Appended(k, m)
      BY <1>6, <1>14
    <2>2. /\ StoreHolds' /\ msgs' \in [Keys -> Seq(Message)]
          /\ msgs'[k] = Append(msgs[k], m) /\ IdsOf(msgs'[k]) = IdsOf(msgs[k]) \cup {m.id}
          /\ \A j \in Keys \ {k} : msgs'[j] = msgs[j]
      <3>1. m.id \notin IdsOf(msgs[k]) /\ m.id < nextId' /\ meta'[k].status # "unborn"
        BY <1>3, <1>4, <1>9, <1>10, <1>11, NextIsNew
      <3>. QED  BY <1>3, <1>4, <1>9, <1>10, <1>12, <2>1, <3>1, StoreAdds
    <2>3. TreeHolds'
      <3>. SUFFICES ASSUME faults' = 0, NEW j \in Keys PROVE LinksOf(j)' /\ PathOf(j)'
        BY DEF TreeHolds
      <3>1. LinksOf(j) /\ PathOf(j) /\ WaitsKept(j)
        BY <1>1, <1>13 DEF Tree, TreeHolds, WaitsKept, Idle
      <3>2. CASE j = k
        <4>1. LinksOf(k)'
          BY <1>3, <1>4, <1>8, <1>9, <1>13, <2>2, <3>1, <3>2, LinksAdd
        <4>2. PathOf(k)'
          BY <1>9, <1>10, <1>11, <1>13, <2>2, NextIds, <1>4 DEF PathOf
        <4>. QED  BY <3>2, <4>1, <4>2
      <3>3. CASE j # k
        BY <1>11, <2>2, <3>1, <3>3, LinksStay, PathStays
      <3>. QED  BY <3>2, <3>3
    <2>4. turn' \in Turns /\ (turn'.st = "none") = (turn'.key = NoKey) /\ TurnHolds'
      <3>1. CASE f > 3
        <4>1. msgs'[k] \in Seq(Message) /\ nextId \in IdsOf(msgs'[k])
          BY <1>3, <1>9, <2>2
        <4>2. /\ Chain(msgs'[k], nextId) \in Seq(Message) /\ Chain(msgs'[k], nextId) # <<>>
              /\ LastId(Chain(msgs'[k], nextId)) \in IdsOf(msgs'[k])
          BY <4>1, ChainEnds DEF Within
        <4>3. StartTurn(k, Chain(msgs'[k], nextId))
          BY <1>2, <3>1
        <4>. QED  BY <1>3, <4>2, <4>3, Starts
      <3>2. CASE ~ (f > 3)
        <4>1. turn' = turn /\ turn.st = "none"
          BY <1>1, <1>2, <3>2 DEF Idle
        <4>. QED  BY <1>4, <4>1 DEF Types, TurnHolds
      <3>. QED  BY <3>1, <3>2
    <2>. QED  BY <1>1, <1>10, <1>11, <1>13, <2>2, <2>3, <2>4, IdleKeeps
  <1>15. CASE ~ (f >= 2)
    <2>1. UNCHANGED msgs /\ turn' = turn /\ turn.st = "none" /\ faults' # 0
      BY <1>1, <1>2, <1>6, <1>13, <1>15 DEF Idle
    <2>2. StoreHolds'
      BY <1>4, <1>10, <1>12, <2>1, StoreStays
    <2>3. TreeHolds' /\ TurnHolds'
      BY <2>1 DEF TreeHolds, TurnHolds
    <2>4. msgs' \in [Keys -> Seq(Message)] /\ turn' \in Turns /\ (turn'.st = "none") = (turn'.key = NoKey)
      BY <1>4, <2>1 DEF Types
    <2>. QED  BY <1>1, <1>10, <1>11, <1>13, <2>2, <2>3, <2>4, IdleKeeps
  <1>. QED  BY <1>14, <1>15

\* There are no or one active sessions, so that many to archive.
LEMMA ToArchive ==
    ASSUME OneActive
    PROVE  Cardinality(Actives) \in {0, 1}
  <1>1. CASE Actives = {}
    BY <1>1, FS_EmptySet
  <1>2. CASE Actives # {}
    <2>1. PICK k : Actives = {k}
      BY <1>2 DEF OneActive
    <2>. QED  BY <2>1, FS_Singleton
  <1>. QED  BY <1>1, <1>2

LEMMA CreateTree ==
    ASSUME Inv, Tree, NEW new \in Keys, NEW carry \in BOOLEAN, Create(new, carry)
    PROVE  Tree'
  <1>1. Idle /\ UNCHANGED <<turn, edit, titling>> /\ CreateNewSession(new, carry)
    BY DEF Create
  <1>. DEFINE n == Cardinality(Actives)
              made == [Archived(meta) EXCEPT ![new] = NewMeta]
              m == [id |-> nextId, parent |-> None, kind |-> "system"]
  <1>2. PICK f \in 1..5 :
         /\ Writes(n + (IF carry THEN 3 ELSE 1), f)
         /\ meta' = IF f <= n THEN Archived(meta)
                    ELSE IF carry /\ f >= n + 3 THEN [made EXCEPT ![new].path = nextId]
                    ELSE made
         /\ msgs' = IF carry /\ f >= n + 2 THEN Appended(new, m) ELSE msgs
    BY <1>1 DEF CreateNewSession
  <1>3. /\ meta[new].status = "unborn" /\ (carry => nextId <= MaxId)
        /\ nextId' = IF carry THEN nextId + 1 ELSE nextId
    BY <1>1 DEF CreateNewSession, Unborn
  <1>4. Types /\ StoreHolds /\ msgs[new] = <<>> /\ turn.st = "none"
    BY <1>1, <1>3, TypesOfTree DEF Tree, StoreHolds, Idle
  <1>5. n \in {0, 1}
    BY ToArchive DEF Inv
  <1>. HIDE DEF n
  <1>6. /\ made \in [Keys -> Meta] /\ made[new] = NewMeta
        /\ \A j \in Keys \ {new} : made[j] = Archived(meta)[j]
        /\ \A id \in Ids : /\ [made EXCEPT ![new].path = id] \in [Keys -> Meta]
                           /\ [made EXCEPT ![new].path = id][new].status = "active"
                           /\ [made EXCEPT ![new].path = id][new].path = id
                           /\ \A j \in Keys \ {new} : [made EXCEPT ![new].path = id][j] = made[j]
    <2>1. Archived(meta) \in [Keys -> Meta]
      BY <1>4, ArchivedTypes
    <2>2. made \in [Keys -> Meta] /\ made[new] = NewMeta /\ \A j \in Keys \ {new} : made[j] = Archived(meta)[j]
      BY <2>1, NewMetaType
    <2>. HIDE DEF made
    <2>. QED  BY <2>2, NewMetaType DEF Meta
  <1>. HIDE DEF made
  <1>7. nextId' \in 1..(MaxId + 1) /\ nextId' \in Nat /\ nextId <= nextId' /\ (carry => nextId \in Ids /\ nextId < nextId')
    BY <1>3, <1>4, NextIds DEF Types
  <1>8. faults' \in 0..MaxFaults /\ (faults' = 0 => faults = 0 /\ ~ (f <= n + (IF carry THEN 3 ELSE 1)))
    BY <1>2, <1>4, Writing
  <1>9. meta' = Archived(meta) \/ meta' = made \/ (carry /\ meta' = [made EXCEPT ![new].path = nextId])
    BY <1>2
  <1>10. /\ meta' \in [Keys -> Meta]
         /\ \A j \in Keys \ {new} : meta'[j].path = meta[j].path /\ (meta'[j].status = "unborn" => meta[j].status = "unborn")
    <2>1. \A j \in Keys \ {new} : meta'[j] = Archived(meta)[j]
      BY <1>6, <1>7, <1>9
    <2>2. meta' \in [Keys -> Meta]
      BY <1>4, <1>6, <1>7, <1>9, ArchivedTypes
    <2>. QED  BY <1>4, <2>1, <2>2, ArchivedTypes
  <1>11. StaysUnborn
    BY <1>3, <1>10 DEF StaysUnborn
  <1>12. turn' \in Turns /\ (turn'.st = "none") = (turn'.key = NoKey) /\ TurnHolds'
    BY <1>1, <1>4 DEF Types, TurnHolds
  <1>13. \A j \in Keys : WaitsKept(j)
    BY <1>4 DEF WaitsKept
  <1>14. CASE carry /\ f >= n + 2
    <2>1. m \in Message /\ m.id = nextId /\ m.parent = None
      BY <1>3, <1>4, <1>14, NewMessage DEF Kinds
    <2>2. msgs' = Appended(new, m)
      BY <1>2, <1>14
    <2>. HIDE DEF m
    <2>3. /\ StoreHolds' /\ msgs' \in [Keys -> Seq(Message)]
          /\ msgs'[new] = Append(msgs[new], m) /\ IdsOf(msgs'[new]) = IdsOf(msgs[new]) \cup {m.id}
          /\ \A j \in Keys \ {new} : msgs'[j] = msgs[j]
      <3>1. meta'[new].status = "active"
        BY <1>2, <1>5, <1>6, <1>7, <1>14, NewMetaType
      <3>. QED  BY <1>4, <1>7, <1>11, <1>14, <2>1, <2>2, <3>1, NextIsNew, StoreAdds
    <2>4. TreeHolds'
      <3>. SUFFICES ASSUME faults' = 0, NEW j \in Keys PROVE LinksOf(j)' /\ PathOf(j)'
        BY DEF TreeHolds
      <3>1. LinksOf(j) /\ PathOf(j)
        BY <1>8 DEF Tree, TreeHolds
      <3>2. CASE j = new
        <4>1. LinksOf(new)'
          BY <1>4, <1>13, <2>1, <2>3, <3>1, <3>2, LinksAdd
        <4>2. meta' = [made EXCEPT ![new].path = nextId]
          BY <1>2, <1>5, <1>8, <1>14
        <4>3. meta'[new].path = nextId /\ nextId # None
          BY <1>4, <1>6, <1>7, <1>14, <4>2, NextIds
        <4>4. PathOf(new)'
          BY <2>1, <2>3, <4>3 DEF PathOf
        <4>. QED  BY <3>2, <4>1, <4>4
      <3>3. CASE j # new
        BY <1>10, <1>13, <2>3, <3>1, <3>3, LinksStay, PathStays
      <3>. QED  BY <3>2, <3>3
    <2>. QED  BY <1>1, <1>7, <1>8, <1>10, <1>12, <2>3, <2>4, IdleKeeps
  <1>15. CASE ~ (carry /\ f >= n + 2)
    <2>1. UNCHANGED msgs /\ msgs' \in [Keys -> Seq(Message)]
      BY <1>2, <1>4, <1>15 DEF Types
    <2>2. StoreHolds'
      BY <1>4, <1>7, <1>11, <2>1, StoreStays
    <2>3. TreeHolds'
      <3>. SUFFICES ASSUME faults' = 0, NEW j \in Keys PROVE LinksOf(j)' /\ PathOf(j)'
        BY DEF TreeHolds
      <3>1. LinksOf(j) /\ PathOf(j)
        BY <1>8 DEF Tree, TreeHolds
      <3>2. CASE j = new
        <4>1. ~carry /\ f > n + 1
          BY <1>5, <1>8, <1>15
        <4>2. meta' = made
          BY <1>2, <1>5, <4>1
        <4>. QED  BY <1>4, <1>6, <1>13, <2>1, <3>1, <3>2, <4>2, LinksStay, NewMetaType DEF PathOf
      <3>3. CASE j # new
        BY <1>10, <1>13, <2>1, <3>1, <3>3, LinksStay, PathStays
      <3>. QED  BY <3>2, <3>3
    <2>. QED  BY <1>1, <1>7, <1>8, <1>10, <1>12, <2>1, <2>2, <2>3, IdleKeeps
  <1>. QED  BY <1>14, <1>15

LEMMA DeleteTree ==
    ASSUME Inv, Tree, NEW k \in Keys, Delete(k)
    PROVE  Tree'
  <1>1. /\ Idle /\ UNCHANGED <<nextId, turn, edit, titling>> /\ msgs' = [msgs EXCEPT ![k] = <<>>]
        /\ meta[k].status # "unborn"
    BY DEF Delete, Live
  <1>2. Types /\ StoreHolds /\ turn.st = "none" /\ meta \in [Keys -> Meta] /\ msgs \in [Keys -> Seq(Message)]
    BY <1>1, TypesOfTree DEF Tree, Idle, Types
  <1>. DEFINE gone == [NewMeta EXCEPT !.status = "gone"]
  <1>3. gone \in Meta /\ gone.path = None /\ gone.status = "gone"
    BY NewMetaType DEF Meta, Statuses
  <1>. HIDE DEF gone
  <1>4. Removed(k) \in [Keys -> Meta] /\ Removed(k)[k] = gone /\ \A j \in Keys \ {k} : Removed(k)[j] = meta[j]
    BY <1>2, <1>3 DEF Removed, gone
  <1>5. PICK f \in 1..3 :
         IF k \in Actives
           THEN \E new \in Unborn :
                  /\ Writes(2, f)
                  /\ meta' = IF f = 1 THEN Removed(k) ELSE [Removed(k) EXCEPT ![new] = NewMeta]
           ELSE /\ Writes(1, f)
                /\ meta' = Removed(k)
    BY DEF Delete
  <1>6. faults' \in 0..MaxFaults /\ (faults' = 0 => faults = 0)
    BY <1>2, <1>5, Writing
  <1>7. \/ meta' = Removed(k)
        \/ \E new \in Unborn : meta' = [Removed(k) EXCEPT ![new] = NewMeta]
    BY <1>5
  <1>8. /\ meta' \in [Keys -> Meta] /\ StaysUnborn /\ meta'[k].status # "unborn" /\ meta'[k].path = None
        /\ \A j \in Keys \ {k} : \/ meta'[j] = meta[j]
                                 \/ meta[j].status = "unborn" /\ meta'[j].path = None
    <2>. HIDE DEF Removed
    <2>1. CASE meta' = Removed(k)
      BY <1>3, <1>4, <2>1 DEF StaysUnborn
    <2>2. CASE \E new \in Unborn : meta' = [Removed(k) EXCEPT ![new] = NewMeta]
      <3>1. PICK new \in Unborn : meta' = [Removed(k) EXCEPT ![new] = NewMeta]
        BY <2>2
      <3>2. new \in Keys /\ meta[new].status = "unborn" /\ new # k
        BY <1>1 DEF Unborn
      <3>3. meta' \in [Keys -> Meta] /\ meta'[new] = NewMeta /\ \A j \in Keys \ {new} : meta'[j] = Removed(k)[j]
        BY <1>4, <3>1, <3>2, NewMetaType
      <3>. QED  BY <1>3, <1>4, <3>2, <3>3, NewMetaType DEF StaysUnborn
    <2>. QED  BY <1>7, <2>1, <2>2
  <1>9. msgs' \in [Keys -> Seq(Message)] /\ msgs'[k] = <<>> /\ \A j \in Keys \ {k} : msgs'[j] = msgs[j]
    BY <1>1, <1>2, EmptySeq
  <1>10. StoreHolds'
    <2>. SUFFICES ASSUME NEW j \in Keys
                  PROVE  /\ Once(msgs'[j]) /\ Known(IdsOf(msgs'[j]), nextId)
                         /\ meta'[j].status = "unborn" => msgs'[j] = <<>>
      BY <1>1 DEF StoreHolds
    <2>1. CASE j = k
      BY <1>9, <2>1 DEF Once, Known, IdsOf
    <2>2. CASE j # k
      BY <1>2, <1>8, <1>9, <2>2 DEF StoreHolds, StaysUnborn
    <2>. QED  BY <2>1, <2>2
  <1>11. TreeHolds'
    <2>. SUFFICES ASSUME faults' = 0, NEW j \in Keys PROVE LinksOf(j)' /\ PathOf(j)'
      BY DEF TreeHolds
    <2>1. CASE j = k
      BY <1>8, <1>9, <2>1 DEF LinksOf, PathOf
    <2>2. CASE j # k
      <3>1. LinksOf(j) /\ PathOf(j) /\ WaitsKept(j)
        BY <1>2, <1>6 DEF Tree, TreeHolds, WaitsKept
      <3>2. LinksOf(j)'
        BY <1>9, <2>2, <3>1, LinksStay
      <3>3. PathOf(j)'
        BY <1>2, <1>8, <1>9, <2>2, <3>1 DEF PathOf, StoreHolds
      <3>. QED  BY <3>2, <3>3
    <2>. QED  BY <2>1, <2>2
  <1>12. turn' \in Turns /\ (turn'.st = "none") = (turn'.key = NoKey) /\ TurnHolds' /\ nextId' \in 1..(MaxId + 1)
    BY <1>1, <1>2 DEF Types, TurnHolds
  <1>. QED  BY <1>1, <1>6, <1>8, <1>9, <1>10, <1>11, <1>12, IdleKeeps

LEMMA EditDeriveTree ==
    ASSUME Inv, Tree, EditDerive
    PROVE  Tree'
  <1>. DEFINE k == edit.key
              m == [id |-> nextId, parent |-> edit.parent, kind |-> "user"]
  <1>1. /\ edit.st = "derive" /\ nextId <= MaxId /\ UNCHANGED <<turn, titling>>
        /\ msgs' = Appended(k, m) /\ meta' = WithPath(k, nextId) /\ nextId' = nextId + 1
    BY DEF EditDerive
  <1>2. k \in Keys /\ meta[k].status = "active"
    BY <1>1 DEF Inv, EditInActive, Actives
  <1>3. /\ Types /\ StoreHolds /\ edit \in Edits /\ edit.parent \in Ids \cup {None} /\ edit.path \in Seq(Message)
        /\ msgs[k] \in Seq(Message)
    BY <1>2, TypesOfTree, StoreFacts DEF Tree, Types, Edits
  <1>4. m \in Message /\ m.id = nextId /\ m.parent = edit.parent
    BY <1>1, <1>3, NewMessage DEF Kinds
  <1>. HIDE DEF m
  <1>5. /\ nextId \in Ids /\ nextId \in Nat /\ nextId # None
        /\ nextId' \in 1..(MaxId + 1) /\ nextId' \in Nat /\ nextId <= nextId' /\ nextId < nextId'
    BY <1>1, <1>3, NextIds
  <1>6. /\ meta' \in [Keys -> Meta] /\ meta'[k].path = nextId
        /\ \A j \in Keys : meta'[j].status = meta[j].status
        /\ \A j \in Keys \ {k} : meta'[j] = meta[j]
    BY <1>1, <1>2, <1>3, <1>5, PathTypes
  <1>7. StaysUnborn
    BY <1>6 DEF StaysUnborn
  <1>8. /\ StoreHolds' /\ msgs' \in [Keys -> Seq(Message)]
        /\ msgs'[k] = Append(msgs[k], m) /\ IdsOf(msgs'[k]) = IdsOf(msgs[k]) \cup {m.id}
        /\ \A j \in Keys \ {k} : msgs'[j] = msgs[j]
    <2>1. m.id \notin IdsOf(msgs[k]) /\ m.id < nextId' /\ meta'[k].status # "unborn"
      BY <1>2, <1>3, <1>4, <1>5, <1>6, NextIsNew
    <2>. QED  BY <1>1, <1>2, <1>3, <1>4, <1>5, <1>7, <2>1, StoreAdds
  <1>9. PICK f \in 1..2 :
          /\ Writes(1, f)
          /\ edit' = IF f = 1 THEN NoEdit ELSE [edit EXCEPT !.st = "start", !.path = Append(edit.path, m)]
    BY DEF EditDerive, m
  <1>10. faults' \in 0..MaxFaults /\ (faults' = 0 => faults = 0)
    BY <1>3, <1>9, Writing
  <1>11. TreeHolds'
    <2>. SUFFICES ASSUME faults' = 0, NEW j \in Keys PROVE LinksOf(j)' /\ PathOf(j)'
      BY DEF TreeHolds
    <2>1. LinksOf(j) /\ PathOf(j) /\ WaitsKept(j)
      BY <1>1, <1>10 DEF Tree, TreeHolds, WaitsKept
    <2>2. CASE j = k
      <3>1. edit.parent \in IdsOf(msgs[k]) \cup {None}
        BY <1>1, <1>10 DEF Tree, EditHolds
      <3>2. msgs'[j] = Append(msgs[j], m) /\ m.parent \in IdsOf(msgs[j]) \cup {None}
        BY <1>4, <1>8, <2>2, <3>1
      <3>3. LinksOf(j)'
        BY <1>3, <1>4, <2>1, <3>2, LinksAdd
      <3>4. meta'[j].path = nextId /\ nextId \in IdsOf(msgs'[j])
        BY <1>4, <1>6, <1>8, <2>2
      <3>5. PathOf(j)'
        BY <1>5, <3>4 DEF PathOf
      <3>. QED  BY <3>3, <3>5
    <2>3. CASE j # k
      BY <1>6, <1>8, <2>1, <2>3, LinksStay, PathStays
    <2>. QED  BY <2>2, <2>3
  <1>12. TurnHolds'
    <2>1. turn.st # "none" => turn.key \in Keys
      BY DEF Inv, TurnInActive, Actives
    <2>2. \A j \in Keys : More(j)
      BY <1>4, <1>8 DEF More
    <2>. QED  BY <1>1, <1>3, <1>5, <1>10, <2>1, <2>2, TurnUntouched DEF Tree
  <1>13. edit' \in Edits /\ EditHolds'
    <2>1. CASE f = 1
      BY <1>9, <2>1, NoneTypes DEF EditHolds
    <2>2. CASE f # 1
      <3>1. /\ Append(edit.path, m) \in Seq(Message) /\ Append(edit.path, m) # <<>>
            /\ LastId(Append(edit.path, m)) = nextId
        BY <1>3, <1>4, Adds
      <3>2. edit' = [edit EXCEPT !.st = "start", !.path = Append(edit.path, m)]
        BY <1>9, <2>2
      <3>3. edit' \in Edits /\ edit'.st = "start" /\ edit'.key = k /\ edit'.path = Append(edit.path, m)
        BY <1>3, <3>1, <3>2 DEF Edits
      <3>. QED  BY <1>4, <1>8, <3>1, <3>3 DEF EditHolds
    <2>. QED  BY <2>1, <2>2
  <1>14. Types'
    BY <1>1, <1>3, <1>5, <1>6, <1>8, <1>10, <1>13 DEF Types
  <1>. QED  BY <1>8, <1>11, <1>12, <1>13, <1>14 DEF Tree

------------------------------------------------------------------------------
(* The turn *)

LEMMA Joins ==
    ASSUME NEW b \in Seq(Message), NEW c \in Seq(Message)
    PROVE  /\ b \o c \in Seq(Message) /\ Len(b \o c) = Len(b) + Len(c)
           /\ \A i \in 1..Len(c) : (b \o c)[Len(b) + i] = c[i]
           /\ c = <<>> => LastId(b \o c) = LastId(b)
           /\ c # <<>> => LastId(b \o c) = LastId(c)
  <1>1. /\ b \o c \in Seq(Message) /\ Len(b \o c) = Len(b) + Len(c)
        /\ \A i \in 1..(Len(b) + Len(c)) : (b \o c)[i] = IF i <= Len(b) THEN b[i] ELSE c[i - Len(b)]
    BY ConcatProperties
  <1>2. Len(b) \in Nat /\ Len(c) \in Nat
    BY LogFacts
  <1>3. \A i \in 1..Len(c) : (b \o c)[Len(b) + i] = c[i]
    BY <1>1, <1>2
  <1>4. c = <<>> => b \o c = b
    BY ConcatEmptySeq
  <1>5. ASSUME c # <<>> PROVE LastId(b \o c) = LastId(c)
    <2>1. Len(c) > 0 /\ LastId(c) = c[Len(c)].id
      BY <1>2, <1>5, LogFacts, EmptySeq
    <2>2. b \o c # <<>>
      BY <1>1, <1>2, <2>1, EmptySeq
    <2>3. LastId(b \o c) = (b \o c)[Len(b) + Len(c)].id
      BY <1>1, <2>2 DEF LastId
    <2>. QED  BY <1>2, <1>3, <2>1, <2>3
  <1>. QED  BY <1>1, <1>3, <1>4, <1>5

\* The steps of a turn that store nothing.
LEMMA TurnKeeps ==
    ASSUME Tree, UNCHANGED <<meta, msgs, edit, faults>>, titling' \in [Keys -> TitleTasks],
           nextId' \in 1..(MaxId + 1), nextId <= nextId',
           turn' \in Turns, turn'.key = turn.key, turn.st # "none", turn'.st # "none",
           faults = 0 => \A k \in Keys : WaitsKept(k) \/ LinksOf(k)',
           TurnSound(turn', IdsOf(msgs[turn.key]), nextId', faults = 0)
    PROVE  Tree'
  <1>1. Types
    BY TypesOfTree
  <1>2. TurnHolds'
    BY DEF TurnHolds
  <1>3. EditHolds'
    BY DEF Tree, EditHolds
  <1>4. faults' = 0 => \A k \in Keys : LinksOf(k)' /\ PathOf(k)'
    <2>. SUFFICES ASSUME faults' = 0, NEW k \in Keys PROVE LinksOf(k)' /\ PathOf(k)'
      OBVIOUS
    <2>1. LinksOf(k) /\ PathOf(k) /\ msgs'[k] = msgs[k] /\ meta'[k].path = meta[k].path
      BY DEF Tree, TreeHolds
    <2>. QED  BY <2>1, LinksStay, PathStays
  <1>5. (turn'.st = "none") = (turn'.key = NoKey) /\ meta' \in [Keys -> Meta] /\ faults' \in 0..MaxFaults /\ edit' \in Edits /\ StaysUnborn
    BY <1>1 DEF Types, StaysUnborn
  <1>. QED  BY <1>2, <1>3, <1>4, <1>5, Keeps

LEMMA TurnFacts ==
    ASSUME Inv, Tree, turn.st # "none"
    PROVE  /\ Types /\ turn \in Turns /\ turn.key \in Keys /\ nextId \in Nat
           /\ turn.base \in Seq(Message) /\ turn.new \in Seq(Message) /\ turn.out \in Seq(Message)
           /\ turn.summary \in Message \cup {NoSummary} /\ turn.summary.id \in Nat
           /\ TurnSound(turn, IdsOf(msgs[turn.key]), nextId, faults = 0)
           /\ nextId \notin IdsOf(msgs[turn.key]) /\ IdsOf(msgs[turn.key]) \subseteq Ids
           /\ msgs[turn.key] \in Seq(Message)
  <1>1. Types /\ turn \in Turns /\ turn.key \in Keys /\ nextId \in Nat
    BY NextIds DEF Tree, Types, Inv, TurnInActive, Actives
  <1>2. /\ turn.base \in Seq(Message) /\ turn.new \in Seq(Message) /\ turn.out \in Seq(Message)
        /\ turn.summary \in Message \cup {NoSummary}
    BY <1>1 DEF Turns
  <1>3. turn.summary.id \in Nat
    BY <1>2, MessageFields DEF NoSummary, None
  <1>4. TurnSound(turn, IdsOf(msgs[turn.key]), nextId, faults = 0)
    BY DEF Tree, TurnHolds
  <1>5. nextId \notin IdsOf(msgs[turn.key]) /\ IdsOf(msgs[turn.key]) \subseteq Ids /\ msgs[turn.key] \in Seq(Message)
    BY <1>1, NextIsNew, StoreFacts DEF Tree
  <1>. QED  BY <1>1, <1>2, <1>3, <1>4, <1>5

LEMMA BubbleTree ==
    ASSUME Inv, Tree, NEW kind \in ReplyKinds, Bubble(kind)
    PROVE  Tree'
  <1>. DEFINE m == [id |-> nextId, parent |-> LastId(Conversation), kind |-> kind]
              S == IdsOf(msgs[turn.key])
              new == Append(turn.new, m)
  <1>1. /\ turn.st = "run" /\ nextId <= MaxId /\ nextId' = nextId + 1
        /\ turn' = [turn EXCEPT !.new = new]
        /\ UNCHANGED <<meta, msgs, edit, titling, faults>>
    BY DEF Bubble
  <1>2. /\ Types /\ turn \in Turns /\ turn.key \in Keys /\ nextId \in Nat
        /\ turn.base \in Seq(Message) /\ turn.new \in Seq(Message)
        /\ TurnSound(turn, S, nextId, faults = 0) /\ nextId \notin S
    BY <1>1, TurnFacts
  <1>3. Running(turn, S, nextId) /\ turn.last \in S \cup {None} /\ S # {}
    BY <1>1, <1>2 DEF TurnSound
  <1>4. kind \in Kinds /\ kind # "user"
    BY KindAssumption DEF Kinds
  <1>5. /\ LastId(Conversation) \in Ids \cup {None}
        /\ LastId(Conversation) = IF turn.new = <<>> THEN LastId(turn.base) ELSE LastId(turn.new)
    BY <1>2, Joins, LogFacts DEF Conversation
  <1>6. m \in Message /\ m.id = nextId /\ m.kind = kind /\ m.parent = LastId(Conversation)
    BY <1>1, <1>2, <1>4, <1>5, NewMessage
  <1>. HIDE DEF m, S
  <1>7. nextId' \in 1..(MaxId + 1) /\ nextId <= nextId' /\ nextId < nextId' /\ nextId' \in Nat
    BY <1>1, <1>2, NextIds
  <1>8. /\ new \in Seq(Message) /\ DOMAIN new = 1..(Len(turn.new) + 1)
        /\ DOMAIN turn.new = 1..Len(turn.new) /\ Len(turn.new) \in Nat
        /\ \A i \in DOMAIN turn.new : new[i] = turn.new[i]
        /\ new[Len(turn.new) + 1] = m /\ IdsOf(new) = IdsOf(turn.new) \cup {nextId}
        /\ Once(turn.new) /\ nextId \notin IdsOf(turn.new) => Once(new)
        /\ IdsOf(turn.new) \subseteq Nat
    BY <1>2, <1>6, Adds, LogFacts, NextIds
  <1>. HIDE DEF new
  <1>9. /\ turn' \in Turns /\ turn'.st = "run" /\ turn'.key = turn.key /\ turn'.new = new
        /\ turn'.base = turn.base /\ turn'.summary = turn.summary /\ turn'.last = turn.last
    BY <1>1, <1>2, <1>8 DEF Turns
  <1>10. Once(new) /\ Known(IdsOf(new), nextId') /\ IdsOf(new) \cap S = {}
    <2>1. \A id \in IdsOf(turn.new) : id < nextId /\ id \in Nat
      BY <1>3, <1>8 DEF Running, Known
    <2>2. nextId \notin IdsOf(turn.new)
      BY <1>2, <2>1
    <2>3. \A id \in IdsOf(turn.new) : id < nextId'
      BY <1>2, <1>7, <2>1
    <2>. QED  BY <1>2, <1>3, <1>7, <1>8, <2>2, <2>3 DEF Known, Running
  <1>11. \A i \in DOMAIN new : /\ new[i].kind # "user"
                               /\ new[i].parent = IF i = 1 THEN LastId(turn.base) ELSE new[i - 1].id
    <2>. SUFFICES ASSUME NEW i \in DOMAIN new
                  PROVE  /\ new[i].kind # "user"
                         /\ new[i].parent = IF i = 1 THEN LastId(turn.base) ELSE new[i - 1].id
      OBVIOUS
    <2>1. CASE i \in DOMAIN turn.new
      <3>1. i # 1 => i - 1 \in DOMAIN turn.new
        BY <1>8, <2>1
      <3>. QED  BY <1>3, <1>8, <2>1, <3>1 DEF Running
    <2>2. CASE i = Len(turn.new) + 1
      <3>1. CASE turn.new = <<>>
        BY <1>4, <1>5, <1>6, <1>8, <2>2, <3>1
      <3>2. CASE turn.new # <<>>
        <4>1. LastId(turn.new) = turn.new[Len(turn.new)].id /\ Len(turn.new) \in DOMAIN turn.new
          BY <1>2, <3>2, LogFacts
        <4>. QED  BY <1>4, <1>5, <1>6, <1>8, <2>2, <3>2, <4>1
      <3>. QED  BY <3>1, <3>2
    <2>. QED  BY <1>8, <2>1, <2>2
  <1>12. Running(turn', S, nextId')
    BY <1>3, <1>9, <1>10, <1>11 DEF Running
  <1>13. TurnSound(turn', S, nextId', faults = 0)
    BY <1>3, <1>9, <1>12 DEF TurnSound
  <1>14. \A k \in Keys : WaitsKept(k)
    BY <1>1 DEF WaitsKept
  <1>. QED  BY <1>1, <1>2, <1>7, <1>9, <1>13, <1>14, TurnKeeps, TypesOfTree DEF S

LEMMA EndRunTree ==
    ASSUME Inv, Tree, EndRun
    PROVE  Tree'
  <1>. DEFINE S == IdsOf(msgs[turn.key])
  <1>1. /\ turn.st = "run" /\ turn' = [turn EXCEPT !.st = "persist", !.out = turn.new]
        /\ UNCHANGED <<meta, msgs, nextId, edit, titling, faults>>
    BY DEF EndRun
  <1>2. /\ Types /\ turn \in Turns /\ turn.key \in Keys /\ nextId \in Nat /\ turn.new \in Seq(Message)
        /\ TurnSound(turn, S, nextId, faults = 0) /\ S \subseteq Ids
    BY <1>1, TurnFacts
  <1>3. Running(turn, S, nextId) /\ turn.last \in S \cup {None} /\ S # {}
    BY <1>1, <1>2 DEF TurnSound
  <1>4. /\ turn' \in Turns /\ turn'.st = "persist" /\ turn'.key = turn.key /\ turn'.out = turn.new
        /\ turn'.summary = NoSummary /\ turn'.last = turn.last
    BY <1>1, <1>2, <1>3 DEF Turns, Running
  <1>5. NoSummary.id = None /\ NoSummary.parent = None /\ None \notin S /\ None < nextId /\ None \notin IdsOf(turn.new)
    <2>1. IdsOf(turn.new) \subseteq Ids /\ nextId > 0
      BY <1>2, LogFacts DEF Types
    <2>. QED  BY <1>2, <2>1, NextIds DEF NoSummary, None
  <1>6. Len(turn.new) \in Nat /\ DOMAIN turn.new = 1..Len(turn.new) /\ \A i \in DOMAIN turn.new : turn.new[i].id \in IdsOf(turn.new)
    BY <1>2, LogFacts
  <1>. HIDE DEF S
  <1>7. \A i \in DOMAIN turn'.out : Linked(turn', S, i)
    <2>. SUFFICES ASSUME NEW i \in DOMAIN turn.new PROVE Linked(turn', S, i)
      BY <1>4
    <2>1. CASE i = 1
      BY <1>3, <1>4, <2>1 DEF Linked, Running
    <2>2. CASE i # 1
      <3>1. i - 1 \in DOMAIN turn.new /\ i - 1 < i
        BY <1>6, <2>2
      <3>2. turn.new[i - 1].id = turn.new[i].parent /\ turn.new[i - 1].id # None
        BY <1>3, <1>5, <1>6, <2>2, <3>1 DEF Running
      <3>. QED  BY <1>4, <1>5, <3>1, <3>2 DEF Linked
    <2>. QED  BY <2>1, <2>2
  <1>8. Storing(turn', S, nextId, faults = 0)
    BY <1>3, <1>4, <1>7 DEF Storing, Running
  <1>9. TurnSound(turn', S, nextId, faults = 0)
    BY <1>3, <1>4, <1>5, <1>8 DEF TurnSound
  <1>10. \A k \in Keys : WaitsKept(k)
    BY <1>1 DEF WaitsKept
  <1>11. nextId' \in 1..(MaxId + 1) /\ nextId <= nextId'
    BY <1>1, <1>2 DEF Types
  <1>. QED  BY <1>1, <1>2, <1>4, <1>9, <1>10, <1>11, TurnKeeps, TypesOfTree DEF S

\* The last messages of a log, as many as n.
LEMMA LastOnes ==
    ASSUME NEW s \in Seq(Message), NEW n \in Nat \ {0}
    PROVE  LET t == LastN(s, n) IN
           /\ t \in Seq(Message)
           /\ Len(t) = IF Len(s) <= n THEN Len(s) ELSE n
           /\ \A i \in 1..Len(t) : t[i] = s[Len(s) - Len(t) + i]
           /\ LastId(t) = LastId(s) /\ (s = <<>> => t = <<>>)
  <1>. DEFINE t == LastN(s, n)
  <1>1. Len(s) \in Nat /\ DOMAIN s = 1..Len(s)
    BY LogFacts
  <1>2. CASE Len(s) <= n
    <2>1. t = s
      BY <1>2 DEF LastN
    <2>. QED  BY <1>1, <1>2, <2>1
  <1>3. CASE ~ (Len(s) <= n)
    <2>. DEFINE from == Len(s) - n + 1
    <2>1. t = SubSeq(s, from, Len(s))
      BY <1>3 DEF LastN
    <2>2. from \in 1..Len(s) /\ Len(s) - from + 1 = n /\ \A i \in 1..n : from + i - 1 = Len(s) - n + i
      BY <1>1, <1>3
    <2>3. /\ t \in Seq(Message) /\ Len(t) = n
          /\ \A i \in 1..n : t[i] = s[from + i - 1]
      <3>. HIDE DEF t, from
      <3>. QED  BY <1>1, <2>1, <2>2, SubSeqProperties
    <2>. HIDE DEF t, from
    <2>4. \A i \in 1..n : t[i] = s[Len(s) - n + i]
      BY <2>2, <2>3
    <2>5. s # <<>> /\ t # <<>>
      BY <1>1, <1>3, <2>3, EmptySeq
    <2>6. LastId(t) = LastId(s)
      <3>1. LastId(t) = t[n].id /\ LastId(s) = s[Len(s)].id /\ t[n] = s[Len(s)]
        BY <1>1, <2>3, <2>4, <2>5, LogFacts
      <3>. QED  BY <3>1
    <2>. QED  BY <1>3, <2>3, <2>4, <2>5, <2>6 DEF t
  <1>. QED  BY <1>2, <1>3

\* One message gets another parent.
Moved(s, x, y) == [i \in DOMAIN s |-> IF s[i].id = x THEN [s[i] EXCEPT !.parent = y] ELSE s[i]]
LEMMA Reparents ==
    ASSUME NEW s \in Seq(Message), NEW x, NEW y \in Ids \cup {None}
    PROVE  LET t == Moved(s, x, y) IN
           /\ t \in Seq(Message) /\ DOMAIN t = DOMAIN s /\ Len(t) = Len(s) /\ IdsOf(t) = IdsOf(s)
           /\ \A i \in DOMAIN s : /\ t[i].id = s[i].id /\ t[i].kind = s[i].kind
                                  /\ t[i].parent = IF s[i].id = x THEN y ELSE s[i].parent
  <1>. DEFINE t == Moved(s, x, y)
  <1>1. Len(s) \in Nat /\ DOMAIN s = 1..Len(s) /\ \A i \in DOMAIN s : s[i] \in Message
    BY LogFacts
  <1>2. \A i \in DOMAIN s : /\ t[i] \in Message /\ t[i].id = s[i].id /\ t[i].kind = s[i].kind
                            /\ t[i].parent = IF s[i].id = x THEN y ELSE s[i].parent
    BY <1>1, MessageFields DEF Moved
  <1>3. t \in [1..Len(s) -> Message]
    BY <1>1, <1>2 DEF Moved
  <1>4. DOMAIN t = DOMAIN s
    BY DEF Moved
  <1>. HIDE DEF t
  <1>5. t \in Seq(Message)
    BY <1>1, <1>3, IsASeq
  <1>6. Len(t) = Len(s)
    BY <1>1, <1>3, <1>4, <1>5, LogFacts
  <1>7. IdsOf(t) = IdsOf(s)
    BY <1>2, <1>4 DEF IdsOf
  <1>. QED  BY <1>2, <1>4, <1>5, <1>6, <1>7 DEF t

\* A message in front of a log.
LEMMA Prepends ==
    ASSUME NEW s \in Seq(Message), NEW m \in Message
    PROVE  LET t == <<m>> \o s IN
           /\ t \in Seq(Message) /\ DOMAIN t = 1..(Len(s) + 1) /\ t[1] = m
           /\ \A i \in DOMAIN s : i + 1 \in DOMAIN t /\ t[i + 1] = s[i]
           /\ IdsOf(t) = {m.id} \cup IdsOf(s)
           /\ Once(s) /\ m.id \notin IdsOf(s) => Once(t)
  <1>. DEFINE t == <<m>> \o s
  <1>1. Len(s) \in Nat /\ DOMAIN s = 1..Len(s) /\ \A i \in DOMAIN s : s[i].id \in IdsOf(s)
    BY LogFacts
  <1>2. <<m>> \in Seq(Message) /\ Len(<<m>>) = 1 /\ <<m>>[1] = m
    OBVIOUS
  <1>3. /\ t \in Seq(Message) /\ Len(t) = 1 + Len(s)
        /\ \A i \in 1..(1 + Len(s)) : t[i] = IF i <= 1 THEN <<m>>[i] ELSE s[i - 1]
    BY <1>2, ConcatProperties
  <1>. HIDE DEF t
  <1>4. DOMAIN t = 1..(Len(s) + 1) /\ t[1] = m
    BY <1>1, <1>2, <1>3, LogFacts
  <1>5. \A i \in DOMAIN s : i + 1 \in DOMAIN t /\ t[i + 1] = s[i]
    BY <1>1, <1>3, <1>4
  <1>6. \A i \in DOMAIN t : i = 1 \/ (i - 1 \in DOMAIN s /\ t[i] = s[i - 1])
    BY <1>1, <1>3, <1>4
  <1>7. IdsOf(t) = {m.id} \cup IdsOf(s)
    <2>1. 1 \in DOMAIN t
      BY <1>1, <1>4
    <2>. QED  BY <1>4, <1>5, <1>6, <2>1 DEF IdsOf
  <1>8. ASSUME Once(s), m.id \notin IdsOf(s) PROVE Once(t)
    <2>. SUFFICES ASSUME NEW i \in DOMAIN t, NEW j \in DOMAIN t, t[i].id = t[j].id PROVE i = j
      BY DEF Once
    <2>1. CASE i = 1 \/ j = 1
      BY <1>1, <1>4, <1>6, <1>8, <2>1
    <2>2. CASE i # 1 /\ j # 1
      <3>1. i - 1 = j - 1
        BY <1>6, <1>8, <2>2 DEF Once
      <3>. QED  BY <1>4, <3>1, <1>1
    <2>. QED  BY <2>1, <2>2
  <1>. QED  BY <1>3, <1>4, <1>5, <1>7, <1>8 DEF t

\* What a compaction keeps: the tail of a conversation, and the new messages in it.
KeptOf(all, new, tail, kept) ==
    /\ tail \in Seq(Message) /\ tail # <<>> /\ LastId(tail) = LastId(all)
    /\ kept \in Seq(Message) /\ LastId(kept) = LastId(new) /\ (kept = <<>> <=> new = <<>>)
    /\ DOMAIN kept = 1..Len(kept) /\ Len(kept) \in Nat
    /\ tail[1] \in Message
    /\ \A l \in DOMAIN kept : \E p \in DOMAIN new :
         /\ kept[l] = new[p] /\ p = Len(new) - Len(kept) + l
         /\ l # 1 => p # 1 /\ l - 1 \in DOMAIN kept /\ p - 1 \in DOMAIN new /\ kept[l - 1] = new[p - 1]
         /\ l = 1 => p = 1 \/ kept[1] = tail[1]
LEMMA Overlap ==
    ASSUME NEW base \in Seq(Message), NEW new \in Seq(Message), NEW n \in Nat \ {0}, Len(base \o new) >= n
    PROVE  KeptOf(base \o new, new, LastN(base \o new, n), LastN(new, n))
  <1>. DEFINE all == base \o new
              tail == LastN(all, n)
              kept == LastN(new, n)
  <1>1. /\ all \in Seq(Message) /\ Len(all) = Len(base) + Len(new)
        /\ \A i \in 1..Len(new) : all[Len(base) + i] = new[i]
    BY Joins
  <1>. HIDE DEF all
  <1>2. Len(base) \in Nat /\ Len(new) \in Nat /\ DOMAIN new = 1..Len(new)
    BY LogFacts
  <1>3. PICK b \in Nat, k \in Nat : b = Len(base) /\ k = Len(new)
    BY <1>2
  <1>4. Len(all) = b + k /\ b + k >= n /\ n \in Nat /\ n > 0
    BY <1>1, <1>3 DEF all
  <1>5. /\ tail \in Seq(Message) /\ Len(tail) = n /\ LastId(tail) = LastId(all)
        /\ \A i \in 1..n : tail[i] = all[(b + k) - n + i]
    <2>1. /\ tail \in Seq(Message)
          /\ Len(tail) = IF Len(all) <= n THEN Len(all) ELSE n
          /\ \A i \in 1..Len(tail) : tail[i] = all[Len(all) - Len(tail) + i]
          /\ LastId(tail) = LastId(all)
      BY <1>1, LastOnes
    <2>. HIDE DEF tail
    <2>2. Len(tail) = n
      BY <1>4, <2>1
    <2>. QED  BY <1>4, <2>1, <2>2
  <1>6. PICK q \in Nat : q = IF k <= n THEN k ELSE n
    BY <1>3, <1>4
  <1>7. /\ kept \in Seq(Message) /\ Len(kept) = q /\ LastId(kept) = LastId(new)
        /\ \A i \in 1..q : kept[i] = new[k - q + i]
    <2>1. /\ kept \in Seq(Message) /\ LastId(kept) = LastId(new)
          /\ Len(kept) = IF Len(new) <= n THEN Len(new) ELSE n
          /\ \A i \in 1..Len(kept) : kept[i] = new[Len(new) - Len(kept) + i]
      BY LastOnes
    <2>. HIDE DEF kept
    <2>2. Len(kept) = q
      BY <1>3, <1>6, <2>1
    <2>. QED  BY <1>3, <2>1, <2>2
  <1>. HIDE DEF tail, kept
  <1>8. DOMAIN kept = 1..q /\ DOMAIN new = 1..k
    BY <1>2, <1>3, <1>7, LogFacts
  <1>9. tail # <<>> /\ tail[1] \in Message
    <2>1. 1 \in DOMAIN tail
      BY <1>4, <1>5, LogFacts
    <2>. QED  BY <1>5, <2>1, LogFacts
  <1>10. kept = <<>> <=> new = <<>>
    <2>1. (q = 0) = (k = 0)
      BY <1>3, <1>4, <1>6
    <2>. QED  BY <1>3, <1>7, <2>1, EmptySeq
  <1>11. ASSUME NEW l \in 1..q
         PROVE  /\ k - q + l \in 1..k /\ kept[l] = new[k - q + l]
                /\ l # 1 => /\ k - q + l # 1 /\ l - 1 \in 1..q /\ (k - q + l) - 1 \in 1..k
                            /\ kept[l - 1] = new[(k - q + l) - 1]
                /\ l = 1 => k - q + l = 1 \/ kept[1] = tail[1]
    <2>1. k - q + l \in 1..k /\ kept[l] = new[k - q + l]
      <3>1. k - q + l \in 1..k
        BY <1>3, <1>4, <1>6
      <3>2. kept[l] = new[k - q + l]
        BY <1>7
      <3>. QED  BY <3>1, <3>2
    <2>2. ASSUME l # 1
          PROVE  /\ k - q + l # 1 /\ l - 1 \in 1..q /\ (k - q + l) - 1 \in 1..k
                 /\ kept[l - 1] = new[(k - q + l) - 1]
      <3>1. k - q + l # 1 /\ l - 1 \in 1..q /\ (k - q + l) - 1 \in 1..k /\ k - q + (l - 1) = (k - q + l) - 1
        <4>1. q <= k /\ l \in Nat /\ 1 < l /\ l <= q
          BY <1>3, <1>4, <1>6, <2>2
        <4>2. k - q + l # 1
          BY <4>1, k \in Nat, q \in Nat
        <4>3. l - 1 \in 1..q
          BY <4>1, q \in Nat
        <4>4. (k - q + l) - 1 \in 1..k
          BY <4>1, k \in Nat, q \in Nat
        <4>5. k - q + (l - 1) = (k - q + l) - 1
          BY <1>3, <1>6, <4>1
        <4>. QED  BY <4>2, <4>3, <4>4, <4>5
      <3>2. kept[l - 1] = new[k - q + (l - 1)]
        BY <1>7, <3>1
      <3>. QED  BY <3>1, <3>2
    <2>3. ASSUME l = 1 PROVE k - q + l = 1 \/ kept[1] = tail[1]
      <3>1. CASE k <= n
        BY <1>3, <1>6, <2>3, <3>1
      <3>2. CASE ~ (k <= n)
        <4>1. /\ q = n /\ k - n + 1 \in 1..k /\ (b + k) - n + 1 = b + (k - n + 1) /\ 1 \in 1..n /\ 1 \in 1..q
          BY <1>3, <1>4, <1>6, <3>2
        <4>2. kept[1] = new[k - n + 1]
          BY <1>7, <4>1
        <4>3. tail[1] = all[b + (k - n + 1)]
          BY <1>5, <4>1
        <4>4. all[b + (k - n + 1)] = new[k - n + 1]
          BY <1>1, <1>3, <4>1
        <4>. QED  BY <4>2, <4>3, <4>4
      <3>. QED  BY <3>1, <3>2
    <2>. QED  BY <2>1, <2>2, <2>3
  <1>12. \A l \in DOMAIN kept : \E p \in DOMAIN new :
            /\ kept[l] = new[p] /\ p = Len(new) - Len(kept) + l
            /\ l # 1 => p # 1 /\ l - 1 \in DOMAIN kept /\ p - 1 \in DOMAIN new /\ kept[l - 1] = new[p - 1]
            /\ l = 1 => p = 1 \/ kept[1] = tail[1]
    <2>. SUFFICES ASSUME NEW l \in DOMAIN kept
                  PROVE  \E p \in DOMAIN new :
                            /\ kept[l] = new[p] /\ p = Len(new) - Len(kept) + l
                            /\ l # 1 => p # 1 /\ l - 1 \in DOMAIN kept /\ p - 1 \in DOMAIN new /\ kept[l - 1] = new[p - 1]
                            /\ l = 1 => p = 1 \/ kept[1] = tail[1]
      OBVIOUS
    <2>. DEFINE p == k - q + l
    <2>1. /\ p \in DOMAIN new /\ kept[l] = new[p]
          /\ l # 1 => p # 1 /\ l - 1 \in DOMAIN kept /\ p - 1 \in DOMAIN new /\ kept[l - 1] = new[p - 1]
          /\ l = 1 => p = 1 \/ kept[1] = tail[1]
      BY <1>8, <1>11
    <2>2. p = Len(new) - Len(kept) + l
      BY <1>3, <1>7
    <2>. HIDE DEF p
    <2>. QED  BY <2>1, <2>2
  <1>. QED  BY <1>5, <1>6, <1>7, <1>8, <1>9, <1>10, <1>12 DEF KeptOf, all, tail, kept

LEMMA EndCompactedTree ==
    ASSUME Inv, Tree, EndCompacted
    PROVE  Tree'
  <1>. DEFINE S == IdsOf(msgs[turn.key])
              tail == LastN(Conversation, KeepLast)
              summary == [id |-> nextId, parent |-> None, kind |-> "system"]
              kept == LastN(turn.new, KeepLast)
              first == tail[1].id
              end == LastId(tail)
              moved == Moved(kept, first, nextId)
              out == <<summary>> \o moved
  <1>1. /\ turn.st = "run" /\ nextId <= MaxId /\ Len(Conversation) >= KeepLast /\ nextId' = nextId + 1
        /\ turn' = [turn EXCEPT !.st = "persist", !.summary = summary, !.tailStart = first,
                                !.tailEnd = end, !.out = out]
        /\ UNCHANGED <<meta, msgs, edit, titling, faults>>
    BY DEF EndCompacted, Moved
  <1>2. /\ Types /\ turn \in Turns /\ turn.key \in Keys /\ nextId \in Nat
        /\ turn.base \in Seq(Message) /\ turn.new \in Seq(Message)
        /\ TurnSound(turn, S, nextId, faults = 0) /\ nextId \notin S
    BY <1>1, TurnFacts
  <1>3. Running(turn, S, nextId) /\ turn.last \in S \cup {None} /\ S # {}
    BY <1>1, <1>2 DEF TurnSound
  <1>4. LastId(Conversation) = IF turn.new = <<>> THEN LastId(turn.base) ELSE LastId(turn.new)
    BY <1>2, Joins DEF Conversation
  <1>5. KeptOf(Conversation, turn.new, tail, kept)
    <2>1. KeepLast \in Nat \ {0} /\ Len(turn.base \o turn.new) >= KeepLast
      BY <1>1, BoundAssumption DEF Conversation
    <2>. QED  BY <1>2, <2>1, Overlap DEF Conversation
  <1>. HIDE DEF tail, kept, S
  <1>6. /\ tail[1] \in Message
        /\ kept \in Seq(Message) /\ DOMAIN kept = 1..Len(kept) /\ Len(kept) \in Nat /\ (kept = <<>> <=> turn.new = <<>>)
        /\ \A l \in DOMAIN kept : \E p \in DOMAIN turn.new :
             /\ kept[l] = turn.new[p] /\ p = Len(turn.new) - Len(kept) + l
             /\ l # 1 => p # 1 /\ l - 1 \in DOMAIN kept /\ p - 1 \in DOMAIN turn.new /\ kept[l - 1] = turn.new[p - 1]
             /\ l = 1 => p = 1 \/ kept[1] = tail[1]
    BY <1>5 DEF KeptOf
  <1>7. end = LastId(Conversation) /\ LastId(kept) = LastId(turn.new)
    BY <1>5 DEF KeptOf
  <1>8. first \in Ids /\ end \in Ids \cup {None} /\ nextId \in Ids
    BY <1>1, <1>2, <1>6, <1>7, Joins, LogFacts, NextIds, MessageFields DEF Conversation
  <1>9. summary \in Message /\ summary.id = nextId /\ summary.parent = None
    BY <1>1, <1>2, NewMessage DEF Kinds
  <1>. HIDE DEF first, end
  <1>11. /\ moved \in Seq(Message) /\ DOMAIN moved = DOMAIN kept /\ Len(moved) = Len(kept) /\ IdsOf(moved) = IdsOf(kept)
         /\ \A i \in DOMAIN kept : /\ moved[i].id = kept[i].id /\ moved[i].kind = kept[i].kind
                                   /\ moved[i].parent = IF kept[i].id = first THEN nextId ELSE kept[i].parent
    BY <1>6, <1>8, Reparents
  <1>. HIDE DEF moved, summary
  <1>13. IdsOf(kept) \subseteq IdsOf(turn.new) /\ Once(kept)
    <2>1. IdsOf(kept) \subseteq IdsOf(turn.new)
      <3>. SUFFICES ASSUME NEW l \in DOMAIN kept PROVE kept[l].id \in IdsOf(turn.new)
        BY DEF IdsOf
      <3>1. PICK p \in DOMAIN turn.new : kept[l] = turn.new[p]
        BY <1>6
      <3>. QED  BY <3>1 DEF IdsOf
    <2>2. Once(kept)
      <3>. SUFFICES ASSUME NEW i \in DOMAIN kept, NEW j \in DOMAIN kept, kept[i].id = kept[j].id PROVE i = j
        BY DEF Once
      <3>1. PICK p \in DOMAIN turn.new : kept[i] = turn.new[p] /\ p = Len(turn.new) - Len(kept) + i
        BY <1>6
      <3>2. PICK r \in DOMAIN turn.new : kept[j] = turn.new[r] /\ r = Len(turn.new) - Len(kept) + j
        BY <1>6
      <3>3. p = r
        BY <1>3, <3>1, <3>2 DEF Running, Once
      <3>4. Len(turn.new) \in Nat /\ i \in Nat /\ j \in Nat
        BY <1>2, <1>6, LogFacts
      <3>. QED  BY <1>6, <3>1, <3>2, <3>3, <3>4
    <2>. QED  BY <2>1, <2>2
  <1>14. Once(moved)
    BY <1>11, <1>13 DEF Once
  <1>15. \A id \in IdsOf(turn.new) : id \in Nat /\ id < nextId /\ id # nextId
    <2>1. IdsOf(turn.new) \subseteq Nat
      BY <1>2, LogFacts, NextIds
    <2>. QED  BY <1>2, <1>3, <2>1 DEF Running, Known
  <1>16. /\ out \in Seq(Message) /\ DOMAIN out = 1..(Len(moved) + 1) /\ out[1] = summary
         /\ \A i \in DOMAIN moved : i + 1 \in DOMAIN out /\ out[i + 1] = moved[i]
         /\ IdsOf(out) = {nextId} \cup IdsOf(kept) /\ Once(out)
    <2>1. nextId \notin IdsOf(moved)
      BY <1>11, <1>13, <1>15
    <2>. QED  BY <1>9, <1>11, <1>14, <2>1, Prepends
  <1>. HIDE DEF out
  <1>17. /\ turn' \in Turns /\ turn'.st = "persist" /\ turn'.key = turn.key /\ turn'.last = turn.last
         /\ turn'.summary = summary /\ turn'.tailStart = first /\ turn'.tailEnd = end /\ turn'.out = out
    BY <1>1, <1>2, <1>8, <1>9, <1>16 DEF Turns
  <1>18. nextId' \in 1..(MaxId + 1) /\ nextId <= nextId' /\ nextId < nextId' /\ nextId' \in Nat
    BY <1>1, <1>2, NextIds
  <1>19. Known(IdsOf(out), nextId') /\ IdsOf(out) \cap S = {}
    <2>1. \A id \in IdsOf(out) : id = nextId \/ id \in IdsOf(turn.new)
      BY <1>13, <1>16
    <2>2. \A id \in IdsOf(turn.new) : id < nextId'
      BY <1>2, <1>15, <1>18
    <2>. QED  BY <1>2, <1>3, <1>18, <2>1, <2>2 DEF Known, Running
  <1>20. \A i \in DOMAIN out : i = 1 \/ (i - 1 \in DOMAIN kept /\ out[i] = moved[i - 1])
    BY <1>6, <1>11, <1>16
  <1>21. \A l \in DOMAIN kept : moved[l].kind # "user"
    <2>. SUFFICES ASSUME NEW l \in DOMAIN kept PROVE moved[l].kind # "user"
      OBVIOUS
    <2>1. PICK p \in DOMAIN turn.new : kept[l] = turn.new[p]
      BY <1>6
    <2>. QED  BY <1>3, <1>11, <2>1 DEF Running
  <1>22. ASSUME NEW l \in DOMAIN kept PROVE Linked(turn', S, l + 1)
    <2>1. out[l + 1] = moved[l] /\ l + 1 \in DOMAIN out /\ moved[l].id = kept[l].id /\ moved[l].kind # "user"
      BY <1>11, <1>16, <1>21
    <2>2. CASE kept[l].id = first
      BY <1>9, <1>11, <1>17, <2>1, <2>2 DEF Linked, Waits
    <2>3. CASE kept[l].id # first /\ l # 1
      <3>1. l - 1 \in DOMAIN kept /\ kept[l].parent = kept[l - 1].id
        <4>1. PICK p \in DOMAIN turn.new :
                 /\ kept[l] = turn.new[p] /\ p # 1 /\ l - 1 \in DOMAIN kept /\ kept[l - 1] = turn.new[p - 1]
          BY <1>6, <2>3
        <4>. QED  BY <1>3, <4>1 DEF Running
      <3>2. l < l + 1
        BY <1>6
      <3>3. out[l] = moved[l - 1] /\ moved[l - 1].id = kept[l - 1].id /\ l \in DOMAIN out
        <4>1. out[(l - 1) + 1] = moved[l - 1] /\ (l - 1) + 1 = l
          BY <1>6, <1>11, <1>16, <3>1
        <4>. QED  BY <1>11, <1>16, <3>1, <4>1
      <3>4. kept[l - 1].id \in IdsOf(kept)
        BY <3>1 DEF IdsOf
      <3>5. kept[l - 1].id # nextId
        BY <1>13, <1>15, <3>4
      <3>6. out[l + 1].parent = out[l].id /\ out[l].id # summary.id
        BY <1>9, <1>11, <2>1, <2>3, <3>1, <3>3, <3>5
      <3>. QED  BY <1>17, <3>2, <3>3, <3>6 DEF Linked
    <2>4. CASE kept[l].id # first /\ l = 1
      <3>1. kept[1] # tail[1]
        BY <2>4 DEF first
      <3>2. kept[1] = turn.new[1] /\ 1 \in DOMAIN turn.new
        BY <1>6, <2>4, <3>1
      <3>3. moved[l].parent \in S
        BY <1>3, <1>11, <2>4, <3>2 DEF Running
      <3>. QED  BY <1>17, <2>1, <3>3 DEF Linked
    <2>. QED  BY <2>2, <2>3, <2>4
  <1>23. \A i \in DOMAIN out : Linked(turn', S, i) /\ (out[i].id = summary.id \/ out[i].kind # "user")
    <2>. SUFFICES ASSUME NEW i \in DOMAIN out
                  PROVE  Linked(turn', S, i) /\ (out[i].id = summary.id \/ out[i].kind # "user")
      OBVIOUS
    <2>1. CASE i = 1
      BY <1>16, <1>17, <2>1 DEF Linked
    <2>2. CASE i # 1
      <3>1. PICK l \in DOMAIN kept : l + 1 = i /\ out[i] = moved[l]
        <4>1. i - 1 \in DOMAIN kept /\ out[i] = moved[i - 1] /\ (i - 1) + 1 = i
          BY <1>6, <1>16, <1>20, <2>2
        <4>. QED  BY <4>1
      <3>. QED  BY <1>21, <1>22, <3>1
    <2>. QED  BY <2>1, <2>2
  <1>24. end \in S \cup (IdsOf(out) \ {nextId})
    <2>1. CASE turn.new = <<>>
      BY <1>3, <1>4, <1>6, <1>7, <2>1 DEF Running, end
    <2>2. CASE turn.new # <<>>
      <3>1. LastId(turn.new) \in IdsOf(turn.new)
        BY <1>2, <2>2, LogFacts
      <3>2. LastId(kept) \in IdsOf(kept)
        BY <1>6, <2>2, LogFacts
      <3>. QED  BY <1>4, <1>6, <1>7, <1>15, <1>16, <2>2, <3>1, <3>2 DEF end
    <2>. QED  BY <2>1, <2>2
  <1>25. Storing(turn', S, nextId', faults = 0)
    BY <1>9, <1>16, <1>17, <1>19, <1>23, <1>24 DEF Storing
  <1>26. TurnSound(turn', S, nextId', faults = 0)
    BY <1>2, <1>3, <1>9, <1>17, <1>18, <1>25 DEF TurnSound
  <1>27. \A k \in Keys : WaitsKept(k)
    BY <1>1 DEF WaitsKept
  <1>. QED  BY <1>1, <1>2, <1>17, <1>18, <1>26, <1>27, TurnKeeps, TypesOfTree DEF S

LEMMA FailRunTree ==
    ASSUME Inv, Tree, FailRun
    PROVE  Tree'
  <1>1. /\ turn.st = "run" /\ turn' = [turn EXCEPT !.st = "clear"]
        /\ UNCHANGED <<meta, msgs, nextId, edit, titling, faults>>
    BY DEF FailRun
  <1>2. /\ Types /\ turn \in Turns /\ turn.key \in Keys /\ nextId \in Nat
        /\ TurnSound(turn, IdsOf(msgs[turn.key]), nextId, faults = 0)
    BY <1>1, TurnFacts
  <1>3. turn' \in Turns /\ turn'.st = "clear" /\ turn'.key = turn.key /\ turn'.last = turn.last
    BY <1>1, <1>2 DEF Turns
  <1>4. TurnSound(turn', IdsOf(msgs[turn.key]), nextId', faults = 0)
    BY <1>1, <1>2, <1>3 DEF TurnSound
  <1>5. \A k \in Keys : WaitsKept(k)
    BY <1>1 DEF WaitsKept
  <1>6. nextId' \in 1..(MaxId + 1) /\ nextId <= nextId'
    BY <1>1, <1>2 DEF Types
  <1>. QED  BY <1>1, <1>2, <1>3, <1>4, <1>5, <1>6, TurnKeeps, TypesOfTree

\* What is left to be stored is as good once the first is stored or skipped.
LEMMA RestIsLinked ==
    ASSUME NEW t \in Turns, NEW u \in Turns, NEW S, NEW U, t.out # <<>>, u.out = Tail(t.out),
           u.summary = t.summary, u.tailStart = t.tailStart, S \subseteq U,
           Head(t.out).id = t.summary.id \/ Head(t.out).id \in U,
           NEW i \in DOMAIN u.out, Linked(t, S, i + 1)
    PROVE  Linked(u, U, i)
  <1>1. t.out \in Seq(Message) /\ u.out \in Seq(Message)
    BY DEF Turns
  <1>2. /\ i + 1 \in DOMAIN t.out /\ u.out[i] = t.out[i + 1] /\ Head(t.out) = t.out[1]
        /\ \A j \in DOMAIN t.out : j # 1 => j - 1 \in DOMAIN u.out /\ t.out[j] = u.out[j - 1]
    BY <1>1, Drops
  <1>3. CASE t.out[i + 1].id = t.summary.id \/ Waits(t, t.out[i + 1]) \/ t.out[i + 1].parent \in S
    BY <1>2, <1>3 DEF Linked, Waits
  <1>4. CASE \E j \in DOMAIN t.out : /\ j < i + 1 /\ t.out[j].id = t.out[i + 1].parent
                                     /\ t.out[j].id # t.summary.id
    <2>1. PICK j \in DOMAIN t.out : /\ j < i + 1 /\ t.out[j].id = t.out[i + 1].parent
                                    /\ t.out[j].id # t.summary.id
      BY <1>4
    <2>2. CASE j = 1
      BY <1>2, <2>1, <2>2 DEF Linked
    <2>3. CASE j # 1
      <3>1. j \in Nat /\ i \in Nat
        BY <1>1, LogFacts
      <3>2. j - 1 \in DOMAIN u.out /\ t.out[j] = u.out[j - 1] /\ j - 1 < i
        BY <1>2, <2>1, <2>3, <3>1
      <3>. QED  BY <1>2, <2>1, <3>2 DEF Linked
    <2>. QED  BY <2>2, <2>3
  <1>. QED  BY <1>3, <1>4 DEF Linked

LEMMA RestIsSound ==
    ASSUME NEW t \in Turns, NEW u \in Turns, NEW S, NEW U, NEW n, NEW ok, NEW ko, t.out # <<>>, u.out = Tail(t.out),
           u.summary = t.summary, u.tailStart = t.tailStart, u.tailEnd = t.tailEnd,
           S \subseteq U, IdsOf(u.out) \cap U = {}, ko => ok,
           Head(t.out).id = t.summary.id \/ Head(t.out).id \in U,
           Storing(t, S, n, ok)
    PROVE  Storing(u, U, n, ko)
  <1>1. t.out \in Seq(Message) /\ u.out \in Seq(Message)
    BY DEF Turns
  <1>2. /\ \A i \in DOMAIN u.out : i + 1 \in DOMAIN t.out /\ u.out[i] = t.out[i + 1]
        /\ IdsOf(t.out) = {Head(t.out).id} \cup IdsOf(u.out)
        /\ Once(t.out) => Once(u.out)
    BY <1>1, Drops
  <1>3. Once(u.out) /\ Known(IdsOf(u.out), n)
    BY <1>2 DEF Storing, Known
  <1>4. \A i \in DOMAIN u.out : u.out[i].id = u.summary.id \/ u.out[i].kind # "user"
    BY <1>2 DEF Storing
  <1>5. ASSUME ko, NEW i \in DOMAIN u.out PROVE Linked(u, U, i)
    <2>1. Linked(t, S, i + 1)
      BY <1>2, <1>5 DEF Storing
    <2>. QED  BY <2>1, RestIsLinked
  <1>6. ko /\ u.summary # NoSummary => u.tailEnd \in U \cup (IdsOf(u.out) \ {u.summary.id})
    BY <1>2 DEF Storing
  <1>. QED  BY <1>3, <1>4, <1>5, <1>6 DEF Storing

LEMMA PersistSkipTree ==
    ASSUME Inv, Tree, PersistSkip
    PROVE  Tree'
  <1>. DEFINE S == IdsOf(msgs[turn.key])
              ok == faults = 0
  <1>1. /\ turn.st = "persist" /\ turn.out # <<>> /\ Head(turn.out).id = turn.summary.id
        /\ turn' = [turn EXCEPT !.out = Tail(turn.out)]
        /\ UNCHANGED <<meta, msgs, nextId, edit, titling, faults>>
    BY DEF PersistSkip, Skip
  <1>2. /\ Types /\ turn \in Turns /\ turn.key \in Keys /\ nextId \in Nat /\ turn.out \in Seq(Message)
        /\ TurnSound(turn, S, nextId, ok)
    BY <1>1, TurnFacts
  <1>3. Tail(turn.out) \in Seq(Message) /\ IdsOf(Tail(turn.out)) \subseteq IdsOf(turn.out)
    BY <1>1, <1>2, Drops
  <1>4. /\ turn' \in Turns /\ turn'.st = "persist" /\ turn'.key = turn.key /\ turn'.last = turn.last
        /\ turn'.out = Tail(turn.out) /\ turn'.summary = turn.summary
        /\ turn'.tailStart = turn.tailStart /\ turn'.tailEnd = turn.tailEnd
    BY <1>1, <1>2, <1>3 DEF Turns
  <1>. HIDE DEF S, ok
  <1>5. Storing(turn, S, nextId, ok)
    BY <1>1, <1>2 DEF TurnSound
  <1>6. IdsOf(turn'.out) \cap S = {}
    BY <1>3, <1>4, <1>5 DEF Storing
  <1>7. Storing(turn', S, nextId, ok)
    <2>1. /\ turn \in Turns /\ turn' \in Turns /\ turn.out # <<>> /\ turn'.out = Tail(turn.out)
          /\ turn'.summary = turn.summary /\ turn'.tailStart = turn.tailStart /\ turn'.tailEnd = turn.tailEnd
      BY <1>1, <1>2, <1>4
    <2>2. S \subseteq S /\ IdsOf(turn'.out) \cap S = {} /\ (ok => ok)
      BY <1>6
    <2>3. Head(turn.out).id = turn.summary.id \/ Head(turn.out).id \in S
      BY <1>1
    <2>. QED  BY <1>5, <2>1, <2>2, <2>3, RestIsSound
  <1>8. TurnSound(turn', S, nextId', ok)
    BY <1>1, <1>2, <1>4, <1>7 DEF TurnSound
  <1>9. \A k \in Keys : WaitsKept(k)
    BY <1>1, <1>4 DEF WaitsKept
  <1>10. nextId' \in 1..(MaxId + 1) /\ nextId <= nextId'
    BY <1>1, <1>2 DEF Types
  <1>. QED  BY <1>1, <1>2, <1>4, <1>8, <1>9, <1>10, TurnKeeps, TypesOfTree DEF S, ok

\* The steps of a turn that store a message or a splice.
LEMMA TurnStores ==
    ASSUME Inv, Tree, NEW K \in Keys, K = turn.key, turn.st # "none", turn'.st # "none",
           UNCHANGED <<meta, nextId, edit, titling>>,
           turn' \in Turns, turn'.key = K, faults' \in 0..MaxFaults, faults' = 0 => faults = 0,
           msgs' \in [Keys -> Seq(Message)], \A j \in Keys \ {K} : msgs'[j] = msgs[j],
           StoreHolds', IdsOf(msgs[K]) \subseteq IdsOf(msgs'[K]), msgs[K] # <<>>,
           faults' = 0 => LinksOf(K)',
           TurnSound(turn', IdsOf(msgs'[K]), nextId, faults' = 0)
    PROVE  Tree'
  <1>1. Types
    BY TypesOfTree
  <1>2. (turn'.st = "none") = (turn'.key = NoKey)
    BY KeyAssumption
  <1>3. Types'
    BY <1>1, <1>2 DEF Types
  <1>4. TurnHolds'
    BY DEF TurnHolds
  <1>5. EditHolds'
    <2>1. edit.st # "none" => edit.key \in Keys
      BY DEF Inv, EditInActive, Actives
    <2>2. edit.st # "none" => IdsOf(msgs[edit.key]) \subseteq IdsOf(msgs'[edit.key])
      BY <2>1
    <2>. QED  BY <2>2, EditUntouched DEF Tree
  <1>6. TreeHolds'
    <2>. SUFFICES ASSUME faults' = 0, NEW j \in Keys PROVE LinksOf(j)' /\ PathOf(j)'
      BY DEF TreeHolds
    <2>1. LinksOf(j) /\ PathOf(j) /\ meta'[j].path = meta[j].path
      BY DEF Tree, TreeHolds
    <2>2. CASE j = K
      BY <2>1, <2>2 DEF PathOf
    <2>3. CASE j # K
      <3>1. WaitsKept(j) /\ msgs'[j] = msgs[j]
        BY <2>3 DEF WaitsKept
      <3>. QED  BY <2>1, <3>1, LinksStay, PathStays
    <2>. QED  BY <2>2, <2>3
  <1>. QED  BY <1>3, <1>4, <1>5, <1>6 DEF Tree

LEMMA PersistTree ==
    ASSUME Inv, Tree, Persist
    PROVE  Tree'
  <1>1. /\ turn.st = "persist" /\ turn.out # <<>> /\ Head(turn.out).id # turn.summary.id
        /\ msgs' = Appended(turn.key, Head(turn.out)) /\ UNCHANGED <<meta, nextId, edit, titling>>
    BY DEF Persist, Skip
  <1>2. PICK f \in 1..2 :
         /\ Writes(1, f)
         /\ turn' = IF f = 1 THEN [turn EXCEPT !.out = <<>>, !.last = None]
                    ELSE [turn EXCEPT !.out = Tail(turn.out), !.last = Head(turn.out).id]
    BY DEF Persist
  <1>3. PICK K \in Keys : K = turn.key
    BY <1>1, TurnFacts
  <1>. DEFINE S == IdsOf(msgs[K])
              U == IdsOf(msgs'[K])
              m == Head(turn.out)
              ok == faults = 0
              ko == faults' = 0
  <1>4. /\ Types /\ turn \in Turns /\ nextId \in Nat /\ turn.out \in Seq(Message)
        /\ TurnSound(turn, S, nextId, ok) /\ turn.summary.id \in Nat
        /\ S \subseteq Ids /\ msgs[K] \in Seq(Message)
    BY <1>1, <1>3, TurnFacts
  <1>5. /\ m \in Message /\ Tail(turn.out) \in Seq(Message) /\ m = turn.out[1] /\ 1 \in DOMAIN turn.out
        /\ IdsOf(turn.out) = {m.id} \cup IdsOf(Tail(turn.out))
        /\ Once(turn.out) => m.id \notin IdsOf(Tail(turn.out))
    BY <1>1, <1>4, Drops
  <1>6. Storing(turn, S, nextId, ok) /\ S # {} /\ turn.last \in S \cup {None} /\ turn.summary.id \notin S
    BY <1>1, <1>4 DEF TurnSound
  <1>7. m.id \in Ids /\ m.id \notin S /\ m.id < nextId /\ m.id # turn.summary.id
    BY <1>1, <1>5, <1>6, MessageFields DEF Storing, Known
  <1>8. faults' \in 0..MaxFaults /\ (faults' = 0 => faults = 0 /\ f # 1)
    BY <1>2, <1>4, Writing
  <1>9. /\ StoreHolds' /\ msgs' \in [Keys -> Seq(Message)]
        /\ msgs'[K] = Append(msgs[K], m) /\ U = S \cup {m.id}
        /\ \A j \in Keys \ {K} : msgs'[j] = msgs[j]
    <2>1. StaysUnborn /\ msgs' = Appended(K, m)
      BY <1>1, <1>3 DEF StaysUnborn
    <2>2. nextId' \in Nat /\ nextId <= nextId' /\ m.id < nextId'
      BY <1>1, <1>4, <1>7
    <2>3. meta'[K].status # "unborn"
      BY <1>1, <1>3 DEF Inv, TurnInActive, Actives
    <2>4. StoreHolds
      BY DEF Tree
    <2>. HIDE DEF m
    <2>. QED  BY <1>4, <1>5, <1>7, <2>1, <2>2, <2>3, <2>4, StoreAdds
  <1>10. /\ turn' \in Turns /\ turn'.st = "persist" /\ turn'.key = K /\ turn'.summary = turn.summary
         /\ turn'.tailStart = turn.tailStart /\ turn'.tailEnd = turn.tailEnd
         /\ f = 1 => turn'.out = <<>> /\ turn'.last = None
         /\ f # 1 => turn'.out = Tail(turn.out) /\ turn'.last = m.id
    <2>1. CASE f = 1
      <3>1. turn' = [turn EXCEPT !.out = <<>>, !.last = None]
        BY <1>2, <2>1
      <3>2. PICK e : e = <<>> /\ e \in Seq(Message)
        BY EmptySeq
      <3>3. turn' = [turn EXCEPT !.out = e, !.last = None]
        BY <3>1, <3>2
      <3>4. /\ turn' \in Turns /\ turn'.st = "persist" /\ turn'.key = K /\ turn'.summary = turn.summary
            /\ turn'.tailStart = turn.tailStart /\ turn'.tailEnd = turn.tailEnd
            /\ turn'.out = e /\ turn'.last = None
        BY <1>1, <1>3, <1>4, <3>2, <3>3 DEF Turns
      <3>. QED  BY <2>1, <3>2, <3>4
    <2>2. CASE f # 1
      <3>1. turn' = [turn EXCEPT !.out = Tail(turn.out), !.last = m.id]
        BY <1>2, <2>2
      <3>. HIDE DEF m
      <3>. QED  BY <1>1, <1>3, <1>4, <1>5, <1>7, <2>2, <3>1 DEF Turns
    <2>. QED  BY <2>1, <2>2
  <1>11. Storing(turn', U, nextId, ko)
    <2>1. CASE f = 1
      <3>1. ko = FALSE
        BY <1>8, <2>1
      <3>2. IdsOf(turn'.out) = {} /\ DOMAIN turn'.out = {}
        BY <1>10, <2>1 DEF IdsOf
      <3>. HIDE DEF ko
      <3>. QED  BY <3>1, <3>2 DEF Storing, Once, Known
    <2>2. CASE f # 1
      <3>1. /\ turn \in Turns /\ turn' \in Turns /\ turn.out # <<>> /\ turn'.out = Tail(turn.out)
            /\ turn'.summary = turn.summary /\ turn'.tailStart = turn.tailStart /\ turn'.tailEnd = turn.tailEnd
        BY <1>1, <1>4, <1>10, <2>2
      <3>2. S \subseteq U /\ IdsOf(turn'.out) \cap U = {} /\ (ko => ok)
        <4>1. IdsOf(turn'.out) \cap S = {} /\ m.id \notin IdsOf(turn'.out)
          BY <1>5, <1>6, <3>1 DEF Storing
        <4>. QED  BY <1>8, <1>9, <4>1
      <3>3. Head(turn.out).id = turn.summary.id \/ Head(turn.out).id \in U
        BY <1>9
      <3>. HIDE DEF S, U, ok, ko, m
      <3>. QED  BY <1>6, <3>1, <3>2, <3>3, RestIsSound
    <2>. QED  BY <2>1, <2>2
  <1>12. TurnSound(turn', U, nextId, ko)
    <2>1. turn.summary.id < nextId /\ turn.summary.parent = None
      BY <1>1, <1>4 DEF TurnSound
    <2>2. turn'.last \in U \cup {None} /\ U # {} /\ turn'.summary.id \notin U
      BY <1>6, <1>7, <1>9, <1>10
    <2>. HIDE DEF S, U, ok, ko, m
    <2>. QED  BY <1>10, <1>11, <2>1, <2>2 DEF TurnSound
  <1>13. ko => LinksOf(K)'
    <2>. SUFFICES ASSUME ko PROVE LinksOf(K)'
      OBVIOUS
    <2>1. LinksOf(K)
      BY <1>8 DEF Tree, TreeHolds
    <2>2. WaitsKept(K)
      BY <1>3, <1>10 DEF WaitsKept
    <2>3. Linked(turn, S, 1)
      BY <1>5, <1>6, <1>8 DEF Storing
    <2>4. ~ \E j \in DOMAIN turn.out : j < 1
      <3>1. \A j \in DOMAIN turn.out : j \in Nat /\ j >= 1
        BY <1>4, LogFacts
      <3>. QED  BY <3>1
    <2>5. Waits(turn, m) \/ m.parent \in S
      BY <1>5, <1>7, <2>3, <2>4 DEF Linked
    <2>6. \/ m.parent \in S \cup {None}
          \/ K = turn'.key /\ turn'.st \in {"persist", "splice"} /\ Waits(turn', m)
      BY <1>10, <2>5 DEF Waits
    <2>. HIDE DEF m
    <2>. QED  BY <1>4, <1>5, <1>9, <2>1, <2>2, <2>6, LinksAdd
  <1>14. S \subseteq U /\ msgs[K] # <<>>
    BY <1>4, <1>6, <1>9, LogFacts
  <1>. QED  BY <1>1, <1>3, <1>8, <1>9, <1>10, <1>12, <1>13, <1>14, TurnStores

LEMMA PersistedTree ==
    ASSUME Inv, Tree, Persisted
    PROVE  Tree'
  <1>. DEFINE S == IdsOf(msgs[turn.key])
              ok == faults = 0
  <1>1. /\ turn.st = "persist" /\ turn.out = <<>>
        /\ turn' = [turn EXCEPT !.st = IF turn.summary = NoSummary THEN "path" ELSE "splice"]
        /\ UNCHANGED <<meta, msgs, nextId, edit, titling, faults>>
    BY DEF Persisted
  <1>2. /\ Types /\ turn \in Turns /\ turn.key \in Keys /\ nextId \in Nat
        /\ TurnSound(turn, S, nextId, ok)
    BY <1>1, TurnFacts
  <1>3. /\ turn' \in Turns /\ turn'.key = turn.key /\ turn'.last = turn.last
        /\ turn'.st = IF turn.summary = NoSummary THEN "path" ELSE "splice"
        /\ turn'.summary = turn.summary /\ turn'.tailStart = turn.tailStart /\ turn'.tailEnd = turn.tailEnd
    BY <1>1, <1>2 DEF Turns
  <1>4. ok /\ turn.summary # NoSummary => turn.tailEnd \in S
    <2>1. IdsOf(turn.out) = {} /\ Storing(turn, S, nextId, ok)
      BY <1>1, <1>2 DEF IdsOf, TurnSound
    <2>. HIDE DEF S, ok
    <2>. QED  BY <2>1 DEF Storing
  <1>5. TurnSound(turn', S, nextId', ok)
    <2>. HIDE DEF S, ok
    <2>. QED  BY <1>1, <1>2, <1>3, <1>4 DEF TurnSound
  <1>6. faults = 0 => \A k \in Keys : WaitsKept(k) \/ LinksOf(k)'
    <2>. SUFFICES ASSUME faults = 0, NEW k \in Keys PROVE WaitsKept(k) \/ LinksOf(k)'
      OBVIOUS
    <2>1. CASE turn.summary # NoSummary \/ k # turn.key
      BY <1>1, <1>3, <2>1 DEF WaitsKept
    <2>2. CASE turn.summary = NoSummary
      <3>1. LinksOf(k) /\ msgs' = msgs
        BY <1>1 DEF Tree, TreeHolds
      <3>2. \A i \in DOMAIN msgs[k] : msgs[k][i].parent \in IdsOf(msgs[k]) \cup {None}
        BY <2>2, <3>1 DEF LinksOf, Waits, NoSummary
      <3>. QED  BY <3>1, <3>2 DEF LinksOf
    <2>. QED  BY <2>1, <2>2
  <1>7. nextId' \in 1..(MaxId + 1) /\ nextId <= nextId' /\ turn'.st # "none" /\ turn.st # "none"
    BY <1>1, <1>2, <1>3 DEF Types
  <1>. QED  BY <1>1, <1>2, <1>3, <1>5, <1>6, <1>7, TurnKeeps, TypesOfTree DEF S, ok

LEMMA SpliceTree ==
    ASSUME Inv, Tree, Splice
    PROVE  Tree'
  <1>1. /\ turn.st = "splice" /\ turn' = [turn EXCEPT !.st = "path"]
        /\ msgs' = [msgs EXCEPT ![turn.key] = Spliced(msgs[turn.key], turn.summary, turn.tailStart)]
        /\ \E f \in 1..2 : Writes(1, f)
        /\ UNCHANGED <<meta, nextId, edit, titling>>
    BY DEF Splice
  <1>2. PICK K \in Keys : K = turn.key
    BY <1>1, TurnFacts
  <1>. DEFINE s == msgs[K]
              S == IdsOf(s)
              U == IdsOf(msgs'[K])
              m == turn.summary
              r == Moved(s, turn.tailStart, m.id)
  <1>3. /\ Types /\ turn \in Turns /\ nextId \in Nat /\ TurnSound(turn, S, nextId, faults = 0)
        /\ s \in Seq(Message) /\ S \subseteq Ids /\ m \in Message \cup {NoSummary}
    BY <1>1, <1>2, TurnFacts
  <1>4. /\ m \in Message /\ m.id \notin S /\ m.id < nextId /\ m.parent = None /\ turn.last \in S \cup {None}
        /\ faults = 0 => turn.tailEnd \in S
    BY <1>1, <1>3 DEF TurnSound
  <1>5. m.id \in Ids
    BY <1>4, MessageFields
  <1>6. faults' \in 0..MaxFaults /\ (faults' = 0 => faults = 0)
    BY <1>1, <1>3, Writing
  <1>7. turn' \in Turns /\ turn'.st = "path" /\ turn'.key = K /\ turn'.last = turn.last
        /\ turn'.summary = m /\ turn'.tailEnd = turn.tailEnd
    BY <1>1, <1>2, <1>3 DEF Turns
  <1>8. msgs'[K] = Spliced(s, m, turn.tailStart) /\ \A j \in Keys \ {K} : msgs'[j] = msgs[j]
    BY <1>1, <1>2, <1>3 DEF Types
  <1>9. /\ r \in Seq(Message) /\ DOMAIN r = DOMAIN s /\ Len(r) = Len(s) /\ IdsOf(r) = S
        /\ \A i \in DOMAIN s : /\ r[i].id = s[i].id
                               /\ r[i].parent = IF s[i].id = turn.tailStart THEN m.id ELSE s[i].parent
    <2>1. m.id \in Ids \cup {None}
      BY <1>5
    <2>. QED  BY <1>3, <2>1, Reparents
  <1>10. msgs'[K] = IF turn.tailStart \notin S THEN s ELSE Append(r, m)
    BY <1>8 DEF Spliced, Moved
  <1>11. Once(s) /\ Known(S, nextId) /\ (meta[K].status = "unborn" => s = <<>>)
    BY DEF Tree, StoreHolds
  <1>. HIDE DEF r, m
  <1>12. /\ Append(r, m) \in Seq(Message) /\ IdsOf(Append(r, m)) = S \cup {m.id} /\ Once(Append(r, m))
         /\ DOMAIN Append(r, m) = 1..(Len(s) + 1) /\ Append(r, m)[Len(s) + 1] = m
         /\ \A i \in DOMAIN s : Append(r, m)[i] = r[i]
    <2>1. Once(r) /\ m.id \notin IdsOf(r)
      BY <1>4, <1>9, <1>11 DEF Once
    <2>. QED  BY <1>4, <1>9, <2>1, Adds
  <1>13. /\ msgs'[K] \in Seq(Message) /\ Once(msgs'[K]) /\ Known(U, nextId)
         /\ S \subseteq U /\ (U = S \/ U = S \cup {m.id})
    <2>1. CASE turn.tailStart \notin S
      BY <1>3, <1>10, <1>11, <2>1
    <2>2. CASE turn.tailStart \in S
      <3>1. U = S \cup {m.id}
        BY <1>10, <1>12, <2>2
      <3>. QED  BY <1>4, <1>10, <1>11, <1>12, <2>2, <3>1 DEF Known
    <2>. QED  BY <2>1, <2>2
  <1>14. msgs' \in [Keys -> Seq(Message)]
    <2>1. msgs' = [msgs EXCEPT ![K] = msgs'[K]]
      BY <1>1, <1>2, <1>3 DEF Types
    <2>2. msgs \in [Keys -> Seq(Message)]
      BY <1>3 DEF Types
    <2>. QED  BY <1>13, <2>1, <2>2
  <1>15. s # <<>> => msgs'[K] # <<>>
    BY <1>3, <1>13, LogFacts
  <1>16. StoreHolds'
    <2>1. meta[K].status = "active"
      BY <1>1, <1>2 DEF Inv, TurnInActive, Actives
    <2>. SUFFICES ASSUME NEW j \in Keys
                  PROVE  /\ Once(msgs'[j]) /\ Known(IdsOf(msgs'[j]), nextId')
                         /\ meta'[j].status = "unborn" => msgs'[j] = <<>>
      BY DEF StoreHolds
    <2>2. CASE j = K
      BY <1>1, <1>13, <2>1, <2>2
    <2>3. CASE j # K
      BY <1>1, <1>8, <2>3 DEF Tree, StoreHolds
    <2>. QED  BY <2>2, <2>3
  <1>17. TurnSound(turn', U, nextId, faults' = 0)
    <2>1. turn'.last \in U \cup {None} /\ (faults' = 0 => turn'.tailEnd \in U)
      BY <1>4, <1>6, <1>7, <1>13
    <2>. HIDE DEF U
    <2>. QED  BY <1>7, <2>1 DEF TurnSound
  <1>18. faults' = 0 => LinksOf(K)'
    <2>. SUFFICES ASSUME faults' = 0 PROVE LinksOf(K)'
      OBVIOUS
    <2>1. \A i \in DOMAIN s : s[i].parent \in S \cup {None} \/ s[i].id = turn.tailStart
      BY <1>1, <1>2, <1>6 DEF Tree, TreeHolds, LinksOf, Waits
    <2>2. \A i \in DOMAIN msgs'[K] : msgs'[K][i].parent \in U \cup {None}
      <3>1. CASE turn.tailStart \notin S
        <4>1. msgs'[K] = s /\ \A i \in DOMAIN s : s[i].id # turn.tailStart
          BY <1>10, <3>1 DEF IdsOf
        <4>. QED  BY <2>1, <4>1
      <3>2. CASE turn.tailStart \in S
        <4>1. msgs'[K] = Append(r, m) /\ U = S \cup {m.id}
          BY <1>10, <1>12, <3>2
        <4>2. \A i \in DOMAIN s : r[i].parent \in U \cup {None}
          BY <1>9, <2>1, <4>1
        <4>3. \A i \in DOMAIN Append(r, m) : i \in DOMAIN s \/ i = Len(s) + 1
          BY <1>3, <1>12, LogFacts
        <4>. HIDE DEF S, U, s
        <4>. QED  BY <1>4, <1>12, <4>1, <4>2, <4>3
      <3>. QED  BY <3>1, <3>2
    <2>. QED  BY <2>2 DEF LinksOf
  <1>19. CASE s # <<>>
    BY <1>1, <1>2, <1>6, <1>7, <1>8, <1>13, <1>14, <1>16, <1>17, <1>18, <1>19, TurnStores
  <1>20. CASE s = <<>>
    <2>1. msgs' = msgs
      <3>1. msgs'[K] = msgs[K]
        BY <1>10, <1>20 DEF IdsOf
      <3>. QED  BY <1>3, <1>8, <1>14, <3>1 DEF Types
    <2>2. faults' = 0 => \A k \in Keys : LinksOf(k)' /\ PathOf(k)'
      <3>. SUFFICES ASSUME faults' = 0, NEW k \in Keys PROVE LinksOf(k)' /\ PathOf(k)'
        OBVIOUS
      <3>1. LinksOf(k) /\ PathOf(k) /\ meta'[k].path = meta[k].path /\ msgs'[k] = msgs[k]
        BY <1>1, <1>6, <2>1 DEF Tree, TreeHolds
      <3>2. k # K => WaitsKept(k)
        BY <1>2 DEF WaitsKept
      <3>. QED  BY <1>18, <3>1, <3>2, LinksStay, PathStays
    <2>3. TurnHolds'
      BY <1>1, <1>7, <1>17 DEF TurnHolds
    <2>4. EditHolds'
      BY <1>1, <1>6, <2>1 DEF Tree, EditHolds
    <2>5. (turn'.st = "none") = (turn'.key = NoKey) /\ meta' \in [Keys -> Meta] /\ edit' \in Edits
          /\ titling' \in [Keys -> TitleTasks] /\ StaysUnborn /\ nextId' \in 1..(MaxId + 1) /\ nextId <= nextId'
      BY <1>1, <1>3, <1>7, KeyAssumption DEF Types, StaysUnborn
    <2>. QED  BY <1>6, <1>7, <2>1, <2>2, <2>3, <2>4, <2>5, Keeps
  <1>. QED  BY <1>19, <1>20

LEMMA SetPathTree ==
    ASSUME Inv, Tree, SetPath
    PROVE  Tree'
  <1>1. /\ turn.st = "path" /\ turn' = [turn EXCEPT !.st = "emit"]
        /\ UNCHANGED <<msgs, nextId, edit, titling>>
        /\ IF NextActive = None THEN UNCHANGED <<meta, faults>>
           ELSE meta' = WithPath(turn.key, NextActive) /\ \E f \in 1..2 : Writes(1, f)
    BY DEF SetPath
  <1>2. PICK K \in Keys : K = turn.key
    BY <1>1, TurnFacts
  <1>3. /\ Types /\ turn \in Turns /\ nextId \in Nat /\ TurnSound(turn, IdsOf(msgs[K]), nextId, faults = 0)
    BY <1>1, <1>2, TurnFacts
  <1>4. /\ turn.last \in IdsOf(msgs[K]) \cup {None}
        /\ faults = 0 /\ turn.summary # NoSummary => turn.tailEnd \in IdsOf(msgs[K])
        /\ turn.last \in Ids \cup {None} /\ turn.tailEnd \in Ids \cup {None}
    BY <1>1, <1>3 DEF TurnSound, Turns
  <1>5. NextActive \in Ids \cup {None} /\ (faults = 0 => NextActive \in IdsOf(msgs[K]) \cup {None})
    BY <1>4 DEF NextActive
  <1>6. faults' \in 0..MaxFaults /\ (faults' = 0 => faults = 0)
    BY <1>1, <1>3, Writing, TypesOfTree
  <1>7. turn' \in Turns /\ turn'.st = "emit" /\ turn'.key = K /\ turn'.last = turn.last
    BY <1>1, <1>2, <1>3 DEF Turns
  <1>8. /\ meta' \in [Keys -> Meta] /\ \A j \in Keys : meta'[j].status = meta[j].status
        /\ \A j \in Keys \ {K} : meta'[j] = meta[j]
        /\ meta'[K] = meta[K] \/ (meta'[K].path = NextActive /\ NextActive # None)
    <2>1. CASE NextActive = None
      BY <1>1, <2>1, TypesOfTree
    <2>2. CASE NextActive # None
      <3>1. meta' = WithPath(K, NextActive)
        BY <1>1, <1>2, <2>2
      <3>. QED  BY <1>3, <1>5, <2>2, <3>1, PathTypes
    <2>. QED  BY <2>1, <2>2
  <1>9. faults' = 0 => \A k \in Keys : LinksOf(k)' /\ PathOf(k)'
    <2>. SUFFICES ASSUME faults' = 0, NEW k \in Keys PROVE LinksOf(k)' /\ PathOf(k)'
      OBVIOUS
    <2>1. LinksOf(k) /\ PathOf(k) /\ msgs'[k] = msgs[k] /\ WaitsKept(k)
      BY <1>1, <1>6 DEF Tree, TreeHolds, WaitsKept
    <2>2. CASE k # K \/ meta'[k] = meta[k]
      BY <1>8, <2>1, <2>2, LinksStay, PathStays
    <2>3. CASE k = K /\ meta'[K].path = NextActive /\ NextActive # None
      <3>1. PathOf(K)'
        BY <1>1, <1>5, <1>6, <2>3 DEF PathOf
      <3>. QED  BY <2>1, <2>3, <3>1, LinksStay
    <2>. QED  BY <1>8, <2>2, <2>3
  <1>10. TurnHolds'
    <2>1. TurnSound(turn', IdsOf(msgs'[K]), nextId', faults' = 0)
      BY <1>1, <1>4, <1>7 DEF TurnSound
    <2>. QED  BY <1>7, <2>1 DEF TurnHolds
  <1>11. EditHolds'
    BY <1>1, <1>6 DEF Tree, EditHolds
  <1>12. (turn'.st = "none") = (turn'.key = NoKey) /\ edit' \in Edits /\ UNCHANGED msgs
         /\ titling' \in [Keys -> TitleTasks] /\ StaysUnborn /\ nextId' \in 1..(MaxId + 1) /\ nextId <= nextId'
    BY <1>1, <1>3, <1>7, <1>8, KeyAssumption DEF Types, StaysUnborn
  <1>. QED  BY <1>6, <1>7, <1>8, <1>9, <1>10, <1>11, <1>12, Keeps

LEMMA EmitTree ==
    ASSUME Inv, Tree, Emit
    PROVE  Tree'
  <1>1. /\ turn.st = "emit" /\ turn' = [turn EXCEPT !.st = "clear"]
        /\ titling' = [titling EXCEPT ![turn.key].check = titling[turn.key].check + 1]
        /\ UNCHANGED <<meta, msgs, nextId, edit, faults>>
    BY DEF Emit
  <1>2. /\ Types /\ turn \in Turns /\ turn.key \in Keys /\ nextId \in Nat
        /\ TurnSound(turn, IdsOf(msgs[turn.key]), nextId, faults = 0)
    BY <1>1, TurnFacts
  <1>3. turn' \in Turns /\ turn'.st = "clear" /\ turn'.key = turn.key /\ turn'.last = turn.last
    BY <1>1, <1>2 DEF Turns
  <1>4. TurnSound(turn', IdsOf(msgs[turn.key]), nextId', faults = 0)
    BY <1>1, <1>2, <1>3 DEF TurnSound
  <1>5. \A k \in Keys : WaitsKept(k)
    BY <1>1 DEF WaitsKept
  <1>6. nextId' \in 1..(MaxId + 1) /\ nextId <= nextId'
    BY <1>1, <1>2 DEF Types
  <1>7. titling' \in [Keys -> TitleTasks]
    <2>1. titling \in [Keys -> TitleTasks] /\ titling[turn.key].check \in Nat /\ titling[turn.key] \in TitleTasks
      BY <1>2, TypesOfTree DEF TitleTasks
    <2>2. [titling[turn.key] EXCEPT !.check = titling[turn.key].check + 1] \in TitleTasks
      BY <2>1 DEF TitleTasks
    <2>. QED  BY <1>1, <2>1, <2>2
  <1>. QED  BY <1>1, <1>2, <1>3, <1>4, <1>5, <1>6, <1>7, TurnKeeps

LEMMA ClearTree ==
    ASSUME Inv, Tree, Clear
    PROVE  Tree'
  <1>1. turn.st = "clear" /\ turn' = NoTurn /\ UNCHANGED <<meta, msgs, nextId, edit, titling, faults>>
    BY DEF Clear
  <1>2. Types
    BY TypesOfTree
  <1>3. turn' \in Turns /\ (turn'.st = "none") = (turn'.key = NoKey) /\ TurnHolds'
    BY <1>1, NoneTypes DEF TurnHolds
  <1>4. EditHolds'
    BY <1>1 DEF Tree, EditHolds
  <1>5. faults' = 0 => \A k \in Keys : LinksOf(k)' /\ PathOf(k)'
    <2>. SUFFICES ASSUME faults' = 0, NEW k \in Keys PROVE LinksOf(k)' /\ PathOf(k)'
      OBVIOUS
    <2>1. LinksOf(k) /\ PathOf(k) /\ msgs'[k] = msgs[k] /\ meta'[k].path = meta[k].path /\ WaitsKept(k)
      BY <1>1 DEF Tree, TreeHolds, WaitsKept
    <2>. QED  BY <2>1, LinksStay, PathStays
  <1>6. /\ nextId' \in 1..(MaxId + 1) /\ nextId <= nextId' /\ meta' \in [Keys -> Meta] /\ StaysUnborn
        /\ titling' \in [Keys -> TitleTasks] /\ edit' \in Edits /\ faults' \in 0..MaxFaults /\ (faults' = 0 => faults = 0)
    BY <1>1, <1>2 DEF Types, StaysUnborn
  <1>. QED  BY <1>1, <1>3, <1>4, <1>5, <1>6, Keeps

------------------------------------------------------------------------------
(* The theorem *)

LEMMA InitTree == Init => Tree
  <1>. SUFFICES ASSUME Init PROVE Tree
    OBVIOUS
  <1>1. /\ meta = [k \in Keys |-> [status |-> "unborn", title |-> "none", path |-> None]]
        /\ msgs = [k \in Keys |-> <<>>] /\ nextId = 1 /\ turn = NoTurn /\ edit = NoEdit
        /\ titling = [k \in Keys |-> [check |-> 0, ask |-> 0, write |-> 0]] /\ faults = 0
    BY DEF Init
  <1>2. /\ [status |-> "unborn", title |-> "none", path |-> None] \in Meta
        /\ [check |-> 0, ask |-> 0, write |-> 0] \in TitleTasks
    BY DEF Meta, Statuses, None, TitleTasks
  <1>3. meta \in [Keys -> Meta] /\ titling \in [Keys -> TitleTasks] /\ msgs \in [Keys -> Seq(Message)]
    <2>1. <<>> \in Seq(Message)
      BY EmptySeq
    <2>. QED  BY <1>1, <1>2, <2>1
  <1>4. 1 \in 1..(MaxId + 1) /\ 0 \in 0..MaxFaults
    BY BoundAssumption
  <1>5. turn \in Turns /\ turn.st = "none" /\ turn.key = NoKey /\ edit \in Edits /\ edit.st = "none"
    BY <1>1, NoneTypes
  <1>6. Types
    BY <1>1, <1>3, <1>4, <1>5 DEF Types
  <1>7. \A k \in Keys : msgs[k] = <<>> /\ IdsOf(msgs[k]) = {} /\ DOMAIN msgs[k] = {} /\ meta[k].path = None
    BY <1>1 DEF IdsOf
  <1>8. StoreHolds /\ TreeHolds
    BY <1>7 DEF StoreHolds, TreeHolds, LinksOf, PathOf, Once, Known
  <1>9. TurnHolds /\ EditHolds
    BY <1>5 DEF TurnHolds, EditHolds
  <1>. QED  BY <1>6, <1>8, <1>9 DEF Tree

LEMMA NextTree == Inv /\ Tree /\ [Next]_vars => Tree'
  <1>. SUFFICES ASSUME Inv, Tree, [Next]_vars PROVE Tree'
    OBVIOUS
  <1>1. CASE Requests
    BY <1>1, SendTree, OpenTree, DeleteTree, CreateTree, RenameTree, EditReadTree, SwitchTree DEF Requests
  <1>2. CASE EditSteps
    BY <1>2, EditDeriveTree, EditStartTree DEF EditSteps
  <1>3. CASE Answer \/ \E kind \in ReplyKinds : Bubble(kind)
    BY <1>3, EndRunTree, EndCompactedTree, FailRunTree, BubbleTree DEF Answer
  <1>4. CASE TurnSteps
    BY <1>4, PersistSkipTree, PersistTree, PersistedTree, SpliceTree, SetPathTree, EmitTree, ClearTree
       DEF TurnSteps
  <1>5. CASE \E k \in Keys : TitleSteps(k)
    BY <1>5, TitleStepsTree
  <1>6. CASE UNCHANGED vars
    BY <1>6 DEF vars, Tree, Types, StoreHolds, TreeHolds, LinksOf, PathOf, TurnHolds, EditHolds
  <1>. QED  BY <1>1, <1>2, <1>3, <1>4, <1>5, <1>6 DEF Next

\* As many messages as ids.
LEMMA AsManyIds ==
    ASSUME NEW s \in Seq(Message), Once(s)
    PROVE  Cardinality(IdsOf(s)) = Len(s)
  <1>1. Len(s) \in Nat /\ DOMAIN s = 1..Len(s)
    BY LogFacts
  <1>. DEFINE id == [i \in 1..Len(s) |-> s[i].id]
  <1>2. id \in Bijection(1..Len(s), IdsOf(s))
    <2>1. id \in [1..Len(s) -> IdsOf(s)]
      BY <1>1, LogFacts
    <2>2. \A a, b \in 1..Len(s) : id[a] = id[b] => a = b
      BY <1>1 DEF Once
    <2>3. \A t \in IdsOf(s) : \E a \in 1..Len(s) : id[a] = t
      BY <1>1 DEF IdsOf
    <2>. HIDE DEF id
    <2>. QED  BY <2>1, <2>2, <2>3 DEF Bijection, Injection, Surjection, IsInjective
  <1>3. ExistsBijection(1..Len(s), IdsOf(s))
    BY <1>2 DEF ExistsBijection
  <1>. QED  BY <1>1, <1>3, FS_CountingElements

\* The sessions stay trees and the active path a place in its tree: for any
\* number of sessions, messages and failing writes, through the edits, switches,
\* compactions and turns that interleave (rpc/mod.rs, scheduler.rs, file/mod.rs).
THEOREM TreeStaysSound == Spec => []TreeIsSound
  <1>1. Tree => TreeIsSound
    <2>. SUFFICES ASSUME Tree PROVE TreeIsSound
      OBVIOUS
    <2>1. TypeOK
      BY DEF Tree, Types, Turns, Edits, TypeOK
    <2>2. StoredOnce
      <3>. SUFFICES ASSUME NEW k \in Keys PROVE Cardinality(IdsOf(msgs[k])) = Len(msgs[k])
        BY DEF StoredOnce
      <3>1. msgs[k] \in Seq(Message) /\ Once(msgs[k])
        BY StoreFacts, TypesOfTree DEF Tree, StoreHolds
      <3>. QED  BY <3>1, AsManyIds
    <2>3. LinksHold
      BY DEF Tree, TreeHolds, LinksOf, Waits, LinksHold, Dangling
    <2>4. PathIsStored
      BY DEF Tree, TreeHolds, PathOf, PathIsStored, Actives
    <2>. QED  BY <2>1, <2>2, <2>3, <2>4 DEF TreeIsSound
  <1>2. Init => Inv /\ Tree
    BY InitInv, InitTree
  <1>3. (Inv /\ Tree) /\ [Next]_vars => (Inv /\ Tree)'
    BY NextInv, NextTree
  <1>. QED  BY <1>1, <1>2, <1>3, PTL DEF Spec

------------------------------------------------------------------------------
(* The path follows the turn: the invariant *)

\* Where the i-th message of a conversation hangs in the log s: on the one
\* before it; on a summary at the top, which is none of T; or on the summary
\* that the turn w has still to splice in.
Before(t, i) == IF i = 1 THEN None ELSE t[i - 1].id
Root(s, id) == \E j \in DOMAIN s : s[j].id = id /\ s[j].kind = "system" /\ s[j].parent = None
Straight(s, t, i) == \E j \in DOMAIN s : s[j].id = t[i].id /\ s[j].parent = Before(t, i)
Cut(s, t, i, T) == \E j \in DOMAIN s : s[j].id = t[i].id /\ s[j].parent \notin T /\ Root(s, s[j].parent)
Pending(s, t, i, w) == \E j \in DOMAIN s : s[j].id = t[i].id /\ Waits(w, s[j])
Runs(s, t, T) == \A i \in DOMAIN t : Straight(s, t, i) \/ Cut(s, t, i, T)

\* No message is above itself.
Ranked(s) == \E r \in [Ids -> Nat] : \A j \in DOMAIN s : s[j].parent \in IdsOf(s) => r[s[j].parent] < r[s[j].id]

\* One summary at most comes between what an edit has read and its turn.
EditOn(e, s, w) ==
    e.st # "none" =>
        /\ Once(e.path)
        /\ e.st = "derive" => e.parent = LastId(e.path)
        /\ w.st \in {"run", "persist", "splice"} =>
              \A i \in DOMAIN e.path : Straight(s, e.path, i) \/ (w.st # "run" /\ Pending(s, e.path, i, w))
        /\ w.st \notin {"run", "persist", "splice"} => Runs(s, e.path, IdsOf(e.path))

Talk(t) == t.base \o t.new
TailOf(t) == LastN(Talk(t), KeepLast)
\* What the turn stores, and how much of it has been.
Made(t) == IF t.summary = NoSummary THEN t.new ELSE Moved(LastN(t.new, KeepLast), t.tailStart, t.summary.id)
Stored(t) == Len(Made(t)) - Len(t.out)

Says(t) ==
    /\ t.base # <<>> /\ Once(Talk(t))
    /\ \A i \in DOMAIN t.new : t.new[i].parent = Before(Talk(t), Len(t.base) + i)
Compacts(t) ==
    IF t.summary = NoSummary THEN t.tailStart = None
    ELSE /\ t.summary.kind = "system" /\ t.summary.id \notin IdsOf(Talk(t))
         /\ Len(Talk(t)) >= KeepLast
         /\ t.tailStart = TailOf(t)[1].id /\ t.tailEnd = LastId(TailOf(t))
Stores(t, s) ==
    /\ \A i \in 1..Stored(t) : \E j \in DOMAIN s : s[j] = Made(t)[i]
    /\ \A i \in DOMAIN t.out : t.out[i] = IF Stored(t) + i < 1 THEN t.summary ELSE Made(t)[Stored(t) + i]
    /\ t.summary = NoSummary => Stored(t) >= 0 /\ t.last = IF Stored(t) = 0 THEN None ELSE Made(t)[Stored(t)].id
    /\ Stored(t) >= -1
Written(t) == IF t.summary = NoSummary THEN Talk(t) ELSE <<t.summary>> \o TailOf(t)
NextOf(t) == IF t.summary # NoSummary THEN t.tailEnd ELSE t.last
TurnOn(t, s) ==
    /\ t.st \in {"run", "persist", "splice", "path"} => Says(t) /\ Compacts(t)
    /\ t.st = "run" => t.summary = NoSummary /\ t.last = None
    /\ t.st \in {"run", "persist", "splice"} => Runs(s, t.base, IdsOf(Talk(t)))
    /\ t.st \in {"persist", "splice"} => Stores(t, s)
    /\ t.st = "splice" => t.out = <<>> /\ t.summary # NoSummary
    /\ t.st = "path" => \/ t.summary = NoSummary /\ t.last = None
                        \/ Runs(s, Written(t), IdsOf(Written(t))) /\ Once(Written(t)) /\ NextOf(t) = LastId(Written(t))
FollowHolds ==
    faults = 0 => /\ EditOn(edit, msgs[edit.key], turn)
                  /\ TurnOn(turn, msgs[turn.key])
                  /\ \A k \in Keys : Ranked(msgs[k])

------------------------------------------------------------------------------
(* A log that grows *)

Extends(s, u) == \A j \in DOMAIN s : j \in DOMAIN u /\ u[j] = s[j]
LEMMA HangsOn ==
    ASSUME NEW s, NEW u, Extends(s, u), NEW t, NEW i, NEW T, NEW w
    PROVE  /\ Straight(s, t, i) => Straight(u, t, i)
           /\ Cut(s, t, i, T) => Cut(u, t, i, T)
           /\ Pending(s, t, i, w) => Pending(u, t, i, w)
  <1>1. \A id : Root(s, id) => Root(u, id)
    BY DEF Extends, Root
  <1>2. Cut(s, t, i, T) => Cut(u, t, i, T)
    BY <1>1 DEF Extends, Cut
  <1>. QED  BY <1>2 DEF Extends, Straight, Pending

LEMMA RunsOn ==
    ASSUME NEW s, NEW u, Extends(s, u), NEW t, NEW T, Runs(s, t, T)
    PROVE  Runs(u, t, T)
  BY HangsOn DEF Runs

LEMMA EditGoesOn ==
    ASSUME NEW s, NEW u, Extends(s, u), NEW e, NEW w, EditOn(e, s, w)
    PROVE  EditOn(e, u, w)
  <1>1. \A i : /\ Straight(s, e.path, i) => Straight(u, e.path, i)
               /\ Pending(s, e.path, i, w) => Pending(u, e.path, i, w)
    BY HangsOn
  <1>2. Runs(s, e.path, IdsOf(e.path)) => Runs(u, e.path, IdsOf(e.path))
    BY RunsOn
  <1>. QED  BY <1>1, <1>2 DEF EditOn

LEMMA TurnGoesOn ==
    ASSUME NEW s, NEW u, Extends(s, u), NEW t, TurnOn(t, s)
    PROVE  TurnOn(t, u)
  <1>1. Runs(s, t.base, IdsOf(Talk(t))) => Runs(u, t.base, IdsOf(Talk(t)))
    BY RunsOn
  <1>2. Runs(s, Written(t), IdsOf(Written(t))) => Runs(u, Written(t), IdsOf(Written(t)))
    BY RunsOn
  <1>3. Stores(t, s) => Stores(t, u)
    BY DEF Stores, Extends
  <1>. QED  BY <1>1, <1>2, <1>3 DEF TurnOn

LEMMA SameExtends == \A s : Extends(s, s)
  BY DEF Extends
LEMMA AppendExtends ==
    ASSUME NEW s \in Seq(Message), NEW m \in Message
    PROVE  Extends(s, Append(s, m))
  <1>1. Len(s) \in Nat /\ DOMAIN s = 1..Len(s)
    BY LogFacts
  <1>. QED  BY <1>1, Adds DEF Extends

\* Whose turn it is matters to an edit only between the splice and its summary.
Phase(w) == IF w.st \in {"run", "persist", "splice"} THEN IF w.st = "run" THEN "run" ELSE "store" ELSE "none"
LEMMA EditKeepsTurn ==
    ASSUME NEW e, NEW s, NEW w, NEW v, EditOn(e, s, w), Phase(w) = Phase(v),
           Phase(w) = "store" => w.tailStart = v.tailStart /\ w.summary = v.summary
    PROVE  EditOn(e, s, v)
  <1>1. Phase(w) = "store" => \A i : Pending(s, e.path, i, w) <=> Pending(s, e.path, i, v)
    BY DEF Pending, Waits
  <1>2. (w.st \in {"run", "persist", "splice"} <=> v.st \in {"run", "persist", "splice"})
        /\ (w.st \in {"run", "persist", "splice"} => (w.st # "run" <=> v.st # "run"))
        /\ (w.st \in {"run", "persist", "splice"} /\ w.st # "run" => Phase(w) = "store")
    BY DEF Phase
  <1>. QED  BY <1>1, <1>2 DEF EditOn

LEMMA RankAdds ==
    ASSUME NEW s \in Seq(Message), NEW m \in Message, Ranked(s), m.id \notin IdsOf(s), m.parent # m.id,
           \A j \in DOMAIN s : s[j].parent # m.id
    PROVE  Ranked(Append(s, m))
  <1>1. PICK r \in [Ids -> Nat] : \A j \in DOMAIN s : s[j].parent \in IdsOf(s) => r[s[j].parent] < r[s[j].id]
    BY DEF Ranked
  <1>. DEFINE t == Append(s, m)
              q == [id \in Ids |-> IF id = m.id THEN IF m.parent \in Ids THEN r[m.parent] + 1 ELSE 0 ELSE r[id]]
  <1>2. /\ t \in Seq(Message) /\ DOMAIN t = 1..(Len(s) + 1) /\ \A i \in DOMAIN s : t[i] = s[i]
        /\ t[Len(s) + 1] = m /\ IdsOf(t) = IdsOf(s) \cup {m.id}
    BY Adds
  <1>3. Len(s) \in Nat /\ DOMAIN s = 1..Len(s) /\ IdsOf(s) \subseteq Ids /\ \A i \in DOMAIN s : s[i].id \in IdsOf(s)
    BY LogFacts
  <1>4. m.id \in Ids
    BY MessageFields
  <1>5. q \in [Ids -> Nat]
    OBVIOUS
  <1>6. \A id \in IdsOf(s) : q[id] = r[id]
    BY <1>3
  <1>7. q[m.id] = IF m.parent \in Ids THEN r[m.parent] + 1 ELSE 0
    BY <1>4
  <1>. HIDE DEF q, t
  <1>8. ASSUME NEW j \in DOMAIN t, t[j].parent \in IdsOf(t) PROVE q[t[j].parent] < q[t[j].id]
    <2>1. CASE j \in DOMAIN s
      <3>1. t[j] = s[j] /\ s[j].parent \in IdsOf(s) /\ s[j].id \in IdsOf(s)
        BY <1>2, <1>3, <1>8, <2>1
      <3>. QED  BY <1>1, <1>6, <2>1, <3>1
    <2>2. CASE j = Len(s) + 1
      <3>1. t[j] = m /\ m.parent \in IdsOf(s) /\ m.parent \in Ids
        BY <1>2, <1>3, <1>8, <2>2
      <3>2. q[m.parent] = r[m.parent] /\ q[m.id] = r[m.parent] + 1 /\ r[m.parent] \in Nat
        BY <1>6, <1>7, <3>1
      <3>. QED  BY <3>1, <3>2
    <2>. QED  BY <1>2, <1>3, <2>1, <2>2
  <1>9. Ranked(t)
    BY <1>5, <1>8 DEF Ranked
  <1>. QED  BY <1>9 DEF t

------------------------------------------------------------------------------
(* The chain of a line of messages *)

LEMMA ByIdIs ==
    ASSUME NEW s \in Seq(Message), Once(s), NEW j \in DOMAIN s
    PROVE  ById(s, s[j].id) = s[j]
  <1>1. PICK i \in DOMAIN s : ById(s, s[j].id) = s[i] /\ s[i].id = s[j].id
    BY LogFacts, ByIdFinds
  <1>. QED  BY <1>1 DEF Once

LEMMA NoLonger ==
    ASSUME NEW s \in Seq(Message), NEW u \in Seq(Message), Once(s), Once(u), IdsOf(u) \subseteq IdsOf(s)
    PROVE  Len(u) <= Len(s)
  <1>1. Cardinality(IdsOf(u)) = Len(u) /\ Cardinality(IdsOf(s)) = Len(s)
    BY AsManyIds
  <1>2. IsFiniteSet(IdsOf(s))
    <2>1. 1 \in Int /\ MaxId \in Int
      BY BoundAssumption
    <2>2. IsFiniteSet(Ids)
      BY <2>1, FS_Interval DEF Ids
    <2>3. IdsOf(s) \subseteq Ids
      BY LogFacts
    <2>. QED  BY <2>2, <2>3, FS_Subset
  <1>. QED  BY <1>1, <1>2, FS_Subset

Line(s, u) ==
    /\ u \in Seq(Message) /\ u # <<>> /\ Once(u)
    /\ \A i \in DOMAIN u : \E j \in DOMAIN s : s[j] = u[i]
    /\ \A i \in DOMAIN u : i # 1 => u[i].parent = u[i - 1].id
    /\ u[1].parent \notin IdsOf(s)
Ends(u, m) == [i \in 1..m |-> u[Len(u) - m + i]]
Least2(a, b) == IF a < b THEN a ELSE b
LEMMA Least2Is ==
    ASSUME NEW a \in Nat, NEW b \in Nat
    PROVE  (a <= b => Least2(a, b) = a) /\ (b <= a => Least2(a, b) = b)
  BY DEF Least2

LEMMA EndsIs ==
    ASSUME NEW u \in Seq(Message), NEW m \in 1..Len(u)
    PROVE  Ends(u, m) \in Seq(Message) /\ Len(Ends(u, m)) = m /\ DOMAIN Ends(u, m) = 1..m
           /\ Ends(u, m) # <<>> /\ Head(Ends(u, m)) = u[Len(u) - m + 1]
  <1>1. Len(u) \in Nat /\ DOMAIN u = 1..Len(u) /\ m \in Nat /\ 1 \in 1..m
        /\ \A i \in DOMAIN u : u[i] \in Message
    BY LogFacts
  <1>2. \A i \in 1..m : u[Len(u) - m + i] \in Message
    BY <1>1
  <1>3. Ends(u, m) \in [1..m -> Message]
    BY <1>2 DEF Ends
  <1>4. Ends(u, m) \in Seq(Message) /\ Len(Ends(u, m)) = m /\ DOMAIN Ends(u, m) = 1..m
    BY <1>1, <1>3
  <1>5. Ends(u, m)[1] = u[Len(u) - m + 1]
    BY <1>1 DEF Ends
  <1>6. Ends(u, m) # <<>>
    BY <1>1, <1>4, EmptySeq
  <1>. QED  BY <1>4, <1>5, <1>6, Drops

LEMMA StepDown ==
    ASSUME NEW n \in Nat, NEW m \in 1..n, m # n
    PROVE  /\ n - m + 1 \in 1..n /\ n - m \in 1..n /\ n - m + 1 # 1 /\ n - m + 1 - 1 = n - m
           /\ m + 1 \in Nat /\ m + 1 <= n
  OBVIOUS

LEMMA LineStep ==
    ASSUME NEW s \in Seq(Message), Once(s), NEW u, Line(s, u), NEW m \in 1..Len(u)
    PROVE  Longer(s, Ends(u, m)) = Ends(u, Least2(m + 1, Len(u)))
  <1>1. u \in Seq(Message) /\ Len(u) \in Nat /\ DOMAIN u = 1..Len(u) /\ m \in Nat
    BY LogFacts DEF Line
  <1>. DEFINE v == Ends(u, m) top == u[Len(u) - m + 1]
  <1>2. v \in Seq(Message) /\ Len(v) = m /\ DOMAIN v = 1..m /\ Head(v) = top
    BY <1>1, EndsIs
  <1>3. CASE m = Len(u)
    <2>1. top.parent \notin IdsOf(s)
      BY <1>1, <1>3 DEF Line
    <2>2. Least2(m + 1, Len(u)) = m
      BY <1>1, <1>3, Least2Is
    <2>. QED  BY <1>2, <2>1, <2>2 DEF Longer
  <1>4. CASE m # Len(u)
    <2>. DEFINE x == u[Len(u) - m]
    <2>1. Len(u) - m + 1 \in DOMAIN u /\ Len(u) - m \in DOMAIN u /\ Len(u) - m + 1 # 1 /\ Len(u) - m + 1 - 1 = Len(u) - m
          /\ m + 1 \in Nat /\ m + 1 <= Len(u)
      BY <1>1, <1>4, StepDown
    <2>2. top.parent = x.id
      <3>1. \A i \in DOMAIN u : i # 1 => u[i].parent = u[i - 1].id
        BY DEF Line
      <3>2. PICK k : k = Len(u) - m + 1
        OBVIOUS
      <3>3. k \in DOMAIN u /\ k # 1 /\ k - 1 = Len(u) - m
        BY <2>1, <3>2
      <3>4. u[k].parent = u[k - 1].id
        BY <3>1, <3>3
      <3>. QED  BY <3>2, <3>3, <3>4
    <2>3. PICK j \in DOMAIN s : s[j] = x
      BY <2>1 DEF Line
    <2>4. x.id \in IdsOf(s) /\ ById(s, x.id) = x /\ x \in Message
      BY <2>3, ByIdIs, LogFacts
    <2>5. Longer(s, v) = <<x>> \o v
      BY <1>2, <2>2, <2>4 DEF Longer
    <2>. DEFINE w == <<x>> \o v
    <2>6. w \in Seq(Message) /\ DOMAIN w = 1..(m + 1) /\ w[1] = x /\ \A i \in 1..m : w[i + 1] = v[i]
      BY <1>2, <2>4, Prepends
    <2>. HIDE DEF w
    <2>7. ASSUME NEW i \in 1..(m + 1) PROVE w[i] = u[Len(u) - (m + 1) + i]
      <3>1. CASE i = 1
        <4>1. Len(u) - (m + 1) + i = Len(u) - m
          BY <1>1, <3>1
        <4>. QED  BY <2>6, <3>1, <4>1
      <3>2. CASE i # 1
        <4>1. i - 1 \in 1..m /\ (i - 1) + 1 = i /\ Len(u) - (m + 1) + i = Len(u) - m + (i - 1)
          BY <1>1, <3>2
        <4>2. w[(i - 1) + 1] = v[i - 1] /\ v[i - 1] = u[Len(u) - m + (i - 1)]
          BY <2>6, <4>1 DEF Ends
        <4>. QED  BY <4>1, <4>2
      <3>. QED  BY <3>1, <3>2
    <2>8. w = [i \in 1..(m + 1) |-> w[i]]
      BY <1>1, <2>6
    <2>9. [i \in 1..(m + 1) |-> w[i]] = Ends(u, m + 1)
      BY <2>7, Zenon DEF Ends
    <2>10. Least2(m + 1, Len(u)) = m + 1
      BY <1>1, <2>1, Least2Is
    <2>. QED  BY <2>5, <2>8, <2>9, <2>10 DEF w
  <1>. QED  BY <1>3, <1>4

LEMMA LineChain ==
    ASSUME NEW s \in Seq(Message), Once(s), NEW u, Line(s, u)
    PROVE  Chain(s, LastId(u)) = u
  <1>1. u \in Seq(Message) /\ Len(u) \in Nat /\ DOMAIN u = 1..Len(u) /\ Len(u) \in 1..Len(u) /\ u # <<>>
        /\ Len(s) \in Nat /\ DOMAIN s = 1..Len(s)
    BY LogFacts DEF Line
  <1>2. IdsOf(u) \subseteq IdsOf(s) /\ LastId(u) = u[Len(u)].id /\ \E j \in DOMAIN s : s[j] = u[Len(u)]
    <2>1. IdsOf(u) \subseteq IdsOf(s)
      BY DEF Line, IdsOf
    <2>. QED  BY <1>1, <2>1, LogFacts DEF Line
  <1>3. Len(u) <= Len(s)
    BY <1>1, <1>2, NoLonger DEF Line
  <1>4. LastId(u) \in IdsOf(s) /\ ById(s, LastId(u)) = u[Len(u)]
    BY <1>2, ByIdIs, LogFacts
  <1>5. PICK up : Climbs(s, LastId(u), Len(s), up) /\ Chain(s, LastId(u)) = up[Len(s)]
    BY <1>1, <1>4, ChainClimbs
  <1>6. \A n \in 0..Len(s) : up[n] = IF n = 0 THEN <<ById(s, LastId(u))>> ELSE Longer(s, up[n - 1])
    BY <1>5 DEF Climbs
  <1>. DEFINE bad == {n \in Nat : n <= Len(s) /\ up[n] # Ends(u, Least2(n + 1, Len(u)))}
  <1>7. bad = {}
    <2>. SUFFICES ASSUME bad # {} PROVE FALSE
      OBVIOUS
    <2>1. PICK n \in bad : \A m \in bad : n <= m
      <3>1. bad \in SUBSET Nat
        OBVIOUS
      <3>. HIDE DEF bad
      <3>. QED  BY <3>1, Least
    <2>2. n # 0
      <3>. SUFFICES ASSUME n = 0 PROVE FALSE
        OBVIOUS
      <3>1. Least2(n + 1, Len(u)) = 1
        BY <1>1 DEF Least2
      <3>2. up[n] = <<u[Len(u)]>>
        BY <1>1, <1>4, <1>6
      <3>3. Ends(u, 1) = <<u[Len(u)]>>
        <4>1. Ends(u, 1) \in Seq(Message) /\ Len(Ends(u, 1)) = 1 /\ Ends(u, 1)[1] = u[Len(u)]
          BY <1>1, EndsIs DEF Ends
        <4>. QED  BY <4>1
      <3>. QED  BY <2>1, <3>1, <3>2, <3>3
    <2>3. n - 1 \in Nat /\ n \in 0..Len(s) /\ n - 1 <= Len(s) /\ n - 1 \notin bad /\ n - 1 + 1 = n
      BY <1>1, <2>1, <2>2
    <2>. DEFINE m == Least2(n, Len(u))
    <2>4. up[n - 1] = Ends(u, m) /\ up[n] = Longer(s, up[n - 1])
      BY <1>6, <2>2, <2>3
    <2>5. m \in 1..Len(u) /\ Least2(m + 1, Len(u)) = Least2(n + 1, Len(u))
      BY <1>1, <2>2, <2>3 DEF Least2
    <2>. HIDE DEF m
    <2>6. up[n] = Ends(u, Least2(m + 1, Len(u)))
      BY <2>4, <2>5, LineStep
    <2>. QED  BY <2>1, <2>5, <2>6
  <1>8. up[Len(s)] = Ends(u, Least2(Len(s) + 1, Len(u)))
    BY <1>1, <1>7
  <1>9. Least2(Len(s) + 1, Len(u)) = Len(u)
    <2>1. Len(s) + 1 \in Nat /\ Len(u) <= Len(s) + 1
      BY <1>1, <1>3
    <2>. QED  BY <1>1, <2>1, Least2Is
  <1>10. Ends(u, Len(u)) = u
    <2>1. \A i \in 1..Len(u) : Len(u) - Len(u) + i = i
      BY <1>1
    <2>2. Ends(u, Len(u)) = [i \in 1..Len(u) |-> u[i]]
      BY <2>1, Zenon DEF Ends
    <2>3. u = [i \in 1..Len(u) |-> u[i]]
      BY <1>1
    <2>. QED  BY <2>2, <2>3
  <1>. QED  BY <1>5, <1>8, <1>9, <1>10

\* The messages of s with the ids of t, from the i-th on.
Found(s, t, i) == [n \in 1..(Len(t) - i + 1) |-> ById(s, t[i + n - 1].id)]
LEMMA FoundIs ==
    ASSUME NEW s \in Seq(Message), Once(s), NEW t \in Seq(Message), Once(t), NEW i \in DOMAIN t,
           IdsOf(t) \subseteq IdsOf(s),
           \A n \in DOMAIN t : n > i => Straight(s, t, n)
    PROVE  LET u == Found(s, t, i) IN
           /\ u \in Seq(Message) /\ Len(u) = Len(t) - i + 1 /\ u # <<>> /\ DOMAIN u = 1..(Len(t) - i + 1)
           /\ \A n \in DOMAIN u : u[n].id = t[i + n - 1].id /\ i + n - 1 \in DOMAIN t
           /\ \A n \in DOMAIN u : \E j \in DOMAIN s : s[j] = u[n]
           /\ Once(u) /\ LastId(u) = LastId(t)
           /\ \A n \in DOMAIN u : n # 1 => u[n].parent = u[n - 1].id
  <1>. DEFINE u == Found(s, t, i) N == Len(t) - i + 1
  <1>1. /\ Len(t) \in Nat /\ DOMAIN t = 1..Len(t) /\ i \in Nat /\ N \in Nat /\ N > 0
        /\ \A n \in 1..N : i + n - 1 \in DOMAIN t
    BY LogFacts
  <1>2. \A id \in IdsOf(s) : \E j \in DOMAIN s : ById(s, id) = s[j] /\ s[j].id = id /\ s[j] \in Message
    BY LogFacts, ByIdFinds
  <1>3. \A n \in 1..N : u[n] = ById(s, t[i + n - 1].id)
    BY DEF Found
  <1>4. u = [n \in 1..N |-> u[n]]
    BY DEF Found
  <1>. HIDE DEF u, N
  <1>5. \A n \in 1..N : u[n] \in Message /\ u[n].id = t[i + n - 1].id /\ \E j \in DOMAIN s : s[j] = u[n]
    <2>. SUFFICES ASSUME NEW n \in 1..N
                  PROVE  u[n] \in Message /\ u[n].id = t[i + n - 1].id /\ \E j \in DOMAIN s : s[j] = u[n]
      OBVIOUS
    <2>1. t[i + n - 1].id \in IdsOf(s)
      BY <1>1 DEF IdsOf
    <2>. QED  BY <1>2, <1>3, <2>1
  <1>6. u \in Seq(Message) /\ Len(u) = N /\ DOMAIN u = 1..N
    <2>1. u \in [1..N -> Message]
      BY <1>4, <1>5
    <2>. QED  BY <1>1, <2>1
  <1>7. u # <<>>
    BY <1>1, <1>6, EmptySeq
  <1>8. Once(u)
    <2>. SUFFICES ASSUME NEW a \in 1..N, NEW b \in 1..N, u[a].id = u[b].id PROVE a = b
      BY <1>6 DEF Once
    <2>1. i + a - 1 \in DOMAIN t /\ i + b - 1 \in DOMAIN t /\ t[i + a - 1].id = t[i + b - 1].id
      BY <1>1, <1>5
    <2>2. i + a - 1 = i + b - 1
      BY <2>1 DEF Once
    <2>. QED  BY <1>1, <2>2
  <1>9. LastId(u) = LastId(t)
    <2>1. N \in 1..N /\ i + N - 1 = Len(t) /\ t # <<>>
      BY <1>1, LogFacts DEF N
    <2>2. LastId(u) = u[N].id /\ LastId(t) = t[Len(t)].id
      BY <1>6, <1>7, <2>1, LogFacts
    <2>. QED  BY <1>5, <2>1, <2>2
  <1>10. ASSUME NEW n \in 1..N, n # 1 PROVE u[n].parent = u[n - 1].id
    <2>1. n - 1 \in 1..N /\ i + n - 1 \in DOMAIN t /\ i + n - 1 > i /\ i + n - 1 # 1
          /\ i + n - 1 - 1 = i + (n - 1) - 1
      BY <1>1, <1>10
    <2>2. PICK j \in DOMAIN s : s[j].id = t[i + n - 1].id /\ s[j].parent = Before(t, i + n - 1)
      BY <2>1 DEF Straight
    <2>3. u[n] = s[j]
      BY <1>3, <2>2, ByIdIs
    <2>. QED  BY <1>5, <2>1, <2>2, <2>3 DEF Before
  <1>. QED  BY <1>1, <1>5, <1>6, <1>7, <1>8, <1>9, <1>10 DEF u, N

PathIs(chain, t) == IdSeq(chain) = IdSeq(t) \/ CutShort(chain, t)
LEMMA RunsStored ==
    ASSUME NEW s, NEW t, NEW T, Runs(s, t, T)
    PROVE  IdsOf(t) \subseteq IdsOf(s)
  BY DEF Runs, Straight, Cut, IdsOf

LEMMA StraightChain ==
    ASSUME NEW s \in Seq(Message), Once(s), NEW t \in Seq(Message), Once(t), t # <<>>,
           \A i \in DOMAIN t : Straight(s, t, i)
    PROVE  IdSeq(Chain(s, LastId(t))) = IdSeq(t)
  <1>1. Len(t) \in Nat /\ DOMAIN t = 1..Len(t) /\ 1 \in DOMAIN t
    BY LogFacts, EmptySeq
  <1>2. IdsOf(t) \subseteq IdsOf(s)
    BY DEF Straight, IdsOf
  <1>. DEFINE u == Found(s, t, 1)
  <1>3. /\ u \in Seq(Message) /\ u # <<>> /\ DOMAIN u = 1..(Len(t) - 1 + 1)
        /\ \A n \in DOMAIN u : u[n].id = t[1 + n - 1].id
        /\ \A n \in DOMAIN u : \E j \in DOMAIN s : s[j] = u[n]
        /\ Once(u) /\ LastId(u) = LastId(t)
        /\ \A n \in DOMAIN u : n # 1 => u[n].parent = u[n - 1].id
    <2>1. \A n \in DOMAIN t : n > 1 => Straight(s, t, n)
      OBVIOUS
    <2>. QED  BY <1>1, <1>2, <2>1, FoundIs
  <1>. HIDE DEF u
  <1>4. DOMAIN u = 1..Len(t) /\ \A n \in 1..Len(t) : u[n].id = t[n].id
    <2>1. Len(t) - 1 + 1 = Len(t) /\ \A n \in 1..Len(t) : 1 + n - 1 = n
      BY <1>1
    <2>. QED  BY <1>3, <2>1
  <1>5. u[1].parent = None
    <2>1. PICK j \in DOMAIN s : s[j].id = t[1].id /\ s[j].parent = None
      BY <1>1 DEF Straight, Before
    <2>2. PICK i \in DOMAIN s : s[i] = u[1]
      BY <1>1, <1>3, <1>4
    <2>3. i = j
      BY <1>1, <1>4, <2>1, <2>2 DEF Once
    <2>. QED  BY <2>1, <2>2, <2>3
  <1>6. None \notin IdsOf(s)
    BY LogFacts, BoundAssumption DEF Ids, None
  <1>7. Chain(s, LastId(u)) = u
    BY <1>3, <1>5, <1>6, LineChain DEF Line
  <1>8. IdSeq(u) = IdSeq(t)
    BY <1>1, <1>4, Zenon DEF IdSeq
  <1>. QED  BY <1>3, <1>7, <1>8

LEMMA Greatest ==
    ASSUME NEW n \in Nat, NEW T \in SUBSET (1..n), T # {}
    PROVE  \E c \in T : \A i \in T : i <= c
  <1>. DEFINE U == {k \in Nat : n - k \in T}
  <1>1. U \in SUBSET Nat /\ U # {}
    <2>1. PICK i \in T : TRUE
      OBVIOUS
    <2>2. n - i \in Nat /\ n - (n - i) = i
      BY <2>1
    <2>. QED  BY <2>1, <2>2
  <1>2. PICK k \in U : \A l \in U : k <= l
    <2>. HIDE DEF U
    <2>. QED  BY <1>1, Least
  <1>3. ASSUME NEW i \in T PROVE i <= n - k
    <2>1. n - i \in Nat /\ n - (n - i) = i /\ i \in Nat
      OBVIOUS
    <2>2. n - i \in U
      BY <2>1
    <2>3. k <= n - i /\ k \in Nat
      BY <1>2, <2>2
    <2>. QED  BY <2>1, <2>3
  <1>. QED  BY <1>2, <1>3

LEMMA PlaceBefore ==
    ASSUME NEW n \in Nat, NEW i \in 1..n, i # 1
    PROVE  i - 1 \in 1..n /\ (i - 1) + 1 = i
  OBVIOUS

LEMMA TailAgain ==
    ASSUME NEW s \in Seq(Message), NEW m \in Message
    PROVE  <<m>> \o s # <<>> /\ Tail(<<m>> \o s) = s
  OBVIOUS

LEMMA RunsChain ==
    ASSUME NEW s \in Seq(Message), Once(s), NEW t \in Seq(Message), Once(t), t # <<>>, Runs(s, t, IdsOf(t))
    PROVE  PathIs(Chain(s, LastId(t)), t)
  <1>1. Len(t) \in Nat /\ DOMAIN t = 1..Len(t) /\ \A i \in DOMAIN t : t[i].id \in IdsOf(t)
    BY LogFacts
  <1>2. IdsOf(t) \subseteq IdsOf(s)
    BY RunsStored
  <1>. DEFINE T == {i \in 1..Len(t) : ~ Straight(s, t, i)}
  <1>3. CASE T = {}
    <2>1. \A i \in DOMAIN t : Straight(s, t, i)
      BY <1>1, <1>3
    <2>. QED  BY <2>1, StraightChain DEF PathIs
  <1>4. CASE T # {}
    <2>1. PICK c \in T : \A i \in T : i <= c
      <3>1. T \in SUBSET (1..Len(t))
        OBVIOUS
      <3>. HIDE DEF T
      <3>. QED  BY <1>1, <1>4, <3>1, Greatest
    <2>2. c \in DOMAIN t /\ c \in Nat /\ \A n \in DOMAIN t : n > c => Straight(s, t, n)
      BY <1>1, <2>1
    <2>3. Cut(s, t, c, IdsOf(t))
      BY <2>1, <2>2 DEF Runs
    <2>. DEFINE u == Found(s, t, c) N == Len(t) - c + 1
    <2>4. /\ u \in Seq(Message) /\ Len(u) = N /\ u # <<>> /\ DOMAIN u = 1..N
          /\ \A n \in DOMAIN u : u[n].id = t[c + n - 1].id /\ c + n - 1 \in DOMAIN t
          /\ \A n \in DOMAIN u : \E j \in DOMAIN s : s[j] = u[n]
          /\ Once(u) /\ LastId(u) = LastId(t)
          /\ \A n \in DOMAIN u : n # 1 => u[n].parent = u[n - 1].id
      BY <1>2, <2>2, FoundIs
    <2>5. N \in Nat /\ N > 0 /\ c + 1 - 1 = c /\ 1 \in 1..N
      BY <1>1, <2>2
    <2>. HIDE DEF u, N
    <2>6. IdsOf(u) \subseteq IdsOf(t)
      BY <1>1, <2>4 DEF IdsOf
    <2>7. PICK j \in DOMAIN s : s[j].id = t[c].id /\ s[j].parent \notin IdsOf(t) /\ Root(s, s[j].parent)
      BY <2>3 DEF Cut
    <2>8. PICK i \in DOMAIN s : s[i].id = s[j].parent /\ s[i].kind = "system" /\ s[i].parent = None
      BY <2>7 DEF Root
    <2>9. u[1] = s[j]
      <3>1. u[1].id = t[c].id
        BY <2>4, <2>5
      <3>2. PICK a \in DOMAIN s : s[a] = u[1]
        BY <2>4, <2>5
      <3>3. a = j
        BY <2>7, <3>1, <3>2 DEF Once
      <3>. QED  BY <3>2, <3>3
    <2>. DEFINE m == s[i] v == <<m>> \o u
    <2>10. m \in Message /\ m.id \notin IdsOf(u) /\ m.id \notin IdsOf(t)
      BY <2>6, <2>7, <2>8, LogFacts
    <2>11. /\ v \in Seq(Message) /\ DOMAIN v = 1..(N + 1) /\ v[1] = m
           /\ \A n \in 1..N : n + 1 \in DOMAIN v /\ v[n + 1] = u[n]
           /\ Once(v)
      BY <2>4, <2>10, Prepends
    <2>12. Tail(v) = u /\ v # <<>> /\ LastId(v) = LastId(u) /\ Len(v) = N + 1
      <3>1. v # <<>> /\ Tail(v) = u
        BY <2>4, <2>10, TailAgain
      <3>2. Len(v) = N + 1 /\ LastId(v) = v[N + 1].id
        <4>1. Len(v) \in Nat /\ DOMAIN v = 1..Len(v) /\ LastId(v) = v[Len(v)].id
          BY <2>11, <3>1, LogFacts
        <4>2. 1..Len(v) = 1..(N + 1)
          BY <2>11, <4>1
        <4>3. Len(v) = N + 1
          BY <2>5, <4>1, <4>2
        <4>. QED  BY <4>1, <4>3
      <3>3. LastId(u) = u[N].id /\ N \in 1..N
        BY <2>4, <2>5, LogFacts
      <3>4. v[N + 1] = u[N]
        BY <2>11, <3>3
      <3>. QED  BY <3>1, <3>2, <3>3, <3>4
    <2>. HIDE DEF v, m
    <2>13. \A n \in DOMAIN v : n = 1 \/ (n - 1 \in 1..N /\ (n - 1) + 1 = n)
      BY <2>5, <2>11
    <2>14. Line(s, v)
      <3>1. \A n \in DOMAIN v : \E a \in DOMAIN s : s[a] = v[n]
        <4>. SUFFICES ASSUME NEW n \in DOMAIN v PROVE \E a \in DOMAIN s : s[a] = v[n]
          OBVIOUS
        <4>1. CASE n = 1
          BY <2>11, <4>1 DEF m
        <4>2. CASE n # 1
          <5>1. n - 1 \in 1..N /\ v[n] = u[n - 1]
            BY <2>11, <2>13, <4>2
          <5>. QED  BY <2>4, <5>1
        <4>. QED  BY <4>1, <4>2
      <3>2. ASSUME NEW n \in DOMAIN v, n # 1 PROVE v[n].parent = v[n - 1].id
        <4>1. n - 1 \in 1..N /\ v[n] = u[n - 1]
          BY <2>11, <2>13, <3>2
        <4>2. CASE n - 1 = 1
          BY <2>8, <2>9, <2>11, <4>1, <4>2 DEF m
        <4>3. CASE n - 1 # 1
          <5>1. (n - 1) - 1 \in 1..N /\ ((n - 1) - 1) + 1 = n - 1
            BY <2>5, <4>1, <4>3, PlaceBefore
          <5>2. v[n - 1] = u[(n - 1) - 1]
            BY <2>11, <5>1
          <5>3. u[n - 1].parent = u[(n - 1) - 1].id
            BY <2>4, <4>1, <4>3
          <5>. QED  BY <4>1, <5>2, <5>3
        <4>. QED  BY <4>2, <4>3
      <3>3. v[1].parent \notin IdsOf(s)
        <4>1. IdsOf(s) \subseteq Ids /\ None \notin Ids
          BY LogFacts, BoundAssumption DEF Ids, None
        <4>. QED  BY <2>8, <2>11, <4>1 DEF m
      <3>. QED  BY <2>11, <2>12, <3>1, <3>2, <3>3 DEF Line
    <2>15. Chain(s, LastId(t)) = v
      BY <2>4, <2>12, <2>14, LineChain
    <2>16. IdSeq(u) = IdSeq(SubSeq(t, c, Len(t)))
      <3>. DEFINE w == SubSeq(t, c, Len(t))
      <3>1. w \in Seq(Message) /\ Len(w) = N /\ \A n \in 1..N : w[n] = t[c + n - 1]
        <4>1. c \in 1..Len(t)
          BY <1>1, <2>2
        <4>2. Len(t) - c + 1 = N
          BY DEF N
        <4>3. w \in Seq(Message)
          BY <1>1, <4>1
        <4>4. Len(w) = Len(t) - c + 1
          BY <1>1, <4>1
        <4>5. \A n \in 1..(Len(t) - c + 1) : w[n] = t[c + n - 1]
          BY <1>1, <4>1
        <4>. QED  BY <4>2, <4>3, <4>4, <4>5
      <3>. HIDE DEF w
      <3>2. DOMAIN w = 1..N /\ DOMAIN u = 1..N
        BY <2>4, <3>1, LogFacts
      <3>3. \A n \in 1..N : u[n].id = w[n].id
        BY <2>4, <3>1
      <3>4. IdSeq(u) = IdSeq(w)
        BY <3>2, <3>3, Zenon DEF IdSeq
      <3>. QED  BY <3>4 DEF w
    <2>17. CutShort(v, t)
      <3>1. Len(v) > 1
        BY <2>5, <2>12
      <3>2. v[1].kind = "system" /\ v[1].id \notin IdsOf(t)
        BY <2>8, <2>10, <2>11 DEF m
      <3>3. \E i_1 \in DOMAIN t : IdSeq(Tail(v)) = IdSeq(SubSeq(t, i_1, Len(t)))
        BY <2>2, <2>12, <2>16
      <3>. QED  BY <3>1, <3>2, <3>3 DEF CutShort
    <2>. QED  BY <2>15, <2>17 DEF PathIs
  <1>. QED  BY <1>3, <1>4

------------------------------------------------------------------------------
(* The chain of a log whose messages are ranked *)

RankedBy(s, r) == r \in [Ids -> Nat] /\ \A j \in DOMAIN s : s[j].parent \in IdsOf(s) => r[s[j].parent] < r[s[j].id]
Climbed(s, r, v) ==
    /\ v \in Seq(Message) /\ v # <<>> /\ Once(v)
    /\ \A i \in DOMAIN v : \E j \in DOMAIN s : s[j] = v[i]
    /\ \A i \in DOMAIN v : i # 1 => v[i].parent = v[i - 1].id
    /\ \A i \in DOMAIN v : r[v[1].id] <= r[v[i].id]
LEMMA ClimbStep ==
    ASSUME NEW s \in Seq(Message), Once(s), NEW r, RankedBy(s, r), NEW v, Climbed(s, r, v), Head(v).parent \in IdsOf(s)
    PROVE  Climbed(s, r, Longer(s, v)) /\ Len(Longer(s, v)) = Len(v) + 1
  <1>1. v \in Seq(Message) /\ v # <<>> /\ Len(v) \in Nat /\ DOMAIN v = 1..Len(v) /\ 1 \in DOMAIN v /\ Head(v) = v[1]
    BY LogFacts, Drops DEF Climbed
  <1>. DEFINE x == ById(s, Head(v).parent) w == <<x>> \o v
  <1>2. \E j \in DOMAIN s : x = s[j] /\ s[j].id = Head(v).parent
    BY LogFacts, ByIdFinds
  <1>3. x \in Message /\ x.id = v[1].parent /\ \E j \in DOMAIN s : s[j] = x
    BY <1>1, <1>2, LogFacts
  <1>4. Longer(s, v) = w
    BY DEF Longer
  <1>. HIDE DEF x
  <1>5. PICK j \in DOMAIN s : s[j] = v[1]
    BY <1>1 DEF Climbed
  <1>6. r[x.id] < r[v[1].id] /\ r[x.id] \in Nat /\ r[v[1].id] \in Nat
    <2>1. s[j].parent \in IdsOf(s) /\ s[j].parent = x.id /\ s[j].id = v[1].id
      BY <1>1, <1>3, <1>5
    <2>2. x.id \in Ids /\ v[1].id \in Ids
      BY <1>1, <1>3, LogFacts, MessageFields
    <2>. QED  BY <2>1, <2>2 DEF RankedBy
  <1>7. \A i \in DOMAIN v : r[x.id] < r[v[i].id]
    <2>. SUFFICES ASSUME NEW i \in DOMAIN v PROVE r[x.id] < r[v[i].id]
      OBVIOUS
    <2>1. r[v[1].id] <= r[v[i].id]
      BY DEF Climbed
    <2>2. v[i].id \in Ids
      BY <1>1, LogFacts, MessageFields
    <2>3. r[v[i].id] \in Nat
      BY <2>2 DEF RankedBy
    <2>. QED  BY <1>6, <2>1, <2>3
  <1>8. x.id \notin IdsOf(v)
    <2>. SUFFICES ASSUME x.id \in IdsOf(v) PROVE FALSE
      OBVIOUS
    <2>1. PICK i \in DOMAIN v : v[i].id = x.id
      BY DEF IdsOf
    <2>. QED  BY <1>6, <1>7, <2>1
  <1>9. /\ w \in Seq(Message) /\ DOMAIN w = 1..(Len(v) + 1) /\ w[1] = x
        /\ \A i \in DOMAIN v : i + 1 \in DOMAIN w /\ w[i + 1] = v[i]
        /\ Once(w)
    <2>1. Once(v)
      BY DEF Climbed
    <2>. QED  BY <1>1, <1>3, <1>8, <2>1, Prepends
  <1>10. w # <<>> /\ Len(w) = Len(v) + 1
    <2>1. w # <<>>
      BY <1>1, <1>3
    <2>2. Len(w) \in Nat /\ DOMAIN w = 1..Len(w)
      BY <1>9, LogFacts
    <2>. HIDE DEF w
    <2>. QED  BY <1>1, <1>9, <2>1, <2>2
  <1>. HIDE DEF w
  <1>11. \A i \in DOMAIN w : i = 1 \/ (i - 1 \in DOMAIN v /\ (i - 1) + 1 = i /\ w[i] = v[i - 1])
    <2>1. \A i \in DOMAIN w : i = 1 \/ (i - 1 \in DOMAIN v /\ (i - 1) + 1 = i)
      BY <1>1, <1>9
    <2>. QED  BY <1>9, <2>1
  <1>12. \A i \in DOMAIN w : \E k \in DOMAIN s : s[k] = w[i]
    <2>1. \A i \in DOMAIN v : \E k \in DOMAIN s : s[k] = v[i]
      BY DEF Climbed
    <2>. QED  BY <1>3, <1>9, <1>11, <2>1
  <1>13. ASSUME NEW i \in DOMAIN w, i # 1 PROVE w[i].parent = w[i - 1].id
    <2>1. i - 1 \in DOMAIN v /\ w[i] = v[i - 1]
      BY <1>11, <1>13
    <2>2. CASE i - 1 = 1
      BY <1>3, <1>9, <2>1, <2>2
    <2>3. CASE i - 1 # 1
      <3>1. v[i - 1].parent = v[(i - 1) - 1].id
        BY <2>1, <2>3 DEF Climbed
      <3>2. i - 1 \in DOMAIN w
        BY <1>1, <1>9, <2>1
      <3>3. w[i - 1] = v[(i - 1) - 1]
        BY <1>11, <2>3, <3>2
      <3>. QED  BY <2>1, <3>1, <3>3
    <2>. QED  BY <2>2, <2>3
  <1>14. ASSUME NEW i \in DOMAIN w PROVE r[w[1].id] <= r[w[i].id]
    <2>1. CASE i = 1
      BY <1>6, <1>9, <2>1
    <2>2. CASE i # 1
      <3>1. i - 1 \in DOMAIN v /\ w[i] = v[i - 1]
        BY <1>11, <2>2
      <3>2. v[i - 1].id \in Ids
        BY <1>1, <3>1, LogFacts, MessageFields
      <3>3. r[v[i - 1].id] \in Nat
        BY <3>2 DEF RankedBy
      <3>. QED  BY <1>6, <1>7, <1>9, <3>1, <3>3
    <2>. QED  BY <2>1, <2>2
  <1>15. Climbed(s, r, w)
    BY <1>9, <1>10, <1>12, <1>13, <1>14 DEF Climbed
  <1>. QED  BY <1>4, <1>10, <1>15

LEMMA ChainIsLine ==
    ASSUME NEW s \in Seq(Message), Once(s), Ranked(s), NEW end \in IdsOf(s)
    PROVE  Line(s, Chain(s, end))
  <1>1. PICK r : RankedBy(s, r)
    BY DEF Ranked, RankedBy
  <1>2. Len(s) \in Nat /\ DOMAIN s = 1..Len(s)
    BY LogFacts
  <1>3. PICK up : Climbs(s, end, Len(s), up) /\ Chain(s, end) = up[Len(s)]
    BY <1>2, ChainClimbs
  <1>4. \A n \in 0..Len(s) : up[n] = IF n = 0 THEN <<ById(s, end)>> ELSE Longer(s, up[n - 1])
    BY <1>3 DEF Climbs
  <1>. DEFINE Up(n) == Climbed(s, r, up[n]) /\ (Len(up[n]) = n + 1 \/ Head(up[n]).parent \notin IdsOf(s))
              bad == {n \in Nat : n <= Len(s) /\ ~ Up(n)}
  <1>5. bad = {}
    <2>. SUFFICES ASSUME bad # {} PROVE FALSE
      OBVIOUS
    <2>1. PICK n \in bad : \A m \in bad : n <= m
      <3>1. bad \in SUBSET Nat
        OBVIOUS
      <3>. HIDE DEF bad
      <3>. QED  BY <3>1, Least
    <2>2. CASE n = 0
      <3>. DEFINE x == ById(s, end) v == <<x>>
      <3>1. up[n] = v
        BY <1>2, <1>4, <2>2
      <3>2. PICK j \in DOMAIN s : s[j] = x
        BY <1>2, ByIdFinds
      <3>3. x \in Message
        BY <3>2, LogFacts
      <3>. HIDE DEF x
      <3>4. v \in Seq(Message) /\ v # <<>> /\ Len(v) = 1 /\ DOMAIN v = {1} /\ v[1] = x
        BY <3>3
      <3>. HIDE DEF v
      <3>5. r[x.id] \in Nat
        BY <1>1, <3>3, MessageFields DEF RankedBy
      <3>6. Once(v)
        BY <3>4 DEF Once
      <3>7. Climbed(s, r, v)
        BY <3>2, <3>4, <3>5, <3>6 DEF Climbed
      <3>8. Len(v) = n + 1
        BY <2>2, <3>4
      <3>. QED  BY <2>1, <3>1, <3>7, <3>8
    <2>3. CASE n # 0
      <3>1. n - 1 \in Nat /\ n \in 0..Len(s) /\ n - 1 <= Len(s) /\ ~ (n <= n - 1) /\ n - 1 + 1 = n
        BY <1>2, <2>1, <2>3
      <3>2. Up(n - 1)
        BY <2>1, <3>1
      <3>3. up[n] = Longer(s, up[n - 1])
        BY <1>4, <2>3, <3>1
      <3>4. CASE Head(up[n - 1]).parent \in IdsOf(s)
        <4>1. Climbed(s, r, up[n]) /\ Len(up[n]) = Len(up[n - 1]) + 1
          BY <1>1, <3>2, <3>3, <3>4, ClimbStep
        <4>2. Len(up[n - 1]) = n
          BY <3>1, <3>2, <3>4
        <4>. QED  BY <2>1, <4>1, <4>2
      <3>5. CASE Head(up[n - 1]).parent \notin IdsOf(s)
        <4>1. up[n] = up[n - 1]
          BY <3>3, <3>5 DEF Longer
        <4>. QED  BY <2>1, <3>2, <3>5, <4>1
      <3>. QED  BY <3>4, <3>5
    <2>. QED  BY <2>2, <2>3
  <1>. DEFINE v == up[Len(s)]
  <1>6. Up(Len(s))
    BY <1>2, <1>5
  <1>7. v \in Seq(Message) /\ v # <<>> /\ Once(v) /\ IdsOf(v) \subseteq IdsOf(s) /\ Head(v) = v[1]
    <2>1. v \in Seq(Message) /\ v # <<>> /\ Once(v) /\ \A i \in DOMAIN v : \E j \in DOMAIN s : s[j] = v[i]
      BY <1>6 DEF Climbed
    <2>. HIDE DEF v
    <2>2. IdsOf(v) \subseteq IdsOf(s)
      BY <2>1 DEF IdsOf
    <2>. QED  BY <2>1, <2>2, Drops
  <1>8. Len(v) <= Len(s) /\ Len(v) \in Nat
    BY <1>7, NoLonger, LogFacts
  <1>9. v[1].parent \notin IdsOf(s)
    BY <1>2, <1>6, <1>7, <1>8
  <1>10. Line(s, v)
    BY <1>6, <1>7, <1>9 DEF Climbed, Line
  <1>. QED  BY <1>3, <1>10

\* The messages of a line hang straight on one another.
LEMMA LineHangs ==
    ASSUME Types, StoreHolds, NEW k \in Keys, LinksOf(k), NEW c, Line(msgs[k], c), NEW i \in DOMAIN c
    PROVE  \/ Straight(msgs[k], c, i)
           \/ i = 1 /\ Waits(turn, c[1]) /\ turn.st \in {"persist", "splice"} /\ Pending(msgs[k], c, i, turn)
  <1>1. PICK j \in DOMAIN msgs[k] : msgs[k][j] = c[i]
    BY DEF Line
  <1>2. CASE i # 1
    <2>1. c[i].parent = c[i - 1].id
      BY <1>2 DEF Line
    <2>. QED  BY <1>1, <1>2, <2>1 DEF Straight, Before
  <1>3. CASE i = 1
    <2>1. c[1].parent \notin IdsOf(msgs[k])
      BY DEF Line
    <2>2. \/ c[1].parent = None
          \/ turn.st \in {"persist", "splice"} /\ Waits(turn, c[1])
      BY <1>1, <1>3, <2>1 DEF LinksOf
    <2>. QED  BY <1>1, <1>3, <2>2 DEF Straight, Before, Pending
  <1>. QED  BY <1>2, <1>3

\* So do the first of them.
LEMMA FirstOnes ==
    ASSUME NEW s, NEW c \in Seq(Message), Once(c), NEW n \in Nat, n <= Len(c), NEW w
    PROVE  LET p == SubSeq(c, 1, n) IN
           /\ p \in Seq(Message) /\ DOMAIN p = 1..n /\ Once(p) /\ \A i \in 1..n : p[i] = c[i] /\ i \in DOMAIN c
           /\ LastId(p) = IF n = 0 THEN None ELSE c[n].id
           /\ \A i \in 1..n : /\ Straight(s, c, i) => Straight(s, p, i)
                              /\ Pending(s, c, i, w) => Pending(s, p, i, w)
  <1>. DEFINE p == SubSeq(c, 1, n)
  <1>1. Len(c) \in Nat /\ DOMAIN c = 1..Len(c) /\ \A i \in 1..n : i \in DOMAIN c
    BY LogFacts
  <1>2. p \in Seq(Message) /\ Len(p) = n /\ \A i \in 1..n : p[i] = c[i]
    BY <1>1, SubSeqProperties
  <1>. HIDE DEF p
  <1>3. DOMAIN p = 1..n
    BY <1>2, LogFacts
  <1>4. Once(p)
    BY <1>1, <1>2, <1>3 DEF Once
  <1>5. LastId(p) = IF n = 0 THEN None ELSE c[n].id
    <2>1. CASE n = 0
      <3>1. p = <<>>
        BY <1>2, <2>1, EmptySeq
      <3>. QED  BY <2>1, <3>1 DEF LastId
    <2>2. CASE n # 0
      <3>1. n \in 1..n
        BY <2>2
      <3>2. p # <<>>
        BY <1>2, <2>2, EmptySeq
      <3>3. LastId(p) = p[n].id
        BY <1>2, <3>2 DEF LastId
      <3>. QED  BY <1>2, <2>2, <3>1, <3>3
    <2>. QED  BY <2>1, <2>2
  <1>6. ASSUME NEW i \in 1..n
        PROVE  /\ Straight(s, c, i) => Straight(s, p, i)
               /\ Pending(s, c, i, w) => Pending(s, p, i, w)
    <2>1. p[i] = c[i]
      BY <1>2
    <2>2. Before(p, i) = Before(c, i)
      <3>1. i = 1 \/ i - 1 \in 1..n
        OBVIOUS
      <3>. QED  BY <1>2, <3>1 DEF Before
    <2>. QED  BY <2>1, <2>2 DEF Straight, Pending
  <1>. QED  BY <1>1, <1>2, <1>3, <1>4, <1>5, <1>6 DEF p

------------------------------------------------------------------------------
(* Every action keeps the path after the turn *)

EditFollows == EditOn(edit, msgs[edit.key], turn)
TurnFollows == TurnOn(turn, msgs[turn.key])
AllRanked == \A k \in Keys : Ranked(msgs[k])
LEMMA FollowParts == FollowHolds <=> (faults = 0 => EditFollows /\ TurnFollows /\ AllRanked)
  BY DEF FollowHolds, EditFollows, TurnFollows, AllRanked

LEMMA NothingToFollow ==
    ASSUME NEW e, NEW s, NEW w
    PROVE  /\ e.st = "none" => EditOn(e, s, w)
           /\ w.st \notin {"run", "persist", "splice", "path"} => TurnOn(w, s)
  BY DEF EditOn, TurnOn

\* The turn moves on and the store stays.
LEMMA TurnFollowsOn ==
    ASSUME FollowHolds, UNCHANGED <<msgs, edit>>, faults' = 0 => faults = 0,
           faults' = 0 => (EditOn(edit, msgs[edit.key], turn) => EditOn(edit, msgs[edit.key], turn')),
           faults' = 0 => (TurnFollows => TurnFollows')
    PROVE  FollowHolds'
  <1>. SUFFICES ASSUME faults' = 0 PROVE EditFollows' /\ TurnFollows' /\ AllRanked'
    BY DEF FollowHolds, EditFollows, TurnFollows, AllRanked
  <1>1. EditFollows /\ TurnFollows /\ AllRanked
    BY FollowParts
  <1>2. EditOn(edit, msgs[edit.key], turn')
    BY <1>1 DEF EditFollows
  <1>. QED  BY <1>1, <1>2 DEF EditFollows, AllRanked

\* Neither the turn nor the edit nor the store moves.
LEMMA AllStill ==
    ASSUME FollowHolds, UNCHANGED <<msgs, edit, turn>>, faults' = 0 => faults = 0
    PROVE  FollowHolds'
  BY DEF FollowHolds

LEMMA Fresh ==
    ASSUME Types, StoreHolds, TurnHolds, NEW k \in Keys, LinksOf(k), NEW j \in DOMAIN msgs[k]
    PROVE  msgs[k][j].parent # nextId
  <1>1. msgs[k] \in Seq(Message) /\ IdsOf(msgs[k]) \subseteq Ids /\ nextId \in Nat
    BY StoreFacts, NextIds
  <1>2. msgs[k][j].parent \in IdsOf(msgs[k]) => msgs[k][j].parent < nextId /\ msgs[k][j].parent \in Nat
    BY <1>1, NextIds DEF StoreHolds, Known
  <1>3. nextId # None
    BY DEF Types, None
  <1>4. turn.st \in {"persist", "splice"} => turn.summary.id < nextId /\ turn.summary.id \in Nat
    <2>. SUFFICES ASSUME turn.st \in {"persist", "splice"} PROVE turn.summary.id < nextId /\ turn.summary.id \in Nat
      OBVIOUS
    <2>1. turn.summary.id < nextId
      BY DEF TurnHolds, TurnSound
    <2>2. turn.summary \in Message \cup {NoSummary}
      BY DEF Types, Turns
    <2>3. turn.summary.id \in Nat
      BY <2>2, MessageFields DEF NoSummary, None
    <2>. QED  BY <2>1, <2>3
  <1>5. msgs[k][j].parent \in IdsOf(msgs[k]) \/ msgs[k][j].parent = None
        \/ (turn.st \in {"persist", "splice"} /\ msgs[k][j].parent = turn.summary.id)
    BY DEF LinksOf, Waits
  <1>. QED  BY <1>1, <1>2, <1>3, <1>4, <1>5

\* Where a message is added, under another one that was there.
LEMMA RanksAdded ==
    ASSUME Tree, AllRanked, faults = 0, NEW k \in Keys, NEW m \in Message, msgs' = Appended(k, m),
           m.id = nextId, m.parent \in IdsOf(msgs[k]) \cup {None}
    PROVE  AllRanked' /\ msgs'[k] = Append(msgs[k], m) /\ Extends(msgs[k], msgs'[k])
           /\ \A j \in Keys \ {k} : msgs'[j] = msgs[j]
  <1>1. Types /\ StoreHolds /\ TurnHolds /\ LinksOf(k) /\ msgs[k] \in Seq(Message) /\ DOMAIN msgs = Keys
    BY StoreFacts DEF Tree, TreeHolds, Types
  <1>2. msgs'[k] = Append(msgs[k], m) /\ \A j \in Keys \ {k} : msgs'[j] = msgs[j]
    BY <1>1 DEF Appended
  <1>3. nextId \notin IdsOf(msgs[k]) /\ \A j \in DOMAIN msgs[k] : msgs[k][j].parent # nextId
    BY <1>1, NextIsNew, Fresh
  <1>4. m.parent # m.id
    BY <1>3, MessageFields
  <1>5. Once(msgs[k]) /\ Ranked(msgs[k])
    BY <1>1 DEF StoreHolds, AllRanked
  <1>6. Ranked(Append(msgs[k], m))
    BY <1>1, <1>3, <1>4, <1>5, RankAdds
  <1>7. AllRanked'
    BY <1>2, <1>6 DEF AllRanked
  <1>. QED  BY <1>1, <1>2, <1>7, AppendExtends

LEMMA EmptyIsRanked == Ranked(<<>>)
  <1>1. PICK r \in [Ids -> Nat] : TRUE
    <2>1. [id \in Ids |-> 0] \in [Ids -> Nat]
      OBVIOUS
    <2>. QED  BY <2>1
  <1>2. \A s \in Seq(Message) : s = <<>> => \A j \in DOMAIN s : FALSE
    BY EmptySeq
  <1>. QED  BY <1>1, <1>2 DEF Ranked

\* A turn begins with a path of the store.
LEMMA StartsOnPath ==
    ASSUME NEW k \in Keys, NEW path \in Seq(Message), path # <<>>, Once(path), StartTurn(k, path),
           Runs(msgs'[k], path, IdsOf(path))
    PROVE  TurnFollows'
  <1>1. /\ turn'.st = "run" /\ turn'.key = k /\ turn'.base = path /\ turn'.new = <<>> /\ turn'.summary = NoSummary
        /\ turn'.tailStart = None /\ turn'.last = None
    BY DEF StartTurn, NoTurn
  <1>2. Talk(turn') = path
    BY <1>1 DEF Talk
  <1>3. Says(turn') /\ Compacts(turn')
    BY <1>1, <1>2 DEF Says, Compacts
  <1>4. TurnOn(turn', msgs'[k])
    BY <1>1, <1>2, <1>3 DEF TurnOn
  <1>. QED  BY <1>1, <1>4 DEF TurnFollows

LEMMA SendFollows ==
    ASSUME Inv, Tree, Tree', FollowHolds, Send
    PROVE  FollowHolds'
  <1>1. PICK k \in SendTargets, f \in 1..4 :
          /\ OnNewMessage(k, f)
          /\ IF f > 3 THEN StartTurn(k, Chain(msgs'[k], nextId)) ELSE UNCHANGED turn
    BY DEF Send
  <1>2. k \in Keys /\ Idle /\ nextId <= MaxId /\ UNCHANGED edit
    BY <1>1 DEF Send, SendTargets, Actives, Unborn
  <1>. SUFFICES ASSUME faults' = 0 PROVE EditFollows' /\ TurnFollows' /\ AllRanked'
    BY DEF FollowHolds, EditFollows, TurnFollows, AllRanked
  <1>3. Types /\ StoreHolds /\ nextId \in Ids /\ Types' /\ StoreHolds' /\ msgs[k] \in Seq(Message)
    BY <1>2, NextIds, StoreFacts DEF Tree
  <1>4. faults = 0 /\ f = 4
    BY <1>1, <1>3, Writing DEF OnNewMessage
  <1>. DEFINE was == IF k \in Actives THEN meta ELSE [meta EXCEPT ![k] = NewMeta]
              above == LastId(Chain(msgs[k], was[k].path))
              m == [id |-> nextId, parent |-> above, kind |-> "user"]
  <1>5. msgs' = Appended(k, m)
    BY <1>1, <1>4 DEF OnNewMessage
  <1>6. above \in IdsOf(msgs[k]) \cup {None} /\ above \in Ids \cup {None}
    <2>. DEFINE c == Chain(msgs[k], was[k].path)
    <2>1. Within(c, msgs[k])
      BY <1>3, ChainEnds
    <2>. HIDE DEF c
    <2>2. c \in Seq(Message) /\ IdsOf(c) \subseteq IdsOf(msgs[k])
      BY <2>1 DEF Within, IdsOf
    <2>3. LastId(c) \in IdsOf(msgs[k]) \cup {None}
      <3>1. c = <<>> => LastId(c) = None
        BY DEF LastId
      <3>. QED  BY <2>2, <3>1, LogFacts
    <2>. QED  BY <1>3, <2>3, LogFacts DEF c
  <1>. HIDE DEF above
  <1>7. m \in Message /\ m.id = nextId /\ m.parent = above
    BY <1>3, <1>6, MessageFields DEF Kinds
  <1>. HIDE DEF m
  <1>8. AllRanked' /\ msgs'[k] = Append(msgs[k], m)
    BY <1>2, <1>4, <1>5, <1>6, <1>7, RanksAdded, FollowParts
  <1>9. nextId \in IdsOf(msgs'[k]) /\ msgs'[k] \in Seq(Message)
    BY <1>3, <1>7, <1>8, Adds
  <1>. DEFINE c == Chain(msgs'[k], nextId)
  <1>10. Line(msgs'[k], c) /\ Ranked(msgs'[k]) /\ Once(msgs'[k])
    <2>1. Once(msgs'[k]) /\ Ranked(msgs'[k])
      BY <1>2, <1>3, <1>8 DEF StoreHolds, AllRanked
    <2>. QED  BY <1>9, <2>1, ChainIsLine
  <1>11. StartTurn(k, c)
    BY <1>1, <1>4
  <1>. HIDE DEF c
  <1>12. turn'.st = "run"
    BY <1>11 DEF StartTurn, NoTurn
  <1>13. \A i \in DOMAIN c : Straight(msgs'[k], c, i)
    <2>. SUFFICES ASSUME NEW i \in DOMAIN c PROVE Straight(msgs'[k], c, i)
      OBVIOUS
    <2>1. LinksOf(k)'
      BY <1>2 DEF Tree, TreeHolds
    <2>2. PICK j \in DOMAIN msgs'[k] : msgs'[k][j] = c[i]
      BY <1>10 DEF Line
    <2>3. CASE i # 1
      <3>1. c[i].parent = c[i - 1].id
        BY <1>10, <2>3 DEF Line
      <3>. QED  BY <2>2, <2>3, <3>1 DEF Straight, Before
    <2>4. CASE i = 1
      <3>1. c[1].parent \notin IdsOf(msgs'[k])
        BY <1>10 DEF Line
      <3>2. c[1].parent = None
        BY <1>12, <2>1, <2>2, <2>4, <3>1 DEF LinksOf
      <3>. QED  BY <2>2, <2>4, <3>2 DEF Straight, Before
    <2>. QED  BY <2>3, <2>4
  <1>14. TurnFollows'
    <2>1. c \in Seq(Message) /\ c # <<>> /\ Once(c)
      BY <1>10 DEF Line
    <2>2. Runs(msgs'[k], c, IdsOf(c))
      BY <1>13 DEF Runs
    <2>. QED  BY <1>2, <1>11, <2>1, <2>2, StartsOnPath
  <1>15. EditFollows'
    BY <1>2, NothingToFollow DEF EditFollows, Idle
  <1>. QED  BY <1>8, <1>14, <1>15

LEMMA CreateFollows ==
    ASSUME Inv, Tree, FollowHolds, NEW new \in Keys, NEW carry \in BOOLEAN, Create(new, carry)
    PROVE  FollowHolds'
  <1>1. Idle /\ UNCHANGED <<turn, edit, titling>> /\ CreateNewSession(new, carry)
    BY DEF Create
  <1>. SUFFICES ASSUME faults' = 0 PROVE EditFollows' /\ TurnFollows' /\ AllRanked'
    BY DEF FollowHolds, EditFollows, TurnFollows, AllRanked
  <1>2. Types /\ StoreHolds
    BY DEF Tree
  <1>. DEFINE m == [id |-> nextId, parent |-> None, kind |-> "system"]
  <1>3. PICK f \in 1..5 :
          /\ Writes(Cardinality(Actives) + (IF carry THEN 3 ELSE 1), f)
          /\ msgs' = IF carry /\ f >= Cardinality(Actives) + 2 THEN Appended(new, m) ELSE msgs
    BY <1>1 DEF CreateNewSession
  <1>4. faults = 0
    BY <1>2, <1>3, Writing
  <1>5. AllRanked
    BY <1>4, FollowParts
  <1>6. AllRanked'
    <2>1. CASE msgs' = msgs
      BY <1>5, <2>1 DEF AllRanked
    <2>2. CASE carry /\ msgs' = Appended(new, m)
      <3>1. nextId <= MaxId
        BY <1>1, <2>2 DEF CreateNewSession
      <3>2. nextId \in Ids
        BY <1>2, <3>1, NextIds
      <3>3. m \in Message /\ m.id = nextId /\ m.parent = None
        BY <3>2, MessageFields DEF Kinds
      <3>. HIDE DEF m
      <3>. QED  BY <1>4, <1>5, <2>2, <3>3, RanksAdded
    <2>. QED  BY <1>3, <2>1, <2>2
  <1>7. EditFollows' /\ TurnFollows'
    BY <1>1, NothingToFollow DEF Idle, EditFollows, TurnFollows
  <1>. QED  BY <1>6, <1>7

LEMMA DeleteFollows ==
    ASSUME Inv, Tree, FollowHolds, NEW k \in Keys, Delete(k)
    PROVE  FollowHolds'
  <1>1. Idle /\ UNCHANGED <<turn, edit>> /\ msgs' = [msgs EXCEPT ![k] = <<>>]
    BY DEF Delete
  <1>. SUFFICES ASSUME faults' = 0 PROVE EditFollows' /\ TurnFollows' /\ AllRanked'
    BY DEF FollowHolds, EditFollows, TurnFollows, AllRanked
  <1>2. Types
    BY DEF Tree
  <1>3. faults = 0
    <2>1. \E n, f : Writes(n, f)
      BY DEF Delete
    <2>. QED  BY <1>2, <2>1, Writing
  <1>4. AllRanked /\ DOMAIN msgs = Keys
    BY <1>2, <1>3, FollowParts DEF Types
  <1>5. AllRanked'
    <2>1. \A j \in Keys : msgs'[j] = IF j = k THEN <<>> ELSE msgs[j]
      BY <1>1, <1>4
    <2>. QED  BY <1>4, <2>1, EmptyIsRanked DEF AllRanked
  <1>6. EditFollows' /\ TurnFollows'
    BY <1>1, NothingToFollow DEF Idle, EditFollows, TurnFollows
  <1>. QED  BY <1>5, <1>6

\* What changes the sessions' titles, states and paths, and nothing else.
LEMMA MetaFollows ==
    ASSUME Tree, FollowHolds, NEW k \in Keys, NEW id, NEW t,
           Open(k) \/ Rename(k, t) \/ Switch(k, id) \/ TitleSteps(k)
    PROVE  FollowHolds'
  <1>1. UNCHANGED <<msgs, edit, turn>>
    BY DEF Open, Rename, Switch, TitleSteps, TitleCheck, TitleRecheck, TitleWrite
  <1>2. UNCHANGED faults \/ \E n, f : Writes(n, f)
    BY DEF Open, OpenExisting, Rename, Switch, TitleSteps, TitleCheck, TitleRecheck, TitleWrite
  <1>3. Types
    BY DEF Tree
  <1>. QED  BY <1>1, <1>2, <1>3, Writing, AllStill

LEMMA EditReadFollows ==
    ASSUME Inv, Tree, FollowHolds, NEW k \in Keys, NEW id, EditRead(k, id)
    PROVE  FollowHolds'
  <1>. SUFFICES ASSUME faults' = 0 PROVE EditFollows' /\ TurnFollows' /\ AllRanked'
    BY DEF FollowHolds, EditFollows, TurnFollows, AllRanked
  <1>1. faults = 0 /\ UNCHANGED <<msgs, turn>>
    BY DEF EditRead
  <1>. DEFINE c == ReadPath(k)
  <1>2. PICK i \in DOMAIN c :
          /\ c[i].kind = "user"
          /\ edit' = [st |-> "derive", key |-> k, of |-> id, parent |-> c[i].parent, path |-> SubSeq(c, 1, i - 1)]
    BY DEF EditRead
  <1>3. Types /\ StoreHolds /\ LinksOf(k) /\ PathOf(k) /\ msgs[k] \in Seq(Message) /\ Once(msgs[k]) /\ Ranked(msgs[k])
    BY <1>1, StoreFacts, FollowParts DEF Tree, TreeHolds, StoreHolds, AllRanked
  <1>4. meta[k].path \in IdsOf(msgs[k])
    <2>. SUFFICES ASSUME meta[k].path \notin IdsOf(msgs[k]) PROVE FALSE
      OBVIOUS
    <2>1. c = msgs[k] /\ msgs[k] = <<>>
      BY <1>3, ChainEnds DEF ReadPath, PathOf
    <2>2. DOMAIN c = {}
      BY <2>1
    <2>. QED  BY <2>2
  <1>5. Line(msgs[k], c)
    BY <1>3, <1>4, ChainIsLine DEF ReadPath
  <1>. HIDE DEF c
  <1>6. c \in Seq(Message) /\ Once(c) /\ Len(c) \in Nat /\ DOMAIN c = 1..Len(c) /\ i \in Nat /\ i - 1 \in Nat /\ i - 1 <= Len(c)
        /\ i - 1 + 1 = i
    <2>1. c \in Seq(Message) /\ Once(c) /\ Len(c) \in Nat /\ DOMAIN c = 1..Len(c)
      BY <1>5, LogFacts DEF Line
    <2>. QED  BY <2>1
  <1>. DEFINE p == SubSeq(c, 1, i - 1)
  <1>7. /\ p \in Seq(Message) /\ DOMAIN p = 1..(i - 1) /\ Once(p) /\ \A n \in 1..(i - 1) : p[n] = c[n] /\ n \in DOMAIN c
        /\ LastId(p) = IF i - 1 = 0 THEN None ELSE c[i - 1].id
        /\ \A n \in 1..(i - 1) : /\ Straight(msgs[k], c, n) => Straight(msgs[k], p, n)
                                 /\ Pending(msgs[k], c, n, turn) => Pending(msgs[k], p, n, turn)
    BY <1>6, FirstOnes
  <1>. HIDE DEF p
  <1>8. edit'.st = "derive" /\ edit'.key = k /\ edit'.parent = c[i].parent /\ edit'.path = p
    BY <1>2 DEF p
  <1>9. c[i].parent = LastId(p)
    <2>1. CASE i = 1
      <3>1. c[1].parent \notin IdsOf(msgs[k])
        BY <1>5 DEF Line
      <3>2. PICK j \in DOMAIN msgs[k] : msgs[k][j] = c[i]
        BY <1>5 DEF Line
      <3>3. c[1].parent = None
        BY <1>2, <1>3, <2>1, <3>1, <3>2 DEF LinksOf, Waits
      <3>4. i - 1 = 0
        BY <2>1
      <3>. QED  BY <1>7, <2>1, <3>3, <3>4
    <2>2. CASE i # 1
      <3>1. c[i].parent = c[i - 1].id
        BY <1>5, <2>2 DEF Line
      <3>2. i - 1 # 0
        BY <1>6, <2>2
      <3>. QED  BY <1>7, <3>1, <3>2
    <2>. QED  BY <2>1, <2>2
  <1>10. \A n \in DOMAIN p : \/ Straight(msgs[k], p, n)
                             \/ Pending(msgs[k], p, n, turn) /\ turn.st \in {"persist", "splice"}
    <2>. SUFFICES ASSUME NEW n \in DOMAIN p
                  PROVE \/ Straight(msgs[k], p, n)
                        \/ Pending(msgs[k], p, n, turn) /\ turn.st \in {"persist", "splice"}
      OBVIOUS
    <2>1. n \in 1..(i - 1) /\ n \in DOMAIN c
      BY <1>7
    <2>. QED  BY <1>3, <1>5, <1>7, <2>1, LineHangs
  <1>11. EditOn(edit', msgs[k], turn)
    BY <1>7, <1>8, <1>9, <1>10 DEF EditOn, Runs
  <1>. QED  BY <1>1, <1>8, <1>11, FollowParts DEF EditFollows, TurnFollows, AllRanked

LEMMA BeforeAdds ==
    ASSUME NEW p \in Seq(Message), NEW m \in Message
    PROVE  /\ Before(Append(p, m), Len(p) + 1) = LastId(p)
           /\ \A i \in DOMAIN p : Before(Append(p, m), i) = Before(p, i)
  <1>. DEFINE q == Append(p, m)
  <1>1. Len(p) \in Nat /\ DOMAIN p = 1..Len(p) /\ Len(p) + 1 - 1 = Len(p)
    BY LogFacts
  <1>2. \A i \in DOMAIN p : q[i] = p[i]
    BY Adds
  <1>. HIDE DEF q
  <1>3. Before(q, Len(p) + 1) = LastId(p)
    <2>1. CASE Len(p) = 0
      <3>1. p = <<>> /\ Len(p) + 1 = 1
        BY <2>1, EmptySeq
      <3>. QED  BY <3>1 DEF Before, LastId
    <2>2. CASE Len(p) # 0
      <3>1. p # <<>> /\ Len(p) \in DOMAIN p /\ Len(p) + 1 # 1
        BY <1>1, <2>2, EmptySeq
      <3>2. q[Len(p)] = p[Len(p)] /\ LastId(p) = p[Len(p)].id
        BY <1>2, <3>1 DEF LastId
      <3>. QED  BY <1>1, <3>1, <3>2 DEF Before
    <2>. QED  BY <2>1, <2>2
  <1>4. ASSUME NEW i \in DOMAIN p PROVE Before(q, i) = Before(p, i)
    <2>1. i = 1 \/ i - 1 \in DOMAIN p
      BY <1>1
    <2>. QED  BY <1>2, <2>1 DEF Before
  <1>. QED  BY <1>3, <1>4 DEF q

\* Of a path of the store, one message longer.
LEMMA PathAdds ==
    ASSUME NEW s \in Seq(Message), NEW p \in Seq(Message), Once(p), NEW m \in Message, m.id \notin IdsOf(s),
           IdsOf(p) \subseteq IdsOf(s), m.parent = LastId(p), NEW w
    PROVE  LET u == Append(s, m) q == Append(p, m) IN
           /\ q \in Seq(Message) /\ Once(q) /\ DOMAIN q = DOMAIN p \cup {Len(p) + 1} /\ Straight(u, q, Len(p) + 1)
           /\ IdsOf(q) = IdsOf(p) \cup {m.id}
           /\ \A i \in DOMAIN p : /\ Straight(s, p, i) => Straight(u, q, i)
                                  /\ Pending(s, p, i, w) => Pending(u, q, i, w)
                                  /\ Cut(s, p, i, IdsOf(p)) => Cut(u, q, i, IdsOf(q))
  <1>. DEFINE u == Append(s, m) q == Append(p, m)
  <1>1. Len(s) \in Nat /\ DOMAIN s = 1..Len(s) /\ Len(p) \in Nat /\ DOMAIN p = 1..Len(p)
    BY LogFacts
  <1>2. /\ u \in Seq(Message) /\ DOMAIN u = 1..(Len(s) + 1) /\ \A i \in DOMAIN s : u[i] = s[i]
        /\ u[Len(s) + 1] = m
    BY Adds
  <1>3. /\ q \in Seq(Message) /\ DOMAIN q = 1..(Len(p) + 1) /\ \A i \in DOMAIN p : q[i] = p[i]
        /\ q[Len(p) + 1] = m /\ IdsOf(q) = IdsOf(p) \cup {m.id} /\ Once(q)
    BY Adds
  <1>4. Extends(s, u)
    BY AppendExtends
  <1>. HIDE DEF u, q
  <1>5. DOMAIN q = DOMAIN p \cup {Len(p) + 1} /\ Len(s) + 1 \in DOMAIN u /\ Len(p) + 1 - 1 = Len(p)
    BY <1>1, <1>2, <1>3
  <1>6. Before(q, Len(p) + 1) = LastId(p) /\ \A i \in DOMAIN p : Before(q, i) = Before(p, i)
    BY BeforeAdds DEF q
  <1>7. Straight(u, q, Len(p) + 1)
    BY <1>2, <1>3, <1>5, <1>6 DEF Straight
  <1>8. ASSUME NEW i \in DOMAIN p
        PROVE  /\ Straight(s, p, i) => Straight(u, q, i)
               /\ Pending(s, p, i, w) => Pending(u, q, i, w)
               /\ Cut(s, p, i, IdsOf(p)) => Cut(u, q, i, IdsOf(q))
    <2>1. q[i] = p[i] /\ Before(q, i) = Before(p, i)
      BY <1>3, <1>6
    <2>2. Straight(s, p, i) => Straight(u, q, i)
      BY <1>4, <2>1 DEF Extends, Straight
    <2>3. Pending(s, p, i, w) => Pending(u, q, i, w)
      BY <1>4, <2>1 DEF Extends, Pending
    <2>4. Cut(s, p, i, IdsOf(p)) => Cut(u, q, i, IdsOf(q))
      <3>. SUFFICES ASSUME Cut(s, p, i, IdsOf(p)) PROVE Cut(u, q, i, IdsOf(q))
        OBVIOUS
      <3>1. PICK j \in DOMAIN s : s[j].id = p[i].id /\ s[j].parent \notin IdsOf(p) /\ Root(s, s[j].parent)
        BY DEF Cut
      <3>2. s[j].parent \in IdsOf(s)
        BY <3>1 DEF Root, IdsOf
      <3>3. Root(u, s[j].parent)
        BY <1>4, <3>1 DEF Extends, Root
      <3>4. s[j].parent \notin IdsOf(q)
        BY <1>3, <3>1, <3>2
      <3>. QED  BY <1>4, <2>1, <3>1, <3>3, <3>4 DEF Extends, Cut
    <2>. QED  BY <2>2, <2>3, <2>4
  <1>. QED  BY <1>3, <1>5, <1>7, <1>8 DEF u, q

LEMMA EditDeriveFollows ==
    ASSUME Inv, Tree, FollowHolds, EditDerive
    PROVE  FollowHolds'
  <1>. SUFFICES ASSUME faults' = 0 PROVE EditFollows' /\ TurnFollows' /\ AllRanked'
    BY DEF FollowHolds, EditFollows, TurnFollows, AllRanked
  <1>1. edit.st = "derive" /\ nextId <= MaxId /\ UNCHANGED turn
    BY DEF EditDerive
  <1>. DEFINE k == edit.key m == [id |-> nextId, parent |-> edit.parent, kind |-> "user"]
  <1>2. msgs' = Appended(k, m)
    BY DEF EditDerive
  <1>3. PICK f \in 1..2 : /\ Writes(1, f)
                          /\ edit' = IF f = 1 THEN NoEdit ELSE [edit EXCEPT !.st = "start", !.path = Append(edit.path, m)]
    BY DEF EditDerive
  <1>4. Types /\ StoreHolds /\ edit \in Edits /\ nextId \in Ids /\ k \in Keys
    BY <1>1, NextIds DEF Tree, Types, Inv, EditInActive, Actives
  <1>5. faults = 0 /\ f = 2
    BY <1>3, <1>4, Writing
  <1>6. EditOn(edit, msgs[k], turn) /\ TurnFollows /\ AllRanked
    BY <1>5, FollowParts DEF EditFollows
  <1>. DEFINE s == msgs[k] p == edit.path
  <1>7. s \in Seq(Message) /\ p \in Seq(Message) /\ nextId \notin IdsOf(s) /\ Once(s) /\ Once(p)
    BY <1>1, <1>4, <1>6, StoreFacts, NextIsNew DEF Edits, StoreHolds, EditOn
  <1>8. edit.parent = LastId(p) /\ edit.parent \in IdsOf(s) \cup {None} /\ edit.parent \in Ids \cup {None}
    BY <1>1, <1>4, <1>5, <1>6 DEF EditOn, Tree, EditHolds, Edits
  <1>9. m \in Message /\ m.id = nextId /\ m.parent = edit.parent
    BY <1>4, <1>8, MessageFields DEF Kinds
  <1>. HIDE DEF m
  <1>10. AllRanked' /\ msgs'[k] = Append(s, m) /\ Extends(s, msgs'[k]) /\ \A j \in Keys \ {k} : msgs'[j] = msgs[j]
    BY <1>2, <1>4, <1>5, <1>6, <1>8, <1>9, RanksAdded
  <1>11. IdsOf(p) \subseteq IdsOf(s)
    <2>1. \A i \in DOMAIN p : Straight(s, p, i) \/ Pending(s, p, i, turn) \/ Cut(s, p, i, IdsOf(p))
      BY <1>1, <1>6 DEF EditOn, Runs
    <2>. QED  BY <2>1 DEF Straight, Pending, Cut, IdsOf
  <1>. DEFINE u == Append(s, m) q == Append(p, m)
  <1>12. /\ q \in Seq(Message) /\ Once(q) /\ DOMAIN q = DOMAIN p \cup {Len(p) + 1} /\ Straight(u, q, Len(p) + 1)
         /\ \A i \in DOMAIN p : /\ Straight(s, p, i) => Straight(u, q, i)
                                /\ Pending(s, p, i, turn) => Pending(u, q, i, turn)
                                /\ Cut(s, p, i, IdsOf(p)) => Cut(u, q, i, IdsOf(q))
    <2>1. m.id \notin IdsOf(s) /\ m.parent = LastId(p)
      BY <1>7, <1>8, <1>9
    <2>. HIDE DEF s, p
    <2>. QED  BY <1>7, <1>9, <1>11, <2>1, PathAdds
  <1>13. edit'.st = "start" /\ edit'.key = k /\ edit'.path = q
    BY <1>3, <1>4, <1>5 DEF Edits
  <1>. HIDE DEF u, q
  <1>14. EditOn(edit', u, turn)
    <2>1. turn.st \in {"run", "persist", "splice"} =>
             \A i \in DOMAIN q : Straight(u, q, i) \/ (turn.st # "run" /\ Pending(u, q, i, turn))
      BY <1>1, <1>6, <1>12 DEF EditOn
    <2>2. turn.st \notin {"run", "persist", "splice"} => Runs(u, q, IdsOf(q))
      BY <1>1, <1>6, <1>12 DEF EditOn, Runs
    <2>. QED  BY <1>12, <1>13, <2>1, <2>2 DEF EditOn
  <1>15. TurnFollows'
    <2>1. CASE turn.st = "none"
      BY <1>1, <2>1, NothingToFollow DEF TurnFollows
    <2>2. CASE turn.st # "none"
      <3>1. turn.key \in Keys
        BY <2>2 DEF Inv, TurnInActive, Actives
      <3>2. Extends(msgs[turn.key], msgs'[turn.key])
        BY <1>10, <3>1, SameExtends
      <3>. QED  BY <1>1, <1>6, <3>2, TurnGoesOn DEF TurnFollows
    <2>. QED  BY <2>1, <2>2
  <1>. QED  BY <1>1, <1>10, <1>13, <1>14, <1>15 DEF EditFollows, u

LEMMA EditStartFollows ==
    ASSUME Inv, Tree, FollowHolds, EditStart
    PROVE  FollowHolds'
  <1>. SUFFICES ASSUME faults' = 0 PROVE EditFollows' /\ TurnFollows' /\ AllRanked'
    BY DEF FollowHolds, EditFollows, TurnFollows, AllRanked
  <1>1. /\ edit.st = "start" /\ UNCHANGED <<msgs, faults>> /\ edit' = NoEdit
        /\ IF turn.st = "none" THEN StartTurn(edit.key, edit.path) ELSE UNCHANGED turn
    BY DEF EditStart
  <1>2. EditFollows /\ TurnFollows /\ AllRanked
    BY <1>1, FollowParts
  <1>3. EditFollows' /\ AllRanked'
    BY <1>1, <1>2, NothingToFollow DEF EditFollows, AllRanked, NoEdit
  <1>4. TurnFollows'
    <2>1. CASE turn.st = "none"
      <3>1. edit.key \in Keys /\ edit.path \in Seq(Message) /\ edit.path # <<>> /\ Once(edit.path)
            /\ Runs(msgs[edit.key], edit.path, IdsOf(edit.path))
        BY <1>1, <1>2, <2>1 DEF Inv, EditInActive, Actives, Tree, Types, Edits, EditHolds, EditFollows, EditOn
      <3>. QED  BY <1>1, <2>1, <3>1, StartsOnPath
    <2>2. CASE turn.st # "none"
      BY <1>1, <1>2, <2>2 DEF TurnFollows
    <2>. QED  BY <2>1, <2>2
  <1>. QED  BY <1>3, <1>4

------------------------------------------------------------------------------
(* The task of the turn *)

LEMMA EditLeavesRun ==
    ASSUME NEW e, NEW s, NEW w, NEW v, EditOn(e, s, w), w.st = "run"
    PROVE  EditOn(e, s, v)
  BY DEF EditOn, Runs

\* The ids of a conversation: of what it began with, in the store, and of what is new.
LEMMA TalkIs ==
    ASSUME NEW t \in Turns
    PROVE  /\ t.base \in Seq(Message) /\ t.new \in Seq(Message) /\ Talk(t) \in Seq(Message)
           /\ Len(t.base) \in Nat /\ Len(t.new) \in Nat /\ Len(Talk(t)) = Len(t.base) + Len(t.new)
           /\ DOMAIN t.base = 1..Len(t.base) /\ DOMAIN t.new = 1..Len(t.new)
           /\ DOMAIN Talk(t) = 1..(Len(t.base) + Len(t.new))
           /\ \A i \in DOMAIN t.base : Talk(t)[i] = t.base[i]
           /\ \A i \in DOMAIN t.new : Talk(t)[Len(t.base) + i] = t.new[i]
           /\ IdsOf(Talk(t)) = IdsOf(t.base) \cup IdsOf(t.new)
  <1>1. t.base \in Seq(Message) /\ t.new \in Seq(Message)
    BY DEF Turns
  <1>. DEFINE b == Len(t.base) n == Len(t.new)
  <1>2. b \in Nat /\ n \in Nat /\ DOMAIN t.base = 1..b /\ DOMAIN t.new = 1..n
    BY <1>1, LogFacts
  <1>3. Talk(t) \in Seq(Message) /\ Len(Talk(t)) = b + n /\ \A i \in 1..n : Talk(t)[b + i] = t.new[i]
    BY <1>1, Joins DEF Talk
  <1>4. \A i \in 1..b : Talk(t)[i] = t.base[i]
    <2>1. \A i \in 1..(b + n) : (t.base \o t.new)[i] = IF i <= b THEN t.base[i] ELSE t.new[i - b]
      BY <1>1, ConcatProperties
    <2>2. \A i \in 1..b : i \in 1..(b + n) /\ i <= b
      <3>1. b \in Nat /\ n \in Nat
        BY <1>2
      <3>. HIDE DEF b, n
      <3>. QED  BY <3>1
    <2>. HIDE DEF b, n
    <2>. QED  BY <2>1, <2>2 DEF Talk
  <1>5. DOMAIN Talk(t) = 1..(b + n)
    BY <1>3, LogFacts
  <1>. HIDE DEF b, n
  <1>6. \A i \in 1..(b + n) : i \in 1..b \/ (i - b \in 1..n /\ b + (i - b) = i)
    BY <1>2
  <1>7. \A i \in 1..n : b + i \in 1..(b + n)
    BY <1>2
  <1>8. \A i \in 1..b : i \in 1..(b + n)
    BY <1>2
  <1>9. IdsOf(Talk(t)) \subseteq IdsOf(t.base) \cup IdsOf(t.new)
    <2>. SUFFICES ASSUME NEW i \in 1..(b + n) PROVE Talk(t)[i].id \in IdsOf(t.base) \cup IdsOf(t.new)
      BY <1>5 DEF IdsOf
    <2>1. CASE i \in 1..b
      BY <1>2, <1>4, <2>1 DEF IdsOf
    <2>2. CASE i - b \in 1..n /\ b + (i - b) = i
      BY <1>2, <1>3, <2>2 DEF IdsOf
    <2>. QED  BY <1>6, <2>1, <2>2
  <1>10. IdsOf(t.base) \subseteq IdsOf(Talk(t)) /\ IdsOf(t.new) \subseteq IdsOf(Talk(t))
    <2>1. \A i \in 1..b : Talk(t)[i].id \in IdsOf(Talk(t)) /\ Talk(t)[i] = t.base[i]
      BY <1>4, <1>5, <1>8 DEF IdsOf
    <2>2. \A i \in 1..n : Talk(t)[b + i].id \in IdsOf(Talk(t)) /\ Talk(t)[b + i] = t.new[i]
      BY <1>3, <1>5, <1>7 DEF IdsOf
    <2>3. IdsOf(t.base) \subseteq IdsOf(Talk(t))
      BY <1>2, <2>1 DEF IdsOf
    <2>4. IdsOf(t.new) \subseteq IdsOf(Talk(t))
      BY <1>2, <2>2 DEF IdsOf
    <2>. QED  BY <2>3, <2>4
  <1>. QED  BY <1>1, <1>2, <1>3, <1>4, <1>5, <1>9, <1>10 DEF b, n

LEMMA JoinAdds ==
    ASSUME NEW a \in Seq(Message), NEW c \in Seq(Message), NEW m \in Message
    PROVE  a \o Append(c, m) = Append(a \o c, m)
  OBVIOUS

LEMMA BubbleFollows ==
    ASSUME Inv, Tree, FollowHolds, NEW kind \in ReplyKinds, Bubble(kind)
    PROVE  FollowHolds'
  <1>. DEFINE t == turn K == turn.key s == msgs[K]
              m == [id |-> nextId, parent |-> LastId(Conversation), kind |-> kind]
  <1>1. /\ turn.st = "run" /\ nextId <= MaxId /\ UNCHANGED <<msgs, edit, faults>>
        /\ turn' = [turn EXCEPT !.new = Append(turn.new, m)]
    BY DEF Bubble
  <1>2. /\ Types /\ turn \in Turns /\ K \in Keys /\ nextId \in Nat /\ nextId \in Ids
        /\ Running(turn, IdsOf(s), nextId) /\ Known(IdsOf(s), nextId) /\ nextId \notin IdsOf(s)
    BY <1>1, TurnFacts, NextIds DEF TurnSound, Tree, StoreHolds
  <1>3. /\ t.base \in Seq(Message) /\ t.new \in Seq(Message) /\ Talk(t) \in Seq(Message)
        /\ Len(t.base) \in Nat /\ Len(t.new) \in Nat /\ Len(Talk(t)) = Len(t.base) + Len(t.new)
        /\ DOMAIN t.new = 1..Len(t.new) /\ DOMAIN Talk(t) = 1..(Len(t.base) + Len(t.new))
        /\ IdsOf(Talk(t)) = IdsOf(t.base) \cup IdsOf(t.new)
    BY <1>2, TalkIs
  <1>4. Conversation = Talk(t)
    BY DEF Conversation, Talk
  <1>5. m \in Message /\ m.id = nextId /\ m.parent = LastId(Talk(t))
    <2>1. LastId(Talk(t)) \in Ids \cup {None} /\ kind \in Kinds
      BY <1>3, LogFacts, KindAssumption DEF Kinds
    <2>. QED  BY <1>2, <1>4, <2>1, MessageFields
  <1>. HIDE DEF m
  <1>6. /\ turn'.st = "run" /\ turn'.key = K /\ turn'.base = t.base /\ turn'.new = Append(t.new, m)
        /\ turn'.summary = t.summary /\ turn'.tailStart = t.tailStart /\ turn'.last = t.last
    BY <1>1, <1>2 DEF Turns
  <1>7. Talk(turn') = Append(Talk(t), m)
    BY <1>3, <1>5, <1>6, JoinAdds DEF Talk
  <1>. SUFFICES ASSUME faults' = 0, TurnFollows PROVE TurnFollows'
    <2>1. EditOn(edit, msgs[edit.key], turn) => EditOn(edit, msgs[edit.key], turn')
      BY <1>1, EditLeavesRun
    <2>. QED  BY <1>1, <2>1, TurnFollowsOn
  <1>8. Says(t) /\ Compacts(t) /\ t.summary = NoSummary /\ t.last = None /\ Runs(s, t.base, IdsOf(Talk(t)))
    BY <1>1 DEF TurnFollows, TurnOn
  <1>9. nextId \notin IdsOf(Talk(t))
    <2>1. IdsOf(t.base) \subseteq IdsOf(s)
      BY <1>8, RunsStored
    <2>2. nextId \notin IdsOf(t.new)
      BY <1>2 DEF Running, Known
    <2>. QED  BY <1>2, <1>3, <2>1, <2>2
  <1>. DEFINE b == Len(t.base) n == Len(t.new)
  <1>10. /\ Once(Append(Talk(t), m)) /\ IdsOf(Append(Talk(t), m)) = IdsOf(Talk(t)) \cup {nextId}
         /\ DOMAIN Append(t.new, m) = 1..(n + 1) /\ \A i \in 1..n : Append(t.new, m)[i] = t.new[i]
         /\ Append(t.new, m)[n + 1] = m
    BY <1>3, <1>5, <1>8, <1>9, Adds DEF Says
  <1>11. /\ Before(Append(Talk(t), m), b + n + 1) = LastId(Talk(t))
         /\ \A i \in 1..(b + n) : Before(Append(Talk(t), m), i) = Before(Talk(t), i)
    BY <1>3, <1>5, BeforeAdds
  <1>12. Says(turn')
    <2>. HIDE DEF b, n
    <2>0. b \in Nat /\ n \in Nat /\ DOMAIN t.new = 1..n
      BY <1>3 DEF b, n
    <2>1. ASSUME NEW i \in 1..(n + 1) PROVE turn'.new[i].parent = Before(Talk(turn'), b + i)
      <3>1. CASE i = n + 1
        <4>1. b + i = b + n + 1
          BY <2>0, <3>1
        <4>2. turn'.new[i] = m
          BY <1>6, <1>10, <3>1
        <4>. QED  BY <1>5, <1>7, <1>11, <4>1, <4>2
      <3>2. CASE i # n + 1
        <4>1. i \in 1..n /\ b + i \in 1..(b + n)
          BY <2>0, <3>2
        <4>2. turn'.new[i] = t.new[i]
          BY <1>6, <1>10, <4>1
        <4>3. t.new[i].parent = Before(Talk(t), b + i)
          BY <1>8, <2>0, <4>1 DEF Says, b
        <4>. QED  BY <1>7, <1>11, <4>1, <4>2, <4>3
      <3>. QED  BY <3>1, <3>2
    <2>. QED  BY <1>6, <1>7, <1>8, <1>10, <2>1 DEF Says, b, n
  <1>13. Compacts(turn')
    BY <1>6, <1>8 DEF Compacts
  <1>14. Runs(s, t.base, IdsOf(Talk(turn')))
    <2>. SUFFICES ASSUME NEW i \in DOMAIN t.base, Cut(s, t.base, i, IdsOf(Talk(t)))
                  PROVE  Cut(s, t.base, i, IdsOf(Talk(turn')))
      BY <1>8 DEF Runs
    <2>1. PICK j \in DOMAIN s : s[j].id = t.base[i].id /\ s[j].parent \notin IdsOf(Talk(t)) /\ Root(s, s[j].parent)
      BY DEF Cut
    <2>2. s[j].parent \in IdsOf(s)
      BY <2>1 DEF Root, IdsOf
    <2>3. s[j].parent \notin IdsOf(Talk(turn'))
      BY <1>2, <1>7, <1>10, <2>1, <2>2
    <2>. QED  BY <2>1, <2>3 DEF Cut
  <1>15. TurnOn(turn', s)
    BY <1>6, <1>8, <1>12, <1>13, <1>14 DEF TurnOn
  <1>. QED  BY <1>1, <1>6, <1>15 DEF TurnFollows

LEMMA EndRunFollows ==
    ASSUME Inv, Tree, FollowHolds, EndRun
    PROVE  FollowHolds'
  <1>. DEFINE t == turn s == msgs[turn.key]
  <1>1. /\ turn.st = "run" /\ UNCHANGED <<msgs, edit, faults>>
        /\ turn' = [turn EXCEPT !.st = "persist", !.out = turn.new]
    BY DEF EndRun
  <1>2. turn \in Turns
    BY <1>1, TurnFacts
  <1>3. /\ turn'.st = "persist" /\ turn'.key = t.key /\ turn'.base = t.base /\ turn'.new = t.new /\ turn'.out = t.new
        /\ turn'.summary = t.summary /\ turn'.tailStart = t.tailStart /\ turn'.tailEnd = t.tailEnd /\ turn'.last = t.last
    BY <1>1, <1>2 DEF Turns
  <1>. SUFFICES ASSUME faults' = 0, TurnFollows PROVE TurnFollows'
    <2>1. EditOn(edit, msgs[edit.key], turn) => EditOn(edit, msgs[edit.key], turn')
      BY <1>1, EditLeavesRun
    <2>. QED  BY <1>1, <2>1, TurnFollowsOn
  <1>4. Says(t) /\ Compacts(t) /\ t.summary = NoSummary /\ t.last = None /\ Runs(s, t.base, IdsOf(Talk(t)))
    BY <1>1 DEF TurnFollows, TurnOn
  <1>5. Talk(turn') = Talk(t)
    BY <1>3 DEF Talk
  <1>6. Says(turn') /\ Compacts(turn')
    BY <1>3, <1>4, <1>5 DEF Says, Compacts
  <1>7. Stores(turn', s)
    <2>1. Len(t.new) \in Nat /\ DOMAIN t.new = 1..Len(t.new)
      BY <1>2, TalkIs
    <2>2. Made(turn') = t.new
      BY <1>3, <1>4 DEF Made
    <2>3. Stored(turn') = 0
      BY <1>3, <2>1, <2>2 DEF Stored
    <2>4. \A i \in DOMAIN t.new : 0 + i = i /\ ~ (0 + i < 1)
      BY <2>1
    <2>5. \A i \in 1..0 : FALSE
      OBVIOUS
    <2>. QED  BY <1>3, <1>4, <2>2, <2>3, <2>4, <2>5 DEF Stores
  <1>8. TurnOn(turn', s)
    BY <1>3, <1>4, <1>5, <1>6, <1>7 DEF TurnOn
  <1>. QED  BY <1>1, <1>3, <1>8 DEF TurnFollows

LEMMA EndCompactedFollows ==
    ASSUME Inv, Tree, FollowHolds, EndCompacted
    PROVE  FollowHolds'
  <1>. DEFINE t == turn s == msgs[turn.key]
              tail == LastN(Conversation, KeepLast)
              summary == [id |-> nextId, parent |-> None, kind |-> "system"]
              kept == LastN(turn.new, KeepLast)
              made == Moved(kept, tail[1].id, nextId)
  <1>1. /\ turn.st = "run" /\ nextId <= MaxId /\ UNCHANGED <<msgs, edit, faults>> /\ Len(Conversation) >= KeepLast
        /\ turn' = [turn EXCEPT !.st = "persist", !.summary = summary, !.tailStart = tail[1].id, !.tailEnd = LastId(tail),
                                !.out = <<summary>> \o made]
    BY DEF EndCompacted, Moved
  <1>2. /\ Types /\ turn \in Turns /\ nextId \in Nat /\ nextId \in Ids
        /\ Running(turn, IdsOf(s), nextId) /\ nextId \notin IdsOf(s)
    BY <1>1, TurnFacts, NextIds DEF TurnSound
  <1>3. summary \in Message /\ summary.id = nextId /\ summary.kind = "system" /\ summary # NoSummary
    <2>1. summary \in Message /\ summary.id = nextId /\ summary.kind = "system"
      BY <1>2, MessageFields DEF Kinds
    <2>2. NoSummary.id = None /\ nextId # None
      BY <1>2, NextIds DEF NoSummary
    <2>. QED  BY <2>1, <2>2
  <1>4. Conversation = Talk(t)
    BY DEF Conversation, Talk
  <1>. HIDE DEF summary, tail, made, kept
  <1>5. /\ turn'.st = "persist" /\ turn'.key = t.key /\ turn'.base = t.base /\ turn'.new = t.new
        /\ turn'.out = <<summary>> \o made /\ turn'.summary = summary /\ turn'.tailStart = tail[1].id
        /\ turn'.tailEnd = LastId(tail)
    BY <1>1, <1>2 DEF Turns
  <1>. SUFFICES ASSUME faults' = 0, TurnFollows PROVE TurnFollows'
    <2>1. EditOn(edit, msgs[edit.key], turn) => EditOn(edit, msgs[edit.key], turn')
      BY <1>1, EditLeavesRun
    <2>. QED  BY <1>1, <2>1, TurnFollowsOn
  <1>6. Says(t) /\ Runs(s, t.base, IdsOf(Talk(t)))
    BY <1>1 DEF TurnFollows, TurnOn
  <1>7. Talk(turn') = Talk(t)
    BY <1>5 DEF Talk
  <1>8. Says(turn')
    BY <1>5, <1>6, <1>7 DEF Says
  <1>9. nextId \notin IdsOf(Talk(t))
    <2>1. IdsOf(t.base) \subseteq IdsOf(s)
      BY <1>6, RunsStored
    <2>2. nextId \notin IdsOf(t.new)
      BY <1>2 DEF Running, Known
    <2>3. IdsOf(Talk(t)) = IdsOf(t.base) \cup IdsOf(t.new)
      BY <1>2, TalkIs
    <2>. QED  BY <1>2, <2>1, <2>2, <2>3
  <1>10. tail = TailOf(turn')
    BY <1>4, <1>7 DEF TailOf, tail
  <1>11. Compacts(turn')
    BY <1>1, <1>3, <1>4, <1>5, <1>7, <1>9, <1>10 DEF Compacts
  <1>12. Made(turn') = made
    BY <1>3, <1>5 DEF Made, made, kept
  <1>13. made \in Seq(Message)
    <2>1. kept \in Seq(Message)
      <3>1. KeepLast \in Nat \ {0} /\ t.new \in Seq(Message)
        BY <1>2, BoundAssumption, TalkIs
      <3>. QED  BY <3>1, LastOnes DEF kept
    <2>. QED  BY <1>2, <2>1, Reparents DEF made
  <1>14. Stores(turn', s)
    <2>. DEFINE N == Len(made)
    <2>1. N \in Nat /\ DOMAIN made = 1..N
      BY <1>13, LogFacts
    <2>2. /\ turn'.out \in Seq(Message) /\ DOMAIN turn'.out = 1..(N + 1) /\ turn'.out[1] = summary
          /\ \A i \in 1..N : turn'.out[i + 1] = made[i]
      BY <1>3, <1>5, <1>13, <2>1, Prepends
    <2>. HIDE DEF N
    <2>3. Len(turn'.out) = N + 1
      <3>1. Len(turn'.out) \in Nat /\ DOMAIN turn'.out = 1..Len(turn'.out)
        BY <2>2, LogFacts
      <3>2. 1..Len(turn'.out) = 1..(N + 1)
        BY <2>2, <3>1
      <3>. QED  BY <2>1, <3>1, <3>2
    <2>4. Stored(turn') = -1
      BY <1>12, <2>1, <2>3 DEF Stored, N
    <2>5. ASSUME NEW i \in 1..(N + 1)
          PROVE  turn'.out[i] = IF -1 + i < 1 THEN summary ELSE made[-1 + i]
      <3>1. CASE i = 1
        BY <2>2, <3>1
      <3>2. CASE i # 1
        <4>1. i - 1 \in 1..N /\ (i - 1) + 1 = i /\ -1 + i = i - 1 /\ ~ (-1 + i < 1)
          BY <2>1, <3>2
        <4>. QED  BY <2>2, <4>1
      <3>. QED  BY <3>1, <3>2
    <2>6. \A i \in 1..(-1) : FALSE
      OBVIOUS
    <2>. QED  BY <1>3, <1>5, <1>12, <2>2, <2>4, <2>5, <2>6 DEF Stores
  <1>15. TurnOn(turn', s)
    BY <1>5, <1>6, <1>7, <1>8, <1>11, <1>14 DEF TurnOn
  <1>. QED  BY <1>1, <1>5, <1>15 DEF TurnFollows

\* The turn has nothing more to follow: it failed, or it has moved the path.
LEMMA TurnLeaves ==
    ASSUME Inv, Tree, FollowHolds, FailRun \/ SetPath \/ Emit \/ Clear
    PROVE  FollowHolds'
  <1>1. Types /\ turn \in Turns
    BY DEF Tree, Types
  <1>2. UNCHANGED <<msgs, edit>>
    BY DEF FailRun, SetPath, Emit, Clear
  <1>3. faults' = 0 => faults = 0
    <2>1. UNCHANGED faults \/ \E n, f : Writes(n, f)
      BY DEF FailRun, SetPath, Emit, Clear
    <2>. QED  BY <1>1, <2>1, Writing
  <1>4. turn'.st \in {"clear", "emit", "none"}
    BY <1>1 DEF FailRun, SetPath, Emit, Clear, Turns, NoTurn
  <1>5. TurnFollows'
    BY <1>4, NothingToFollow DEF TurnFollows
  <1>6. turn.st = "run" \/ (Phase(turn) = "none" /\ Phase(turn') = "none")
    BY <1>4 DEF FailRun, SetPath, Emit, Clear, Phase
  <1>7. EditOn(edit, msgs[edit.key], turn) => EditOn(edit, msgs[edit.key], turn')
    BY <1>6, EditLeavesRun, EditKeepsTurn
  <1>. QED  BY <1>2, <1>3, <1>5, <1>7, TurnFollowsOn

\* What a turn stores are its new messages, the last of them if it compacts.
LEMMA MadeIs ==
    ASSUME NEW t \in Turns, Compacts(t)
    PROVE  /\ Made(t) \in Seq(Message) /\ Len(Made(t)) \in Nat /\ DOMAIN Made(t) = 1..Len(Made(t))
           /\ t.summary.id \notin IdsOf(Made(t)) /\ t.out \in Seq(Message) /\ Len(t.out) \in Nat
           /\ DOMAIN t.out = 1..Len(t.out) /\ Stored(t) \in Int /\ Len(Made(t)) = Stored(t) + Len(t.out)
  <1>1. t.new \in Seq(Message) /\ t.out \in Seq(Message) /\ IdsOf(t.new) \subseteq IdsOf(Talk(t))
    BY TalkIs DEF Turns
  <1>2. Made(t) \in Seq(Message) /\ t.summary.id \notin IdsOf(Made(t))
    <2>1. CASE t.summary = NoSummary
      <3>1. Made(t) = t.new
        BY <2>1 DEF Made
      <3>2. NoSummary.id = None
        BY DEF NoSummary
      <3>3. None \notin IdsOf(t.new)
        BY <1>1, LogFacts, MessageFields DEF IdsOf
      <3>. QED  BY <1>1, <2>1, <3>1, <3>2, <3>3
    <2>2. CASE t.summary # NoSummary
      <3>. DEFINE kept == LastN(t.new, KeepLast)
      <3>1. /\ kept \in Seq(Message)
            /\ Len(kept) = IF Len(t.new) <= KeepLast THEN Len(t.new) ELSE KeepLast
            /\ \A i \in 1..Len(kept) : kept[i] = t.new[Len(t.new) - Len(kept) + i]
        <4>1. KeepLast \in Nat \ {0}
          BY BoundAssumption
        <4>. QED  BY <1>1, <4>1, LastOnes
      <3>. HIDE DEF kept
      <3>2. IdsOf(kept) \subseteq IdsOf(t.new)
        <4>. DEFINE N == Len(t.new) q == Len(kept)
        <4>1. N \in Nat /\ q \in Nat /\ DOMAIN t.new = 1..N /\ DOMAIN kept = 1..q /\ KeepLast \in Nat
          BY <1>1, <3>1, LogFacts, BoundAssumption
        <4>2. q <= N
          BY <3>1, <4>1
        <4>. HIDE DEF N, q
        <4>3. \A i \in 1..q : N - q + i \in 1..N
          BY <4>1, <4>2
        <4>4. \A i \in 1..q : kept[i] = t.new[N - q + i]
          BY <3>1 DEF N, q
        <4>. QED  BY <4>1, <4>3, <4>4 DEF IdsOf
      <3>3. t.summary.id \in Ids \cup {None}
        BY <2>2, MessageFields DEF Turns
      <3>4. Made(t) = Moved(kept, t.tailStart, t.summary.id)
        BY <2>2 DEF Made, kept
      <3>5. Made(t) \in Seq(Message) /\ IdsOf(Made(t)) = IdsOf(kept)
        BY <3>1, <3>3, <3>4, Reparents
      <3>. QED  BY <1>1, <2>2, <3>2, <3>5 DEF Compacts
    <2>. QED  BY <2>1, <2>2
  <1>3. Len(Made(t)) \in Nat /\ DOMAIN Made(t) = 1..Len(Made(t)) /\ Len(t.out) \in Nat /\ DOMAIN t.out = 1..Len(t.out)
    BY <1>1, <1>2, LogFacts
  <1>4. Stored(t) \in Int /\ Len(Made(t)) = Stored(t) + Len(t.out)
    BY <1>3 DEF Stored
  <1>. QED  BY <1>1, <1>2, <1>3, <1>4

\* The next of what is left: the summary, or the message after those stored.
LEMMA NextOut ==
    ASSUME NEW t \in Turns, Compacts(t), NEW s, Stores(t, s), t.out # <<>>, NEW v,
           v.out = Tail(t.out), v.new = t.new, v.summary = t.summary, v.tailStart = t.tailStart
    PROVE  LET n == Stored(t) IN
           /\ n \in Int /\ n >= -1 /\ Made(v) = Made(t) /\ Stored(v) = n + 1
           /\ \A i \in DOMAIN v.out : v.out[i] = IF Stored(v) + i < 1 THEN t.summary ELSE Made(t)[Stored(v) + i]
           /\ \/ Head(t.out).id = t.summary.id /\ n = -1
              \/ Head(t.out).id # t.summary.id /\ n \in Nat /\ n + 1 \in DOMAIN Made(t) /\ Head(t.out) = Made(t)[n + 1]
  <1>. DEFINE n == Stored(t) L == Len(t.out) M == Len(Made(t))
  <1>1. /\ Made(t) \in Seq(Message) /\ M \in Nat /\ DOMAIN Made(t) = 1..M /\ t.summary.id \notin IdsOf(Made(t))
        /\ t.out \in Seq(Message) /\ L \in Nat /\ DOMAIN t.out = 1..L /\ n \in Int /\ M = n + L
    BY MadeIs
  <1>2. Made(v) = Made(t)
    BY DEF Made
  <1>3. /\ Tail(t.out) \in Seq(Message) /\ Head(t.out) = t.out[1] /\ 1 \in DOMAIN t.out
        /\ \A i \in DOMAIN Tail(t.out) : i + 1 \in DOMAIN t.out /\ Tail(t.out)[i] = t.out[i + 1]
    BY <1>1, Drops
  <1>4. Len(Tail(t.out)) = L - 1
    BY <1>1
  <1>5. DOMAIN v.out = 1..(L - 1) /\ L > 0
    <2>1. DOMAIN v.out = 1..Len(v.out)
      BY <1>3, LogFacts
    <2>. QED  BY <1>1, <1>3, <1>4, <2>1
  <1>6. n >= -1 /\ \A i \in 1..L : t.out[i] = IF n + i < 1 THEN t.summary ELSE Made(t)[n + i]
    BY <1>1 DEF Stores
  <1>7. Stored(v) = n + 1
    <2>1. Stored(v) = M - (L - 1)
      BY <1>2, <1>4 DEF Stored
    <2>. HIDE DEF n, L, M
    <2>. QED  BY <1>1, <2>1
  <1>. HIDE DEF n, L, M
  <1>8. ASSUME NEW i \in DOMAIN v.out
        PROVE  v.out[i] = IF Stored(v) + i < 1 THEN t.summary ELSE Made(t)[Stored(v) + i]
    <2>1. i + 1 \in 1..L /\ v.out[i] = t.out[i + 1] /\ i \in Int
      BY <1>1, <1>3, <1>5
    <2>2. n + (i + 1) = (n + 1) + i
      BY <1>1, <2>1
    <2>3. t.out[i + 1] = IF n + (i + 1) < 1 THEN t.summary ELSE Made(t)[n + (i + 1)]
      BY <1>6, <2>1
    <2>. QED  BY <1>7, <2>1, <2>2, <2>3
  <1>9. \/ Head(t.out).id = t.summary.id /\ n = -1
        \/ Head(t.out).id # t.summary.id /\ n \in Nat /\ n + 1 \in 1..M /\ Head(t.out) = Made(t)[n + 1]
    <2>1. Head(t.out) = IF n + 1 < 1 THEN t.summary ELSE Made(t)[n + 1]
      BY <1>1, <1>3, <1>6
    <2>2. CASE n + 1 < 1
      <3>1. n = -1
        BY <1>1, <1>6, <2>2
      <3>. QED  BY <2>1, <2>2, <3>1
    <2>3. CASE ~ (n + 1 < 1)
      <3>1. n \in Nat /\ n + 1 \in 1..M
        BY <1>1, <1>5, <2>3
      <3>2. Made(t)[n + 1].id \in IdsOf(Made(t))
        BY <1>1, <3>1 DEF IdsOf
      <3>. QED  BY <1>1, <2>1, <2>3, <3>1, <3>2
    <2>. QED  BY <2>2, <2>3
  <1>. QED  BY <1>1, <1>2, <1>6, <1>7, <1>8, <1>9 DEF n, L, M

LEMMA SameTalk ==
    ASSUME NEW t, NEW v, v.base = t.base, v.new = t.new, v.summary = t.summary, v.tailStart = t.tailStart, v.tailEnd = t.tailEnd
    PROVE  /\ Talk(v) = Talk(t) /\ Made(v) = Made(t) /\ Written(v) = Written(t)
           /\ Says(t) => Says(v)
           /\ Compacts(t) => Compacts(v)
  <1>1. Talk(v) = Talk(t)
    BY DEF Talk
  <1>2. TailOf(v) = TailOf(t)
    BY <1>1 DEF TailOf
  <1>. QED  BY <1>1, <1>2 DEF Made, Written, Says, Compacts

LEMMA PersistSkipFollows ==
    ASSUME Inv, Tree, FollowHolds, PersistSkip
    PROVE  FollowHolds'
  <1>. DEFINE t == turn s == msgs[turn.key]
  <1>1. /\ turn.st = "persist" /\ turn.out # <<>> /\ UNCHANGED <<msgs, edit, faults>> /\ Head(turn.out).id = turn.summary.id
        /\ turn' = [turn EXCEPT !.out = Tail(turn.out)]
    BY DEF PersistSkip, Skip
  <1>2. turn \in Turns
    BY <1>1, TurnFacts
  <1>3. /\ turn'.st = "persist" /\ turn'.key = t.key /\ turn'.base = t.base /\ turn'.new = t.new /\ turn'.out = Tail(t.out)
        /\ turn'.summary = t.summary /\ turn'.tailStart = t.tailStart /\ turn'.tailEnd = t.tailEnd /\ turn'.last = t.last
    BY <1>1, <1>2 DEF Turns
  <1>. SUFFICES ASSUME faults' = 0, TurnFollows PROVE TurnFollows'
    <2>1. Phase(turn) = Phase(turn')
      BY <1>1, <1>3 DEF Phase
    <2>2. EditOn(edit, msgs[edit.key], turn) => EditOn(edit, msgs[edit.key], turn')
      BY <1>3, <2>1, EditKeepsTurn
    <2>. QED  BY <1>1, <2>2, TurnFollowsOn
  <1>4. Says(t) /\ Compacts(t) /\ Runs(s, t.base, IdsOf(Talk(t))) /\ Stores(t, s)
    BY <1>1 DEF TurnFollows, TurnOn
  <1>5. Talk(turn') = Talk(t) /\ Says(turn') /\ Compacts(turn')
    BY <1>3, <1>4, SameTalk
  <1>6. /\ Made(turn') = Made(t) /\ Stored(turn') = Stored(t) + 1 /\ Stored(t) = -1
        /\ \A i \in DOMAIN turn'.out : turn'.out[i] = IF Stored(turn') + i < 1 THEN t.summary ELSE Made(t)[Stored(turn') + i]
    <2>. HIDE DEF s
    <2>1. t.out # <<>> /\ Head(t.out).id = t.summary.id
      BY <1>1
    <2>. HIDE DEF t
    <2>. QED  BY <1>2, <1>3, <1>4, <2>1, NextOut DEF t
  <1>7. Stored(turn') = 0 /\ \A i \in 1..0 : FALSE
    BY <1>6
  <1>8. t.summary # NoSummary
    BY <1>4, <1>6 DEF Stores
  <1>9. Stores(turn', s)
    BY <1>3, <1>6, <1>7, <1>8 DEF Stores
  <1>10. TurnOn(turn', s)
    BY <1>3, <1>4, <1>5, <1>9 DEF TurnOn
  <1>. QED  BY <1>1, <1>3, <1>10 DEF TurnFollows

LEMMA PersistFollows ==
    ASSUME Inv, Tree, FollowHolds, Persist
    PROVE  FollowHolds'
  <1>. SUFFICES ASSUME faults' = 0 PROVE EditFollows' /\ TurnFollows' /\ AllRanked'
    BY DEF FollowHolds, EditFollows, TurnFollows, AllRanked
  <1>. DEFINE K == turn.key s == msgs[K] m == Head(turn.out)
  <1>1. /\ turn.st = "persist" /\ turn.out # <<>> /\ m.id # turn.summary.id /\ msgs' = Appended(K, m) /\ UNCHANGED edit
    BY DEF Persist, Skip
  <1>2. /\ Types /\ turn \in Turns /\ K \in Keys /\ s \in Seq(Message) /\ turn.out \in Seq(Message) /\ DOMAIN msgs = Keys
        /\ TurnSound(turn, IdsOf(s), nextId, faults = 0)
    BY <1>1, TurnFacts DEF Types
  <1>3. PICK f \in 1..2 : /\ Writes(1, f)
                          /\ turn' = IF f = 1 THEN [turn EXCEPT !.out = <<>>, !.last = None]
                                     ELSE [turn EXCEPT !.out = Tail(turn.out), !.last = m.id]
    BY DEF Persist
  <1>4. faults = 0 /\ f = 2
    BY <1>2, <1>3, Writing
  <1>5. /\ turn'.st = "persist" /\ turn'.key = K /\ turn'.base = turn.base /\ turn'.new = turn.new
        /\ turn'.out = Tail(turn.out) /\ turn'.summary = turn.summary /\ turn'.tailStart = turn.tailStart
        /\ turn'.tailEnd = turn.tailEnd /\ turn'.last = m.id
    BY <1>1, <1>2, <1>3, <1>4 DEF Turns
  <1>6. EditFollows /\ TurnOn(turn, s) /\ AllRanked
    BY <1>4, FollowParts DEF TurnFollows
  <1>7. Says(turn) /\ Compacts(turn) /\ Runs(s, turn.base, IdsOf(Talk(turn))) /\ Stores(turn, s)
    BY <1>1, <1>6 DEF TurnOn
  <1>. DEFINE n == Stored(turn)
  <1>8. /\ n \in Int /\ Made(turn') = Made(turn) /\ Stored(turn') = n + 1
        /\ \A i \in DOMAIN turn'.out : turn'.out[i] = IF Stored(turn') + i < 1 THEN turn.summary ELSE Made(turn)[Stored(turn') + i]
        /\ n \in Nat /\ n + 1 \in DOMAIN Made(turn) /\ m = Made(turn)[n + 1]
    <2>1. turn.out # <<>> /\ Head(turn.out).id # turn.summary.id
      BY <1>1
    <2>. HIDE DEF s
    <2>. QED  BY <1>2, <1>5, <1>7, <2>1, NextOut
  <1>9. m \in Message /\ m = turn.out[1] /\ 1 \in DOMAIN turn.out
    BY <1>1, <1>2, Drops
  <1>. HIDE DEF m, n
  <1>10. Storing(turn, IdsOf(s), nextId, TRUE)
    <2>1. Storing(turn, IdsOf(s), nextId, faults = 0)
      BY <1>1, <1>2 DEF TurnSound
    <2>. QED  BY <1>4, <2>1 DEF Storing
  <1>11. m.id \notin IdsOf(s) /\ m.parent # m.id
    <2>1. m.id \notin IdsOf(s)
      BY <1>9, <1>10 DEF Storing, IdsOf
    <2>2. m.parent \in IdsOf(s) \/ m.parent = turn.summary.id
      <3>1. Linked(turn, IdsOf(s), 1)
        BY <1>9, <1>10 DEF Storing
      <3>2. DOMAIN turn.out = 1..Len(turn.out)
        BY <1>2, LogFacts
      <3>3. \A j \in DOMAIN turn.out : ~ (j < 1)
        BY <3>2
      <3>. QED  BY <1>1, <1>9, <3>1, <3>3 DEF Linked, Waits, m
    <2>. QED  BY <1>1, <2>1, <2>2 DEF m
  <1>12. \A j \in DOMAIN s : s[j].parent # m.id
    <2>1. LinksOf(K)
      BY <1>2, <1>4 DEF Tree, TreeHolds
    <2>2. m.id # None
      BY <1>9, MessageFields
    <2>3. m.id # turn.summary.id
      BY <1>1 DEF m
    <2>. QED  BY <1>11, <2>1, <2>2, <2>3 DEF LinksOf, Waits
  <1>13. msgs'[K] = Append(s, m) /\ \A j \in Keys \ {K} : msgs'[j] = msgs[j]
    BY <1>1, <1>2 DEF Appended, m
  <1>14. AllRanked'
    <2>1. Ranked(s)
      BY <1>2, <1>6 DEF AllRanked
    <2>2. Ranked(Append(s, m))
      BY <1>2, <1>9, <1>11, <1>12, <2>1, RankAdds
    <2>. QED  BY <1>6, <1>13, <2>2 DEF AllRanked
  <1>. DEFINE u == Append(s, m)
  <1>15. Extends(s, u)
    BY <1>2, <1>9, AppendExtends
  <1>16. EditFollows'
    <2>1. CASE edit.st = "none"
      BY <1>1, <2>1, NothingToFollow DEF EditFollows
    <2>2. CASE edit.st # "none"
      <3>1. edit.key \in Keys
        BY <2>2 DEF Inv, EditInActive, Actives
      <3>2. Extends(msgs[edit.key], msgs'[edit.key])
        BY <1>13, <1>15, <3>1, SameExtends
      <3>3. EditOn(edit, msgs'[edit.key], turn)
        BY <1>6, <3>2, EditGoesOn DEF EditFollows
      <3>4. Phase(turn) = Phase(turn')
        BY <1>1, <1>5 DEF Phase
      <3>5. EditOn(edit, msgs'[edit.key], turn')
        BY <1>5, <3>3, <3>4, EditKeepsTurn
      <3>. QED  BY <1>1, <3>5 DEF EditFollows
    <2>. QED  BY <2>1, <2>2
  <1>17. u[Len(s) + 1] = m /\ Len(s) + 1 \in DOMAIN u
    <2>1. u[Len(s) + 1] = m /\ DOMAIN u = 1..(Len(s) + 1) /\ Len(s) \in Nat
      BY <1>2, <1>9, Adds, LogFacts
    <2>. QED  BY <2>1
  <1>. HIDE DEF u, s
  <1>18. Stores(turn', u)
    <2>1. ASSUME NEW i \in 1..(n + 1) PROVE \E j \in DOMAIN u : u[j] = Made(turn)[i]
      <3>1. CASE i = n + 1
        BY <1>8, <1>17, <3>1 DEF m, n
      <3>2. CASE i # n + 1
        <4>1. i \in 1..n
          BY <1>8, <3>2 DEF n
        <4>2. PICK j \in DOMAIN s : s[j] = Made(turn)[i]
          BY <1>7, <4>1 DEF Stores, n
        <4>. QED  BY <1>15, <4>2 DEF Extends
      <3>. QED  BY <3>1, <3>2
    <2>2. n + 1 >= 0 /\ n + 1 # 0 /\ n + 1 >= -1
      BY <1>8 DEF n
    <2>3. turn'.last = Made(turn)[n + 1].id
      BY <1>5, <1>8 DEF m, n
    <2>4. Made(turn') = Made(turn) /\ Stored(turn') = n + 1
      BY <1>8 DEF n
    <2>5. \A i \in DOMAIN turn'.out :
             turn'.out[i] = IF (n + 1) + i < 1 THEN turn'.summary ELSE Made(turn)[(n + 1) + i]
      BY <1>5, <1>8 DEF n
    <2>. HIDE DEF n
    <2>. QED  BY <2>1, <2>2, <2>3, <2>4, <2>5 DEF Stores
  <1>19. Talk(turn') = Talk(turn) /\ Says(turn') /\ Compacts(turn')
    BY <1>5, <1>7, SameTalk
  <1>20. Runs(u, turn.base, IdsOf(Talk(turn)))
    BY <1>7, <1>15, RunsOn
  <1>21. TurnOn(turn', u)
    BY <1>5, <1>18, <1>19, <1>20 DEF TurnOn
  <1>. QED  BY <1>5, <1>13, <1>14, <1>16, <1>21 DEF TurnFollows, u

\* What is stored of an uncompacted turn hangs on what it began with.
LEMMA AllIsWritten ==
    ASSUME NEW t \in Turns, NEW s, Says(t), Compacts(t), Stores(t, s), t.summary = NoSummary, t.out = <<>>,
           Runs(s, t.base, IdsOf(Talk(t)))
    PROVE  \/ t.last = None
           \/ Runs(s, Talk(t), IdsOf(Talk(t))) /\ t.last = LastId(Talk(t))
  <1>. DEFINE b == Len(t.base) n == Len(t.new)
  <1>1. /\ t.base \in Seq(Message) /\ t.new \in Seq(Message) /\ Talk(t) \in Seq(Message)
        /\ b \in Nat /\ n \in Nat /\ DOMAIN t.base = 1..b /\ DOMAIN t.new = 1..n
        /\ DOMAIN Talk(t) = 1..(b + n)
        /\ \A i \in 1..b : Talk(t)[i] = t.base[i]
        /\ \A i \in 1..n : Talk(t)[b + i] = t.new[i]
    BY TalkIs
  <1>2. Made(t) = t.new
    BY DEF Made
  <1>3. Stored(t) = n
    BY <1>1, <1>2 DEF Stored
  <1>4. \A i \in 1..n : \E j \in DOMAIN s : s[j] = t.new[i]
    BY <1>2, <1>3 DEF Stores
  <1>5. t.last = IF n = 0 THEN None ELSE t.new[n].id
    BY <1>2, <1>3 DEF Stores
  <1>6. \A i \in 1..n : t.new[i].parent = Before(Talk(t), b + i)
    BY <1>1 DEF Says
  <1>7. ASSUME n # 0 PROVE t.last = LastId(Talk(t))
    <2>1. t.new # <<>>
      BY <1>7
    <2>2. LastId(Talk(t)) = LastId(t.new)
      BY <1>1, <2>1, Joins DEF Talk
    <2>3. LastId(t.new) = t.new[n].id
      BY <1>1, <2>1, LogFacts
    <2>. QED  BY <1>5, <1>7, <2>2, <2>3
  <1>. HIDE DEF b, n
  <1>8. Runs(s, Talk(t), IdsOf(Talk(t)))
    <2>. SUFFICES ASSUME NEW i \in 1..(b + n) PROVE Straight(s, Talk(t), i) \/ Cut(s, Talk(t), i, IdsOf(Talk(t)))
      BY <1>1 DEF Runs
    <2>1. CASE i \in 1..b
      <3>1. i = 1 \/ i - 1 \in 1..b
        BY <1>1, <2>1
      <3>2. Talk(t)[i] = t.base[i] /\ Before(Talk(t), i) = Before(t.base, i)
        BY <1>1, <2>1, <3>1 DEF Before
      <3>3. Straight(s, t.base, i) \/ Cut(s, t.base, i, IdsOf(Talk(t)))
        BY <1>1, <2>1 DEF Runs
      <3>. QED  BY <3>2, <3>3 DEF Straight, Cut
    <2>2. CASE i \notin 1..b
      <3>1. i - b \in 1..n /\ b + (i - b) = i
        BY <1>1, <2>2
      <3>2. Talk(t)[i] = t.new[i - b] /\ t.new[i - b].parent = Before(Talk(t), i)
        BY <1>1, <1>6, <3>1
      <3>3. PICK j \in DOMAIN s : s[j] = t.new[i - b]
        BY <1>4, <3>1
      <3>. QED  BY <3>2, <3>3 DEF Straight
    <2>. QED  BY <2>1, <2>2
  <1>. QED  BY <1>5, <1>7, <1>8

LEMMA PersistedFollows ==
    ASSUME Inv, Tree, FollowHolds, Persisted
    PROVE  FollowHolds'
  <1>. DEFINE t == turn s == msgs[turn.key]
  <1>1. /\ turn.st = "persist" /\ turn.out = <<>> /\ UNCHANGED <<msgs, edit, faults>>
        /\ turn' = [turn EXCEPT !.st = IF turn.summary = NoSummary THEN "path" ELSE "splice"]
    BY DEF Persisted
  <1>2. turn \in Turns
    BY <1>1, TurnFacts
  <1>3. /\ turn'.st = IF t.summary = NoSummary THEN "path" ELSE "splice"
        /\ turn'.key = t.key /\ turn'.base = t.base /\ turn'.new = t.new /\ turn'.out = t.out
        /\ turn'.summary = t.summary /\ turn'.tailStart = t.tailStart /\ turn'.tailEnd = t.tailEnd /\ turn'.last = t.last
    BY <1>1, <1>2 DEF Turns
  <1>. SUFFICES ASSUME faults' = 0
                PROVE  /\ TurnFollows => TurnFollows'
                       /\ TurnFollows /\ EditOn(edit, msgs[edit.key], turn) => EditOn(edit, msgs[edit.key], turn')
    <2>1. faults = 0 => TurnFollows
      BY FollowParts
    <2>. QED  BY <1>1, <2>1, TurnFollowsOn
  <1>. SUFFICES ASSUME TurnFollows
                PROVE  TurnFollows' /\ (EditOn(edit, msgs[edit.key], turn) => EditOn(edit, msgs[edit.key], turn'))
    OBVIOUS
  <1>4. Says(t) /\ Compacts(t) /\ Runs(s, t.base, IdsOf(Talk(t))) /\ Stores(t, s)
    BY <1>1 DEF TurnFollows, TurnOn
  <1>5. /\ Talk(turn') = Talk(t) /\ Says(turn') /\ Compacts(turn') /\ Made(turn') = Made(t) /\ Written(turn') = Written(t)
    BY <1>3, <1>4, SameTalk
  <1>6. CASE t.summary = NoSummary
    <2>1. \/ t.last = None
          \/ Runs(s, Talk(t), IdsOf(Talk(t))) /\ t.last = LastId(Talk(t))
      BY <1>1, <1>2, <1>4, <1>6, AllIsWritten
    <2>2. Written(t) = Talk(t) /\ NextOf(turn') = t.last
      BY <1>3, <1>6 DEF Written, NextOf
    <2>3. turn'.st = "path" /\ Once(Talk(t))
      BY <1>3, <1>4, <1>6 DEF Says
    <2>4. TurnOn(turn', s)
      BY <1>3, <1>5, <1>6, <2>1, <2>2, <2>3 DEF TurnOn
    <2>5. ASSUME EditOn(edit, msgs[edit.key], turn) PROVE EditOn(edit, msgs[edit.key], turn')
      <3>1. CASE edit.st = "none"
        BY <3>1, NothingToFollow
      <3>2. CASE edit.st # "none"
        <4>1. edit.key \in Keys
          BY <3>2 DEF Inv, EditInActive, Actives
        <4>2. msgs[edit.key] \in Seq(Message)
          BY <4>1, StoreFacts DEF Tree
        <4>3. \A j \in DOMAIN msgs[edit.key] : msgs[edit.key][j].id # None
          BY <4>2, LogFacts, MessageFields
        <4>4. t.tailStart = None
          BY <1>4, <1>6 DEF Compacts
        <4>5. \A i : ~ Pending(msgs[edit.key], edit.path, i, turn)
          BY <4>3, <4>4 DEF Pending, Waits
        <4>. QED  BY <1>1, <2>3, <2>5, <4>5 DEF EditOn, Runs
      <3>. QED  BY <3>1, <3>2
    <2>. QED  BY <1>1, <1>3, <2>4, <2>5 DEF TurnFollows
  <1>7. CASE t.summary # NoSummary
    <2>1. turn'.st = "splice" /\ Phase(turn) = Phase(turn')
      BY <1>1, <1>3, <1>7 DEF Phase
    <2>2. EditOn(edit, msgs[edit.key], turn) => EditOn(edit, msgs[edit.key], turn')
      BY <1>3, <2>1, EditKeepsTurn
    <2>3. Stores(turn', s)
      BY <1>3, <1>4, <1>5 DEF Stores, Stored
    <2>4. TurnOn(turn', s)
      BY <1>1, <1>3, <1>4, <1>5, <1>7, <2>1, <2>3 DEF TurnOn
    <2>. QED  BY <1>1, <1>3, <2>2, <2>4 DEF TurnFollows
  <1>. QED  BY <1>6, <1>7

------------------------------------------------------------------------------
(* The splice of a summary *)

LEMMA SplicedIs ==
    ASSUME NEW s \in Seq(Message), NEW m \in Message, m.id \notin IdsOf(s), NEW x \in IdsOf(s)
    PROVE  LET u == Spliced(s, m, x) IN
           /\ u \in Seq(Message) /\ IdsOf(u) = IdsOf(s) \cup {m.id} /\ \E j \in DOMAIN u : u[j] = m
           /\ \A j \in DOMAIN s : /\ j \in DOMAIN u /\ u[j].id = s[j].id
                                  /\ u[j].parent = IF s[j].id = x THEN m.id ELSE s[j].parent
                                  /\ s[j].id # x => u[j] = s[j]
           /\ \A j \in DOMAIN u : j \in DOMAIN s \/ u[j] = m
  <1>. DEFINE v == Moved(s, x, m.id) u == Append(v, m)
  <1>1. Spliced(s, m, x) = u
    BY DEF Spliced, Moved
  <1>2. m.id \in Ids \cup {None}
    BY MessageFields
  <1>3. /\ v \in Seq(Message) /\ DOMAIN v = DOMAIN s /\ Len(v) = Len(s) /\ IdsOf(v) = IdsOf(s)
        /\ \A i \in DOMAIN s : v[i].id = s[i].id /\ v[i].parent = IF s[i].id = x THEN m.id ELSE s[i].parent
    BY <1>2, Reparents
  <1>4. \A i \in DOMAIN s : s[i].id # x => v[i] = s[i]
    BY DEF Moved
  <1>. HIDE DEF v
  <1>5. /\ u \in Seq(Message) /\ DOMAIN u = 1..(Len(v) + 1) /\ \A i \in DOMAIN v : u[i] = v[i]
        /\ u[Len(v) + 1] = m /\ IdsOf(u) = IdsOf(v) \cup {m.id}
    BY <1>3, Adds
  <1>6. Len(v) \in Nat /\ DOMAIN v = 1..Len(v)
    BY <1>3, LogFacts
  <1>. HIDE DEF u
  <1>7. Len(v) + 1 \in DOMAIN u /\ \A j \in DOMAIN u : j \in DOMAIN v \/ j = Len(v) + 1
    BY <1>5, <1>6
  <1>8. \A j \in DOMAIN v : j \in DOMAIN u
    BY <1>5, <1>6
  <1>. QED  BY <1>1, <1>3, <1>4, <1>5, <1>7, <1>8

LEMMA SpliceRanks ==
    ASSUME NEW s \in Seq(Message), NEW m \in Message, m.id \notin IdsOf(s), NEW x \in IdsOf(s), Ranked(s), m.parent = None
    PROVE  Ranked(Spliced(s, m, x))
  <1>. DEFINE u == Spliced(s, m, x)
  <1>1. PICK r \in [Ids -> Nat] : \A j \in DOMAIN s : s[j].parent \in IdsOf(s) => r[s[j].parent] < r[s[j].id]
    BY DEF Ranked
  <1>2. /\ u \in Seq(Message) /\ IdsOf(u) = IdsOf(s) \cup {m.id}
        /\ \A j \in DOMAIN s : u[j].id = s[j].id /\ u[j].parent = IF s[j].id = x THEN m.id ELSE s[j].parent
        /\ \A j \in DOMAIN u : j \in DOMAIN s \/ u[j] = m
    BY SplicedIs
  <1>. HIDE DEF u
  <1>. DEFINE q == [id \in Ids |-> IF id = m.id THEN 0 ELSE r[id] + 1]
  <1>3. q \in [Ids -> Nat]
    OBVIOUS
  <1>4. IdsOf(s) \subseteq Ids /\ m.id \in Ids /\ \A j \in DOMAIN s : s[j].id \in IdsOf(s)
    BY LogFacts, MessageFields
  <1>5. q[m.id] = 0 /\ \A id \in IdsOf(s) : q[id] = r[id] + 1 /\ r[id] \in Nat
    BY <1>4
  <1>. HIDE DEF q
  <1>6. ASSUME NEW j \in DOMAIN u, u[j].parent \in IdsOf(u) PROVE q[u[j].parent] < q[u[j].id]
    <2>1. CASE j \in DOMAIN s
      <3>1. u[j].id = s[j].id /\ s[j].id \in IdsOf(s)
        BY <1>2, <1>4, <2>1
      <3>2. CASE u[j].parent = m.id
        BY <1>5, <3>1, <3>2
      <3>3. CASE u[j].parent # m.id
        <4>1. u[j].parent = s[j].parent /\ s[j].parent \in IdsOf(s)
          BY <1>2, <1>6, <2>1, <3>3
        <4>2. r[s[j].parent] < r[s[j].id]
          BY <1>1, <2>1, <4>1
        <4>3. /\ q[s[j].parent] = r[s[j].parent] + 1 /\ r[s[j].parent] \in Nat
              /\ q[s[j].id] = r[s[j].id] + 1 /\ r[s[j].id] \in Nat
          BY <1>5, <3>1, <4>1
        <4>4. q[s[j].parent] < q[s[j].id]
          BY <4>2, <4>3
        <4>. QED  BY <3>1, <4>1, <4>4
      <3>. QED  BY <3>2, <3>3
    <2>2. CASE u[j] = m
      <3>1. None \notin IdsOf(u)
        BY <1>2, LogFacts, BoundAssumption DEF Ids, None
      <3>. QED  BY <1>6, <2>2, <3>1
    <2>. QED  BY <1>2, <2>1, <2>2
  <1>7. Ranked(u)
    BY <1>3, <1>6 DEF Ranked
  <1>. QED  BY <1>7 DEF u

\* What the splice does to a message that hangs in the log.
LEMMA SpliceHangs ==
    ASSUME NEW s \in Seq(Message), NEW m \in Message, m.id \notin IdsOf(s), NEW x \in IdsOf(s),
           m.kind = "system", m.parent = None, NEW p, NEW i, NEW T
    PROVE  LET u == Spliced(s, m, x) IN
           /\ Straight(s, p, i) /\ p[i].id # x => Straight(u, p, i)
           /\ p[i].id = x /\ (\E j \in DOMAIN s : s[j].id = x) /\ m.id \notin T => Cut(u, p, i, T)
           /\ Cut(s, p, i, T) /\ p[i].id # x /\ x \in T => Cut(u, p, i, T \cup {m.id})
  <1>. DEFINE u == Spliced(s, m, x)
  <1>1. /\ \E j \in DOMAIN u : u[j] = m
        /\ \A j \in DOMAIN s : /\ j \in DOMAIN u /\ u[j].id = s[j].id
                               /\ u[j].parent = IF s[j].id = x THEN m.id ELSE s[j].parent
                               /\ s[j].id # x => u[j] = s[j]
    BY SplicedIs
  <1>. HIDE DEF u
  <1>2. Straight(s, p, i) /\ p[i].id # x => Straight(u, p, i)
    BY <1>1 DEF Straight
  <1>3. Root(u, m.id)
    BY <1>1 DEF Root
  <1>4. ASSUME p[i].id = x, NEW j \in DOMAIN s, s[j].id = x, m.id \notin T PROVE Cut(u, p, i, T)
    BY <1>1, <1>3, <1>4 DEF Cut
  <1>5. ASSUME Cut(s, p, i, T), p[i].id # x, x \in T PROVE Cut(u, p, i, T \cup {m.id})
    <2>1. PICK j \in DOMAIN s : s[j].id = p[i].id /\ s[j].parent \notin T /\ Root(s, s[j].parent)
      BY <1>5 DEF Cut
    <2>2. PICK a \in DOMAIN s : s[a].id = s[j].parent /\ s[a].kind = "system" /\ s[a].parent = None
      BY <2>1 DEF Root
    <2>3. s[a].id # x /\ s[a].id # m.id
      BY <1>5, <2>1, <2>2, LogFacts
    <2>4. Root(u, s[j].parent)
      BY <1>1, <2>2, <2>3 DEF Root
    <2>5. u[j] = s[j] /\ j \in DOMAIN u
      BY <1>1, <1>5, <2>1
    <2>6. s[j].parent \notin T \cup {m.id}
      BY <2>1, <2>2, <2>3
    <2>. QED  BY <2>1, <2>4, <2>5, <2>6 DEF Cut
  <1>. QED  BY <1>2, <1>4, <1>5 DEF u

\* The last messages of the turn are all stored when there is nothing left to store.
LEMMA NewestStored ==
    ASSUME NEW t \in Turns, NEW s, Stores(t, s), t.summary # NoSummary, t.out = <<>>,
           NEW q \in 1..Len(t.new), q > Len(t.new) - KeepLast
    PROVE  \E j \in DOMAIN s : s[j].id = t.new[q].id /\ (t.new[q].id # t.tailStart => s[j] = t.new[q])
  <1>. DEFINE kept == LastN(t.new, KeepLast) N == Len(t.new) K == Len(kept)
  <1>1. t.new \in Seq(Message) /\ KeepLast \in Nat \ {0} /\ N \in Nat
    BY BoundAssumption, TalkIs
  <1>2. kept \in Seq(Message) /\ K = (IF N <= KeepLast THEN N ELSE KeepLast) /\ \A i \in 1..K : kept[i] = t.new[N - K + i]
    BY <1>1, LastOnes
  <1>. HIDE DEF kept
  <1>3. K \in Nat /\ DOMAIN kept = 1..K
    BY <1>2, LogFacts
  <1>4. t.summary.id \in Ids \cup {None}
    BY MessageFields DEF Turns
  <1>5. Made(t) = Moved(kept, t.tailStart, t.summary.id)
    BY DEF Made, kept
  <1>6. Len(Made(t)) = K
    BY <1>2, <1>4, <1>5, Reparents
  <1>7. Stored(t) = K
    BY <1>3, <1>6 DEF Stored
  <1>. DEFINE l == q - (N - K)
  <1>8. l \in 1..K /\ N - K + l = q
    <2>1. N \in Nat /\ q \in 1..N /\ q > N - KeepLast
      BY <1>1
    <2>. HIDE DEF N, K
    <2>. QED  BY <1>1, <1>2, <1>3, <2>1
  <1>9. kept[l] = t.new[q]
    BY <1>2, <1>8
  <1>. HIDE DEF l, K, N
  <1>10. Made(t)[l].id = kept[l].id /\ (kept[l].id # t.tailStart => Made(t)[l] = kept[l])
    <2>1. Made(t)[l] = IF kept[l].id = t.tailStart THEN [kept[l] EXCEPT !.parent = t.summary.id] ELSE kept[l]
      BY <1>3, <1>5, <1>8 DEF Moved
    <2>2. kept[l] \in Message
      BY <1>2, <1>3, <1>8, LogFacts
    <2>. QED  BY <1>4, <2>1, <2>2, MessageFields
  <1>11. PICK j \in DOMAIN s : s[j] = Made(t)[l]
    BY <1>7, <1>8 DEF Stores
  <1>. QED  BY <1>9, <1>10, <1>11

\* The tail of a compacted turn: its place in the conversation.
LEMMA TailIs ==
    ASSUME NEW t \in Turns, Says(t), Len(Talk(t)) >= KeepLast
    PROVE  LET tail == TailOf(t) D == Len(Talk(t)) - KeepLast IN
           /\ tail \in Seq(Message) /\ Len(tail) = KeepLast /\ DOMAIN tail = 1..KeepLast /\ D \in Nat /\ tail # <<>>
           /\ \A i \in 1..KeepLast : D + i \in DOMAIN Talk(t) /\ tail[i] = Talk(t)[D + i]
           /\ Once(tail) /\ IdsOf(tail) \subseteq IdsOf(Talk(t))
  <1>. DEFINE tail == TailOf(t) L == Len(Talk(t)) D == L - KeepLast
  <1>1. Talk(t) \in Seq(Message) /\ L \in Nat /\ DOMAIN Talk(t) = 1..L
    BY TalkIs, LogFacts
  <1>2. KeepLast \in Nat /\ KeepLast > 0 /\ KeepLast \in Nat \ {0}
    BY BoundAssumption
  <1>3. /\ tail \in Seq(Message) /\ Len(tail) = (IF L <= KeepLast THEN L ELSE KeepLast)
        /\ \A i \in 1..Len(tail) : tail[i] = Talk(t)[L - Len(tail) + i]
    BY <1>1, <1>2, LastOnes DEF TailOf
  <1>4. Len(tail) = KeepLast
    <2>1. L >= KeepLast
      OBVIOUS
    <2>. HIDE DEF tail, L
    <2>. QED  BY <1>1, <1>2, <1>3, <2>1
  <1>5. DOMAIN tail = 1..KeepLast /\ tail # <<>>
    BY <1>2, <1>3, <1>4, LogFacts, EmptySeq
  <1>. HIDE DEF tail, L
  <1>6. D \in Nat /\ \A i \in 1..KeepLast : D + i \in 1..L
    BY <1>1, <1>2 DEF L
  <1>7. \A i \in 1..KeepLast : tail[i] = Talk(t)[D + i]
    BY <1>3, <1>4
  <1>8. Once(tail)
    <2>. SUFFICES ASSUME NEW i \in 1..KeepLast, NEW j \in 1..KeepLast, tail[i].id = tail[j].id PROVE i = j
      BY <1>5 DEF Once
    <2>1. D + i = D + j
      <3>1. D + i \in DOMAIN Talk(t) /\ D + j \in DOMAIN Talk(t) /\ Talk(t)[D + i].id = Talk(t)[D + j].id
        BY <1>1, <1>6, <1>7
      <3>2. Once(Talk(t))
        BY DEF Says
      <3>. HIDE DEF D
      <3>. QED  BY <3>1, <3>2 DEF Once
    <2>. QED  BY <1>6, <2>1
  <1>9. IdsOf(tail) \subseteq IdsOf(Talk(t))
    BY <1>1, <1>5, <1>6, <1>7 DEF IdsOf
  <1>. QED  BY <1>1, <1>3, <1>4, <1>5, <1>6, <1>7, <1>8, <1>9 DEF tail, L

\* The summary and the tail hang together once the summary is spliced in.
LEMMA WrittenHangs ==
    ASSUME NEW t \in Turns, NEW s \in Seq(Message), Says(t), Compacts(t), Stores(t, s),
           t.summary \in Message, t.summary # NoSummary, t.summary.parent = None, t.summary.id \notin IdsOf(s), t.out = <<>>,
           Runs(s, t.base, IdsOf(Talk(t)))
    PROVE  LET u == Spliced(s, t.summary, t.tailStart) IN
           /\ t.tailStart \in IdsOf(s)
           /\ Runs(u, Written(t), IdsOf(Written(t))) /\ Once(Written(t)) /\ NextOf(t) = LastId(Written(t))
  <1>. DEFINE tail == TailOf(t) b == Len(t.base) n == Len(t.new) D == Len(Talk(t)) - KeepLast
              x == t.tailStart m == t.summary u == Spliced(s, m, x) w == Written(t)
  <1>1. /\ Len(Talk(t)) >= KeepLast /\ m.kind = "system" /\ m.id \notin IdsOf(Talk(t))
        /\ x = tail[1].id /\ t.tailEnd = LastId(tail)
    BY DEF Compacts
  <1>2. KeepLast \in Nat /\ KeepLast > 0 /\ 1 \in 1..KeepLast
    BY BoundAssumption
  <1>3. /\ tail \in Seq(Message) /\ Len(tail) = KeepLast /\ DOMAIN tail = 1..KeepLast /\ D \in Nat /\ tail # <<>>
        /\ \A i \in 1..KeepLast : D + i \in DOMAIN Talk(t) /\ tail[i] = Talk(t)[D + i]
        /\ Once(tail) /\ IdsOf(tail) \subseteq IdsOf(Talk(t))
    BY <1>1, TailIs
  <1>4. /\ b \in Nat /\ n \in Nat /\ DOMAIN t.base = 1..b /\ DOMAIN t.new = 1..n /\ DOMAIN Talk(t) = 1..(b + n)
        /\ \A i \in 1..b : Talk(t)[i] = t.base[i]
        /\ \A i \in 1..n : Talk(t)[b + i] = t.new[i]
    BY TalkIs
  <1>5. D = b + n - KeepLast
    <2>1. Len(Talk(t)) = b + n
      BY TalkIs
    <2>. HIDE DEF b, n
    <2>. QED  BY <1>2, <1>4, <2>1
  <1>. HIDE DEF D, b, n, tail
  <1>6. \A i \in 1..n : t.new[i].parent = Before(Talk(t), b + i)
    BY <1>4 DEF Says, b
  <1>7. \A q \in 1..n : q > n - KeepLast => \E j \in DOMAIN s : s[j].id = t.new[q].id /\ (t.new[q].id # x => s[j] = t.new[q])
    BY NewestStored DEF n
  <1>8. \A i \in 1..b : Straight(s, t.base, i) \/ Cut(s, t.base, i, IdsOf(Talk(t)))
    BY <1>4 DEF Runs
  <1>9. \A p \in 1..(b + n) : p \in 1..b \/ (p - b \in 1..n /\ b + (p - b) = p)
    BY <1>4
  <1>10. x \in IdsOf(s)
    <2>1. D + 1 \in 1..(b + n) /\ x = Talk(t)[D + 1].id
      BY <1>1, <1>2, <1>3, <1>4
    <2>2. CASE D + 1 \in 1..b
      <3>1. t.base[D + 1].id = x
        BY <1>4, <2>1, <2>2
      <3>. QED  BY <1>8, <2>2, <3>1 DEF Straight, Cut, IdsOf
    <2>3. CASE D + 1 \notin 1..b
      <3>1. (D + 1) - b \in 1..n /\ b + ((D + 1) - b) = D + 1
        BY <1>9, <2>1, <2>3
      <3>2. (D + 1) - b > n - KeepLast
        BY <1>2, <1>3, <1>4, <1>5
      <3>3. t.new[(D + 1) - b].id = x
        BY <1>4, <2>1, <3>1
      <3>4. PICK j \in DOMAIN s : s[j].id = x
        BY <1>7, <3>1, <3>2, <3>3
      <3>. QED  BY <3>4 DEF IdsOf
    <2>. QED  BY <2>2, <2>3
  <1>11. x \in IdsOf(Talk(t)) /\ x \in IdsOf(tail)
    BY <1>1, <1>2, <1>3 DEF IdsOf
  <1>12. /\ w \in Seq(Message) /\ DOMAIN w = 1..(KeepLast + 1) /\ w[1] = m
         /\ \A i \in 1..KeepLast : i + 1 \in DOMAIN w /\ w[i + 1] = tail[i]
         /\ IdsOf(w) = {m.id} \cup IdsOf(tail) /\ Once(w)
    <2>1. w = <<m>> \o tail
      BY DEF Written, tail
    <2>2. m.id \notin IdsOf(tail)
      BY <1>1, <1>3
    <2>. HIDE DEF w
    <2>. QED  BY <1>3, <2>1, <2>2, Prepends
  <1>13. LastId(w) = LastId(tail) /\ NextOf(t) = LastId(tail)
    <2>1. LastId(tail) = tail[KeepLast].id
      BY <1>3, LogFacts
    <2>. HIDE DEF w
    <2>2. w # <<>>
      <3>1. 1 \in DOMAIN w
        BY <1>2, <1>12
      <3>. QED  BY <3>1
    <2>3. Len(w) \in Nat /\ DOMAIN w = 1..Len(w) /\ LastId(w) = w[Len(w)].id
      BY <1>12, <2>2, LogFacts
    <2>4. 1..Len(w) = 1..(KeepLast + 1)
      BY <1>12, <2>3
    <2>5. Len(w) = KeepLast + 1
      <3>1. KeepLast + 1 \in Nat
        BY <1>2
      <3>2. Len(w) \in 1..Len(w) /\ KeepLast + 1 \in 1..(KeepLast + 1)
        BY <2>2, <2>3, <1>2, <1>12, LogFacts
      <3>. QED  BY <2>3, <2>4, <3>1, <3>2
    <2>6. w[KeepLast + 1] = tail[KeepLast]
      BY <1>2, <1>12
    <2>. QED  BY <1>1, <2>1, <2>3, <2>5, <2>6 DEF NextOf
  <1>. HIDE DEF x, m, u, w
  <1>14. /\ \E j \in DOMAIN u : u[j] = m
         /\ \A j \in DOMAIN s : /\ j \in DOMAIN u /\ u[j].id = s[j].id
                                /\ u[j].parent = IF s[j].id = x THEN m.id ELSE s[j].parent
                                /\ s[j].id # x => u[j] = s[j]
    <2>1. m \in Message /\ m.id \notin IdsOf(s)
      BY DEF m
    <2>. QED  BY <1>10, <2>1, SplicedIs DEF u
  <1>15. Straight(u, w, 1)
    <2>1. m.parent = None
      BY DEF m
    <2>. QED  BY <1>12, <1>14, <2>1 DEF Straight, Before
  <1>16. Straight(u, w, 2)
    <2>1. 1 + 1 = 2 /\ 2 - 1 = 1
      OBVIOUS
    <2>2. w[2] = tail[1] /\ Before(w, 2) = m.id
      BY <1>2, <1>12, <2>1 DEF Before
    <2>3. PICK j \in DOMAIN s : s[j].id = x
      BY <1>10 DEF IdsOf
    <2>4. w[2].id = x
      BY <1>1, <2>2 DEF x
    <2>. QED  BY <1>14, <2>2, <2>3, <2>4 DEF Straight
  <1>17. ASSUME NEW i \in 1..KeepLast, i # 1 PROVE Straight(u, w, i + 1) \/ Cut(u, w, i + 1, IdsOf(w))
    <2>. DEFINE p == D + i
    <2>1. /\ p \in 1..(b + n) /\ p # 1 /\ i - 1 \in 1..KeepLast /\ D + (i - 1) = p - 1 /\ (i - 1) + 1 = i /\ i + 1 - 1 = i
          /\ i + 1 # 1 /\ p # D + 1
      <3>1. p \in 1..(b + n)
        BY <1>3, <1>4
      <3>. QED  BY <1>2, <1>3, <1>17, <3>1
    <2>2. w[i + 1] = Talk(t)[p]
      BY <1>3, <1>12
    <2>3. Before(w, i + 1) = Before(Talk(t), p)
      <3>1. w[i] = tail[i - 1] /\ tail[i - 1] = Talk(t)[p - 1]
        <4>1. w[(i - 1) + 1] = tail[i - 1]
          BY <1>12, <2>1
        <4>2. tail[i - 1] = Talk(t)[D + (i - 1)]
          BY <1>3, <2>1
        <4>. QED  BY <2>1, <4>1, <4>2
      <3>. QED  BY <2>1, <3>1 DEF Before
    <2>4. Talk(t)[p].id # x
      <3>1. D + 1 \in DOMAIN Talk(t) /\ x = Talk(t)[D + 1].id
        BY <1>1, <1>2, <1>3 DEF x
      <3>2. Once(Talk(t))
        BY DEF Says
      <3>. QED  BY <1>4, <2>1, <3>1, <3>2 DEF Once
    <2>. HIDE DEF p
    <2>5. CASE p \in 1..b
      <3>1. t.base[p] = Talk(t)[p] /\ Before(t.base, p) = Before(Talk(t), p)
        <4>1. p - 1 \in 1..b
          BY <1>4, <2>1, <2>5
        <4>. QED  BY <1>4, <2>1, <2>5, <4>1 DEF Before
      <3>2. CASE Straight(s, t.base, p)
        BY <1>14, <2>2, <2>3, <2>4, <3>1, <3>2 DEF Straight
      <3>3. CASE Cut(s, t.base, p, IdsOf(Talk(t)))
        <4>1. Cut(u, t.base, p, IdsOf(Talk(t)) \cup {m.id})
          <5>1. m \in Message /\ m.id \notin IdsOf(s) /\ m.kind = "system" /\ m.parent = None
            BY <1>1 DEF m
          <5>. QED  BY <1>10, <1>11, <2>4, <3>1, <3>3, <5>1, SpliceHangs DEF u
        <4>2. IdsOf(w) \subseteq IdsOf(Talk(t)) \cup {m.id}
          BY <1>3, <1>12
        <4>. QED  BY <2>2, <3>1, <4>1, <4>2 DEF Cut
      <3>. QED  BY <1>8, <2>5, <3>2, <3>3
    <2>6. CASE p \notin 1..b
      <3>. DEFINE q == p - b
      <3>1. q \in 1..n /\ b + q = p
        BY <1>9, <2>1, <2>6
      <3>2. q > n - KeepLast
        <4>1. i > 0 /\ i \in Nat /\ p = D + i /\ D \in Nat
          BY <1>3, p = D + i DEF p
        <4>. QED  BY <1>2, <1>4, <1>5, <4>1
      <3>3. Talk(t)[p] = t.new[q] /\ t.new[q].parent = Before(Talk(t), p)
        BY <1>4, <1>6, <3>1
      <3>. HIDE DEF q
      <3>4. PICK j \in DOMAIN s : s[j] = t.new[q]
        BY <1>7, <2>4, <3>1, <3>2, <3>3
      <3>5. u[j] = s[j] /\ j \in DOMAIN u
        BY <1>14, <2>4, <3>3, <3>4
      <3>. QED  BY <2>2, <2>3, <3>3, <3>4, <3>5 DEF Straight
    <2>. QED  BY <2>5, <2>6
  <1>18. Runs(u, w, IdsOf(w))
    <2>. SUFFICES ASSUME NEW i \in 1..(KeepLast + 1) PROVE Straight(u, w, i) \/ Cut(u, w, i, IdsOf(w))
      BY <1>12 DEF Runs
    <2>1. i = 1 \/ i = 2 \/ (i - 1 \in 1..KeepLast /\ i - 1 # 1 /\ (i - 1) + 1 = i)
      BY <1>2
    <2>. QED  BY <1>15, <1>16, <1>17, <2>1
  <1>. QED  BY <1>10, <1>12, <1>13, <1>18 DEF u, w, x, m

LEMMA SpliceFollows ==
    ASSUME Inv, Tree, FollowHolds, Splice
    PROVE  FollowHolds'
  <1>. SUFFICES ASSUME faults' = 0 PROVE EditFollows' /\ TurnFollows' /\ AllRanked'
    BY DEF FollowHolds, EditFollows, TurnFollows, AllRanked
  <1>. DEFINE t == turn K == turn.key s == msgs[K] m == turn.summary x == turn.tailStart u == Spliced(s, m, x)
  <1>1. /\ turn.st = "splice" /\ UNCHANGED edit /\ turn' = [turn EXCEPT !.st = "path"]
        /\ msgs' = [msgs EXCEPT ![K] = u] /\ \E f \in 1..2 : Writes(1, f)
    BY DEF Splice
  <1>2. /\ Types /\ turn \in Turns /\ K \in Keys /\ s \in Seq(Message) /\ DOMAIN msgs = Keys
        /\ TurnSound(turn, IdsOf(s), nextId, faults = 0)
    BY <1>1, TurnFacts DEF Types
  <1>3. faults = 0
    BY <1>1, <1>2, Writing
  <1>4. EditFollows /\ TurnOn(turn, s) /\ AllRanked
    BY <1>3, FollowParts DEF TurnFollows
  <1>5. /\ Says(t) /\ Compacts(t) /\ Runs(s, t.base, IdsOf(Talk(t))) /\ Stores(t, s)
        /\ t.out = <<>> /\ m # NoSummary
    BY <1>1, <1>4 DEF TurnOn
  <1>6. m \in Message /\ m.parent = None /\ m.id \notin IdsOf(s) /\ m.kind = "system"
    BY <1>1, <1>2, <1>5 DEF TurnSound, Turns, Compacts
  <1>7. /\ x \in IdsOf(s)
        /\ Runs(u, Written(t), IdsOf(Written(t))) /\ Once(Written(t)) /\ NextOf(t) = LastId(Written(t))
    BY <1>2, <1>5, <1>6, WrittenHangs
  <1>8. msgs'[K] = u /\ \A j \in Keys \ {K} : msgs'[j] = msgs[j]
    BY <1>1, <1>2
  <1>9. /\ turn'.st = "path" /\ turn'.key = K /\ turn'.base = t.base /\ turn'.new = t.new
        /\ turn'.summary = t.summary /\ turn'.tailStart = t.tailStart /\ turn'.tailEnd = t.tailEnd /\ turn'.last = t.last
    BY <1>1, <1>2 DEF Turns
  <1>10. AllRanked'
    <2>1. Ranked(s)
      BY <1>2, <1>4 DEF AllRanked
    <2>2. Ranked(u)
      BY <1>2, <1>6, <1>7, <2>1, SpliceRanks
    <2>. QED  BY <1>4, <1>8, <2>2 DEF AllRanked
  <1>11. TurnFollows'
    <2>1. Says(turn') /\ Compacts(turn') /\ Written(turn') = Written(t)
      BY <1>5, <1>9, SameTalk
    <2>2. NextOf(turn') = NextOf(t)
      BY <1>9 DEF NextOf
    <2>3. TurnOn(turn', u)
      BY <1>7, <1>9, <2>1, <2>2 DEF TurnOn
    <2>. QED  BY <1>8, <1>9, <2>3 DEF TurnFollows
  <1>12. EditFollows'
    <2>1. CASE edit.st = "none"
      BY <1>1, <2>1, NothingToFollow DEF EditFollows
    <2>2. CASE edit.st # "none"
      <3>1. edit.key = K
        BY <1>1, <2>2 DEF Inv, EditInActive, TurnInActive, OneActive
      <3>. DEFINE p == edit.path
      <3>2. /\ Once(p) /\ (edit.st = "derive" => edit.parent = LastId(p))
            /\ \A i \in DOMAIN p : Straight(s, p, i) \/ Pending(s, p, i, turn)
        BY <1>1, <1>4, <2>2, <3>1 DEF EditFollows, EditOn
      <3>3. IdsOf(p) \subseteq IdsOf(s)
        BY <3>2 DEF Straight, Pending, IdsOf
      <3>4. m.id \notin IdsOf(p)
        BY <1>6, <3>3
      <3>5. ASSUME NEW i \in DOMAIN p PROVE Straight(u, p, i) \/ Cut(u, p, i, IdsOf(p))
        <4>1. CASE p[i].id = x
          <5>1. \E j \in DOMAIN s : s[j].id = x
            BY <1>7 DEF IdsOf
          <5>. QED  BY <1>2, <1>6, <1>7, <3>4, <4>1, <5>1, SpliceHangs
        <4>2. CASE p[i].id # x
          <5>1. Straight(s, p, i)
            BY <3>2, <4>2 DEF Pending, Waits
          <5>. QED  BY <1>2, <1>6, <1>7, <4>2, <5>1, SpliceHangs
        <4>. QED  BY <4>1, <4>2
      <3>6. EditOn(edit, u, turn')
        BY <1>9, <3>2, <3>5 DEF EditOn, Runs
      <3>. QED  BY <1>1, <1>8, <3>1, <3>6 DEF EditFollows
    <2>. QED  BY <2>1, <2>2
  <1>. QED  BY <1>10, <1>11, <1>12

LEMMA InitFollows == Init => FollowHolds
  <1>. SUFFICES ASSUME Init PROVE EditFollows /\ TurnFollows /\ AllRanked
    BY FollowParts
  <1>1. EditFollows /\ TurnFollows
    BY NothingToFollow DEF Init, NoTurn, NoEdit, EditFollows, TurnFollows
  <1>2. AllRanked
    BY EmptyIsRanked DEF Init, AllRanked
  <1>. QED  BY <1>1, <1>2

LEMMA NextFollows == Inv /\ Tree /\ Tree' /\ FollowHolds /\ [Next]_vars => FollowHolds'
  <1>. SUFFICES ASSUME Inv, Tree, Tree', FollowHolds, [Next]_vars PROVE FollowHolds'
    OBVIOUS
  <1>1. CASE Requests
    BY <1>1, SendFollows, CreateFollows, DeleteFollows, MetaFollows, EditReadFollows DEF Requests
  <1>2. CASE EditSteps
    BY <1>2, EditDeriveFollows, EditStartFollows DEF EditSteps
  <1>3. CASE \E kind \in ReplyKinds : Bubble(kind)
    BY <1>3, BubbleFollows
  <1>4. CASE Answer
    BY <1>4, EndRunFollows, EndCompactedFollows, TurnLeaves DEF Answer
  <1>5. CASE TurnSteps
    BY <1>5, PersistSkipFollows, PersistFollows, PersistedFollows, SpliceFollows, TurnLeaves DEF TurnSteps
  <1>6. CASE \E k \in Keys : TitleSteps(k)
    BY <1>6, MetaFollows
  <1>7. CASE UNCHANGED vars
    BY <1>7, AllStill DEF vars
  <1>. QED  BY <1>1, <1>2, <1>3, <1>4, <1>5, <1>6, <1>7 DEF Next

\* The end of a turn leaves the path on its conversation.
LEMMA PathMoved ==
    ASSUME Inv, Tree, FollowHolds, [Next]_vars, turn.st = "path", turn'.st = "emit", NextActive # None, faults' = 0
    PROVE  \E chain \in {Chain(msgs[turn.key], meta'[turn.key].path)} :
               /\ IdSeq(chain) = IdSeq(Ended) \/ CutShort(chain, Ended)
               /\ UNCHANGED msgs
  <1>. DEFINE K == turn.key s == msgs[K] w == Written(turn)
  <1>1. /\ Types /\ turn \in Turns /\ K \in Keys /\ s \in Seq(Message) /\ Once(s)
    <2>1. Types /\ turn \in Turns /\ K \in Keys /\ s \in Seq(Message)
      BY TurnFacts
    <2>. QED  BY <2>1 DEF Tree, StoreHolds
  <1>2. SetPath
    <2>1. turn' # turn
      OBVIOUS
    <2>2. ~ Requests
      <3>1. ~ Send /\ \A k, carry : ~ Create(k, carry)
        BY DEF Send, Create, Idle
      <3>2. \A k : ~ Open(k) /\ ~ Delete(k)
        BY DEF Open, Delete, Idle
      <3>3. \A k, t : ~ Rename(k, t) /\ ~ EditRead(k, t) /\ ~ Switch(k, t)
        BY <2>1 DEF Rename, EditRead, Switch
      <3>. QED  BY <3>1, <3>2, <3>3 DEF Requests
    <2>3. ~ EditSteps
      BY <2>1 DEF EditSteps, EditDerive, EditStart
    <2>4. ~ Answer /\ \A kind \in ReplyKinds : ~ Bubble(kind)
      BY DEF Answer, EndRun, EndCompacted, FailRun, Bubble
    <2>5. \A k \in Keys : ~ TitleSteps(k)
      BY <2>1 DEF TitleSteps, TitleCheck, TitleRecheck, TitleWrite
    <2>6. TurnSteps => SetPath
      BY DEF TurnSteps, PersistSkip, Persist, Persisted, Splice, Emit, Clear
    <2>. QED  BY <2>1, <2>2, <2>3, <2>4, <2>5, <2>6 DEF Next, vars
  <1>3. /\ UNCHANGED msgs /\ meta' = WithPath(K, NextActive) /\ \E f \in 1..2 : Writes(1, f)
    BY <1>2 DEF SetPath
  <1>4. faults = 0 /\ NextActive \in Ids \cup {None}
    BY <1>1, <1>3, Writing DEF NextActive, Turns
  <1>5. meta'[K].path = NextActive /\ NextActive = NextOf(turn)
    BY <1>1, <1>3, <1>4, PathTypes DEF NextActive, NextOf
  <1>6. TurnOn(turn, s)
    BY <1>4, FollowParts DEF TurnFollows
  <1>7. Says(turn) /\ Compacts(turn) /\ Runs(s, w, IdsOf(w)) /\ Once(w) /\ NextOf(turn) = LastId(w)
    BY <1>5, <1>6 DEF TurnOn, NextActive
  <1>8. w = Ended
    BY DEF Written, Ended, Talk, TailOf, Conversation
  <1>9. w \in Seq(Message) /\ w # <<>>
    <2>1. Talk(turn) \in Seq(Message) /\ turn.summary \in Message \cup {NoSummary}
      BY <1>1, TalkIs DEF Turns
    <2>2. ASSUME turn.summary = NoSummary PROVE w \in Seq(Message)
      BY <2>1, <2>2 DEF Written
    <2>3. ASSUME turn.summary # NoSummary PROVE w \in Seq(Message)
      <3>1. TailOf(turn) \in Seq(Message)
        BY <1>1, <1>7, <2>3, TailIs DEF Compacts
      <3>. QED  BY <2>1, <2>3, <3>1, Prepends DEF Written
    <2>4. w \in Seq(Message)
      BY <2>2, <2>3
    <2>. HIDE DEF w
    <2>5. w # <<>>
      BY <1>5, <1>7 DEF LastId
    <2>. QED  BY <2>4, <2>5
  <1>10. PathIs(Chain(s, LastId(w)), w)
    <2>. HIDE DEF w, s
    <2>. QED  BY <1>1, <1>7, <1>9, RunsChain
  <1>. QED  BY <1>3, <1>5, <1>7, <1>8, <1>10 DEF PathIs

\* When a turn has moved the active path to its end, the chain the GUI reads
\* back is the conversation the loop ended with, compacted or not, whatever
\* was edited, switched or titled while it ran (PathFollowsTurn).
THEOREM PathAlwaysFollowsTurn == Spec => PathFollowsTurn
  <1>1. Init => Inv /\ Tree /\ FollowHolds
    BY InitInv, InitTree, InitFollows
  <1>2. Inv /\ Tree /\ FollowHolds /\ [Next]_vars => Inv' /\ Tree' /\ FollowHolds'
    BY NextInv, NextTree, NextFollows
  <1>. DEFINE Follows == (turn.st = "path" /\ turn'.st = "emit" /\ NextActive # None /\ faults' = 0)
                 => \E chain \in {Chain(msgs[turn.key], meta'[turn.key].path)} :
                       /\ IdSeq(chain) = IdSeq(Ended) \/ CutShort(chain, Ended)
                       /\ UNCHANGED msgs
  <1>3. Inv /\ Tree /\ FollowHolds /\ [Next]_vars => [Follows]_vars
    BY PathMoved
  <1>. QED  BY <1>1, <1>2, <1>3, PTL DEF Spec, PathFollowsTurn
==============================================================================
