------------------------------ MODULE RelayServer ----------------------------
(***************************************************************************)
(* The places a relayed request takes on the server and gives back: one of *)
(* its user's (relay/concurrency.rs) and one of everybody's (security/     *)
(* mod.rs), from the gate to the end of the stream (relay/handlers.rs).    *)
(*                                                                         *)
(* A request is handled by a future that the HTTP server drops when its    *)
(* client goes; once the answer is handed out, a task of its own carries   *)
(* on with the stream and owns the places.  Both give a place back by      *)
(* dropping its guard, the last one taken first.  What a request costs is  *)
(* in TurnBilling; here its row is only open or closed.                    *)
(***************************************************************************)
EXTENDS Naturals, FiniteSets

CONSTANTS
    Requests, Users,
    UserOf,           \* [Requests -> Users]
    UserLimit,        \* RELAY_MAX_CONCURRENT_PER_USER
    GlobalLimit,      \* SECURITY_MAX_CONCURRENT_GLOBAL
    MaxCrashes        \* bound: crashes of the server

ASSUME LimitsAssumption == UserLimit \in Nat /\ GlobalLimit \in Nat
ASSUME UsersAssumption == UserOf \in [Requests -> Users]
ASSUME RequestsAssumption == IsFiniteSet(Requests)

VARIABLES
    phase,      \* how far the request has come
    row,        \* its usage row: "none", "open" or "closed"
    gone,       \* its client has gone
    inFlight,   \* ConcurrencyGate: places taken by each user
    global,     \* SecurityState: places taken in all
    broken,     \* ghost: its row could not be closed, or its handler was dropped
    crashes
vars == <<phase, row, gone, inFlight, global, broken, crashes>>

\* A limit of nothing is taken as one.
AtLeastOne(n) == IF n < 1 THEN 1 ELSE n

Phases == {"new", "global", "reserve", "forward", "errorBody", "settle", "streaming", "sending",
           "bill", "letGlobal", "letUser", "done"}
\* From taking the place to giving it back.
HoldsUser == Phases \ {"new", "done"}
HoldsGlobal == HoldsUser \ {"global", "letUser"}
\* The upstream is at work for it.
AtUpstream == {"forward", "errorBody", "streaming", "sending"}
\* The handler waits, and can be dropped.
Awaits == {"reserve", "forward", "errorBody", "settle"}

Goes(r, p) == phase' = [phase EXCEPT ![r] = p]

------------------------------------------------------------------------------
(* The handler *)

\* Authentication, the checks of the body and the rate come first, may refuse
\* the request, and hold nothing.
AcquireGate(r) ==
    /\ phase[r] = "new"
    /\ LET u == UserOf[r] IN
       \/ Goes(r, "done") /\ UNCHANGED inFlight
       \/ /\ inFlight[u] < AtLeastOne(UserLimit)
          /\ Goes(r, "global") /\ inFlight' = [inFlight EXCEPT ![u] = inFlight[u] + 1]
    /\ UNCHANGED <<row, gone, global, broken, crashes>>

AcquireGlobal(r) ==
    /\ phase[r] = "global"
    /\ IF global >= AtLeastOne(GlobalLimit)
         THEN Goes(r, "letUser") /\ UNCHANGED global
         ELSE Goes(r, "reserve") /\ global' = global + 1
    /\ UNCHANGED <<row, gone, inFlight, broken, crashes>>

\* billing::reserve grants, denies or fails.
Reserve(r) ==
    /\ phase[r] = "reserve"
    /\ \/ Goes(r, "forward") /\ row' = [row EXCEPT ![r] = "open"]
       \/ Goes(r, "letGlobal") /\ UNCHANGED row
    /\ UNCHANGED <<gone, inFlight, global, broken, crashes>>

\* A task that leaves the places with the handler, which returns.
SpawnBare(r) ==
    /\ Goes(r, "streaming")
    /\ inFlight' = [inFlight EXCEPT ![UserOf[r]] = inFlight[UserOf[r]] - 1]
    /\ global' = global - 1
\* The upstream answers with a stream, answers with an error, or does not answer.
Spawn(r) == Goes(r, "streaming") /\ UNCHANGED <<inFlight, global>>
Forward(r) ==
    /\ phase[r] = "forward"
    /\ \/ Spawn(r)
       \/ Goes(r, "errorBody") /\ UNCHANGED <<inFlight, global>>
       \/ Goes(r, "settle") /\ UNCHANGED <<inFlight, global>>
    /\ UNCHANGED <<row, gone, broken, crashes>>

ReadErrorBody(r) ==
    /\ phase[r] = "errorBody"
    /\ Goes(r, "settle")
    /\ UNCHANGED <<row, gone, inFlight, global, broken, crashes>>

\* An error path that settles nothing.
LeavesOpen(r) == UNCHANGED <<row, broken>>
\* billing::settle closes the row, or fails, which is logged.
Closes(r) ==
    \/ row' = [row EXCEPT ![r] = "closed"] /\ UNCHANGED broken
    \/ broken' = broken \cup {r} /\ UNCHANGED row
SettleOnce(r) ==
    /\ phase[r] = "settle"
    /\ Closes(r) /\ Goes(r, "letGlobal")
    /\ UNCHANGED <<gone, inFlight, global, crashes>>

\* A dropped handler that forgets its places.
ForgetHandler(r) ==
    /\ phase[r] \in Awaits
    /\ Goes(r, "done")
    /\ broken' = broken \cup {r}
    /\ UNCHANGED <<row, gone, inFlight, global, crashes>>
\* The client goes while the handler waits: the future is dropped.  What the
\* database made of a reservation under way is open.
DropHandler(r) ==
    /\ phase[r] \in Awaits
    /\ Goes(r, "letGlobal")
    /\ \/ phase[r] = "reserve" /\ UNCHANGED row
       \/ row' = [row EXCEPT ![r] = IF phase[r] = "reserve" THEN "open" ELSE row[r]]
    /\ broken' = broken \cup {r}
    /\ UNCHANGED <<gone, inFlight, global, crashes>>

------------------------------------------------------------------------------
(* The streaming task *)

ReadChunk(r) ==
    /\ phase[r] = "streaming"
    /\ Goes(r, "sending")
    /\ UNCHANGED <<row, gone, inFlight, global, broken, crashes>>

\* The channel has room, or the client has gone and the upstream's stream is dropped.
SendChunk(r) ==
    /\ phase[r] = "sending"
    /\ Goes(r, IF r \in gone THEN "bill" ELSE "streaming")
    /\ UNCHANGED <<row, gone, inFlight, global, broken, crashes>>

StreamEnds(r) ==
    /\ phase[r] = "streaming"
    /\ Goes(r, "bill")
    /\ UNCHANGED <<row, gone, inFlight, global, broken, crashes>>

Bill(r) ==
    /\ phase[r] = "bill"
    /\ Closes(r) /\ Goes(r, "letGlobal")
    /\ UNCHANGED <<gone, inFlight, global, crashes>>

ClientGoes(r) ==
    /\ phase[r] \in {"streaming", "sending"} /\ r \notin gone
    /\ gone' = gone \cup {r}
    /\ UNCHANGED <<phase, row, inFlight, global, broken, crashes>>

------------------------------------------------------------------------------
(* The guards *)

DropGlobal(r) ==
    /\ phase[r] = "letGlobal"
    /\ Goes(r, "letUser")
    /\ global' = IF global = 0 THEN 0 ELSE global - 1
    /\ UNCHANGED <<row, gone, inFlight, broken, crashes>>

DropGate(r) ==
    /\ phase[r] = "letUser"
    /\ Goes(r, "done")
    /\ LET u == UserOf[r] IN
       inFlight' = [inFlight EXCEPT ![u] = IF inFlight[u] = 0 THEN 0 ELSE inFlight[u] - 1]
    /\ gone' = gone \ {r}
    /\ UNCHANGED <<row, global, broken, crashes>>

\* Rows survive a crash, places do not.
Crash ==
    /\ crashes < MaxCrashes
    /\ crashes' = crashes + 1
    /\ phase' = [r \in Requests |-> IF phase[r] = "new" THEN "new" ELSE "done"]
    /\ inFlight' = [u \in Users |-> 0] /\ global' = 0
    /\ broken' = broken \cup {r \in Requests : phase[r] \notin {"new", "done"}}
    /\ gone' = {}
    /\ UNCHANGED row

------------------------------------------------------------------------------
Init ==
    /\ phase = [r \in Requests |-> "new"]
    /\ row = [r \in Requests |-> "none"]
    /\ gone = {}
    /\ inFlight = [u \in Users |-> 0]
    /\ global = 0
    /\ broken = {}
    /\ crashes = 0

Handler(r) ==
    AcquireGate(r) \/ AcquireGlobal(r) \/ Reserve(r) \/ Forward(r) \/ ReadErrorBody(r) \/ SettleOnce(r)
Task(r) == ReadChunk(r) \/ SendChunk(r) \/ Bill(r)
Guards(r) == DropGlobal(r) \/ DropGate(r)
Clients(r) == DropHandler(r) \/ ClientGoes(r)

AllDone == (\A r \in Requests : phase[r] = "done") /\ UNCHANGED vars

Next ==
    \/ \E r \in Requests : Handler(r) \/ Task(r) \/ StreamEnds(r) \/ Guards(r) \/ Clients(r)
    \/ Crash
    \/ AllDone

Spec == Init /\ [][Next]_vars

\* Tokio runs every task that can run.  That an upstream answers and its stream
\* ends after however many chunks, and that a client reads or goes, is theirs:
\* no time limit sees to it.
FairSpec == Spec /\ \A r \in Requests :
    WF_vars(Handler(r)) /\ WF_vars(Task(r)) /\ WF_vars(Guards(r)) /\ SF_vars(StreamEnds(r))

------------------------------------------------------------------------------
(* Properties *)

Holding(S) == {r \in Requests : phase[r] \in S}
HoldingFor(u, S) == {r \in Holding(S) : UserOf[r] = u}

\* The values of the variables.
TypeOK ==
    /\ phase \in [Requests -> Phases]
    /\ row \in [Requests -> {"none", "open", "closed"}]
    /\ gone \subseteq Requests /\ broken \subseteq Requests
    /\ inFlight \in [Users -> Nat] /\ global \in Nat
    /\ crashes \in Nat

\* The counters say how many requests hold a place, whichever way those have
\* come and whichever leave at the moment (GateGuard, GlobalSlot).
PlacesAreCounted ==
    /\ \A u \in Users : inFlight[u] = Cardinality(HoldingFor(u, HoldsUser))
    /\ global = Cardinality(Holding(HoldsGlobal))

\* The upstream never works for more requests of one user, or of all, than the
\* limits say, streams included (handlers.rs:168).
UpstreamIsBounded ==
    /\ \A u \in Users : Cardinality(HoldingFor(u, AtUpstream)) <= AtLeastOne(UserLimit)
    /\ Cardinality(Holding(AtUpstream)) <= AtLeastOne(GlobalLimit)

\* A place is held by who works, streams included, and by nobody else.
PlacesHold == TypeOK /\ PlacesAreCounted /\ UpstreamIsBounded

\* A row that nobody will close belongs to a request that was cut off: its
\* handler dropped, its settlement failed, or the server crashed.
OpenRowsAreBroken ==
    \A r \in Requests : row[r] = "open" /\ phase[r] = "done" => r \in broken

\* Whatever becomes of the requests, in the end no place is taken.
PlacesComeBack == <>[](global = 0 /\ \A u \in Users : inFlight[u] = 0)
==============================================================================
