----------------------------- MODULE ServerProofs ----------------------------
(***************************************************************************)
(* Theorems about the relay server, for all limits and any number of       *)
(* requests, users and addresses.  RelayServer: no place is lost or        *)
(* counted twice, the upstream is kept within the limits, and a row stays  *)
(* open only when its request was cut off.  LoginServer: the rate that a   *)
(* bucket promises and the lockout.  ServerStart: no start takes over an   *)
(* account.  UsageProbe with ModelClient at the other end of the stream:   *)
(* what the relay reads in passing is what was said, and what it bills is  *)
(* what the desktop is told.                                               *)
(***************************************************************************)
EXTENDS RelayServer, LoginServer, ServerStart, ModelClient, FiniteSetTheorems, WellFoundedInduction, TLAPS

------------------------------------------------------------------------------
(* Types *)

Steps(r) == Handler(r) \/ Task(r) \/ StreamEnds(r) \/ Guards(r) \/ Clients(r)

\* The places of the program and the numbers in it are what they should be.
THEOREM TypeCorrect == Spec => []TypeOK
  <1>1. Init => TypeOK
    BY DEF Init, TypeOK, Phases
  <1>2. TypeOK /\ [Next]_vars => TypeOK'
    <2>. SUFFICES ASSUME TypeOK, [Next]_vars PROVE TypeOK'
      OBVIOUS
    <2>. USE DEF TypeOK, Goes, Phases
    <2>1. CASE UNCHANGED vars
      BY <2>1 DEF vars
    <2>2. CASE Crash
      BY <2>2 DEF Crash
    <2>3. CASE AllDone
      BY <2>3 DEF AllDone, vars
    <2>4. ASSUME NEW r \in Requests, Handler(r) PROVE TypeOK'
      <3>1. UserOf[r] \in Users
        BY UsersAssumption
      <3>2. CASE AcquireGate(r)
        BY <3>1, <3>2 DEF AcquireGate
      <3>3. CASE AcquireGlobal(r)
        BY <3>3 DEF AcquireGlobal
      <3>4. CASE Reserve(r)
        BY <3>4 DEF Reserve
      <3>5. CASE Forward(r)
        BY <3>5 DEF Forward, Spawn
      <3>6. CASE ReadErrorBody(r)
        BY <3>6 DEF ReadErrorBody
      <3>7. CASE SettleOnce(r)
        BY <3>7 DEF SettleOnce, Closes
      <3>. QED  BY <2>4, <3>2, <3>3, <3>4, <3>5, <3>6, <3>7 DEF Handler
    <2>5. ASSUME NEW r \in Requests, Task(r) \/ StreamEnds(r) PROVE TypeOK'
      BY <2>5 DEF Task, StreamEnds, ReadChunk, SendChunk, Bill, Closes
    <2>6. ASSUME NEW r \in Requests, Guards(r) PROVE TypeOK'
      <3>1. UserOf[r] \in Users
        BY UsersAssumption
      <3>2. CASE DropGlobal(r)
        BY <3>2 DEF DropGlobal
      <3>3. CASE DropGate(r)
        BY <3>1, <3>3 DEF DropGate
      <3>. QED  BY <2>6, <3>2, <3>3 DEF Guards
    <2>7. ASSUME NEW r \in Requests, Clients(r) PROVE TypeOK'
      BY <2>7 DEF Clients, DropHandler, ClientGoes
    <2>. QED  BY <2>1, <2>2, <2>3, <2>4, <2>5, <2>6, <2>7 DEF Next
  <1>. QED  BY <1>1, <1>2, PTL DEF Spec

------------------------------------------------------------------------------
(* Counting *)

\* Holders are finite sets, and their number is natural.
LEMMA HoldersAreFinite ==
    ASSUME NEW S, NEW u
    PROVE  /\ IsFiniteSet(Holding(S)) /\ Cardinality(Holding(S)) \in Nat
           /\ IsFiniteSet(HoldingFor(u, S)) /\ Cardinality(HoldingFor(u, S)) \in Nat
  <1>1. Holding(S) \subseteq Requests /\ HoldingFor(u, S) \subseteq Requests
    BY DEF Holding, HoldingFor
  <1>. QED  BY <1>1, RequestsAssumption, FS_Subset, FS_CardinalityType

\* Who goes from a phase outside of S to one in it adds one to those in S.
LEMMA Enters ==
    ASSUME TypeOK, NEW r \in Requests, NEW q, Goes(r, q), NEW S, phase[r] \notin S, q \in S
    PROVE  /\ Cardinality(Holding(S))' = Cardinality(Holding(S)) + 1
           /\ \A u : Cardinality(HoldingFor(u, S))' =
                     Cardinality(HoldingFor(u, S)) + (IF UserOf[r] = u THEN 1 ELSE 0)
  <1>1. r \notin Holding(S) /\ Holding(S)' = Holding(S) \cup {r}
    BY DEF TypeOK, Goes, Holding
  <1>2. Cardinality(Holding(S))' = Cardinality(Holding(S)) + 1
    BY <1>1, HoldersAreFinite, FS_AddElement
  <1>3. ASSUME NEW u PROVE Cardinality(HoldingFor(u, S))' =
                     Cardinality(HoldingFor(u, S)) + (IF UserOf[r] = u THEN 1 ELSE 0)
    <2>1. CASE UserOf[r] = u
      <3>1. r \notin HoldingFor(u, S) /\ HoldingFor(u, S)' = HoldingFor(u, S) \cup {r}
        BY <1>1, <2>1 DEF HoldingFor
      <3>. QED  BY <2>1, <3>1, HoldersAreFinite, FS_AddElement
    <2>2. CASE UserOf[r] # u
      <3>1. HoldingFor(u, S)' = HoldingFor(u, S)
        BY <1>1, <2>2 DEF HoldingFor
      <3>. QED  BY <2>2, <3>1, HoldersAreFinite
    <2>. QED  BY <2>1, <2>2
  <1>. QED  BY <1>2, <1>3

\* Who leaves S takes one away.
LEMMA LeavesPlace ==
    ASSUME TypeOK, NEW r \in Requests, NEW q, Goes(r, q), NEW S, phase[r] \in S, q \notin S
    PROVE  /\ Cardinality(Holding(S))' = Cardinality(Holding(S)) - 1
           /\ Cardinality(Holding(S)) > 0
           /\ \A u : Cardinality(HoldingFor(u, S))' =
                     Cardinality(HoldingFor(u, S)) - (IF UserOf[r] = u THEN 1 ELSE 0)
           /\ Cardinality(HoldingFor(UserOf[r], S)) > 0
  <1>1. r \in Holding(S) /\ Holding(S)' = Holding(S) \ {r}
    BY DEF TypeOK, Goes, Holding
  <1>2. /\ Cardinality(Holding(S))' = Cardinality(Holding(S)) - 1
        /\ Cardinality(Holding(S)) > 0
    <2>1. Cardinality(Holding(S))' = Cardinality(Holding(S)) - 1
      BY <1>1, HoldersAreFinite, FS_RemoveElement
    <2>2. Cardinality(Holding(S)) # 0
      BY <1>1, HoldersAreFinite, FS_EmptySet
    <2>. QED  BY <2>1, <2>2, HoldersAreFinite
  <1>3. ASSUME NEW u PROVE Cardinality(HoldingFor(u, S))' =
                     Cardinality(HoldingFor(u, S)) - (IF UserOf[r] = u THEN 1 ELSE 0)
    <2>1. CASE UserOf[r] = u
      <3>1. r \in HoldingFor(u, S) /\ HoldingFor(u, S)' = HoldingFor(u, S) \ {r}
        BY <1>1, <2>1 DEF HoldingFor
      <3>2. Cardinality(HoldingFor(u, S) \ {r}) = Cardinality(HoldingFor(u, S)) - 1
        <4>1. IsFiniteSet(HoldingFor(u, S))
          BY HoldersAreFinite
        <4>. QED  BY <3>1, <4>1, FS_RemoveElement
      <3>. QED  BY <2>1, <3>1, <3>2
    <2>2. CASE UserOf[r] # u
      <3>1. HoldingFor(u, S)' = HoldingFor(u, S)
        BY <1>1, <2>2 DEF HoldingFor
      <3>. QED  BY <2>2, <3>1, HoldersAreFinite
    <2>. QED  BY <2>1, <2>2
  <1>4. Cardinality(HoldingFor(UserOf[r], S)) > 0
    <2>1. r \in HoldingFor(UserOf[r], S)
      BY <1>1 DEF HoldingFor
    <2>2. Cardinality(HoldingFor(UserOf[r], S)) # 0
      BY <2>1, HoldersAreFinite, FS_EmptySet
    <2>. QED  BY <2>2, HoldersAreFinite
  <1>. QED  BY <1>2, <1>3, <1>4

\* Who stays in S, or out of it, leaves the holders as they are.
LEMMA Stays ==
    ASSUME TypeOK, NEW r \in Requests, NEW q, Goes(r, q), NEW S, (phase[r] \in S) = (q \in S)
    PROVE  Holding(S)' = Holding(S) /\ \A u : HoldingFor(u, S)' = HoldingFor(u, S)
  <1>1. Holding(S)' = Holding(S)
    BY DEF TypeOK, Goes, Holding
  <1>. QED  BY <1>1 DEF HoldingFor

\* Without a move the holders are as they were.
LEMMA Same ==
    ASSUME UNCHANGED phase, NEW S
    PROVE  Holding(S)' = Holding(S) /\ \A u : HoldingFor(u, S)' = HoldingFor(u, S)
  BY DEF Holding, HoldingFor

------------------------------------------------------------------------------
(* Places *)

\* The counters are the numbers of holders and keep within the limits.
PlacesCounted ==
    /\ PlacesAreCounted
    /\ \A u \in Users : inFlight[u] <= AtLeastOne(UserLimit)
    /\ global <= AtLeastOne(GlobalLimit)

\* A request that moves on with its places, and a step of no request.
LEMMA CountedKeeps ==
    ASSUME TypeOK, PlacesCounted, UNCHANGED <<inFlight, global>>,
           \/ UNCHANGED phase
           \/ \E r \in Requests, q \in Phases :
                 /\ Goes(r, q)
                 /\ (phase[r] \in HoldsUser) = (q \in HoldsUser)
                 /\ (phase[r] \in HoldsGlobal) = (q \in HoldsGlobal)
    PROVE  PlacesCounted'
  <1>1. CASE UNCHANGED phase
    <2>1. /\ Holding(HoldsGlobal)' = Holding(HoldsGlobal)
          /\ \A u : HoldingFor(u, HoldsUser)' = HoldingFor(u, HoldsUser)
      BY <1>1, Same
    <2>. QED  BY <2>1 DEF PlacesCounted, PlacesAreCounted
  <1>2. ASSUME NEW r \in Requests, NEW q \in Phases, Goes(r, q),
               (phase[r] \in HoldsUser) = (q \in HoldsUser),
               (phase[r] \in HoldsGlobal) = (q \in HoldsGlobal)
        PROVE  PlacesCounted'
    <2>1. \A u : HoldingFor(u, HoldsUser)' = HoldingFor(u, HoldsUser)
      BY <1>2, Stays
    <2>2. Holding(HoldsGlobal)' = Holding(HoldsGlobal)
      BY <1>2, Stays
    <2>. QED  BY <2>1, <2>2 DEF PlacesCounted, PlacesAreCounted
  <1>. QED  BY <1>1, <1>2

\* The gate lets a request in and counts it.
LEMMA CountedEntersGate ==
    ASSUME TypeOK, PlacesCounted, NEW r \in Requests, AcquireGate(r)
    PROVE  PlacesCounted'
  <1>0. UserOf[r] \in Users
    BY UsersAssumption
  <1>1. CASE Goes(r, "done") /\ UNCHANGED inFlight
    BY <1>1, CountedKeeps DEF AcquireGate, HoldsUser, HoldsGlobal, Phases
  <1>2. CASE /\ inFlight[UserOf[r]] < AtLeastOne(UserLimit)
             /\ Goes(r, "global")
             /\ inFlight' = [inFlight EXCEPT ![UserOf[r]] = inFlight[UserOf[r]] + 1]
    <2>1. phase[r] \notin HoldsUser /\ "global" \in HoldsUser
          /\ phase[r] \notin HoldsGlobal /\ "global" \notin HoldsGlobal
      BY DEF AcquireGate, HoldsUser, HoldsGlobal, Phases
    <2>2. \A u : Cardinality(HoldingFor(u, HoldsUser))' =
                 Cardinality(HoldingFor(u, HoldsUser)) + (IF UserOf[r] = u THEN 1 ELSE 0)
      BY <1>2, <2>1, Enters
    <2>3. Holding(HoldsGlobal)' = Holding(HoldsGlobal)
      BY <1>2, <2>1, Stays
    <2>4. \A u \in Users : inFlight'[u] = inFlight[u] + (IF UserOf[r] = u THEN 1 ELSE 0)
      BY <1>0, <1>2 DEF TypeOK
    <2>5. PlacesAreCounted'
      BY <2>2, <2>3, <2>4 DEF PlacesCounted, PlacesAreCounted, AcquireGate
    <2>6. \A u \in Users : inFlight'[u] <= AtLeastOne(UserLimit)
      BY <1>2, <2>4, LimitsAssumption DEF PlacesCounted, TypeOK, AtLeastOne
    <2>. QED  BY <2>5, <2>6 DEF PlacesCounted, AcquireGate
  <1>. QED  BY <1>1, <1>2 DEF AcquireGate

\* The server's places: one is taken, or none is left and the gate's goes.
LEMMA CountedEntersServer ==
    ASSUME TypeOK, PlacesCounted, NEW r \in Requests, AcquireGlobal(r)
    PROVE  PlacesCounted'
  <1>1. CASE global >= AtLeastOne(GlobalLimit)
    BY <1>1, CountedKeeps DEF AcquireGlobal, HoldsUser, HoldsGlobal, Phases
  <1>2. CASE ~(global >= AtLeastOne(GlobalLimit))
    <2>1. /\ phase[r] \in HoldsUser /\ "reserve" \in HoldsUser
          /\ phase[r] \notin HoldsGlobal /\ "reserve" \in HoldsGlobal
          /\ Goes(r, "reserve") /\ global' = global + 1
      BY <1>2 DEF AcquireGlobal, HoldsUser, HoldsGlobal, Phases
    <2>2. Cardinality(Holding(HoldsGlobal))' = Cardinality(Holding(HoldsGlobal)) + 1
      BY <2>1, Enters
    <2>3. \A u : HoldingFor(u, HoldsUser)' = HoldingFor(u, HoldsUser)
      BY <2>1, Stays
    <2>4. PlacesAreCounted'
      BY <2>1, <2>2, <2>3 DEF PlacesCounted, PlacesAreCounted, AcquireGlobal
    <2>5. global' <= AtLeastOne(GlobalLimit)
      BY <1>2, <2>1, LimitsAssumption DEF TypeOK, AtLeastOne
    <2>. QED  BY <2>4, <2>5 DEF PlacesCounted, AcquireGlobal
  <1>. QED  BY <1>1, <1>2

\* The guards give back what was taken: the counters do not stop at nothing.
LEMMA CountedLeaves ==
    ASSUME TypeOK, PlacesCounted, NEW r \in Requests, Guards(r)
    PROVE  PlacesCounted'
  <1>0. UserOf[r] \in Users
    BY UsersAssumption
  <1>1. CASE DropGlobal(r)
    <2>1. /\ phase[r] \in HoldsUser /\ "letUser" \in HoldsUser
          /\ phase[r] \in HoldsGlobal /\ "letUser" \notin HoldsGlobal
          /\ Goes(r, "letUser")
      BY <1>1 DEF DropGlobal, HoldsUser, HoldsGlobal, Phases
    <2>2. /\ Cardinality(Holding(HoldsGlobal))' = Cardinality(Holding(HoldsGlobal)) - 1
          /\ Cardinality(Holding(HoldsGlobal)) > 0
      BY <2>1, LeavesPlace
    <2>3. \A u : HoldingFor(u, HoldsUser)' = HoldingFor(u, HoldsUser)
      BY <2>1, Stays
    <2>4. global' = global - 1
      BY <1>1, <2>2 DEF DropGlobal, PlacesCounted, PlacesAreCounted
    <2>5. PlacesAreCounted'
      BY <1>1, <2>2, <2>3, <2>4 DEF PlacesCounted, PlacesAreCounted, DropGlobal
    <2>. QED  BY <1>1, <2>4, <2>5, LimitsAssumption DEF PlacesCounted, DropGlobal, TypeOK, AtLeastOne
  <1>2. CASE DropGate(r)
    <2>1. /\ phase[r] \in HoldsUser /\ "done" \notin HoldsUser
          /\ phase[r] \notin HoldsGlobal /\ "done" \notin HoldsGlobal
          /\ Goes(r, "done")
      BY <1>2 DEF DropGate, HoldsUser, HoldsGlobal, Phases
    <2>2. /\ \A u : Cardinality(HoldingFor(u, HoldsUser))' =
                     Cardinality(HoldingFor(u, HoldsUser)) - (IF UserOf[r] = u THEN 1 ELSE 0)
          /\ Cardinality(HoldingFor(UserOf[r], HoldsUser)) > 0
      BY <2>1, LeavesPlace
    <2>3. Holding(HoldsGlobal)' = Holding(HoldsGlobal)
      BY <2>1, Stays
    <2>4. inFlight[UserOf[r]] > 0
      BY <1>0, <2>2 DEF PlacesCounted, PlacesAreCounted
    <2>5. \A u \in Users : inFlight'[u] = inFlight[u] - (IF UserOf[r] = u THEN 1 ELSE 0)
      BY <1>0, <1>2, <2>4 DEF DropGate, TypeOK
    <2>6. PlacesAreCounted'
      BY <1>2, <2>2, <2>3, <2>5 DEF PlacesCounted, PlacesAreCounted, DropGate
    <2>7. \A u \in Users : inFlight'[u] <= AtLeastOne(UserLimit)
      BY <2>5, LimitsAssumption DEF PlacesCounted, TypeOK, AtLeastOne
    <2>. QED  BY <1>2, <2>6, <2>7 DEF PlacesCounted, DropGate
  <1>. QED  BY <1>1, <1>2 DEF Guards

\* A crash ends every request and both counts.
LEMMA CountedCrashes ==
    ASSUME TypeOK, PlacesCounted, Crash
    PROVE  PlacesCounted'
  <1>1. \A r \in Requests : phase'[r] \in {"new", "done"}
    BY DEF Crash
  <1>2. Holding(HoldsGlobal)' = {} /\ \A u : HoldingFor(u, HoldsUser)' = {}
    BY <1>1 DEF Holding, HoldingFor, HoldsGlobal, HoldsUser
  <1>3. PlacesAreCounted'
    BY <1>2, FS_EmptySet DEF PlacesAreCounted, Crash
  <1>. QED  BY <1>3, LimitsAssumption DEF PlacesCounted, Crash, AtLeastOne

\* The counters count, and keep within the limits.
THEOREM PlacesAreAlwaysCounted == Spec => []PlacesCounted
  <1>1. Init => PlacesCounted
    <2>. SUFFICES ASSUME Init PROVE PlacesCounted
      OBVIOUS
    <2>1. Holding(HoldsGlobal) = {} /\ \A u : HoldingFor(u, HoldsUser) = {}
      BY DEF Init, Holding, HoldingFor, HoldsGlobal, HoldsUser
    <2>2. PlacesAreCounted
      BY <2>1, FS_EmptySet DEF PlacesAreCounted, Init
    <2>. QED  BY <2>2, LimitsAssumption DEF PlacesCounted, Init, AtLeastOne
  <1>2. TypeOK /\ PlacesCounted /\ [Next]_vars => PlacesCounted'
    <2>. SUFFICES ASSUME TypeOK, PlacesCounted, [Next]_vars PROVE PlacesCounted'
      OBVIOUS
    <2>1. CASE UNCHANGED vars \/ AllDone
      BY <2>1, CountedKeeps DEF vars, AllDone
    <2>2. CASE Crash
      BY <2>2, CountedCrashes
    <2>3. ASSUME NEW r \in Requests, Handler(r) PROVE PlacesCounted'
      <3>. USE DEF HoldsUser, HoldsGlobal, Phases
      <3>1. CASE Reserve(r)
        BY <3>1, CountedKeeps DEF Reserve
      <3>2. CASE Forward(r)
        BY <3>2, CountedKeeps DEF Forward, Spawn
      <3>3. CASE ReadErrorBody(r) \/ SettleOnce(r)
        BY <3>3, CountedKeeps DEF ReadErrorBody, SettleOnce
      <3>. QED  BY <2>3, <3>1, <3>2, <3>3, CountedEntersGate, CountedEntersServer DEF Handler
    <2>4. ASSUME NEW r \in Requests, Task(r) \/ StreamEnds(r) PROVE PlacesCounted'
      BY <2>4, CountedKeeps DEF Task, StreamEnds, ReadChunk, SendChunk, Bill, HoldsUser, HoldsGlobal, Phases
    <2>5. ASSUME NEW r \in Requests, Clients(r) PROVE PlacesCounted'
      <3>1. CASE DropHandler(r)
        BY <3>1, CountedKeeps DEF DropHandler, Awaits, HoldsUser, HoldsGlobal, Phases
      <3>2. CASE ClientGoes(r)
        BY <3>2, CountedKeeps DEF ClientGoes
      <3>. QED  BY <2>5, <3>1, <3>2 DEF Clients
    <2>. QED  BY <2>1, <2>2, <2>3, <2>4, <2>5, CountedLeaves DEF Next
  <1>. QED  BY <1>1, <1>2, TypeCorrect, PTL DEF Spec

\* Whoever holds a place is counted for it, and the upstream works for no more
\* requests of one user, or of all, than the limits say.
THEOREM PlacesAlwaysHold == Spec => []PlacesHold
  <1>1. TypeOK /\ PlacesCounted => PlacesHold
    <2>. SUFFICES ASSUME TypeOK, PlacesCounted PROVE UpstreamIsBounded
      BY DEF PlacesCounted, PlacesHold
    <2>1. AtUpstream \subseteq HoldsUser /\ AtUpstream \subseteq HoldsGlobal
      BY DEF AtUpstream, HoldsUser, HoldsGlobal, Phases
    <2>2. ASSUME NEW u \in Users
          PROVE  Cardinality(HoldingFor(u, AtUpstream)) <= AtLeastOne(UserLimit)
      <3>1. HoldingFor(u, AtUpstream) \subseteq HoldingFor(u, HoldsUser)
        BY <2>1 DEF Holding, HoldingFor
      <3>2. Cardinality(HoldingFor(u, AtUpstream)) <= Cardinality(HoldingFor(u, HoldsUser))
        BY <3>1, HoldersAreFinite, FS_Subset
      <3>. QED  BY <3>2, HoldersAreFinite, LimitsAssumption DEF PlacesCounted, PlacesAreCounted, AtLeastOne
    <2>3. Cardinality(Holding(AtUpstream)) <= AtLeastOne(GlobalLimit)
      <3>1. Holding(AtUpstream) \subseteq Holding(HoldsGlobal)
        BY <2>1 DEF Holding
      <3>2. Cardinality(Holding(AtUpstream)) <= Cardinality(Holding(HoldsGlobal))
        BY <3>1, HoldersAreFinite, FS_Subset
      <3>. QED  BY <3>2, HoldersAreFinite, LimitsAssumption DEF PlacesCounted, PlacesAreCounted, AtLeastOne
    <2>. QED  BY <2>2, <2>3 DEF UpstreamIsBounded
  <1>. QED  BY <1>1, TypeCorrect, PlacesAreAlwaysCounted, PTL

------------------------------------------------------------------------------
(* Rows *)

\* A row is there from the reservation on; past its settlement it is closed, or
\* its request is one of the broken.
RowsFollow ==
    \A r \in Requests :
        /\ phase[r] \in {"new", "global", "reserve"} => row[r] = "none"
        /\ phase[r] \in {"letGlobal", "letUser", "done"} /\ row[r] = "open" => r \in broken

\* A row is left open only by a request that was dropped or whose settlement
\* failed, or by a crash.
THEOREM OpenRowsAreAlwaysBroken == Spec => []OpenRowsAreBroken
  <1>1. Init => RowsFollow
    BY DEF Init, RowsFollow
  <1>2. TypeOK /\ RowsFollow /\ [Next]_vars => RowsFollow'
    <2>. SUFFICES ASSUME TypeOK, RowsFollow, [Next]_vars PROVE RowsFollow'
      OBVIOUS
    <2>1. CASE UNCHANGED vars \/ AllDone
      BY <2>1 DEF vars, AllDone, RowsFollow
    <2>2. CASE Crash
      BY <2>2 DEF Crash, RowsFollow, TypeOK, Phases
    <2>3. ASSUME NEW r \in Requests, Steps(r) PROVE RowsFollow'
      <3>. USE DEF RowsFollow, TypeOK, Goes
      <3>1. CASE Handler(r)
        BY <3>1 DEF Handler, AcquireGate, AcquireGlobal, Reserve, Forward, Spawn, ReadErrorBody,
                    SettleOnce, Closes
      <3>2. CASE Task(r) \/ StreamEnds(r)
        BY <3>2 DEF Task, StreamEnds, ReadChunk, SendChunk, Bill, Closes
      <3>3. CASE Guards(r)
        BY <3>3 DEF Guards, DropGlobal, DropGate
      <3>4. CASE Clients(r)
        BY <3>4 DEF Clients, DropHandler, ClientGoes, Awaits
      <3>. QED  BY <2>3, <3>1, <3>2, <3>3, <3>4 DEF Steps
    <2>. QED  BY <2>1, <2>2, <2>3 DEF Next, Steps
  <1>3. RowsFollow => OpenRowsAreBroken
    BY DEF RowsFollow, OpenRowsAreBroken
  <1>. QED  BY <1>1, <1>2, <1>3, TypeCorrect, PTL DEF Spec

------------------------------------------------------------------------------
(* LoginServer. Logs: when an address was let through, when a key failed *)

Ordered(log, t) ==
    /\ log \in Seq(Nat)
    /\ \A a \in 1..Len(log) : log[a] <= t
    /\ \A a, b \in 1..Len(log) : a <= b => log[a] <= log[b]

LEMMA OrderedGrows ==
    ASSUME NEW log, NEW t \in Nat, Ordered(log, t)
    PROVE  /\ Append(log, t) \in Seq(Nat) /\ Len(Append(log, t)) = Len(log) + 1 /\ Len(log) \in Nat
           /\ Append(log, t)[Len(log) + 1] = t
           /\ \A a \in 1..Len(log) : Append(log, t)[a] = log[a] /\ log[a] \in Nat
           /\ Ordered(Append(log, t), t)
  <1>. DEFINE more == Append(log, t)
  <1>1. log \in Seq(Nat) /\ Len(log) \in Nat
    BY DEF Ordered
  <1>2. /\ more \in Seq(Nat) /\ Len(more) = Len(log) + 1 /\ more[Len(log) + 1] = t
        /\ \A a \in 1..Len(log) : more[a] = log[a] /\ log[a] \in Nat
    BY <1>1
  <1>. HIDE DEF more
  <1>3. \A a \in 1..Len(more) : a \in 1..Len(log) \/ a = Len(log) + 1
    BY <1>1, <1>2
  <1>4. /\ \A a \in 1..Len(log) : log[a] <= t
        /\ \A a, b \in 1..Len(log) : a <= b => log[a] <= log[b]
    BY DEF Ordered
  <1>5. \A a \in 1..Len(more) : more[a] <= t
    BY <1>1, <1>2, <1>3, <1>4
  <1>6. ASSUME NEW a \in 1..Len(more), NEW b \in 1..Len(more), a <= b
        PROVE  more[a] <= more[b]
    <2>1. CASE b = Len(log) + 1
      BY <1>2, <1>5, <2>1
    <2>2. CASE b \in 1..Len(log)
      <3>1. a \in 1..Len(log)
        BY <1>1, <1>3, <1>6, <2>2
      <3>. QED  BY <1>2, <1>4, <1>6, <2>2, <3>1
    <2>. QED  BY <1>3, <2>1, <2>2
  <1>7. Ordered(more, t)
    BY <1>2, <1>5, <1>6 DEF Ordered
  <1>. QED  BY <1>1, <1>2, <1>7 DEF more

LEMMA OrderedLater ==
    ASSUME NEW log, NEW t \in Nat, NEW u \in Nat, t <= u, Ordered(log, t)
    PROVE  Ordered(log, u)
  BY DEF Ordered

LEMMA OrderedEmpty == ASSUME NEW t PROVE Ordered(<<>>, t)
  BY DEF Ordered

------------------------------------------------------------------------------
(* The buckets *)

\* In no span of the log more than the capacity and the rate.
Within(log) ==
    \A a, b \in 1..Len(log) : a <= b => (b - a + 1) * Cost <= Burst + (log[b] - log[a]) * Refill

\* A bucket with so many parts at a time has paid for what the log holds: from
\* any admission on, no more has been let through than what has flown in.
Paid(log, parts, at) ==
    \A a \in 1..Len(log) : log[a] <= at /\ (Len(log) - a + 1) * Cost + parts <= Burst + (at - log[a]) * Refill

\* A bucket that is forgotten is a full one.
BucketsHold ==
    \A i \in Ips :
        /\ Ordered(admitted[i], now) /\ Within(admitted[i])
        /\ i \in DOMAIN buckets => Paid(admitted[i], buckets[i].tokens, buckets[i].at)
        /\ i \notin DOMAIN buckets => Paid(admitted[i], Burst, now)

LEMMA Products ==
    /\ \A m, n \in Int : (m + n) * Refill = m * Refill + n * Refill
    /\ \A m \in Int : (m + 1) * Cost = m * Cost + Cost
    /\ \A m \in Nat : m * Refill \in Nat /\ m * Cost \in Nat
  BY BucketAssumption

\* Time fills a bucket, to its capacity at most.
LEMMA PaidLater ==
    ASSUME NEW log, NEW at \in Nat, NEW t \in Nat, at <= t, Ordered(log, at), NEW parts \in Nat, NEW more \in Nat,
           more <= parts + (t - at) * Refill, Paid(log, parts, at)
    PROVE  Paid(log, more, t)
  <1>. SUFFICES ASSUME NEW a \in 1..Len(log)
                PROVE  log[a] <= t /\ (Len(log) - a + 1) * Cost + more <= Burst + (t - log[a]) * Refill
    BY DEF Paid
  <1>1. log[a] \in Nat /\ log[a] <= at /\ Len(log) \in Nat
    BY DEF Ordered
  <1>2. (Len(log) - a + 1) * Cost + parts <= Burst + (at - log[a]) * Refill
    BY DEF Paid
  <1>3. (t - log[a]) * Refill = (at - log[a]) * Refill + (t - at) * Refill
    <2>1. t - log[a] = (at - log[a]) + (t - at)
      BY <1>1
    <2>2. at - log[a] \in Int /\ t - at \in Int
      BY <1>1
    <2>. QED  BY <2>1, <2>2, Products
  <1>. DEFINE due == (Len(log) - a + 1) * Cost
              flown == (at - log[a]) * Refill
              after == (t - at) * Refill
  <1>4. due \in Int /\ flown \in Int /\ after \in Int /\ Burst \in Nat
    BY <1>1, BucketAssumption
  <1>5. due + parts <= Burst + flown /\ (t - log[a]) * Refill = flown + after /\ more <= parts + after
    BY <1>2, <1>3
  <1>. HIDE DEF due, flown, after
  <1>6. due + more <= Burst + (flown + after)
    BY <1>4, <1>5
  <1>. QED  BY <1>1, <1>5, <1>6 DEF due

\* Who is let through pays.
LEMMA PaidNow ==
    ASSUME NEW log, NEW t \in Nat, Ordered(log, t), Within(log), NEW parts \in Nat, parts >= Cost, parts <= Burst,
           Paid(log, parts, t)
    PROVE  Within(Append(log, t)) /\ Paid(Append(log, t), parts - Cost, t)
  <1>. DEFINE more == Append(log, t)
              n == Len(log)
  <1>1. /\ Len(more) = n + 1 /\ n \in Nat /\ more[n + 1] = t
        /\ \A a \in 1..n : more[a] = log[a] /\ log[a] \in Nat /\ log[a] <= t
    BY OrderedGrows DEF Ordered
  <1>. HIDE DEF more, n
  <1>2. ASSUME NEW a \in 1..(n + 1)
        PROVE  /\ more[a] \in Nat /\ more[a] <= t
               /\ (n + 1 - a + 1) * Cost + (parts - Cost) <= Burst + (t - more[a]) * Refill
    <2>1. CASE a = n + 1
      <3>1. n + 1 - a + 1 = 1 /\ t - more[a] = 0 /\ more[a] = t
        BY <1>1, <2>1
      <3>2. (n + 1 - a + 1) * Cost = Cost /\ (t - more[a]) * Refill = 0
        BY <3>1, BucketAssumption
      <3>. QED  BY <3>1, <3>2, BucketAssumption
    <2>2. CASE a \in 1..n
      <3>1. more[a] = log[a] /\ log[a] \in Nat /\ log[a] <= t
        BY <1>1, <2>2
      <3>2. (n - a + 1) * Cost + parts <= Burst + (t - log[a]) * Refill
        BY <2>2 DEF Paid, n
      <3>3. (n + 1 - a + 1) * Cost = (n - a + 1) * Cost + Cost
        <4>1. n + 1 - a + 1 = (n - a + 1) + 1 /\ n - a + 1 \in Int
          BY <1>1
        <4>. QED  BY <4>1, Products
      <3>. DEFINE due == (n - a + 1) * Cost
                  flown == (t - log[a]) * Refill
      <3>4. due \in Int /\ flown \in Int /\ Burst \in Nat /\ Cost \in Nat
        BY <1>1, <3>1, BucketAssumption
      <3>5. due + parts <= Burst + flown /\ (n + 1 - a + 1) * Cost = due + Cost
        BY <3>2, <3>3
      <3>. HIDE DEF due, flown
      <3>6. due + Cost + (parts - Cost) <= Burst + flown
        BY <3>4, <3>5
      <3>. QED  BY <3>1, <3>5, <3>6 DEF flown
    <2>. QED  BY <1>1, <2>1, <2>2
  <1>3. Paid(more, parts - Cost, t)
    BY <1>1, <1>2 DEF Paid
  <1>4. ASSUME NEW a \in 1..(n + 1), NEW b \in 1..(n + 1), a <= b
        PROVE  (b - a + 1) * Cost <= Burst + (more[b] - more[a]) * Refill
    <2>1. CASE b = n + 1
      <3>. DEFINE due == (n + 1 - a + 1) * Cost
                  flown == (t - more[a]) * Refill
      <3>1. more[a] \in Nat /\ due + (parts - Cost) <= Burst + flown
        BY <1>2
      <3>2. due \in Int /\ flown \in Int /\ Burst \in Nat /\ Cost \in Nat
        BY <1>1, <3>1, BucketAssumption
      <3>3. (b - a + 1) * Cost = due /\ (more[b] - more[a]) * Refill = flown
        BY <1>1, <2>1
      <3>. HIDE DEF due, flown
      <3>. QED  BY <3>1, <3>2, <3>3
    <2>2. CASE b \in 1..n
      <3>1. a \in 1..n /\ more[a] = log[a] /\ more[b] = log[b]
        BY <1>1, <1>4, <2>2
      <3>. QED  BY <1>4, <2>2, <3>1 DEF Within, n
    <2>. QED  BY <1>1, <2>1, <2>2
  <1>5. Within(more)
    BY <1>1, <1>4 DEF Within
  <1>. QED  BY <1>3, <1>5 DEF more

------------------------------------------------------------------------------
(* The lockout *)

\* For how many failures a key's log may run ahead of its window.
Slack(block) == (IF block = 0 THEN 1 ELSE 2) * (Threshold - 1)

\* What the guard knows of a key: the failures before those it counts are as old
\* as its window, and the ones before the last window's are out of it; before
\* the two last ones', if the end of a block has cut one short.
StateHolds(s, log, block, t) ==
    /\ s \in [count : 0..(Threshold - 1), first : Nat, until : Nat]
    /\ s.first <= t /\ s.count <= Len(log)
    /\ s.until > 0 => s.until = block
    /\ \A a \in 1..Len(log) : a <= Len(log) - s.count => log[a] <= s.first
    /\ \A a \in 1..Len(log) :
          a <= Len(log) - s.count - (IF s.until > 0 THEN Threshold - 1 ELSE Slack(block)) => log[a] + Window <= s.first

\* What it has forgotten of one no longer counts.
GoneHolds(log, block, t) ==
    \A a \in 1..Len(log) : a <= Len(log) - Slack(block) => log[a] + Window <= t

Spaced(log, block) ==
    \A a, b \in 1..Len(log) : b = a + Slack(block) + (Threshold - 1) => log[b] >= log[a] + Window

KeyHolds(k) ==
    /\ Ordered(failed[k], now) /\ Spaced(failed[k], blocked[k]) /\ blocked[k] \in Nat
    /\ k \in DOMAIN states => StateHolds(states[k], failed[k], blocked[k], now)
    /\ k \notin DOMAIN states => GoneHolds(failed[k], blocked[k], now)
    /\ blocked[k] > now => k \in DOMAIN states /\ states[k].until = blocked[k]
KeysHold == \A k \in Keys : KeyHolds(k)

Stages == {"admitted", "allowed", "refused", "verify", "failed", "failedEmail", "succeeded", "succeededEmail"}
LoginTypes ==
    /\ now \in Nat
    /\ DOMAIN buckets \subseteq Ips
    /\ \A i \in DOMAIN buckets : buckets[i] \in [tokens : 0..Burst, at : Nat] /\ buckets[i].at <= now
    /\ DOMAIN states \subseteq Keys
    /\ accounts \subseteq Emails
    /\ request \in [Handlers -> {NoRequest} \cup [st : Stages, ip : Ips, email : Emails]]
    /\ DOMAIN admitted = Ips /\ DOMAIN failed = Keys /\ DOMAIN blocked = Keys

LoginInv == LoginTypes /\ BucketsHold /\ KeysHold

LEMMA Thresholds ==
    /\ Threshold \in Nat /\ Threshold - 1 \in Nat /\ Window \in Nat /\ Window > 0 /\ Block \in Nat /\ Block > 0
    /\ \A block \in Nat : Slack(block) \in Nat /\ Slack(block) >= Threshold - 1
    /\ \A block \in Nat : block > 0 => Slack(block) = (Threshold - 1) + (Threshold - 1)
  BY GuardAssumption DEF Slack

\* The end of a block and that of a window.
LEMMA Lapses ==
    ASSUME NEW s, NEW log, NEW block \in Nat, StateHolds(s, log, block, now), now \in Nat, Lapsed(s), Ordered(log, now)
    PROVE  GoneHolds(log, block, now)
  <1>. SUFFICES ASSUME NEW a \in 1..Len(log), a <= Len(log) - Slack(block)
                PROVE  log[a] + Window <= now
    BY DEF GoneHolds
  <1>0. /\ Threshold \in Nat /\ Threshold - 1 \in Nat /\ Window \in Nat
        /\ Slack(block) \in Nat /\ Slack(block) >= Threshold - 1
        /\ block > 0 => Slack(block) = (Threshold - 1) + (Threshold - 1)
    BY Thresholds
  <1>1. /\ s.count \in Nat /\ s.count <= Threshold - 1 /\ s.first \in Nat /\ s.until \in Nat /\ s.first <= now
        /\ log[a] \in Nat /\ Len(log) \in Nat
    <2>1. s \in [count : 0..(Threshold - 1), first : Nat, until : Nat] /\ s.first <= now
      BY DEF StateHolds
    <2>2. s.count \in 0..(Threshold - 1)
      BY <2>1
    <2>. QED  BY <1>0, <2>1, <2>2 DEF Ordered
  <1>2. CASE s.until > 0
    <2>1. block > 0 /\ Slack(block) = (Threshold - 1) + (Threshold - 1)
      BY <1>0, <1>1, <1>2 DEF StateHolds
    <2>2. a <= Len(log) - s.count - (Threshold - 1)
      BY <1>0, <1>1, <2>1
    <2>3. log[a] + Window <= s.first
      BY <1>2, <2>2 DEF StateHolds
    <2>. QED  BY <1>0, <1>1, <2>3
  <1>3. CASE ~(s.until > 0)
    <2>1. now - s.first >= Window
      BY <1>3 DEF Lapsed
    <2>2. a <= Len(log) - s.count
      BY <1>0, <1>1
    <2>3. log[a] <= s.first
      BY <2>2 DEF StateHolds
    <2>. QED  BY <1>0, <1>1, <2>1, <2>3
  <1>. QED  BY <1>2, <1>3

\* A key that was forgotten begins a window.
LEMMA FreshHolds ==
    ASSUME NEW log, NEW block \in Nat, now \in Nat, Ordered(log, now), GoneHolds(log, block, now)
    PROVE  StateHolds(Fresh, log, block, now)
  <1>1. Fresh.count = 0 /\ Fresh.first = now /\ Fresh.until = 0 /\ Len(log) \in Nat
    BY DEF Fresh, Ordered
  <1>2. Fresh \in [count : 0..(Threshold - 1), first : Nat, until : Nat]
    BY Thresholds DEF Fresh
  <1>3. \A a \in 1..Len(log) : log[a] <= Fresh.first
    BY <1>1 DEF Ordered
  <1>4. \A a \in 1..Len(log) : a <= Len(log) - Fresh.count - Slack(block) => log[a] + Window <= Fresh.first
    BY <1>1, Thresholds DEF GoneHolds
  <1>. QED  BY <1>1, <1>2, <1>3, <1>4 DEF StateHolds

\* One more failure, which does not reach the threshold.
LEMMA CountedHolds ==
    ASSUME NEW s, NEW log, NEW block \in Nat, now \in Nat, Ordered(log, now), Spaced(log, block),
           StateHolds(s, log, block, now), Counted(s).count < Threshold
    PROVE  StateHolds(Counted(s), Append(log, now), block, now) /\ Spaced(Append(log, now), block)
  <1>. DEFINE c == Counted(s)
              more == Append(log, now)
              n == Len(log)
              slack == IF s.until > 0 THEN Threshold - 1 ELSE Slack(block)
  <1>1. /\ s \in [count : 0..(Threshold - 1), first : Nat, until : Nat] /\ s.first <= now /\ s.count <= n
        /\ s.until > 0 => s.until = block
        /\ \A a \in 1..n : a <= n - s.count => log[a] <= s.first
        /\ \A a \in 1..n : a <= n - s.count - slack => log[a] + Window <= s.first
    BY DEF StateHolds
  <1>2. /\ Len(more) = n + 1 /\ n \in Nat /\ more[n + 1] = now
        /\ \A a \in 1..n : more[a] = log[a] /\ log[a] \in Nat /\ log[a] <= now
    BY OrderedGrows DEF Ordered
  <1>3. /\ slack \in Nat /\ slack >= Threshold - 1 /\ slack <= Slack(block) /\ Slack(block) \in Nat
        /\ Threshold \in Nat /\ Threshold - 1 \in Nat /\ Window \in Nat
    BY Thresholds
  <1>4. /\ c.until = s.until /\ c.first \in Nat /\ c.first <= now /\ c.count \in 1..(Threshold - 1)
        /\ c \in [count : 0..(Threshold - 1), first : Nat, until : Nat] /\ c.count <= n + 1
        /\ \/ now - s.first >= Window /\ c.count = 1 /\ c.first = now
           \/ c.count = s.count + 1 /\ c.first = s.first
    <2>1. s.count \in 0..(Threshold - 1) /\ s.first \in Nat /\ s.until \in Nat
      BY <1>1
    <2>2. CASE now - s.first >= Window
      <3>1. c = [count |-> 1, first |-> now, until |-> s.until]
        BY <1>1, <2>2 DEF Counted
      <3>2. c.count < Threshold
        OBVIOUS
      <3>. HIDE DEF c
      <3>. QED  BY <1>2, <1>3, <2>1, <2>2, <3>1, <3>2
    <2>3. CASE ~(now - s.first >= Window)
      <3>1. c = [count |-> s.count + 1, first |-> s.first, until |-> s.until]
        BY <1>1, <2>3 DEF Counted
      <3>2. c.count < Threshold
        OBVIOUS
      <3>. HIDE DEF c
      <3>. QED  BY <1>1, <1>2, <1>3, <2>1, <3>1, <3>2
    <2>. QED  BY <2>2, <2>3
  <1>. HIDE DEF c, more, n, slack
  <1>5. ASSUME NEW a \in 1..(n + 1), a <= n + 1 - c.count
        PROVE  more[a] \in Nat /\ more[a] <= c.first
    <2>1. a \in 1..n /\ more[a] = log[a] /\ log[a] \in Nat
      BY <1>2, <1>4, <1>5
    <2>2. CASE c.first = now
      BY <1>2, <2>1, <2>2
    <2>3. CASE c.count = s.count + 1 /\ c.first = s.first
      <3>1. a <= n - s.count
        BY <1>1, <1>2, <1>5, <2>3
      <3>. QED  BY <1>1, <2>1, <2>3, <3>1
    <2>. QED  BY <1>4, <2>2, <2>3
  <1>6. ASSUME NEW a \in 1..(n + 1), a <= n + 1 - c.count - slack
        PROVE  more[a] \in Nat /\ more[a] + Window <= c.first
    <2>1. a \in 1..n /\ more[a] = log[a] /\ log[a] \in Nat
      <3>1. n \in Nat /\ slack \in Nat /\ c.count \in Nat /\ c.count >= 1
        BY <1>2, <1>3, <1>4
      <3>2. a \in 1..n
        BY <1>6, <3>1
      <3>. QED  BY <1>2, <3>2
    <2>2. CASE now - s.first >= Window /\ c.count = 1 /\ c.first = now
      <3>1. a <= n - s.count
        BY <1>1, <1>2, <1>3, <1>6, <2>2
      <3>2. log[a] <= s.first
        BY <1>1, <2>1, <3>1
      <3>. QED  BY <1>1, <1>3, <2>1, <2>2, <3>2
    <2>3. CASE c.count = s.count + 1 /\ c.first = s.first
      <3>1. a <= n - s.count - slack
        BY <1>1, <1>2, <1>3, <1>6, <2>3
      <3>. QED  BY <1>1, <2>1, <2>3, <3>1
    <2>. QED  BY <1>4, <2>2, <2>3
  <1>7. StateHolds(c, more, block, now)
    <2>1. slack = IF c.until > 0 THEN Threshold - 1 ELSE Slack(block)
      BY <1>4 DEF slack
    <2>2. /\ \A a \in 1..Len(more) : a <= Len(more) - c.count => more[a] <= c.first
          /\ \A a \in 1..Len(more) : a <= Len(more) - c.count - slack => more[a] + Window <= c.first
      <3>1. n \in Nat /\ Len(more) = n + 1
        BY <1>2
      <3>2. c.count \in Nat /\ slack \in Nat
        BY <1>3, <1>4
      <3>3. ASSUME NEW a \in 1..Len(more), a <= Len(more) - c.count
            PROVE  more[a] <= c.first
        <4>1. a \in 1..(n + 1) /\ a <= n + 1 - c.count
          BY <3>1, <3>2, <3>3
        <4>. QED  BY <1>5, <4>1
      <3>4. ASSUME NEW a \in 1..Len(more), a <= Len(more) - c.count - slack
            PROVE  more[a] + Window <= c.first
        <4>1. a \in 1..(n + 1) /\ a <= n + 1 - c.count - slack
          BY <3>1, <3>2, <3>4
        <4>. QED  BY <1>6, <4>1
      <3>. QED  BY <3>3, <3>4
    <2>3. c.until > 0 => c.until = block
      BY <1>1, <1>4
    <2>4. \A a \in 1..Len(more) :
             a <= Len(more) - c.count - (IF c.until > 0 THEN Threshold - 1 ELSE Slack(block)) => more[a] + Window <= c.first
      BY <2>1, <2>2
    <2>5. c.count <= Len(more)
      BY <1>2, <1>4
    <2>. QED  BY <1>4, <2>2, <2>3, <2>4, <2>5 DEF StateHolds
  <1>8. ASSUME NEW a \in 1..(n + 1), NEW b \in 1..(n + 1), b = a + Slack(block) + (Threshold - 1)
        PROVE  more[b] >= more[a] + Window
    <2>1. CASE b = n + 1
      <3>1. a <= n + 1 - c.count - slack
        <4>1. c.count \in Nat /\ slack \in Nat /\ n \in Nat
          BY <1>2, <1>3, <1>4
        <4>2. slack <= Slack(block) /\ c.count <= Threshold - 1 /\ Slack(block) \in Nat /\ Threshold \in Nat
          BY <1>3, <1>4
        <4>. QED  BY <1>8, <2>1, <4>1, <4>2
      <3>2. more[a] \in Nat /\ more[a] + Window <= c.first
        BY <1>6, <3>1
      <3>. QED  BY <1>2, <1>3, <1>4, <2>1, <3>2
    <2>2. CASE b \in 1..n
      <3>1. a \in 1..n /\ more[a] = log[a] /\ more[b] = log[b]
        BY <1>2, <1>3, <1>8, <2>2
      <3>. QED  BY <1>8, <2>2, <3>1 DEF Spaced, n
    <2>. QED  BY <1>2, <2>1, <2>2
  <1>9. Spaced(more, block)
    BY <1>2, <1>8 DEF Spaced
  <1>. QED  BY <1>7, <1>9 DEF c, more

------------------------------------------------------------------------------
(* Tables *)

LEMMA WithoutFacts ==
    ASSUME NEW f, NEW k
    PROVE  DOMAIN Without(f, k) = DOMAIN f \ {k} /\ \A x \in DOMAIN f \ {k} : Without(f, k)[x] = f[x]
  BY DEF Without, Restrict

LEMMA RestrictFacts ==
    ASSUME NEW f, NEW S
    PROVE  DOMAIN Restrict(f, S) = S /\ \A x \in S : Restrict(f, S)[x] = f[x]
  BY DEF Restrict

------------------------------------------------------------------------------
(* TokenBucket::check keeps what the buckets promise *)

\* What of the log counts, and what is left of the buckets.
CheckedLog(i) == IF Reset(buckets) THEN <<>> ELSE admitted[i]

LEMMA KeptBuckets ==
    ASSUME LoginTypes, BucketsHold, NEW i \in Ips
    PROVE  /\ Ordered(CheckedLog(i), now) /\ Within(CheckedLog(i))
           /\ DOMAIN Kept(buckets) \subseteq Ips
           /\ i \in DOMAIN Kept(buckets) =>
                 /\ Kept(buckets)[i] \in [tokens : 0..Burst, at : Nat] /\ Kept(buckets)[i].at <= now
                 /\ Ordered(CheckedLog(i), Kept(buckets)[i].at)
                 /\ Paid(CheckedLog(i), Kept(buckets)[i].tokens, Kept(buckets)[i].at)
           /\ i \notin DOMAIN Kept(buckets) => Paid(CheckedLog(i), Burst, now)
  <1>. DEFINE log == CheckedLog(i)
              kept == Kept(buckets)
              left == Restrict(buckets, NotFull(buckets))
  <1>1. now \in Nat /\ Burst \in Nat /\ Ordered(admitted[i], now) /\ Within(admitted[i])
    BY BucketAssumption DEF LoginTypes, BucketsHold
  <1>2. Ordered(<<>>, now) /\ Within(<<>>) /\ \A parts, at : Paid(<<>>, parts, at)
    BY OrderedEmpty DEF Within, Paid
  <1>3. Ordered(log, now) /\ Within(log)
    BY <1>1, <1>2 DEF CheckedLog
  <1>4. DOMAIN left = NotFull(buckets) /\ NotFull(buckets) \subseteq DOMAIN buckets
        /\ \A x \in NotFull(buckets) : left[x] = buckets[x]
    <2>1. NotFull(buckets) \subseteq DOMAIN buckets
      BY DEF NotFull
    <2>. QED  BY <2>1, RestrictFacts
  <1>5. CASE Reset(buckets)
    <2>1. kept = <<>> /\ log = <<>>
      BY <1>4, <1>5 DEF Kept, Evicted, Reset, CheckedLog
    <2>2. DOMAIN kept = {}
      BY <2>1
    <2>. QED  BY <1>2, <1>3, <2>1, <2>2
  <1>6. CASE ~Reset(buckets)
    <2>1. log = admitted[i]
      BY <1>6 DEF CheckedLog
    <2>2. kept = buckets \/ kept = left
      BY <1>4, <1>6 DEF Kept, Evicted, Reset
    <2>3. DOMAIN kept \subseteq DOMAIN buckets /\ \A x \in DOMAIN kept : kept[x] = buckets[x]
      BY <1>4, <2>2
    <2>4. DOMAIN buckets \subseteq Ips
      BY DEF LoginTypes
    <2>5. ASSUME i \in DOMAIN buckets
          PROVE  /\ buckets[i] \in [tokens : 0..Burst, at : Nat] /\ buckets[i].at <= now
                 /\ Paid(log, buckets[i].tokens, buckets[i].at)
                 /\ Ordered(log, buckets[i].at)
      <3>1. buckets[i] \in [tokens : 0..Burst, at : Nat] /\ buckets[i].at <= now
            /\ Paid(log, buckets[i].tokens, buckets[i].at)
        BY <2>1, <2>5 DEF LoginTypes, BucketsHold
      <3>2. Ordered(log, buckets[i].at)
        BY <1>3, <3>1 DEF Ordered, Paid
      <3>. QED  BY <3>1, <3>2
    <2>6. ASSUME i \notin DOMAIN kept
          PROVE  Paid(log, Burst, now)
      <3>1. CASE i \notin DOMAIN buckets
        BY <2>1, <3>1 DEF BucketsHold
      <3>2. CASE i \in DOMAIN buckets
        <4>1. ~(buckets[i].tokens + (now - buckets[i].at) * Refill < Burst)
          BY <1>4, <2>2, <2>6, <3>2 DEF NotFull
        <4>. DEFINE b == buckets[i]
        <4>2. /\ b.tokens \in Nat /\ b.at \in Nat /\ b.at <= now /\ Ordered(log, b.at) /\ Paid(log, b.tokens, b.at)
              /\ (now - b.at) * Refill \in Nat
          <5>1. b.tokens \in 0..Burst /\ b.at \in Nat /\ b.at <= now /\ Ordered(log, b.at) /\ Paid(log, b.tokens, b.at)
            BY <2>5, <3>2
          <5>. HIDE DEF b
          <5>2. now - b.at \in Nat
            BY <1>1, <5>1
          <5>3. (now - b.at) * Refill \in Nat
            BY <5>2, Products
          <5>4. b.tokens \in Nat
            BY <1>1, <5>1
          <5>. QED  BY <5>1, <5>3, <5>4
        <4>3. Burst <= b.tokens + (now - b.at) * Refill
          <5>. DEFINE flown == (now - b.at) * Refill
          <5>1. ~(b.tokens + flown < Burst) /\ flown \in Nat
            BY <4>1, <4>2
          <5>. HIDE DEF flown
          <5>2. Burst <= b.tokens + flown
            BY <1>1, <4>2, <5>1
          <5>. QED  BY <5>2 DEF flown
        <4>. HIDE DEF b
        <4>. QED  BY <1>1, <4>2, <4>3, PaidLater
      <3>. QED  BY <3>1, <3>2
    <2>. QED  BY <1>3, <2>3, <2>4, <2>5, <2>6
  <1>. QED  BY <1>5, <1>6

LEMMA CheckHolds ==
    ASSUME LoginTypes, BucketsHold, NEW k \in Ips,
           buckets' = Check(k).buckets, admitted' = Check(k).admitted, now' = now
    PROVE  /\ BucketsHold' /\ DOMAIN buckets' \subseteq Ips /\ DOMAIN admitted' = Ips
           /\ \A i \in DOMAIN buckets' : buckets'[i] \in [tokens : 0..Burst, at : Nat] /\ buckets'[i].at <= now
  <1>. DEFINE kept == Kept(buckets)
              parts == IF k \in DOMAIN kept THEN Refilled(kept[k]) ELSE Burst
              ok == parts >= Cost
              log == CheckedLog(k)
              b == [tokens |-> IF ok THEN parts - Cost ELSE parts, at |-> now]
              logs == IF Reset(buckets) THEN [i \in Ips |-> <<>>] ELSE admitted
  <1>1. now \in Nat /\ Burst \in Nat /\ Cost \in Nat /\ Cost > 0 /\ DOMAIN admitted = Ips
    BY BucketAssumption DEF LoginTypes
  <1>2. /\ buckets' = With(kept, k, b)
        /\ admitted' = IF ok THEN [logs EXCEPT ![k] = Append(logs[k], now)] ELSE logs
    BY DEF Check
  <1>3. DOMAIN logs = Ips /\ \A i \in Ips : logs[i] = CheckedLog(i)
    BY <1>1 DEF CheckedLog
  <1>4. Ordered(log, now) /\ Within(log) /\ DOMAIN kept \subseteq Ips
    BY KeptBuckets
  <1>5. parts \in 0..Burst /\ Paid(log, parts, now)
    <2>1. CASE k \notin DOMAIN kept
      BY <1>1, <2>1, KeptBuckets
    <2>2. CASE k \in DOMAIN kept
      <3>. DEFINE old == kept[k]
                  flown == (now - old.at) * Refill
      <3>1. old \in [tokens : 0..Burst, at : Nat] /\ old.at <= now /\ Ordered(log, old.at) /\ Paid(log, old.tokens, old.at)
        BY <2>2, KeptBuckets
      <3>2. parts = Least(old.tokens + flown, Burst)
        BY <2>2 DEF Refilled
      <3>. HIDE DEF old
      <3>3. old.tokens \in 0..Burst /\ old.at \in Nat /\ now - old.at \in Nat
        BY <1>1, <3>1
      <3>4. flown \in Nat
        BY <3>3, Products
      <3>. HIDE DEF flown, parts
      <3>5. parts \in 0..Burst /\ parts <= old.tokens + flown
        BY <1>1, <3>2, <3>3, <3>4 DEF Least
      <3>6. parts \in Nat /\ old.tokens \in Nat /\ parts <= old.tokens + (now - old.at) * Refill
        BY <3>3, <3>5 DEF flown
      <3>. QED  BY <1>1, <3>1, <3>3, <3>5, <3>6, PaidLater
    <2>. QED  BY <2>1, <2>2
  <1>. HIDE DEF kept, parts
  <1>6. b \in [tokens : 0..Burst, at : Nat] /\ b.at = now /\ b.tokens = IF ok THEN parts - Cost ELSE parts
    BY <1>1, <1>5
  <1>. HIDE DEF logs, b
  <1>7. /\ DOMAIN admitted' = Ips
        /\ admitted'[k] = IF ok THEN Append(log, now) ELSE log
        /\ \A i \in Ips \ {k} : admitted'[i] = CheckedLog(i)
    BY <1>2, <1>3
  <1>8. /\ DOMAIN buckets' = DOMAIN kept \cup {k} /\ buckets'[k] = b
        /\ \A i \in DOMAIN kept \ {k} : buckets'[i] = kept[i]
    BY <1>2 DEF With
  <1>9. Ordered(admitted'[k], now) /\ Within(admitted'[k]) /\ Paid(admitted'[k], b.tokens, b.at)
    <2>1. CASE ok
      <3>1. Within(Append(log, now)) /\ Paid(Append(log, now), parts - Cost, now)
        BY <1>1, <1>4, <1>5, <2>1, PaidNow
      <3>2. Ordered(Append(log, now), now)
        BY <1>1, <1>4, OrderedGrows
      <3>. QED  BY <1>6, <1>7, <2>1, <3>1, <3>2
    <2>2. CASE ~ok
      BY <1>4, <1>5, <1>6, <1>7, <2>2
    <2>. QED  BY <2>1, <2>2
  <1>10. BucketsHold'
    <2>1. ASSUME NEW i \in Ips
          PROVE  /\ Ordered(admitted'[i], now) /\ Within(admitted'[i])
                 /\ i \in DOMAIN buckets' => Paid(admitted'[i], buckets'[i].tokens, buckets'[i].at)
                 /\ i \notin DOMAIN buckets' => Paid(admitted'[i], Burst, now)
      <3>1. CASE i = k
        BY <1>8, <1>9, <3>1
      <3>2. CASE i # k
        BY <1>7, <1>8, <3>2, KeptBuckets DEF kept
      <3>. QED  BY <3>1, <3>2
    <2>. QED  BY <2>1 DEF BucketsHold
  <1>11. \A i \in DOMAIN buckets' : buckets'[i] \in [tokens : 0..Burst, at : Nat] /\ buckets'[i].at <= now
    <2>1. ASSUME NEW i \in DOMAIN kept
          PROVE  kept[i] \in [tokens : 0..Burst, at : Nat] /\ kept[i].at <= now
      BY <1>4, <2>1, KeptBuckets DEF kept
    <2>. QED  BY <1>1, <1>6, <1>8, <2>1
  <1>. QED  BY <1>4, <1>7, <1>8, <1>10, <1>11

------------------------------------------------------------------------------
(* FailureGuard: check, record_failure and record_success *)

LEMMA StateKnown ==
    ASSUME LoginTypes, KeysHold, NEW k \in Keys
    PROVE  /\ now \in Nat /\ Ordered(failed[k], now) /\ Spaced(failed[k], blocked[k]) /\ blocked[k] \in Nat
           /\ k \in DOMAIN states =>
                 /\ StateHolds(states[k], failed[k], blocked[k], now)
                 /\ states[k].until \in Nat /\ states[k].first \in Nat /\ states[k].count \in 0..(Threshold - 1)
           /\ k \notin DOMAIN states => GoneHolds(failed[k], blocked[k], now)
           /\ blocked[k] > now => k \in DOMAIN states /\ IsBlocked(states[k]) /\ states[k].until = blocked[k]
  <1>1. KeyHolds(k) /\ now \in Nat
    BY DEF KeysHold, LoginTypes
  <1>2. k \in DOMAIN states =>
          states[k].until \in Nat /\ states[k].first \in Nat /\ states[k].count \in 0..(Threshold - 1)
    BY <1>1 DEF KeyHolds, StateHolds
  <1>. QED  BY <1>1, <1>2 DEF KeyHolds, IsBlocked

\* A login that asks.
LEMMA GuardCheckHolds ==
    ASSUME LoginTypes, KeysHold, NEW k \in Keys, states' = GuardCheck(k).states, UNCHANGED <<now, failed, blocked>>
    PROVE  /\ KeysHold' /\ DOMAIN states' \subseteq Keys
           /\ GuardCheck(k).ok => blocked[k] <= now
  <1>1. /\ DOMAIN states' \subseteq DOMAIN states /\ \A x \in DOMAIN states' : states'[x] = states[x]
        /\ \A x \in Keys : x \notin DOMAIN states' => x \notin DOMAIN states \/ (x = k /\ Lapsed(states[k]))
    <2>1. states' = IF k \in DOMAIN states /\ Lapsed(states[k]) THEN Without(states, k) ELSE states
      BY DEF GuardCheck
    <2>. QED  BY <2>1 DEF Without, Restrict
  <1>2. ASSUME NEW x \in Keys PROVE KeyHolds(x)'
    <2>1. ASSUME x \in DOMAIN states, Lapsed(states[x])
          PROVE  GoneHolds(failed[x], blocked[x], now) /\ ~IsBlocked(states[x])
      BY <2>1, StateKnown, Lapses DEF Lapsed, IsBlocked
    <2>2. x \notin DOMAIN states' => GoneHolds(failed[x], blocked[x], now)
      BY <1>1, <2>1, StateKnown
    <2>3. blocked[x] > now => x \in DOMAIN states' /\ states'[x].until = blocked[x]
      BY <1>1, <2>1, StateKnown
    <2>. QED  BY <1>1, <2>2, <2>3, StateKnown DEF KeyHolds
  <1>3. GuardCheck(k).ok => blocked[k] <= now
    <2>1. ASSUME GuardCheck(k).ok PROVE k \notin DOMAIN states \/ ~IsBlocked(states[k])
      BY <2>1 DEF GuardCheck
    <2>2. now \in Nat /\ blocked[k] \in Nat
      BY StateKnown
    <2>3. blocked[k] > now => k \in DOMAIN states /\ IsBlocked(states[k])
      BY StateKnown
    <2>. QED  BY <2>1, <2>2, <2>3
  <1>. QED  BY <1>1, <1>2, <1>3 DEF KeysHold, LoginTypes

\* A login that fails.
LEMMA RecordFailureHolds ==
    ASSUME LoginTypes, KeysHold, NEW k \in Keys, RecordFailure(k), now' = now
    PROVE  KeysHold' /\ DOMAIN states' \subseteq Keys /\ DOMAIN failed' = Keys /\ DOMAIN blocked' = Keys
  <1>. DEFINE old == IF k \in DOMAIN Known THEN Known[k] ELSE Fresh
              s == Punished(old)
              block == s.first = now /\ s.count = 0
              log == [x \in Keys |-> IF x \in DOMAIN states \ DOMAIN Known THEN <<>> ELSE failed[x]]
  <1>0. now \in Nat /\ DOMAIN failed = Keys /\ DOMAIN blocked = Keys /\ DOMAIN states \subseteq Keys
    BY DEF LoginTypes
  <1>1. /\ states' = With(Known, k, s)
        /\ failed' = [log EXCEPT ![k] = IF block THEN <<>> ELSE Append(@, now)]
        /\ blocked' = IF block THEN [blocked EXCEPT ![k] = now + Block] ELSE blocked
    BY DEF RecordFailure
  <1>2. /\ DOMAIN Known \subseteq DOMAIN states /\ \A x \in DOMAIN Known : Known[x] = states[x]
        /\ \A x \in DOMAIN states \ DOMAIN Known : ~IsBlocked(states[x])
    <2>1. Known = Restrict(states, Retained) \/ Known = states
      BY DEF Known
    <2>2. Retained \subseteq DOMAIN states /\ \A x \in DOMAIN states \ Retained : ~IsBlocked(states[x])
      BY DEF Retained
    <2>. QED  BY <2>1, <2>2, RestrictFacts
  <1>3. Ordered(<<>>, now) /\ \A bl : Spaced(<<>>, bl) /\ GoneHolds(<<>>, bl, now)
    BY OrderedEmpty DEF Spaced, GoneHolds
  <1>4. ASSUME NEW x \in Keys
        PROVE  /\ Ordered(log[x], now) /\ Spaced(log[x], blocked[x]) /\ blocked[x] \in Nat
               /\ x \in DOMAIN Known => StateHolds(Known[x], log[x], blocked[x], now)
               /\ x \notin DOMAIN Known => GoneHolds(log[x], blocked[x], now)
               /\ blocked[x] > now => x \in DOMAIN Known /\ Known[x].until = blocked[x]
    BY <1>2, <1>3, StateKnown
  <1>5. StateHolds(old, log[k], blocked[k], now)
    <2>1. CASE k \in DOMAIN Known
      BY <1>4, <2>1
    <2>2. CASE k \notin DOMAIN Known
      BY <1>0, <1>4, <2>2, FreshHolds
    <2>. QED  BY <2>1, <2>2
  <1>6. ASSUME NEW x \in Keys, x # k PROVE KeyHolds(x)'
    <2>1. failed'[x] = log[x] /\ blocked'[x] = blocked[x]
      BY <1>0, <1>1, <1>6
    <2>2. (x \in DOMAIN states' <=> x \in DOMAIN Known) /\ (x \in DOMAIN states' => states'[x] = Known[x])
      BY <1>1, <1>6 DEF With
    <2>. HIDE DEF log
    <2>. QED  BY <1>4, <2>1, <2>2 DEF KeyHolds
  <1>7. states'[k] = s /\ k \in DOMAIN states'
    BY <1>1 DEF With
  <1>8. /\ failed'[k] = IF block THEN <<>> ELSE Append(log[k], now)
        /\ blocked'[k] = IF block THEN now + Block ELSE blocked[k]
    BY <1>0, <1>1
  <1>9. /\ old.until \in Nat /\ Counted(old).count \in Nat /\ Counted(old).count > 0 /\ Counted(old).until = old.until
    <2>1. old \in [count : 0..(Threshold - 1), first : Nat, until : Nat]
      BY <1>5 DEF StateHolds
    <2>. HIDE DEF old
    <2>2. old.count \in Nat /\ old.until \in Nat /\ old = [count |-> old.count, first |-> old.first, until |-> old.until]
      BY <2>1, Thresholds
    <2>3. CASE now - old.first >= Window
      <3>1. Counted(old) = [count |-> 1, first |-> now, until |-> old.until]
        BY <2>1, <2>3 DEF Counted
      <3>. QED  BY <2>2, <3>1
    <2>4. CASE ~(now - old.first >= Window)
      <3>1. Counted(old) = [count |-> old.count + 1, first |-> old.first, until |-> old.until]
        BY <2>1, <2>4 DEF Counted
      <3>. QED  BY <2>2, <3>1
    <2>. QED  BY <2>3, <2>4
  <1>. HIDE DEF old, log
  <1>11. KeyHolds(k)'
    <2>1. CASE Counted(old).count >= Threshold
      <3>1. s = [count |-> 0, first |-> now, until |-> now + Block]
        BY <2>1 DEF Punished
      <3>2. failed'[k] = <<>> /\ blocked'[k] = now + Block
        BY <1>8, <3>1
      <3>3. now + Block \in Nat /\ now + Block > 0
        BY <1>0, Thresholds
      <3>4. StateHolds(s, <<>>, now + Block, now)
        <4>1. s \in [count : 0..(Threshold - 1), first : Nat, until : Nat]
          BY <1>0, <3>1, <3>3, Thresholds
        <4>. QED  BY <1>0, <3>1, <4>1 DEF StateHolds
      <3>5. s.until = now + Block
        BY <3>1
      <3>. HIDE DEF s
      <3>. QED  BY <1>3, <1>7, <3>2, <3>3, <3>4, <3>5 DEF KeyHolds
    <2>2. CASE ~(Counted(old).count >= Threshold)
      <3>1. s = Counted(old) /\ Counted(old).count < Threshold
        BY <1>9, <2>2, Thresholds DEF Punished
      <3>2. failed'[k] = Append(log[k], now) /\ blocked'[k] = blocked[k]
        BY <1>8, <1>9, <3>1
      <3>3. StateHolds(s, Append(log[k], now), blocked[k], now) /\ Spaced(Append(log[k], now), blocked[k])
        BY <1>0, <1>4, <1>5, <3>1, CountedHolds
      <3>4. Ordered(Append(log[k], now), now)
        BY <1>0, <1>4, OrderedGrows
      <3>5. blocked[k] > now => s.until = blocked[k]
        BY <1>4, <1>9, <3>1 DEF old
      <3>. HIDE DEF s
      <3>. QED  BY <1>4, <1>7, <3>2, <3>3, <3>4, <3>5 DEF KeyHolds
    <2>. QED  BY <2>1, <2>2
  <1>12. DOMAIN states' \subseteq Keys /\ DOMAIN failed' = Keys /\ DOMAIN blocked' = Keys
    <2>1. DOMAIN states' = DOMAIN Known \cup {k}
      BY <1>1 DEF With
    <2>2. DOMAIN failed' = Keys
      BY <1>1 DEF log
    <2>. QED  BY <1>0, <1>1, <1>2, <2>1, <2>2
  <1>. QED  BY <1>6, <1>11, <1>12 DEF KeysHold

\* A login that succeeds.
LEMMA RecordSuccessHolds ==
    ASSUME LoginTypes, KeysHold, NEW k \in Keys, RecordSuccess(k), now' = now
    PROVE  KeysHold' /\ DOMAIN states' \subseteq Keys /\ DOMAIN failed' = Keys /\ DOMAIN blocked' = Keys
  <1>0. now \in Nat /\ DOMAIN failed = Keys /\ DOMAIN blocked = Keys /\ DOMAIN states \subseteq Keys
    BY DEF LoginTypes
  <1>1. /\ DOMAIN states' = DOMAIN states \ {k} /\ \A x \in DOMAIN states \ {k} : states'[x] = states[x]
        /\ failed' = [failed EXCEPT ![k] = <<>>] /\ blocked' = [blocked EXCEPT ![k] = 0]
    BY WithoutFacts DEF RecordSuccess
  <1>2. ASSUME NEW x \in Keys PROVE KeyHolds(x)'
    <2>1. CASE x = k
      <3>1. failed'[x] = <<>> /\ blocked'[x] = 0 /\ x \notin DOMAIN states'
        BY <1>0, <1>1, <2>1
      <3>2. Ordered(<<>>, now) /\ Spaced(<<>>, 0) /\ GoneHolds(<<>>, 0, now)
        BY OrderedEmpty DEF Spaced, GoneHolds
      <3>3. 0 \in Nat /\ ~(0 > now)
        BY <1>0
      <3>. QED  BY <3>1, <3>2, <3>3 DEF KeyHolds
    <2>2. CASE x # k
      <3>1. failed'[x] = failed[x] /\ blocked'[x] = blocked[x] /\ (x \in DOMAIN states' <=> x \in DOMAIN states)
            /\ (x \in DOMAIN states' => states'[x] = states[x])
        BY <1>0, <1>1, <2>2
      <3>. QED  BY <3>1 DEF KeyHolds, KeysHold
    <2>. QED  BY <2>1, <2>2
  <1>. QED  BY <1>0, <1>1, <1>2 DEF KeysHold

------------------------------------------------------------------------------
(* The handlers, and time *)

LEMMA RequestFacts ==
    ASSUME LoginTypes, NEW h \in Handlers, request[h].st # "idle"
    PROVE  /\ request[h] \in [st : Stages, ip : Ips, email : Emails]
           /\ request[h].ip \in Keys /\ request[h].email \in Keys
           /\ \A st \in Stages : [request EXCEPT ![h].st = st]
                                    \in [Handlers -> {NoRequest} \cup [st : Stages, ip : Ips, email : Emails]]
           /\ [request EXCEPT ![h] = NoRequest]
                                    \in [Handlers -> {NoRequest} \cup [st : Stages, ip : Ips, email : Emails]]
  <1>1. request \in [Handlers -> {NoRequest} \cup [st : Stages, ip : Ips, email : Emails]]
    BY DEF LoginTypes
  <1>2. request[h] \in [st : Stages, ip : Ips, email : Emails]
    BY <1>1 DEF NoRequest
  <1>3. ASSUME NEW st \in Stages
        PROVE  [request EXCEPT ![h].st = st] \in [Handlers -> {NoRequest} \cup [st : Stages, ip : Ips, email : Emails]]
    <2>1. [request[h] EXCEPT !.st = st] \in [st : Stages, ip : Ips, email : Emails]
      BY <1>2
    <2>. QED  BY <1>1, <2>1
  <1>. QED  BY <1>1, <1>2, <1>3 DEF Keys

LEMMA TickHolds ==
    ASSUME LoginInv, Tick
    PROVE  LoginInv'
  <1>1. /\ now \in Nat /\ now' = now + 1 /\ now' \in Nat /\ now <= now' /\ Burst \in Nat
        /\ UNCHANGED <<buckets, states, request, accounts, admitted, failed, blocked>>
    BY BucketAssumption DEF Tick, LoginInv, LoginTypes
  <1>2. LoginTypes'
    <2>1. \A i \in DOMAIN buckets : buckets[i] \in [tokens : 0..Burst, at : Nat] /\ buckets[i].at <= now'
      <3>1. ASSUME NEW i \in DOMAIN buckets
            PROVE  buckets[i] \in [tokens : 0..Burst, at : Nat] /\ buckets[i].at <= now'
        <4>1. buckets[i] \in [tokens : 0..Burst, at : Nat] /\ buckets[i].at <= now
          BY DEF LoginInv, LoginTypes
        <4>2. buckets[i].at \in Nat
          BY <4>1
        <4>. QED  BY <1>1, <4>1, <4>2
      <3>. QED  BY <3>1
    <2>. QED  BY <1>1, <2>1 DEF LoginInv, LoginTypes
  <1>3. BucketsHold'
    <2>1. ASSUME NEW i \in Ips
          PROVE  /\ Ordered(admitted[i], now') /\ Within(admitted[i])
                 /\ i \in DOMAIN buckets => Paid(admitted[i], buckets[i].tokens, buckets[i].at)
                 /\ i \notin DOMAIN buckets => Paid(admitted[i], Burst, now')
      <3>1. /\ Ordered(admitted[i], now) /\ Within(admitted[i])
            /\ i \in DOMAIN buckets => Paid(admitted[i], buckets[i].tokens, buckets[i].at)
            /\ i \notin DOMAIN buckets => Paid(admitted[i], Burst, now)
        BY DEF LoginInv, BucketsHold
      <3>2. Ordered(admitted[i], now')
        BY <1>1, <3>1, OrderedLater
      <3>3. ASSUME i \notin DOMAIN buckets
            PROVE  Paid(admitted[i], Burst, now')
        <4>1. (now' - now) * Refill \in Nat
          <5>1. now' - now \in Nat
            BY <1>1
          <5>. QED  BY <5>1, Products
        <4>2. Burst <= Burst + (now' - now) * Refill
          <5>. DEFINE flown == (now' - now) * Refill
          <5>1. flown \in Nat
            BY <4>1
          <5>. HIDE DEF flown
          <5>2. Burst <= Burst + flown
            BY <1>1, <5>1
          <5>. QED  BY <5>2 DEF flown
        <4>3. Paid(admitted[i], Burst, now)
          BY <3>1, <3>3
        <4>. QED  BY <1>1, <3>1, <4>2, <4>3, PaidLater
      <3>. QED  BY <3>1, <3>2, <3>3
    <2>. QED  BY <1>1, <2>1 DEF BucketsHold
  <1>4. KeysHold'
    <2>1. ASSUME NEW k \in Keys PROVE KeyHolds(k)'
      <3>1. /\ Ordered(failed[k], now) /\ Spaced(failed[k], blocked[k]) /\ blocked[k] \in Nat
            /\ k \in DOMAIN states => StateHolds(states[k], failed[k], blocked[k], now)
            /\ k \notin DOMAIN states => GoneHolds(failed[k], blocked[k], now)
            /\ blocked[k] > now => k \in DOMAIN states /\ states[k].until = blocked[k]
        BY DEF LoginInv, KeysHold, KeyHolds
      <3>2. Ordered(failed[k], now')
        BY <1>1, <3>1, OrderedLater
      <3>3. ASSUME k \in DOMAIN states
            PROVE  StateHolds(states[k], failed[k], blocked[k], now')
        <4>1. StateHolds(states[k], failed[k], blocked[k], now)
          BY <3>1, <3>3
        <4>2. states[k].first \in Nat /\ states[k].first <= now
          BY <4>1 DEF StateHolds
        <4>3. states[k].first <= now'
          BY <1>1, <4>2
        <4>. QED  BY <4>1, <4>3 DEF StateHolds
      <3>4. ASSUME k \notin DOMAIN states
            PROVE  GoneHolds(failed[k], blocked[k], now')
        <4>1. ASSUME NEW a \in 1..Len(failed[k]), a <= Len(failed[k]) - Slack(blocked[k])
              PROVE  failed[k][a] + Window <= now'
          <5>1. failed[k][a] \in Nat /\ failed[k][a] + Window <= now
            BY <3>1, <3>4, <4>1 DEF GoneHolds, Ordered
          <5>2. Window \in Nat
            BY Thresholds
          <5>. QED  BY <1>1, <5>1, <5>2
        <4>. QED  BY <4>1 DEF GoneHolds
      <3>5. blocked[k] > now' => k \in DOMAIN states /\ states[k].until = blocked[k]
        BY <1>1, <3>1
      <3>. QED  BY <1>1, <3>1, <3>2, <3>3, <3>4, <3>5 DEF KeyHolds
    <2>. QED  BY <2>1 DEF KeysHold
  <1>. QED  BY <1>2, <1>3, <1>4 DEF LoginInv

LEMMA LoginInvStarts == LoginInit => LoginInv
  <1>. SUFFICES ASSUME LoginInit PROVE LoginInv
    OBVIOUS
  <1>1. DOMAIN buckets = {} /\ DOMAIN states = {} /\ now = 0
    BY DEF LoginInit
  <1>2. LoginTypes
    BY <1>1 DEF LoginInit, LoginTypes
  <1>3. BucketsHold
    <2>1. \A i \in Ips : admitted[i] = <<>>
      BY DEF LoginInit
    <2>. QED  BY <1>1, <2>1, OrderedEmpty DEF BucketsHold, Within, Paid
  <1>4. KeysHold
    <2>1. \A k \in Keys : failed[k] = <<>> /\ blocked[k] = 0
      BY DEF LoginInit
    <2>2. Ordered(<<>>, now) /\ Spaced(<<>>, 0) /\ GoneHolds(<<>>, 0, now) /\ ~(0 > now)
      BY <1>1, OrderedEmpty DEF Spaced, GoneHolds
    <2>. QED  BY <1>1, <2>1, <2>2 DEF KeysHold, KeyHolds
  <1>. QED  BY <1>2, <1>3, <1>4 DEF LoginInv

\* What one handler's step does to the others' state: nothing.
LEMMA LoginInvKept == LoginInv /\ [LoginNext]_loginVars => LoginInv'
  <1>. SUFFICES ASSUME LoginInv, [LoginNext]_loginVars PROVE LoginInv'
    OBVIOUS
  <1>. USE DEF LoginInv
  <1>0. now \in Nat
    BY DEF LoginTypes
  <1>1. ASSUME NEW h \in Handlers, NEW ip \in Ips, NEW email \in Emails, Login(h, ip, email)
        PROVE  LoginInv'
    <2>1. /\ buckets' = Check(ip).buckets /\ admitted' = Check(ip).admitted
          /\ UNCHANGED <<now, states, failed, blocked, accounts>>
      BY <1>1 DEF Login, Passes, GuardStays
    <2>2. KeysHold'
      BY <2>1 DEF KeysHold, KeyHolds
    <2>3. request' \in [Handlers -> {NoRequest} \cup [st : Stages, ip : Ips, email : Emails]]
      <3>1. request \in [Handlers -> {NoRequest} \cup [st : Stages, ip : Ips, email : Emails]]
        BY DEF LoginTypes
      <3>2. [st |-> "admitted", ip |-> ip, email |-> email] \in [st : Stages, ip : Ips, email : Emails]
        BY DEF Stages
      <3>. QED  BY <1>1, <3>1, <3>2 DEF Login
    <2>. QED  BY <2>1, <2>2, <2>3, CheckHolds DEF LoginTypes
  <1>2. ASSUME NEW h \in Handlers, NEW ip \in Ips, NEW email \in Emails, Register(h, ip, email)
        PROVE  LoginInv'
    <2>1. /\ buckets' = Check(ip).buckets /\ admitted' = Check(ip).admitted
          /\ UNCHANGED <<now, states, failed, blocked, request>>
      BY <1>2 DEF Register, Passes, GuardStays
    <2>2. KeysHold'
      BY <2>1 DEF KeysHold, KeyHolds
    <2>3. accounts' \subseteq Emails
      BY <1>2 DEF Register, LoginTypes
    <2>. QED  BY <2>1, <2>2, <2>3, CheckHolds DEF LoginTypes
  <1>3. ASSUME NEW h \in Handlers, AllowIp(h)
        PROVE  LoginInv'
    <2>1. /\ states' = GuardCheck(request[h].ip).states /\ request[h].st = "admitted"
          /\ UNCHANGED <<now, buckets, admitted, failed, blocked, accounts>>
          /\ request' = [request EXCEPT ![h].st = "allowed"] \/ request' = [request EXCEPT ![h].st = "refused"]
      BY <1>3 DEF AllowIp, At, BucketStays, Proceeds
    <2>2. KeysHold' /\ DOMAIN states' \subseteq Keys
      BY <2>1, RequestFacts, GuardCheckHolds
    <2>3. BucketsHold'
      BY <2>1 DEF BucketsHold
    <2>4. request' \in [Handlers -> {NoRequest} \cup [st : Stages, ip : Ips, email : Emails]]
      <3>1. {"allowed", "refused", "verify", "failed", "succeeded"} \subseteq Stages
        BY DEF Stages
      <3>. QED  BY <2>1, <3>1, RequestFacts
    <2>. QED  BY <2>1, <2>2, <2>3, <2>4 DEF LoginTypes
  <1>4. ASSUME NEW h \in Handlers, AllowEmail(h)
        PROVE  LoginInv'
    <2>1. /\ states' = GuardCheck(request[h].email).states /\ request[h].st # "idle"
          /\ UNCHANGED <<now, buckets, admitted, failed, blocked, accounts>>
          /\ request' = [request EXCEPT ![h].st = "verify"] \/ request' = [request EXCEPT ![h] = NoRequest]
      BY <1>4 DEF AllowEmail, At, BucketStays, Proceeds, Leaves
    <2>2. KeysHold' /\ DOMAIN states' \subseteq Keys
      BY <2>1, RequestFacts, GuardCheckHolds
    <2>3. BucketsHold'
      BY <2>1 DEF BucketsHold
    <2>4. request' \in [Handlers -> {NoRequest} \cup [st : Stages, ip : Ips, email : Emails]]
      <3>1. {"allowed", "refused", "verify", "failed", "succeeded"} \subseteq Stages
        BY DEF Stages
      <3>. QED  BY <2>1, <3>1, RequestFacts
    <2>. QED  BY <2>1, <2>2, <2>3, <2>4 DEF LoginTypes
  <1>5. ASSUME NEW h \in Handlers, Verify(h)
        PROVE  LoginInv'
    <2>1. /\ request[h].st # "idle" /\ UNCHANGED <<now, buckets, states, admitted, failed, blocked, accounts>>
          /\ request' = [request EXCEPT ![h].st = "failed"] \/ request' = [request EXCEPT ![h].st = "succeeded"]
      BY <1>5 DEF Verify, At, BucketStays, GuardStays, Proceeds
    <2>2. KeysHold' /\ BucketsHold'
      BY <2>1 DEF BucketsHold, KeysHold, KeyHolds
    <2>3. request' \in [Handlers -> {NoRequest} \cup [st : Stages, ip : Ips, email : Emails]]
      <3>1. {"allowed", "refused", "verify", "failed", "succeeded"} \subseteq Stages
        BY DEF Stages
      <3>. QED  BY <2>1, <3>1, RequestFacts
    <2>. QED  BY <2>1, <2>2, <2>3 DEF LoginTypes
  <1>6. ASSUME NEW h \in Handlers, Record(h)
        PROVE  LoginInv'
    <2>1. /\ request[h].st # "idle" /\ UNCHANGED <<now, buckets, admitted, accounts>>
          /\ \E k \in {request[h].ip, request[h].email} : RecordFailure(k) \/ RecordSuccess(k)
          /\ \/ \E st \in Stages : request' = [request EXCEPT ![h].st = st]
             \/ request' = [request EXCEPT ![h] = NoRequest]
      <3>1. UNCHANGED <<now, buckets, admitted, accounts>>
        BY <1>6 DEF Record, BucketStays
      <3>2. CASE FailIp(h)
        BY <3>1, <3>2 DEF FailIp, At, Proceeds, Stages
      <3>3. CASE FailEmail(h)
        BY <3>1, <3>3 DEF FailEmail, At, Leaves
      <3>4. CASE SucceedIp(h)
        BY <3>1, <3>4 DEF SucceedIp, At, Proceeds, Stages
      <3>5. CASE SucceedEmail(h)
        BY <3>1, <3>5 DEF SucceedEmail, At, Leaves
      <3>. QED  BY <1>6, <3>2, <3>3, <3>4, <3>5 DEF Record
    <2>2. PICK k \in {request[h].ip, request[h].email} : RecordFailure(k) \/ RecordSuccess(k)
      BY <2>1
    <2>3. k \in Keys
      BY <2>1, RequestFacts
    <2>4. KeysHold' /\ DOMAIN states' \subseteq Keys /\ DOMAIN failed' = Keys /\ DOMAIN blocked' = Keys
      BY <2>1, <2>2, <2>3, RecordFailureHolds, RecordSuccessHolds
    <2>5. BucketsHold'
      BY <2>1 DEF BucketsHold
    <2>6. request' \in [Handlers -> {NoRequest} \cup [st : Stages, ip : Ips, email : Emails]]
      BY <2>1, RequestFacts
    <2>. QED  BY <2>1, <2>4, <2>5, <2>6 DEF LoginTypes
  <1>7. CASE UNCHANGED loginVars
    BY <1>7 DEF loginVars, LoginTypes, BucketsHold, KeysHold, KeyHolds
  <1>. HIDE DEF LoginInv
  <1>. QED  BY <1>1, <1>2, <1>3, <1>4, <1>5, <1>6, <1>7, TickHolds DEF LoginNext, Serve

LEMMA LoginInvHolds == LoginSpec => []LoginInv
  <1>. QED  BY LoginInvStarts, LoginInvKept, PTL DEF LoginSpec

\* An address is let through no oftener than its capacity and the rate allow,
\* whatever the bucket map forgets at its cap (TokenBucket::check, evict).
THEOREM RateAlwaysHolds == LoginSpec => []RateHolds
  <1>1. LoginInv => RateHolds
    <2>. SUFFICES ASSUME LoginInv, NEW i \in Ips, NEW a \in DOMAIN admitted[i], NEW b \in DOMAIN admitted[i], a <= b
                  PROVE  (b - a + 1) * Cost <= Burst + (admitted[i][b] - admitted[i][a]) * Refill
      BY DEF RateHolds
    <2>1. Within(admitted[i]) /\ DOMAIN admitted[i] = 1..Len(admitted[i])
      BY DEF LoginInv, BucketsHold, Ordered
    <2>. QED  BY <2>1 DEF Within
  <1>. QED  BY <1>1, LoginInvHolds, PTL

LEMMA FailuresBlock == LoginInv => LoginTypeOK /\ FailuresEndInABlock
  <1>. SUFFICES ASSUME LoginInv PROVE LoginTypeOK /\ FailuresEndInABlock
    OBVIOUS
  <1>1. LoginTypeOK
    <2>1. \A k \in DOMAIN states : states[k].count \in 0..(Threshold - 1) /\ states[k].first <= now
      BY DEF LoginInv, LoginTypes, KeysHold, KeyHolds, StateHolds
    <2>2. \A i \in DOMAIN buckets : buckets[i].tokens \in 0..Burst /\ buckets[i].at <= now
      BY DEF LoginInv, LoginTypes
    <2>. QED  BY <2>1, <2>2 DEF LoginTypeOK, LoginInv, LoginTypes
  <1>2. ASSUME NEW k \in Keys, NEW a \in DOMAIN failed[k], NEW b \in DOMAIN failed[k], b = a + MostFailures(k)
        PROVE  failed[k][b] >= failed[k][a] + Window
    <2>1. Spaced(failed[k], blocked[k]) /\ DOMAIN failed[k] = 1..Len(failed[k]) /\ Len(failed[k]) \in Nat
      BY DEF LoginInv, KeysHold, KeyHolds, Ordered
    <2>2. a \in Nat /\ b \in Nat
      BY <2>1
    <2>3. b = a + Slack(blocked[k]) + (Threshold - 1)
      BY <1>2, <2>2, GuardAssumption DEF MostFailures, Slack
    <2>. QED  BY <2>1, <2>3 DEF Spaced
  <1>. QED  BY <1>1, <1>2 DEF FailuresEndInABlock

LEMMA BlocksKeepOut ==
    ASSUME LoginInv, [LoginNext]_loginVars, NEW h \in Handlers
    PROVE  /\ At(h, "allowed") /\ request'[h].st = "verify" => blocked[request[h].email] <= now
           /\ At(h, "admitted") /\ request'[h].st \in {"allowed", "verify"} => blocked[request[h].ip] <= now
           /\ request'[h].st = "verify" /\ ~At(h, "verify") => blocked[request[h].email] <= now
  <1>0. request \in [Handlers -> {NoRequest} \cup [st : Stages, ip : Ips, email : Emails]]
    BY DEF LoginInv, LoginTypes
  <1>1. CASE AllowIp(h)
    <2>1. /\ states' = GuardCheck(request[h].ip).states /\ UNCHANGED <<now, failed, blocked>>
          /\ At(h, "admitted") /\ request' = [request EXCEPT ![h].st = IF GuardCheck(request[h].ip).ok THEN "allowed" ELSE "refused"]
      BY <1>1 DEF AllowIp, Proceeds
    <2>2. request[h].ip \in Keys
      BY <2>1, RequestFacts DEF LoginInv, At
    <2>3. request'[h].st = IF GuardCheck(request[h].ip).ok THEN "allowed" ELSE "refused"
      BY <1>0, <2>1
    <2>4. request'[h].st = "allowed" => blocked[request[h].ip] <= now
      BY <2>1, <2>2, <2>3, GuardCheckHolds DEF LoginInv
    <2>. QED  BY <2>1, <2>3, <2>4 DEF At
  <1>2. CASE AllowEmail(h)
    <2>1. /\ states' = GuardCheck(request[h].email).states /\ UNCHANGED <<now, failed, blocked>>
          /\ request[h].st \in {"allowed", "refused"}
          /\ \/ GuardCheck(request[h].email).ok
             \/ request' = [request EXCEPT ![h] = NoRequest]
      BY <1>2 DEF AllowEmail, Leaves
    <2>2. request[h].email \in Keys
      BY <2>1, RequestFacts DEF LoginInv
    <2>3. GuardCheck(request[h].email).ok => blocked[request[h].email] <= now
      BY <2>1, <2>2, GuardCheckHolds DEF LoginInv
    <2>4. CASE request' = [request EXCEPT ![h] = NoRequest]
      BY <1>0, <2>1, <2>4 DEF NoRequest, At
    <2>. QED  BY <2>1, <2>3, <2>4 DEF At
  <1>3. CASE Verify(h)
    BY <1>0, <1>3 DEF Verify, At, Proceeds
  <1>4. CASE Record(h)
    <2>1. request[h].st \in {"failed", "failedEmail", "succeeded", "succeededEmail"}
      BY <1>4 DEF Record, FailIp, FailEmail, SucceedIp, SucceedEmail, At
    <2>2. request'[h].st \in {"failedEmail", "succeededEmail", "idle"}
      BY <1>0, <1>4 DEF Record, FailIp, FailEmail, SucceedIp, SucceedEmail, Proceeds, Leaves, NoRequest
    <2>. QED  BY <2>1, <2>2 DEF At
  <1>5. ASSUME NEW ip \in Ips, NEW email \in Emails, Login(h, ip, email)
        PROVE  request[h].st = "idle" /\ request'[h].st \in {"idle", "admitted"}
    BY <1>0, <1>5 DEF Login, At
  <1>6. CASE request'[h] = request[h]
    BY <1>6 DEF At
  <1>7. ASSUME NEW g \in Handlers, g # h, Serve(g)
        PROVE  request'[h] = request[h]
    BY <1>0, <1>7 DEF Serve, AllowIp, AllowEmail, Verify, Record, FailIp, FailEmail, SucceedIp, SucceedEmail, Proceeds, Leaves
  <1>8. ASSUME NEW g \in Handlers, NEW ip \in Ips, NEW email \in Emails,
               (Login(g, ip, email) /\ g # h) \/ Register(g, ip, email)
        PROVE  request'[h] = request[h]
    BY <1>0, <1>8 DEF Login, Register
  <1>9. Tick \/ UNCHANGED loginVars => request' = request
    BY DEF Tick, loginVars
  <1>10. CASE \E g \in Handlers : Serve(g)
    BY <1>1, <1>2, <1>3, <1>4, <1>6, <1>7, <1>10 DEF Serve
  <1>11. CASE \E g \in Handlers, ip \in Ips, email \in Emails : Login(g, ip, email) \/ Register(g, ip, email)
    BY <1>5, <1>6, <1>8, <1>11 DEF At
  <1>. QED  BY <1>6, <1>9, <1>10, <1>11 DEF LoginNext

\* The lockout: a key fails so often in a window at most before it is blocked,
\* and while it is blocked no login passes the check with it (FailureGuard::check,
\* record_failure, login_allowed).
THEOREM LockoutAlwaysHolds == LoginSpec => LockoutHolds
  <1>1. LoginInv /\ [LoginNext]_loginVars =>
          [\A h \in Handlers :
             /\ At(h, "allowed") /\ request'[h].st = "verify" => blocked[request[h].email] <= now
             /\ At(h, "admitted") /\ request'[h].st \in {"allowed", "verify"} => blocked[request[h].ip] <= now
             /\ request'[h].st = "verify" /\ ~At(h, "verify") => blocked[request[h].email] <= now]_loginVars
    BY BlocksKeepOut
  <1>2. LoginInv => LoginTypeOK /\ FailuresEndInABlock
    BY FailuresBlock
  <1>. QED  BY <1>1, <1>2, LoginInvHolds, PTL DEF LoginSpec, LockoutHolds, BlockHolds

------------------------------------------------------------------------------
(* ServerStart *)

Accounts == [role : {"none", "user", "admin"}, password : Passwords \cup {Short, Absent}]
StartTypes ==
    /\ users \in [Mailboxes -> Accounts]
    /\ env \in [number : [Numbers -> Written \cup {Absent}], ladder : Ladders \cup {Absent},
                email : Mailboxes \cup {Absent}, password : Passwords \cup {Short, Absent}]

LEMMA StartTypesHold == StartInit /\ [][StartNext]_startVars => []StartTypes
  <1>1. StartInit => StartTypes
    BY DEF StartInit, StartTypes, Accounts, Account
  <1>2. StartTypes /\ [StartNext]_startVars => StartTypes'
    <2>. SUFFICES ASSUME StartTypes, [StartNext]_startVars PROVE StartTypes'
      OBVIOUS
    <2>. USE DEF StartTypes, Accounts
    <2>1. CASE Starts
      BY <2>1 DEF Starts, EnsureSeedAdmin, Account
    <2>2. CASE Stops
      BY <2>2 DEF Stops
    <2>3. ASSUME NEW k \in Numbers, NEW text \in Written \cup {Absent}, WritesNumber(k, text) PROVE StartTypes'
      BY <2>3 DEF WritesNumber
    <2>4. ASSUME NEW l \in Ladders \cup {Absent}, WritesLadder(l) PROVE StartTypes'
      BY <2>4 DEF WritesLadder
    <2>5. ASSUME NEW e \in Mailboxes \cup {Absent}, NEW p \in Passwords \cup {Short, Absent}, WritesSeed(e, p)
          PROVE  StartTypes'
      BY <2>5 DEF WritesSeed
    <2>6. ASSUME NEW e \in Mailboxes, Promotes(e) PROVE StartTypes'
      BY <2>6 DEF Promotes
    <2>7. ASSUME NEW e \in Mailboxes, NEW p \in Passwords, Registers(e, p) PROVE StartTypes'
      BY <2>7 DEF Registers, Account
    <2>8. CASE UNCHANGED startVars
      BY <2>8 DEF startVars
    <2>. QED  BY <2>1, <2>2, <2>3, <2>4, <2>5, <2>6, <2>7, <2>8 DEF StartNext
  <1>. QED  BY <1>1, <1>2, PTL

\* However often the server starts, and whatever the operator writes for the
\* seed, a start leaves every account it finds as it was (ensure_seed_admin).
THEOREM NoOneIsEverTakenOver == StartInit /\ [][StartNext]_startVars => NoOneIsTakenOver
  <1>1. ASSUME StartTypes, [StartNext]_startVars
        PROVE  [\A e \in Mailboxes : users[e].role # "none" =>
                   /\ users'[e].password = users[e].password
                   /\ users'[e].role = "admin" => users[e].role = "admin" \/ e \in promoted']_<<users, promoted>>
    <2>. SUFFICES ASSUME NEW e \in Mailboxes, users[e].role # "none", StartNext
                  PROVE  /\ users'[e].password = users[e].password
                         /\ users'[e].role = "admin" => users[e].role = "admin" \/ e \in promoted'
      BY <1>1 DEF startVars
    <2>0. users \in [Mailboxes -> Accounts]
      BY <1>1 DEF StartTypes
    <2>1. CASE Starts
      BY <2>0, <2>1 DEF Starts, EnsureSeedAdmin, Account
    <2>2. ASSUME NEW d \in Mailboxes, Promotes(d)
          PROVE  /\ users'[e].password = users[e].password
                 /\ users'[e].role = "admin" => users[e].role = "admin" \/ e \in promoted'
      BY <2>0, <2>2 DEF Promotes, Accounts
    <2>3. ASSUME NEW d \in Mailboxes, NEW p \in Passwords, Registers(d, p)
          PROVE  users'[e] = users[e]
      BY <2>0, <2>3 DEF Registers
    <2>4. CASE users' = users
      BY <2>4
    <2>. QED  BY <2>1, <2>2, <2>3, <2>4 DEF StartNext, Stops, WritesNumber, WritesLadder, WritesSeed
  <1>. QED  BY <1>1, StartTypesHold, PTL DEF NoOneIsTakenOver

------------------------------------------------------------------------------
(* UsageProbe: an event on the wire *)

\* w is u behind v.
Behind(v, u, w) ==
    /\ Len(w) = Len(v) + Len(u)
    /\ \A i \in 1..Len(v) : w[i] = v[i]
    /\ \A i \in 1..Len(u) : w[Len(v) + i] = u[i]
LEMMA Joined ==
    ASSUME NEW T, NEW v \in Seq(T), NEW u \in Seq(T)
    PROVE  v \o u \in Seq(T) /\ Behind(v, u, v \o u)
  BY DEF Behind

LEMMA JoinedThree == ASSUME NEW a, NEW b, NEW c PROVE <<a, b>> \o <<>> \o <<c>> = <<a, b, c>>
  <1>. DEFINE T == {a, b, c} v == <<a, b>> \o <<>> u == <<c>> w == v \o u
  <1>1. <<a, b>> \in Seq(T) /\ <<>> \in Seq(T) /\ u \in Seq(T)
    OBVIOUS
  <1>2. v \in Seq(T) /\ Len(v) = 2 /\ v[1] = a /\ v[2] = b
    BY <1>1
  <1>3. Len(u) = 1 /\ u[1] = c
    OBVIOUS
  <1>. HIDE DEF v, u, T
  <1>4. w \in Seq(T) /\ Behind(v, u, w)
    BY <1>1, <1>2, Joined
  <1>. HIDE DEF w
  <1>5. Len(w) = 3 /\ w[1] = a /\ w[2] = b /\ w[2 + 1] = c
    BY <1>2, <1>3, <1>4 DEF Behind
  <1>6. w = <<a, b, c>>
    BY <1>4, <1>5
  <1>. QED  BY <1>6 DEF w, v, u
LEMMA JoinedFive ==
    ASSUME NEW a, NEW b, NEW c, NEW d, NEW e
    PROVE  <<a, b>> \o <<c, d>> \o <<e>> = <<a, b, c, d, e>>
  <1>. DEFINE T == {a, b, c, d, e} v == <<a, b>> \o <<c, d>> u == <<e>> w == v \o u
  <1>1. <<a, b>> \in Seq(T) /\ <<c, d>> \in Seq(T) /\ u \in Seq(T)
    OBVIOUS
  <1>2. v \in Seq(T) /\ Len(v) = 4 /\ v[1] = a /\ v[2] = b /\ v[3] = c /\ v[4] = d
    BY <1>1
  <1>3. Len(u) = 1 /\ u[1] = e
    OBVIOUS
  <1>. HIDE DEF v, u, T
  <1>4. w \in Seq(T) /\ Behind(v, u, w)
    BY <1>1, <1>2, Joined
  <1>. HIDE DEF w
  <1>5. Len(w) = 5 /\ w[1] = a /\ w[2] = b /\ w[3] = c /\ w[4] = d /\ w[4 + 1] = e
    BY <1>2, <1>3, <1>4 DEF Behind
  <1>6. w = <<a, b, c, d, e>>
    BY <1>4, <1>5
  <1>. QED  BY <1>6 DEF w, v, u

\* A comment, and an event of the chat face, has one line before the blank one.
OneLine(e) == e = Note \/ protocol = "chat"
Opening(e) ==
    IF e = Note THEN Field("comment", e) ELSE IF protocol = "chat" THEN Field("data", e) ELSE Field("event", e)
BothPieces(line) == <<Piece(line, "head"), Piece(line, "end")>>
LEMMA LinePieces ==
    ASSUME NEW f, NEW e, f # "blank"
    PROVE  Field(f, e) # Blank /\ Pieces(Field(f, e)) = BothPieces(Field(f, e))
  BY DEF Field, Blank, Pieces, BothPieces

LEMMA WiredShort ==
    ASSUME NEW e, OneLine(e)
    PROVE  Wired(e) = <<Piece(Opening(e), "head"), Piece(Opening(e), "end"), Piece(Blank, "end")>>
  <1>1. Pieces(Opening(e)) = BothPieces(Opening(e))
    BY LinePieces DEF Opening
  <1>2. Pieces(Blank) = <<Piece(Blank, "end")>>
    BY DEF Pieces
  <1>3. Wired(e) = Pieces(Opening(e)) \o <<>> \o Pieces(Blank)
    BY DEF Wired, OneLine, Opening
  <1>. QED  BY <1>1, <1>2, <1>3, JoinedThree DEF BothPieces
LEMMA WiredLong ==
    ASSUME NEW e, ~ OneLine(e)
    PROVE  Wired(e) = <<Piece(Field("event", e), "head"), Piece(Field("event", e), "end"),
                        Piece(Field("data", e), "head"), Piece(Field("data", e), "end"), Piece(Blank, "end")>>
  <1>1. /\ Pieces(Field("event", e)) = BothPieces(Field("event", e))
        /\ Pieces(Field("data", e)) = BothPieces(Field("data", e))
    BY LinePieces
  <1>2. Pieces(Blank) = <<Piece(Blank, "end")>>
    BY DEF Pieces
  <1>3. Wired(e) = Pieces(Field("event", e)) \o Pieces(Field("data", e)) \o Pieces(Blank)
    BY DEF Wired, OneLine
  <1>4. Wired(e) = BothPieces(Field("event", e)) \o BothPieces(Field("data", e)) \o <<Piece(Blank, "end")>>
    BY <1>1, <1>2, <1>3, Zenon
  <1>5. \A line : BothPieces(line) = <<Piece(line, "head"), Piece(line, "end")>>
    BY DEF BothPieces
  <1>. DEFINE p1 == Piece(Field("event", e), "head")
              p2 == Piece(Field("event", e), "end")
              p3 == Piece(Field("data", e), "head")
              p4 == Piece(Field("data", e), "end")
              p5 == Piece(Blank, "end")
  <1>6. Wired(e) = <<p1, p2>> \o <<p3, p4>> \o <<p5>>
    BY <1>4, <1>5, Zenon
  <1>. HIDE DEF p1, p2, p3, p4, p5
  <1>7. Wired(e) = <<p1, p2, p3, p4, p5>>
    <2>1. <<p1, p2>> \o <<p3, p4>> \o <<p5>> = <<p1, p2, p3, p4, p5>>
      BY JoinedFive
    <2>. QED  BY <1>6, <2>1, Zenon
  <1>. QED  BY <1>7, Zenon DEF p1, p2, p3, p4, p5

LEMMA Two == ASSUME NEW a, NEW b PROVE Append(<<a>>, b) = <<a, b>>
  <1>1. <<a>> \in Seq({a, b}) /\ Len(<<a>>) = 1
    OBVIOUS
  <1>2. Append(<<a>>, b) \in Seq({a, b}) /\ Len(Append(<<a>>, b)) = 2
    BY <1>1
  <1>3. Append(<<a>>, b)[1] = a /\ Append(<<a>>, b)[2] = b
    BY <1>1
  <1>. DEFINE w == Append(<<a>>, b)
  <1>4. w \in Seq({a, b}) /\ Len(w) = 2 /\ w[1] = a /\ w[2] = b
    BY <1>2, <1>3
  <1>. HIDE DEF w
  <1>5. w = <<a, b>>
    BY <1>4
  <1>. QED  BY <1>5 DEF w
LEMMA WholeLine ==
    ASSUME NEW f, NEW e, f # "blank"
    PROVE  LET line == Field(f, e) IN
           /\ Whole(Append(<<Piece(line, "head")>>, Piece(line, "end"))) = line
           /\ Piece(line, "head").line # Blank /\ Piece(line, "end").line # Blank
  <1>. DEFINE line == Field(f, e) b == Append(<<Piece(line, "head")>>, Piece(line, "end"))
  <1>1. b = BothPieces(line)
    BY Two, Zenon DEF BothPieces
  <1>2. Len(b) = 2 /\ b[2] = Piece(line, "end")
    BY <1>1 DEF BothPieces
  <1>3. Pieces(line) = BothPieces(line) /\ line # Blank
    BY LinePieces
  <1>4. Piece(line, "head").line = line /\ Piece(line, "end").line = line
    BY DEF Piece
  <1>. HIDE DEF b, line
  <1>5. Whole(b) = line
    BY <1>1, <1>2, <1>3, <1>4 DEF Whole
  <1>. QED  BY <1>3, <1>4, <1>5 DEF b, line
LEMMA WholeBlank == Whole(Append(<<>>, Piece(Blank, "end"))) = Blank
  <1>1. Append(<<>>, Piece(Blank, "end")) = <<Piece(Blank, "end")>>
    OBVIOUS
  <1>. QED  BY <1>1 DEF Whole, Pieces, Piece

------------------------------------------------------------------------------
(* A reader that has read k pieces of an event *)

Mid(q, e, k) ==
    \/ k = 0 /\ q.buffer = <<>> /\ q.event = NoEvent /\ q.data = <<>>
    \/ k = 1 /\ q.buffer = <<Wired(e)[1]>> /\ q.event = NoEvent /\ q.data = <<>>
    \/ /\ k = 2 /\ q.buffer = <<>>
       /\ q.event = IF OneLine(e) THEN NoEvent ELSE e.name
       /\ q.data = IF OneLine(e) /\ e # Note THEN <<e>> ELSE <<>>
    \/ k = 3 /\ ~ OneLine(e) /\ q.buffer = <<Wired(e)[3]>> /\ q.event = e.name /\ q.data = <<>>
    \/ k = 4 /\ ~ OneLine(e) /\ q.buffer = <<>> /\ q.event = e.name /\ q.data = <<e>>
IsProbe(q) == q = [buffer |-> q.buffer, event |-> q.event, data |-> q.data, result |-> q.result]

\* The fields of a probe, and what changes with one of them.
Fields(q, buffer, event, data, result) ==
    IsProbe(q) /\ q.buffer = buffer /\ q.event = event /\ q.data = data /\ q.result = result
LEMMA PutBuffer ==
    ASSUME NEW q, NEW b, NEW e, NEW d, NEW x, Fields(q, b, e, d, x), NEW v, NEW r, r = [q EXCEPT !.buffer = v]
    PROVE  Fields(r, v, e, d, x)
  BY DEF IsProbe, Fields
LEMMA PutEvent ==
    ASSUME NEW q, NEW b, NEW e, NEW d, NEW x, Fields(q, b, e, d, x), NEW v, NEW r, r = [q EXCEPT !.event = v]
    PROVE  Fields(r, b, v, d, x)
  BY DEF IsProbe, Fields
LEMMA PutData ==
    ASSUME NEW q, NEW b, NEW e, NEW d, NEW x, Fields(q, b, e, d, x), NEW v, NEW r, r = [q EXCEPT !.data = v]
    PROVE  Fields(r, b, e, v, x)
  BY DEF IsProbe, Fields
LEMMA PutResult ==
    ASSUME NEW q, NEW b, NEW e, NEW d, NEW x, Fields(q, b, e, d, x), NEW v, NEW r, r = [q EXCEPT !.result = v]
    PROVE  Fields(r, b, e, d, v)
  BY DEF IsProbe, Fields

LEMMA WiredLength == \A e : Len(Wired(e)) = IF OneLine(e) THEN 3 ELSE 5
  BY WiredShort, WiredLong

\* The probe, one piece on.
Told(r, e) ==
    IF e = Note THEN r ELSE Observe([r EXCEPT !.saw = TRUE], IF OneLine(e) THEN NoEvent ELSE e.name, <<e>>)
Moved(q, e, k, piece, next) ==
    /\ IsProbe(next)
    /\ k + 1 < Len(Wired(e)) => piece.line # Blank /\ Mid(next, e, k + 1) /\ next.result = q.result
    /\ k + 1 = Len(Wired(e)) => piece.line = Blank /\ Mid(next, e, 0) /\ next.result = Told(q.result, e)
LEMMA ProbeMoves ==
    ASSUME NEW q, IsProbe(q), NEW e, NEW k \in 0..(Len(Wired(e)) - 1), Mid(q, e, k)
    PROVE  Moved(q, e, k, Wired(e)[k + 1], Read(q, Wired(e)[k + 1]))
  <1>. DEFINE next(piece) == Read(q, piece)
  <1>11. Fields(q, q.buffer, q.event, q.data, q.result)
    BY DEF Fields
  <1>0. Len(Wired(e)) = (IF OneLine(e) THEN 3 ELSE 5) /\ k \in Nat
    <2>1. Len(Wired(e)) = (IF OneLine(e) THEN 3 ELSE 5)
      BY WiredLength
    <2>. QED  BY <2>1
  <1>1. ASSUME NEW piece, piece.part = "head"
        PROVE  /\ IsProbe(next(piece)) /\ next(piece).result = q.result
               /\ next(piece).buffer = Append(q.buffer, piece)
               /\ next(piece).event = q.event /\ next(piece).data = q.data
    <2>1. next(piece) = [q EXCEPT !.buffer = Append(q.buffer, piece)]
      BY <1>1 DEF Read
    <2>2. Fields(next(piece), Append(q.buffer, piece), q.event, q.data, q.result)
      BY <1>11, <2>1, PutBuffer, Zenon
    <2>. QED  BY <2>2 DEF Fields
  <1>2. ASSUME NEW piece, piece.part = "end", NEW r, r = Line(q, Whole(Append(q.buffer, piece)))
        PROVE  next(piece) = [r EXCEPT !.buffer = <<>>]
    BY <1>2, Zenon DEF Read
  <1>3. \A line : Piece(line, "head").part = "head" /\ Piece(line, "end").part = "end"
    BY DEF Piece
  <1>4. \A f, g : Field(f, g).field = f /\ Field(f, g).of = g
    BY DEF Field
  <1>5. CASE k = 0
    <2>1. PICK f : f # "blank" /\ Wired(e)[1] = Piece(Field(f, e), "head")
      BY WiredShort, WiredLong DEF Opening
    <2>2. Wired(e)[1].line # Blank /\ Wired(e)[1].part = "head"
      BY <2>1, <1>3, WholeLine
    <2>3. q.buffer = <<>> /\ q.event = NoEvent /\ q.data = <<>>
      BY <1>5 DEF Mid
    <2>4. Mid(next(Wired(e)[1]), e, 1)
      BY <1>1, <2>2, <2>3 DEF Mid
    <2>5. k + 1 = 1 /\ 1 < Len(Wired(e))
      BY <1>5, <1>0
    <2>. HIDE DEF next
    <2>6. Moved(q, e, k, Wired(e)[1], next(Wired(e)[1]))
      BY <1>1, <2>2, <2>4, <2>5 DEF Moved
    <2>. QED  BY <2>5, <2>6 DEF next
  <1>6. CASE k = 1
    <2>. DEFINE piece == Wired(e)[2]
    <2>1. PICK f : /\ f \in {"comment", "data", "event"}
                   /\ f = (IF e = Note THEN "comment" ELSE IF OneLine(e) THEN "data" ELSE "event")
                   /\ Wired(e)[1] = Piece(Field(f, e), "head") /\ piece = Piece(Field(f, e), "end")
      BY WiredShort, WiredLong DEF Opening, OneLine
    <2>2. q.buffer = <<Wired(e)[1]>> /\ q.event = NoEvent /\ q.data = <<>>
      BY <1>6 DEF Mid
    <2>3. piece.line # Blank /\ piece.part = "end" /\ Whole(Append(q.buffer, piece)) = Field(f, e)
      BY <2>1, <2>2, <1>3, WholeLine
    <2>. HIDE DEF piece
    <2>4. PICK r : r = Line(q, Field(f, e)) /\ next(piece) = [r EXCEPT !.buffer = <<>>]
      BY <1>2, <2>3
    <2>. HIDE DEF next
    <2>8. Fields(q, q.buffer, NoEvent, <<>>, q.result)
      BY <1>11, <2>2
    <2>9. /\ Field(f, e).field = f /\ Field(f, e).of = e
          /\ (f = "comment" => OneLine(e) /\ e = Note) /\ (f = "data" => OneLine(e) /\ e # Note)
          /\ (f = "event" => ~ OneLine(e))
      BY <2>1, <1>4 DEF OneLine
    <2>10. /\ f = "comment" => Line(q, Field(f, e)) = q
           /\ f = "data" => Line(q, Field(f, e)) = [q EXCEPT !.data = Append(q.data, e)]
           /\ f = "event" => Line(q, Field(f, e)) = [q EXCEPT !.event = e.name]
      <3>1. ASSUME NEW line, line.field = "comment" PROVE Line(q, line) = q
        BY <3>1 DEF Line
      <3>2. ASSUME NEW line, line.field = "data" PROVE Line(q, line) = [q EXCEPT !.data = Append(q.data, line.of)]
        BY <3>2 DEF Line
      <3>3. ASSUME NEW line, line.field = "event" PROVE Line(q, line) = [q EXCEPT !.event = line.of.name]
        BY <3>3 DEF Line
      <3>. QED  BY <2>9, <3>1, <3>2, <3>3
    <2>5. IsProbe(next(piece)) /\ Mid(next(piece), e, 2) /\ next(piece).result = q.result
      <3>1. CASE f = "comment"
        <4>1. r = q /\ OneLine(e) /\ e = Note
          BY <3>1, <2>4, <2>9, <2>10
        <4>2. Fields(next(piece), <<>>, NoEvent, <<>>, q.result)
          <5>1. next(piece) = [q EXCEPT !.buffer = <<>>]
            BY <4>1, <2>4
          <5>. QED  BY <2>8, <5>1, PutBuffer, Zenon
        <4>. QED  BY <4>1, <4>2 DEF Mid, Fields
      <3>2. CASE f = "data"
        <4>1. r = [q EXCEPT !.data = Append(q.data, e)] /\ OneLine(e) /\ e # Note
          BY <3>2, <2>4, <2>9, <2>10
        <4>2. Append(q.data, e) = <<e>>
          BY <2>2
        <4>3. Fields(r, q.buffer, NoEvent, <<e>>, q.result)
          BY <2>8, <4>1, <4>2, PutData, Zenon
        <4>4. Fields(next(piece), <<>>, NoEvent, <<e>>, q.result)
          BY <4>3, <2>4, PutBuffer, Zenon
        <4>. QED  BY <4>1, <4>4 DEF Mid, Fields
      <3>3. CASE f = "event"
        <4>1. r = [q EXCEPT !.event = e.name] /\ ~ OneLine(e)
          BY <3>3, <2>4, <2>9, <2>10
        <4>2. Fields(r, q.buffer, e.name, <<>>, q.result)
          BY <2>8, <4>1, PutEvent, Zenon
        <4>3. Fields(next(piece), <<>>, e.name, <<>>, q.result)
          BY <4>2, <2>4, PutBuffer, Zenon
        <4>. QED  BY <4>1, <4>3 DEF Mid, Fields
      <3>. QED  BY <2>1, <3>1, <3>2, <3>3
    <2>6. k + 1 = 2 /\ 2 < Len(Wired(e))
      BY <1>6, <1>0
    <2>7. Moved(q, e, k, piece, next(piece))
      BY <2>3, <2>5, <2>6 DEF Moved
    <2>. QED  BY <2>6, <2>7 DEF piece, next
  <1>7. CASE k = 2 /\ ~ OneLine(e)
    <2>1. Wired(e)[3] = Piece(Field("data", e), "head")
      BY <1>7, WiredLong
    <2>2. Wired(e)[3].line # Blank /\ Wired(e)[3].part = "head"
      BY <2>1, <1>3, WholeLine
    <2>3. q.buffer = <<>> /\ q.event = e.name /\ q.data = <<>>
      BY <1>7 DEF Mid
    <2>4. Mid(next(Wired(e)[3]), e, 3)
      BY <1>1, <1>7, <2>2, <2>3 DEF Mid
    <2>5. k + 1 = 3 /\ 3 < Len(Wired(e))
      BY <1>7, <1>0
    <2>. HIDE DEF next
    <2>6. Moved(q, e, k, Wired(e)[3], next(Wired(e)[3]))
      BY <1>1, <2>2, <2>4, <2>5 DEF Moved
    <2>. QED  BY <2>5, <2>6 DEF next
  <1>8. CASE k = 3
    <2>. DEFINE piece == Wired(e)[4]
    <2>1. ~ OneLine(e) /\ q.buffer = <<Wired(e)[3]>> /\ q.event = e.name /\ q.data = <<>>
      BY <1>8 DEF Mid
    <2>2. Wired(e)[3] = Piece(Field("data", e), "head") /\ piece = Piece(Field("data", e), "end")
      BY <2>1, WiredLong
    <2>3. piece.line # Blank /\ piece.part = "end" /\ Whole(Append(q.buffer, piece)) = Field("data", e)
      BY <2>1, <2>2, <1>3, WholeLine
    <2>. HIDE DEF piece
    <2>4. PICK r : r = Line(q, Field("data", e)) /\ next(piece) = [r EXCEPT !.buffer = <<>>]
      BY <1>2, <2>3
    <2>. HIDE DEF next
    <2>5. IsProbe(next(piece)) /\ Mid(next(piece), e, 4) /\ next(piece).result = q.result
      <3>1. r = [q EXCEPT !.data = Append(q.data, e)]
        <4>1. Field("data", e).field = "data" /\ Field("data", e).of = e
          BY <1>4
        <4>2. \A line : line.field = "data" => Line(q, line) = [q EXCEPT !.data = Append(q.data, line.of)]
          BY DEF Line
        <4>. QED  BY <2>4, <4>1, <4>2, Zenon
      <3>2. Append(q.data, e) = <<e>>
        BY <2>1
      <3>3. Fields(r, q.buffer, e.name, <<e>>, q.result)
        BY <1>11, <3>1, <3>2, <2>1, PutData, Zenon
      <3>4. Fields(next(piece), <<>>, e.name, <<e>>, q.result)
        BY <3>3, <2>4, PutBuffer, Zenon
      <3>. QED  BY <2>1, <3>4 DEF Mid, Fields
    <2>6. k + 1 = 4 /\ 4 < Len(Wired(e))
      BY <1>8, <2>1, <1>0
    <2>7. Moved(q, e, k, piece, next(piece))
      BY <2>3, <2>5, <2>6 DEF Moved
    <2>. QED  BY <2>6, <2>7 DEF piece, next
  <1>9. CASE k + 1 = Len(Wired(e))
    <2>. DEFINE piece == Wired(e)[k + 1]
    <2>1. piece = Piece(Blank, "end") /\ k = IF OneLine(e) THEN 2 ELSE 4
      <3>1. k = IF OneLine(e) THEN 2 ELSE 4
        BY <1>9, <1>0
      <3>. QED  BY <3>1, WiredShort, WiredLong
    <2>2. piece.line = Blank /\ piece.part = "end"
      BY <2>1 DEF Piece
    <2>3. q.buffer = <<>>
      BY <2>1 DEF Mid
    <2>4. Whole(Append(q.buffer, piece)) = Blank
      BY <2>1, <2>3, WholeBlank
    <2>. HIDE DEF piece
    <2>5. PICK r : r = Line(q, Blank) /\ next(piece) = [r EXCEPT !.buffer = <<>>]
      BY <1>2, <2>2, <2>4
    <2>6. r = Dispatch(q)
      BY <2>5, <1>4 DEF Line, Blank
    <2>. HIDE DEF next
    <2>7. CASE e = Note
      <3>1. q.event = NoEvent /\ q.data = <<>>
        BY <2>1, <2>7 DEF Mid, OneLine
      <3>2. Dispatch(q) = q
        BY <3>1 DEF Dispatch
      <3>3. IsProbe(next(piece)) /\ Mid(next(piece), e, 0) /\ next(piece).result = q.result
        <4>1. Fields(next(piece), <<>>, NoEvent, <<>>, q.result)
          <5>1. Fields(q, q.buffer, NoEvent, <<>>, q.result)
            BY <1>11, <3>1 DEF Fields
          <5>2. next(piece) = [q EXCEPT !.buffer = <<>>]
            BY <2>5, <2>6, <3>2
          <5>. QED  BY <5>1, <5>2, PutBuffer, Zenon
        <4>. QED  BY <4>1 DEF Mid, Fields
      <3>. QED  BY <1>9, <2>2, <2>7, <3>3 DEF Moved, Told, piece, next
    <2>8. CASE e # Note
      <3>1. q.event = (IF OneLine(e) THEN NoEvent ELSE e.name) /\ q.data = <<e>>
        BY <2>1, <2>8 DEF Mid
      <3>2. Dispatch(q) = [q EXCEPT !.event = NoEvent, !.data = <<>>,
                                    !.result = Observe([q.result EXCEPT !.saw = TRUE], q.event, q.data)]
        BY <3>1 DEF Dispatch
      <3>. DEFINE o == Observe([q.result EXCEPT !.saw = TRUE], q.event, q.data)
      <3>3. /\ IsProbe(next(piece)) /\ Mid(next(piece), e, 0)
            /\ next(piece).result = o
        <4>1. r = [q EXCEPT !.event = NoEvent, !.data = <<>>, !.result = o]
          BY <2>6, <3>2
        <4>. HIDE DEF o
        <4>. DEFINE a == [q EXCEPT !.event = NoEvent] b == [a EXCEPT !.data = <<>>]
        <4>2. r = [b EXCEPT !.result = o]
          BY <4>1 DEF IsProbe
        <4>3. Fields(a, q.buffer, NoEvent, q.data, q.result)
          BY <1>11, PutEvent, Zenon
        <4>. HIDE DEF a
        <4>4. Fields(b, q.buffer, NoEvent, <<>>, q.result)
          BY <4>3, PutData, Zenon
        <4>. HIDE DEF b
        <4>5. Fields(r, q.buffer, NoEvent, <<>>, o)
          BY <4>2, <4>4, PutResult, Zenon
        <4>6. Fields(next(piece), <<>>, NoEvent, <<>>, o)
          BY <4>5, <2>5, PutBuffer, Zenon
        <4>. QED  BY <4>6 DEF Mid, Fields
      <3>. QED  BY <1>9, <2>2, <2>8, <3>1, <3>3 DEF Moved, Told, piece, next
    <2>. QED  BY <2>7, <2>8
  <1>10. /\ k \in {0, 1, 2, 3, 4} /\ (k = 2 /\ OneLine(e) => k + 1 = Len(Wired(e)))
         /\ (k = 4 => k + 1 = Len(Wired(e)))
    <2>1. k \in {0, 1, 2, 3, 4} /\ (k = 4 => ~ OneLine(e))
      BY DEF Mid
    <2>. QED  BY <2>1, <1>0
  <1>. QED  BY <1>5, <1>6, <1>7, <1>8, <1>9, <1>10

------------------------------------------------------------------------------
(* What the probe makes of an event *)

Saying(name, item) == Event(name, item, "none", NoUsage)
AnEvent(e) ==
    \/ e = Note /\ protocol # "responses"
    \/ e \in Verdicts \cup Others
    \/ protocol = "responses" /\ \E name \in {"added", "delta", "done"}, item \in Nat : e = Saying(name, item)
Judged(e) == e.name \in Good \cup Bad
Judgement(e) == IF e.name \in Good THEN "completed" ELSE "failed"
IsResult(r) == r = [usage |-> r.usage, saw |-> r.saw, terminal |-> r.terminal]
Outcome(r, usage, terminal) == IsResult(r) /\ r.saw = TRUE /\ r.usage = usage /\ r.terminal = terminal

LEMMA TakesUsage ==
    ASSUME NEW r, NEW u, NEW t, Outcome(r, u, t), NEW v
    PROVE  Outcome(Takes(r, v), <<Tokens(protocol, v)>>, t)
  BY DEF Outcome, IsResult, Takes
LEMMA RulesIt ==
    ASSUME NEW r, NEW u, NEW t, Outcome(r, u, t), NEW verdict
    PROVE  Outcome(Ruled(r, verdict), u, verdict)
  BY DEF Outcome, IsResult, Ruled

LEMMA SeesIt ==
    ASSUME NEW r, IsResult(r)
    PROVE  Outcome([r EXCEPT !.saw = TRUE], r.usage, r.terminal)
  <1>1. ASSUME NEW v, NEW s, s = [r EXCEPT !.saw = v]
        PROVE  s.saw = v /\ s.usage = r.usage /\ s.terminal = r.terminal
    BY <1>1 DEF IsResult
  <1>2. ASSUME NEW v, NEW s, s = [r EXCEPT !.saw = v]
        PROVE  IsResult(s)
    BY <1>2 DEF IsResult
  <1>. QED  BY <1>1, <1>2 DEF Outcome

LEMMA Observed ==
    ASSUME NEW r, IsResult(r), NEW e, AnEvent(e), e # Note, NEW ev, ev = e.name \/ protocol = "chat",
           protocol \in {"responses", "chat", "anthropic"}
    PROVE  Outcome(Observe([r EXCEPT !.saw = TRUE], ev, <<e>>),
                   IF e.at # "none" THEN <<Tokens(protocol, e.usage)>> ELSE r.usage,
                   IF Judged(e) THEN Judgement(e) ELSE r.terminal)
  <1>. DEFINE s == [r EXCEPT !.saw = TRUE]
  <1>1. Outcome(s, r.usage, r.terminal)
    BY SeesIt
  <1>. HIDE DEF s
  <1>2. Len(<<e>>) = 1 /\ <<e>>[1] = e
    OBVIOUS
  <1>3. CASE protocol = "responses"
    <2>1. Observe(s, ev, <<e>>) = ObserveResponses(s, e)
      BY <1>2, <1>3 DEF Observe
    <2>2. \/ e.name \in {"added", "delta", "done"} /\ e.at = "none"
          \/ e.name \in {"completed", "response.done"} /\ e.at # "none"
          \/ e.name \in {"failed", "cancelled"} /\ e.at = "none"
      BY <1>3 DEF AnEvent, Verdicts, Others, Event, Plain, Note, Saying
    <2>3. CASE e.name \in {"completed", "response.done"} /\ e.at # "none"
      <3>1. ObserveResponses(s, e) = Ruled(Takes(s, e.usage), "completed")
        BY <2>3 DEF ObserveResponses
      <3>2. Outcome(Ruled(Takes(s, e.usage), "completed"), <<Tokens(protocol, e.usage)>>, "completed")
        BY <1>1, TakesUsage, RulesIt
      <3>. QED  BY <2>1, <2>3, <3>1, <3>2 DEF Judged, Judgement, Good, Bad, s
    <2>4. CASE e.name \in {"failed", "cancelled"} /\ e.at = "none"
      <3>1. ObserveResponses(s, e) = Ruled(s, "failed")
        BY <2>4 DEF ObserveResponses
      <3>2. Outcome(Ruled(s, "failed"), r.usage, "failed")
        BY <1>1, RulesIt
      <3>. QED  BY <2>1, <2>4, <3>1, <3>2 DEF Judged, Judgement, Good, Bad, s
    <2>5. CASE e.name \in {"added", "delta", "done"} /\ e.at = "none"
      <3>1. ObserveResponses(s, e) = s
        BY <2>5 DEF ObserveResponses
      <3>. QED  BY <1>1, <2>1, <2>5, <3>1 DEF Judged, Good, Bad, s
    <2>. QED  BY <2>2, <2>3, <2>4, <2>5
  <1>4. CASE protocol = "chat"
    <2>1. Observe(s, ev, <<e>>) = ObserveChat(s, e)
      BY <1>2, <1>4 DEF Observe
    <2>2. \/ e.name = "[DONE]" /\ e.at = "none"
          \/ e.name = "error" /\ e.at = "none"
          \/ e.name = "delta" /\ e.at \in {"none", "top"}
      BY <1>4 DEF AnEvent, Verdicts, Others, Event, Plain
    <2>3. CASE e.name = "[DONE]" /\ e.at = "none"
      <3>1. ObserveChat(s, e) = Ruled(s, "completed")
        BY <2>3 DEF ObserveChat
      <3>2. Outcome(Ruled(s, "completed"), r.usage, "completed")
        BY <1>1, RulesIt
      <3>. QED  BY <2>1, <2>3, <3>1, <3>2 DEF Judged, Judgement, Good, Bad, s
    <2>4. CASE e.name = "error" /\ e.at = "none"
      <3>1. ObserveChat(s, e) = Ruled(s, "failed")
        BY <2>4 DEF ObserveChat
      <3>2. Outcome(Ruled(s, "failed"), r.usage, "failed")
        BY <1>1, RulesIt
      <3>. QED  BY <2>1, <2>4, <3>1, <3>2 DEF Judged, Judgement, Good, Bad, s
    <2>5. CASE e.name = "delta" /\ e.at \in {"none", "top"}
      <3>1. ObserveChat(s, e) = IF e.at # "none" THEN Takes(s, e.usage) ELSE s
        BY <2>5 DEF ObserveChat
      <3>2. Outcome(Takes(s, e.usage), <<Tokens(protocol, e.usage)>>, r.terminal)
        BY <1>1, TakesUsage
      <3>. QED  BY <1>1, <2>1, <2>5, <3>1, <3>2 DEF Judged, Good, Bad, s
    <2>. QED  BY <2>2, <2>3, <2>4, <2>5
  <1>5. CASE protocol = "anthropic"
    <2>1. Observe(s, ev, <<e>>) = ObserveAnthropic(s, e.name, e)
      BY <1>2, <1>5 DEF Observe
    <2>2. \/ e.name = "message_start" /\ e.at = "nested"
          \/ e.name = "message_delta" /\ e.at = "top"
          \/ e.name = "message_stop" /\ e.at = "none"
          \/ e.name = "error" /\ e.at = "none"
          \/ e.name \in {"content_block_delta", "ping"} /\ e.at = "none"
      BY <1>5 DEF AnEvent, Verdicts, Others, Event, Plain
    <2>3. CASE e.name = "message_stop" /\ e.at = "none"
      <3>1. ObserveAnthropic(s, e.name, e) = Ruled(s, "completed")
        BY <2>3 DEF ObserveAnthropic
      <3>2. Outcome(Ruled(s, "completed"), r.usage, "completed")
        BY <1>1, RulesIt
      <3>. QED  BY <2>1, <2>3, <3>1, <3>2 DEF Judged, Judgement, Good, Bad, s
    <2>4. CASE e.name = "error" /\ e.at = "none"
      <3>1. ObserveAnthropic(s, e.name, e) = Ruled(s, "failed")
        BY <2>4 DEF ObserveAnthropic
      <3>2. Outcome(Ruled(s, "failed"), r.usage, "failed")
        BY <1>1, RulesIt
      <3>. QED  BY <2>1, <2>4, <3>1, <3>2 DEF Judged, Judgement, Good, Bad, s
    <2>5. CASE (e.name = "message_start" /\ e.at = "nested") \/ (e.name = "message_delta" /\ e.at = "top")
      <3>1. ObserveAnthropic(s, e.name, e) = Takes(s, e.usage)
        BY <2>5 DEF ObserveAnthropic
      <3>2. Outcome(Takes(s, e.usage), <<Tokens(protocol, e.usage)>>, r.terminal)
        BY <1>1, TakesUsage
      <3>. QED  BY <2>1, <2>5, <3>1, <3>2 DEF Judged, Good, Bad, s
    <2>6. CASE e.name \in {"content_block_delta", "ping"} /\ e.at = "none"
      <3>1. ObserveAnthropic(s, e.name, e) = s
        BY <2>6 DEF ObserveAnthropic
      <3>. QED  BY <1>1, <2>1, <2>6, <3>1 DEF Judged, Good, Bad, s
    <2>. QED  BY <2>2, <2>3, <2>4, <2>5, <2>6
  <1>. QED  BY <1>3, <1>4, <1>5

\* What the first n events tell: the last usage, the last verdict.
UsageIs(usage, n) ==
    \/ usage = <<>> /\ \A m \in 1..n : sent[m].at = "none"
    \/ \E m \in 1..n : /\ sent[m].at # "none" /\ usage = <<Tokens(protocol, sent[m].usage)>>
                       /\ \A j \in (m + 1)..n : sent[j].at = "none"
VerdictIs(terminal, n) ==
    \/ terminal = "pending" /\ \A m \in 1..n : ~ Judged(sent[m])
    \/ \E m \in 1..n : /\ Judged(sent[m]) /\ terminal = Judgement(sent[m])
                       /\ \A j \in (m + 1)..n : ~ Judged(sent[j])
ResultIs(r, n) ==
    /\ IsResult(r) /\ r.saw \in BOOLEAN
    /\ r.saw <=> \E m \in 1..n : sent[m] # Note
    /\ UsageIs(r.usage, n) /\ VerdictIs(r.terminal, n)

LEMMA ResultGrows ==
    ASSUME NEW r, NEW n \in Nat, ResultIs(r, n), AnEvent(sent[n + 1]),
           protocol \in {"responses", "chat", "anthropic"}
    PROVE  ResultIs(Told(r, sent[n + 1]), n + 1)
  <1>. DEFINE e == sent[n + 1]
  <1>1. CASE e = Note
    <2>1. e.at = "none" /\ ~ Judged(e)
      BY <1>1 DEF Note, Plain, Event, Judged, Good, Bad
    <2>2. 1..(n + 1) = 1..n \cup {n + 1}
      OBVIOUS
    <2>3. Told(r, e) = r
      BY <1>1 DEF Told
    <2>4. UsageIs(r.usage, n + 1)
      BY <2>1, <2>2 DEF ResultIs, UsageIs
    <2>5. VerdictIs(r.terminal, n + 1)
      BY <2>1, <2>2 DEF ResultIs, VerdictIs
    <2>6. (\E m \in 1..n : sent[m] # Note) <=> (\E m \in 1..(n + 1) : sent[m] # Note)
      BY <1>1, <2>2
    <2>. QED  BY <2>3, <2>4, <2>5, <2>6 DEF ResultIs
  <1>2. CASE e # Note
    <2>. DEFINE usage == IF e.at # "none" THEN <<Tokens(protocol, e.usage)>> ELSE r.usage
                terminal == IF Judged(e) THEN Judgement(e) ELSE r.terminal
    <2>1. Outcome(Told(r, e), usage, terminal)
      <3>1. protocol = "chat" \/ ~ OneLine(e)
        BY <1>2 DEF OneLine
      <3>. DEFINE ev == IF OneLine(e) THEN NoEvent ELSE e.name
      <3>2. ev = e.name \/ protocol = "chat"
        BY <3>1
      <3>3. Told(r, e) = Observe([r EXCEPT !.saw = TRUE], ev, <<e>>)
        BY <1>2 DEF Told
      <3>4. IsResult(r) /\ AnEvent(e)
        BY DEF ResultIs
      <3>. HIDE DEF ev, e
      <3>. QED  BY <1>2, <3>2, <3>3, <3>4, Observed
    <2>2. n + 1 \in 1..(n + 1) /\ \A j \in (n + 1 + 1)..(n + 1) : FALSE
      OBVIOUS
    <2>3. 1..(n + 1) = 1..n \cup {n + 1} /\ \A m \in 1..n : (m + 1)..(n + 1) = (m + 1)..n \cup {n + 1}
      OBVIOUS
    <2>4. UsageIs(usage, n + 1)
      <3>1. CASE e.at # "none"
        BY <2>2, <3>1 DEF UsageIs
      <3>2. CASE e.at = "none"
        BY <2>3, <3>2 DEF UsageIs, ResultIs
      <3>. QED  BY <3>1, <3>2
    <2>5. VerdictIs(terminal, n + 1)
      <3>1. CASE Judged(e)
        BY <2>2, <3>1 DEF VerdictIs
      <3>2. CASE ~ Judged(e)
        BY <2>3, <3>2 DEF VerdictIs, ResultIs
      <3>. QED  BY <3>1, <3>2
    <2>6. \E m \in 1..(n + 1) : sent[m] # Note
      BY <1>2, <2>2
    <2>. HIDE DEF usage, terminal
    <2>. QED  BY <2>1, <2>4, <2>5, <2>6 DEF Outcome, ResultIs
  <1>. QED  BY <1>1, <1>2

\* The natural numbers have no endless descent.
Below == {pair \in Nat \X Nat : pair[1] < pair[2]}
LEMMA BelowIsFounded == IsWellFoundedOn(Below, Nat)
  BY NatLessThanWellFounded, Zenon DEF OpToRel, Below
LEMMA LeastOf ==
    ASSUME NEW T \in SUBSET Nat, T # {}
    PROVE  \E n \in T : \A m \in T : n <= m
  <1>1. PICK n \in T : \A m \in T : ~ (<<m, n>> \in Below)
    BY BelowIsFounded, WFMin, Zenon
  <1>2. \A m \in T : ~ (m < n)
    BY <1>1 DEF Below
  <1>. QED  BY <1>2
\* What holds at 0, and at each number up to N behind one at which it holds,
\* holds up to N.
LEMMA UpTo ==
    ASSUME NEW N \in Nat, NEW G, 0 \in G, \A n \in 1..N : n - 1 \in G => n \in G
    PROVE  0..N \subseteq G
  <1>. DEFINE bad == {n \in 0..N : n \notin G}
  <1>. SUFFICES ASSUME bad # {} PROVE FALSE
    OBVIOUS
  <1>1. PICK n \in bad : \A m \in bad : n <= m
    <2>1. bad \in SUBSET Nat /\ bad # {}
      OBVIOUS
    <2>. HIDE DEF bad
    <2>. QED  BY <2>1, LeastOf
  <1>2. n \in 1..N /\ n - 1 \in 0..N /\ ~ (n <= n - 1)
    BY <1>1
  <1>. QED  BY <1>1, <1>2

------------------------------------------------------------------------------
(* Places in the stream: after n events and k pieces of the next.  ws is how *)
(* the events are wired.                                                     *)

Placed(ws, x) ==
    /\ x.n \in 0..Len(ws) /\ x.k \in Nat
    /\ x.k = 0 \/ (x.n < Len(ws) /\ x.k < Len(ws[x.n + 1]))
Advances(ws, x, piece, y) ==
    /\ x.n < Len(ws) /\ x.k < Len(ws[x.n + 1]) /\ piece = ws[x.n + 1][x.k + 1]
    /\ IF x.k + 1 < Len(ws[x.n + 1]) THEN y.n = x.n /\ y.k = x.k + 1 ELSE y.n = x.n + 1 /\ y.k = 0
Trail(ws, w, f) ==
    /\ \A i \in 0..Len(w) : Placed(ws, f[i])
    /\ \A i \in 1..Len(w) : Advances(ws, f[i - 1], w[i], f[i])
Leads(ws, x, w, y) ==
    /\ Len(w) \in Nat
    /\ \E f : Trail(ws, w, f) /\ f[0] = x /\ f[Len(w)] = y

LEMMA LeadsNowhere ==
    ASSUME NEW ws, NEW x, Placed(ws, x), NEW w, Len(w) = 0
    PROVE  Leads(ws, x, w, x)
  <1>. DEFINE f == [i \in {0} |-> x]
  <1>1. Trail(ws, w, f)
    <2>1. 0..Len(w) = {0} /\ 1..Len(w) = {}
      OBVIOUS
    <2>2. f[0] = x
      OBVIOUS
    <2>. HIDE DEF f
    <2>. QED  BY <2>1, <2>2 DEF Trail
  <1>2. f[0] = x /\ f[Len(w)] = x
    OBVIOUS
  <1>3. Len(w) \in Nat
    OBVIOUS
  <1>. HIDE DEF f
  <1>. QED  BY <1>1, <1>2, <1>3 DEF Leads

LEMMA LeadsEnds ==
    ASSUME NEW ws, NEW x, NEW w, NEW y, Leads(ws, x, w, y)
    PROVE  Placed(ws, x) /\ Placed(ws, y) /\ (Len(w) = 0 => y = x)
  <1>1. PICK f : Trail(ws, w, f) /\ f[0] = x /\ f[Len(w)] = y
    BY DEF Leads
  <1>2. 0 \in 0..Len(w) /\ Len(w) \in 0..Len(w)
    BY DEF Leads
  <1>. QED  BY <1>1, <1>2 DEF Trail

LEMMA LeadsJoin ==
    ASSUME NEW ws, NEW x, NEW u, NEW y, NEW v, NEW z, NEW w,
           Leads(ws, x, u, y), Leads(ws, y, v, z), Behind(u, v, w)
    PROVE  Leads(ws, x, w, z)
  <1>1. PICK f : Trail(ws, u, f) /\ f[0] = x /\ f[Len(u)] = y
    BY DEF Leads
  <1>2. PICK g : Trail(ws, v, g) /\ g[0] = y /\ g[Len(v)] = z
    BY DEF Leads
  <1>3. Len(u) \in Nat /\ Len(v) \in Nat /\ Len(w) = Len(u) + Len(v)
    BY DEF Leads, Behind
  <1>. DEFINE h == [i \in 0..Len(w) |-> IF i <= Len(u) THEN f[i] ELSE g[i - Len(u)]]
  <1>4. /\ \A i \in 0..Len(u) : h[i] = f[i]
        /\ \A i \in 0..Len(v) : h[Len(u) + i] = g[i]
    BY <1>1, <1>2, <1>3
  <1>. HIDE DEF h
  <1>5. ASSUME NEW i \in 0..Len(w) PROVE Placed(ws, h[i])
    <2>1. i \in 0..Len(u) \/ \E j \in 0..Len(v) : i = Len(u) + j
      <3>1. CASE i > Len(u)
        <4>1. i - Len(u) \in 0..Len(v) /\ i = Len(u) + (i - Len(u))
          BY <1>3, <3>1
        <4>. QED  BY <4>1
      <3>. QED  BY <1>3, <3>1
    <2>. QED  BY <1>1, <1>2, <1>4, <2>1 DEF Trail
  <1>6. ASSUME NEW i \in 1..Len(w) PROVE Advances(ws, h[i - 1], w[i], h[i])
    <2>1. CASE i <= Len(u)
      <3>1. i \in 1..Len(u) /\ i - 1 \in 0..Len(u) /\ i \in 0..Len(u)
        BY <1>3, <2>1
      <3>2. w[i] = u[i] /\ h[i - 1] = f[i - 1] /\ h[i] = f[i]
        BY <3>1, <1>4 DEF Behind
      <3>. QED  BY <1>1, <3>1, <3>2 DEF Trail
    <2>2. CASE i > Len(u)
      <3>. DEFINE j == i - Len(u)
      <3>1. j \in 1..Len(v) /\ j \in 0..Len(v) /\ j - 1 \in 0..Len(v) /\ i = Len(u) + j /\ i - 1 = Len(u) + (j - 1)
        BY <1>3, <2>2
      <3>. HIDE DEF j
      <3>2. w[i] = v[j] /\ h[i - 1] = g[j - 1] /\ h[i] = g[j]
        BY <3>1, <1>4 DEF Behind
      <3>. QED  BY <1>2, <3>1, <3>2 DEF Trail
    <2>. QED  BY <1>3, <2>1, <2>2
  <1>7. h[0] = x /\ h[Len(w)] = z
    <2>1. 0 \in 0..Len(u) /\ Len(v) \in 0..Len(v)
      BY <1>3
    <2>. QED  BY <1>1, <1>2, <1>3, <1>4, <2>1
  <1>. QED  BY <1>3, <1>5, <1>6, <1>7 DEF Leads, Trail

\* What leads from x to y by way of z.
Between(ws, x, u, v, y, z) == Leads(ws, x, u, z) /\ Leads(ws, z, v, y)
LEMMA LeadsSplit ==
    ASSUME NEW ws, NEW x, NEW u, NEW y, NEW v, NEW w, Len(u) \in Nat, Len(v) \in Nat,
           Leads(ws, x, w, y), Behind(u, v, w)
    PROVE  \E z : Between(ws, x, u, v, y, z)
  <1>1. PICK f : Trail(ws, w, f) /\ f[0] = x /\ f[Len(w)] = y
    BY DEF Leads
  <1>2. Len(w) = Len(u) + Len(v)
    BY DEF Behind
  <1>. DEFINE g == [i \in 0..Len(v) |-> f[Len(u) + i]]
  <1>3. \A i \in 0..Len(v) : g[i] = f[Len(u) + i]
    OBVIOUS
  <1>. HIDE DEF g
  <1>4. Trail(ws, u, f)
    <2>1. \A i \in 0..Len(u) : i \in 0..Len(w)
      BY <1>2
    <2>2. \A i \in 1..Len(u) : i \in 1..Len(w) /\ w[i] = u[i]
      BY <1>2 DEF Behind
    <2>. QED  BY <1>1, <2>1, <2>2 DEF Trail
  <1>5. Trail(ws, v, g)
    <2>1. ASSUME NEW i \in 0..Len(v) PROVE Placed(ws, g[i])
      <3>1. Len(u) + i \in 0..Len(w)
        BY <1>2
      <3>. QED  BY <1>1, <1>3, <3>1 DEF Trail
    <2>2. ASSUME NEW i \in 1..Len(v) PROVE Advances(ws, g[i - 1], v[i], g[i])
      <3>1. /\ Len(u) + i \in 1..Len(w) /\ i \in 0..Len(v) /\ i - 1 \in 0..Len(v)
            /\ Len(u) + (i - 1) = (Len(u) + i) - 1
        BY <1>2
      <3>2. w[Len(u) + i] = v[i]
        BY DEF Behind
      <3>3. Advances(ws, f[(Len(u) + i) - 1], w[Len(u) + i], f[Len(u) + i])
        BY <1>1, <3>1 DEF Trail
      <3>. QED  BY <1>3, <3>1, <3>2, <3>3
    <2>. QED  BY <2>1, <2>2 DEF Trail
  <1>6. g[0] = f[Len(u)] /\ g[Len(v)] = y
    <2>1. 0 \in 0..Len(v) /\ Len(v) \in 0..Len(v) /\ Len(u) + 0 = Len(u)
      OBVIOUS
    <2>. QED  BY <1>1, <1>2, <1>3, <2>1
  <1>. QED  BY <1>1, <1>4, <1>5, <1>6 DEF Leads, Between

\* One event more.
Extends(ws, more) ==
    /\ Len(ws) \in Nat /\ Len(more) = Len(ws) + 1
    /\ \A n \in 1..Len(ws) : more[n] = ws[n]
LEMMA PlacedMore ==
    ASSUME NEW ws, NEW more, Extends(ws, more), NEW x, Placed(ws, x)
    PROVE  Placed(more, x)
  <1>1. x.n \in 0..Len(more)
    BY DEF Placed, Extends
  <1>2. CASE x.n < Len(ws)
    <2>1. x.n + 1 \in 1..Len(ws) /\ x.n < Len(more)
      BY <1>2 DEF Placed, Extends
    <2>. QED  BY <1>1, <1>2, <2>1 DEF Placed, Extends
  <1>3. CASE ~ (x.n < Len(ws))
    <2>1. x.k = 0
      BY <1>3 DEF Placed
    <2>. QED  BY <1>1, <2>1 DEF Placed
  <1>. QED  BY <1>2, <1>3
LEMMA LeadsMore ==
    ASSUME NEW ws, NEW more, Extends(ws, more), NEW x, NEW w, NEW y, Leads(ws, x, w, y)
    PROVE  Leads(more, x, w, y)
  <1>1. PICK f : Trail(ws, w, f) /\ f[0] = x /\ f[Len(w)] = y
    BY DEF Leads
  <1>2. \A i \in 0..Len(w) : Placed(more, f[i])
    BY <1>1, PlacedMore DEF Trail
  <1>3. ASSUME NEW i \in 1..Len(w) PROVE Advances(more, f[i - 1], w[i], f[i])
    <2>1. i - 1 \in 0..Len(w)
      BY DEF Leads
    <2>2. Advances(ws, f[i - 1], w[i], f[i]) /\ Placed(ws, f[i - 1])
      BY <1>1, <2>1 DEF Trail
    <2>. DEFINE a == f[i - 1].n
    <2>3. a + 1 \in 1..Len(ws) /\ a < Len(more)
      <3>1. a < Len(ws) /\ a \in 0..Len(ws)
        BY <2>2 DEF Advances, Placed
      <3>2. Len(ws) \in Nat /\ Len(more) \in Nat /\ Len(ws) <= Len(more)
        BY DEF Extends
      <3>. HIDE DEF a
      <3>. QED  BY <3>1, <3>2
    <2>4. more[a + 1] = ws[a + 1]
      <3>. HIDE DEF a
      <3>. QED  BY <2>3 DEF Extends
    <2>. QED  BY <2>2, <2>3, <2>4 DEF Advances
  <1>. QED  BY <1>1, <1>2, <1>3 DEF Leads, Trail

LEMMA LeadsEvent ==
    ASSUME NEW ws, NEW n, n + 1 = Len(ws), n \in Nat, NEW w, w = ws[n + 1], Len(w) \in Nat, Len(w) > 0,
           NEW x, x.n = n, x.k = 0
    PROVE  Leads(ws, x, w, [n |-> n + 1, k |-> 0])
  <1>. DEFINE y == [n |-> n + 1, k |-> 0]
              f == [i \in 0..Len(w) |-> IF i = 0 THEN x ELSE IF i = Len(w) THEN y ELSE [n |-> n, k |-> i]]
  <1>1. /\ f[0] = x /\ f[Len(w)] = y
        /\ \A i \in 0..Len(w) : i < Len(w) => f[i].n = n /\ f[i].k = i
    <2>1. f[0] = x /\ f[Len(w)] = y
      OBVIOUS
    <2>2. \A i \in 1..Len(w) : i < Len(w) => f[i] = [n |-> n, k |-> i]
      OBVIOUS
    <2>3. \A i \in 0..Len(w) : i = 0 \/ i \in 1..Len(w)
      OBVIOUS
    <2>. HIDE DEF f, y
    <2>4. ASSUME NEW i \in 0..Len(w), i < Len(w) PROVE f[i].n = n /\ f[i].k = i
      <3>1. CASE i = 0
        BY <2>1, <3>1
      <3>2. CASE i # 0
        <4>1. f[i] = [n |-> n, k |-> i]
          BY <2>2, <2>3, <2>4, <3>2
        <4>. QED  BY <4>1
      <3>. QED  BY <3>1, <3>2
    <2>. QED  BY <2>1, <2>4
  <1>2. y.n = n + 1 /\ y.k = 0
    OBVIOUS
  <1>. HIDE DEF f, y
  <1>3. ASSUME NEW i \in 0..Len(w) PROVE Placed(ws, f[i])
    <2>1. CASE i = Len(w)
      <3>1. f[i].n = Len(ws) /\ f[i].k = 0 /\ Len(ws) \in 0..Len(ws)
        BY <1>1, <1>2, <2>1
      <3>. QED  BY <3>1 DEF Placed
    <2>2. CASE i < Len(w)
      BY <1>1, <2>2 DEF Placed
    <2>. QED  BY <2>1, <2>2
  <1>4. ASSUME NEW i \in 1..Len(w) PROVE Advances(ws, f[i - 1], w[i], f[i])
    <2>1. f[i - 1].n = n /\ f[i - 1].k = i - 1 /\ i - 1 + 1 = i
      BY <1>1
    <2>2. CASE i = Len(w)
      BY <1>1, <1>2, <2>1, <2>2 DEF Advances
    <2>3. CASE i < Len(w)
      BY <1>1, <2>1, <2>3 DEF Advances
    <2>. QED  BY <2>2, <2>3
  <1>. QED  BY <1>1, <1>3, <1>4 DEF Leads, Trail, y

\* Every event passed is one blank line read.
Blanked(ws) ==
    \A n \in 1..Len(ws) : \A i \in 1..Len(ws[n]) : ws[n][i].line = Blank <=> i = Len(ws[n])
LEMMA BlanksCount ==
    ASSUME NEW ws, Len(ws) \in Nat, \A n \in 1..Len(ws) : Len(ws[n]) \in Nat, Blanked(ws),
           NEW x, NEW w, NEW y, Leads(ws, x, w, y), DOMAIN w = 1..Len(w)
    PROVE  EventsIn(w) \in Nat /\ y.n = x.n + EventsIn(w)
  <1>1. PICK f : Trail(ws, w, f) /\ f[0] = x /\ f[Len(w)] = y
    BY DEF Leads
  <1>. DEFINE blanks(m) == {i \in 1..m : w[i].line = Blank}
              G == {m \in 0..Len(w) : /\ IsFiniteSet(blanks(m)) /\ Cardinality(blanks(m)) \in Nat
                                      /\ f[m].n = x.n + Cardinality(blanks(m))}
  <1>2. 0 \in G
    <2>1. blanks(0) = {}
      OBVIOUS
    <2>2. IsFiniteSet(blanks(0)) /\ Cardinality(blanks(0)) = 0
      BY <2>1, FS_EmptySet
    <2>3. x.n = x.n + 0 /\ 0 \in 0..Len(w)
      <3>1. Placed(ws, x)
        BY LeadsEnds
      <3>. QED  BY <3>1 DEF Placed, Leads
    <2>. HIDE DEF blanks
    <2>. QED  BY <1>1, <2>2, <2>3
  <1>3. ASSUME NEW m \in 1..Len(w), m - 1 \in G PROVE m \in G
    <2>0. /\ m \in 0..Len(w) /\ m - 1 \in 0..Len(w) /\ IsFiniteSet(blanks(m - 1)) /\ Cardinality(blanks(m - 1)) \in Nat
          /\ f[m - 1].n = x.n + Cardinality(blanks(m - 1))
      BY <1>3
    <2>1. Advances(ws, f[m - 1], w[m], f[m]) /\ Placed(ws, f[m - 1]) /\ Placed(ws, x)
      BY <1>1, <2>0, LeadsEnds DEF Trail
    <2>. DEFINE a == f[m - 1].n b == f[m - 1].k
    <2>2. a \in Nat /\ b \in Nat /\ a + 1 \in 1..Len(ws) /\ x.n \in Nat
      <3>1. a \in 0..Len(ws) /\ b \in Nat /\ x.n \in 0..Len(ws)
        BY <2>1 DEF Placed
      <3>2. a < Len(ws)
        BY <2>1 DEF Advances
      <3>. HIDE DEF a, b
      <3>. QED  BY <3>1, <3>2
    <2>3. Len(ws[a + 1]) \in Nat
      BY <2>2
    <2>4. b + 1 \in 1..Len(ws[a + 1]) /\ w[m] = ws[a + 1][b + 1]
      <3>1. b < Len(ws[a + 1]) /\ w[m] = ws[a + 1][b + 1]
        BY <2>1 DEF Advances
      <3>. HIDE DEF a, b
      <3>. QED  BY <2>2, <2>3, <3>1
    <2>5. w[m].line = Blank <=> b + 1 = Len(ws[a + 1])
      BY <2>2, <2>4 DEF Blanked
    <2>6. f[m].n = IF w[m].line = Blank THEN a + 1 ELSE a
      <3>1. IF b + 1 < Len(ws[a + 1]) THEN f[m].n = a ELSE f[m].n = a + 1
        BY <2>1 DEF Advances
      <3>. HIDE DEF a, b
      <3>. QED  BY <2>2, <2>3, <2>4, <2>5, <3>1
    <2>7. CASE w[m].line = Blank
      <3>1. blanks(m) = blanks(m - 1) \cup {m} /\ m \notin blanks(m - 1)
        BY <2>7
      <3>2. IsFiniteSet(blanks(m)) /\ Cardinality(blanks(m)) = Cardinality(blanks(m - 1)) + 1
        <4>. HIDE DEF blanks
        <4>1. /\ IsFiniteSet(blanks(m - 1) \cup {m})
              /\ Cardinality(blanks(m - 1) \cup {m}) = Cardinality(blanks(m - 1)) + 1
          BY <2>0, <3>1, FS_AddElement
        <4>. QED  BY <3>1, <4>1
      <3>. DEFINE c == Cardinality(blanks(m - 1))
      <3>3. c \in Nat /\ a = x.n + c /\ f[m].n = a + 1
        BY <2>0, <2>6, <2>7
      <3>4. c + 1 \in Nat /\ f[m].n = x.n + (c + 1)
        <4>1. \A p, q \in Nat : q + 1 \in Nat /\ (p + q) + 1 = p + (q + 1)
          OBVIOUS
        <4>. HIDE DEF c, a
        <4>2. f[m].n = (x.n + c) + 1
          BY <3>3
        <4>. QED  BY <2>2, <3>3, <4>1, <4>2
      <3>. HIDE DEF blanks
      <3>. QED  BY <2>0, <3>2, <3>4
    <2>8. CASE w[m].line # Blank
      <3>1. blanks(m) = blanks(m - 1)
        BY <2>8
      <3>. HIDE DEF blanks
      <3>. QED  BY <2>0, <2>6, <2>8, <3>1
    <2>. QED  BY <2>7, <2>8
  <1>4. Len(w) \in Nat
    BY DEF Leads
  <1>5. Len(w) \in G
    <2>. HIDE DEF G
    <2>1. 0..Len(w) \subseteq G
      BY <1>2, <1>3, <1>4, UpTo
    <2>. QED  BY <1>4, <2>1
  <1>6. EventsIn(w) = Cardinality(blanks(Len(w)))
    <2>1. {i \in DOMAIN w : w[i].line = Blank} = blanks(Len(w))
      OBVIOUS
    <2>. HIDE DEF blanks
    <2>. QED  BY <2>1 DEF EventsIn
  <1>. HIDE DEF blanks
  <1>. QED  BY <1>1, <1>5, <1>6

------------------------------------------------------------------------------
(* The probe along the stream *)

\* A chunk, piece by piece.
PushSteps(q, w, f) == f[0] = q /\ \A n \in 1..Len(w) : f[n] = Read(f[n - 1], w[n])
LEMMA PushReads ==
    ASSUME NEW q, NEW w, Len(w) \in Nat
    PROVE  \E f : PushSteps(q, w, f) /\ Push(q, w) = f[Len(w)]
  <1>. DEFINE Def(m, f) == [n \in 0..m |-> IF n = 0 THEN q ELSE Read(f[n - 1], w[n])]
              G == {m \in 0..Len(w) : \E f : f = Def(m, f)}
  <1>1. 0 \in G
    <2>. DEFINE first == [n \in 0..0 |-> q]
    <2>1. first = Def(0, first)
      <3>1. \A n \in 0..0 : n = 0
        OBVIOUS
      <3>. QED  BY <3>1
    <2>. HIDE DEF first, Def
    <2>. QED  BY <2>1
  <1>2. ASSUME NEW m \in 1..Len(w), m - 1 \in G PROVE m \in G
    <2>1. PICK f : f = Def(m - 1, f)
      BY <1>2
    <2>. DEFINE longer == [n \in 0..m |-> IF n = m THEN Read(f[m - 1], w[m]) ELSE f[n]]
    <2>2. /\ m \in 0..m /\ 0 \in 0..(m - 1) /\ 0 \in 0..m /\ 0 # m
          /\ \A n \in 0..m : n = m \/ n \in 0..(m - 1)
          /\ \A n \in 0..(m - 1) : n \in 0..m /\ n # m
          /\ \A n \in 1..m : n - 1 \in 0..(m - 1) /\ n \in 0..m /\ n # 0
          /\ \A n \in 0..m : n = 0 \/ n \in 1..m
      OBVIOUS
    <2>3. longer[m] = Read(f[m - 1], w[m]) /\ \A n \in 0..(m - 1) : longer[n] = f[n]
      BY <2>2, Zenon
    <2>4. \A n \in 0..(m - 1) : f[n] = IF n = 0 THEN q ELSE Read(f[n - 1], w[n])
      BY <2>1, Zenon
    <2>5. longer = [n \in 0..m |-> longer[n]]
      OBVIOUS
    <2>. HIDE DEF longer
    <2>6. ASSUME NEW n \in 0..m
          PROVE  longer[n] = IF n = 0 THEN q ELSE Read(longer[n - 1], w[n])
      <3>1. CASE n = m
        BY <2>2, <2>3, <3>1, Zenon
      <3>2. CASE n \in 0..(m - 1)
        <4>1. CASE n = 0
          BY <2>2, <2>3, <2>4, <4>1, Zenon
        <4>2. CASE n # 0
          BY <2>2, <2>3, <2>4, <3>2, <4>2, Zenon
        <4>. QED  BY <4>1, <4>2
      <3>. QED  BY <2>2, <3>1, <3>2
    <2>7. longer = Def(m, longer)
      BY <2>5, <2>6, Zenon
    <2>. HIDE DEF Def
    <2>. QED  BY <2>7
  <1>3. PICK g : g = Def(Len(w), g)
    <2>1. 0..Len(w) \subseteq G
      <3>. HIDE DEF G
      <3>. QED  BY <1>1, <1>2, UpTo
    <2>2. Len(w) \in G
      <3>. HIDE DEF G
      <3>. QED  BY <2>1
    <2>. HIDE DEF Def
    <2>. QED  BY <2>2
  <1>. DEFINE t == CHOOSE f : f = Def(Len(w), f)
  <1>4. t = Def(Len(w), t)
    <2>. HIDE DEF Def
    <2>. QED  BY <1>3, Zenon
  <1>5. Push(q, w) = t[Len(w)]
    BY Zenon DEF Push
  <1>. HIDE DEF t
  <1>6. PushSteps(q, w, t)
    <2>1. \A n \in 0..Len(w) : t[n] = IF n = 0 THEN q ELSE Read(t[n - 1], w[n])
      BY <1>4, Zenon
    <2>2. 0 \in 0..Len(w) /\ \A n \in 1..Len(w) : n \in 0..Len(w) /\ n # 0
      OBVIOUS
    <2>. QED  BY <2>1, <2>2, Zenon DEF PushSteps
  <1>. QED  BY <1>5, <1>6

\* How the events are wired.
Wiring == [n \in 1..Len(sent) |-> Wired(sent[n])]
IsList(s) == \E T : s \in Seq(T)
Faces == protocol \in {"responses", "chat", "anthropic"}
EventsHold == IsList(sent) /\ Faces /\ \A n \in 1..Len(sent) : AnEvent(sent[n])

\* The probe is where the events up to x have brought it.
ProbeIsAt(q, x) == IsProbe(q) /\ Mid(q, sent[x.n + 1], x.k) /\ ResultIs(q.result, x.n)

LEMMA WiringIs ==
    ASSUME EventsHold
    PROVE  /\ Len(sent) \in Nat /\ Len(Wiring) = Len(sent)
           /\ \A n \in 1..Len(sent) : Wiring[n] = Wired(sent[n])
  <1>1. Len(sent) \in Nat
    BY DEF EventsHold, IsList
  <1>2. Wiring \in Seq({Wired(sent[n]) : n \in 1..Len(sent)}) /\ Len(Wiring) = Len(sent)
    BY <1>1 DEF Wiring
  <1>. QED  BY <1>1, <1>2 DEF Wiring

LEMMA ProbeStep ==
    ASSUME EventsHold, NEW q, NEW x, NEW piece, NEW y, ProbeIsAt(q, x),
           Placed(Wiring, x), Advances(Wiring, x, piece, y)
    PROVE  ProbeIsAt(Read(q, piece), y)
  <1>. DEFINE e == sent[x.n + 1] next == Read(q, piece)
  <1>1. x.n \in Nat /\ x.n + 1 \in 1..Len(sent) /\ x.k \in Nat
    <2>1. x.n \in 0..Len(sent) /\ x.n < Len(sent) /\ Len(sent) \in Nat /\ x.k \in Nat
      BY WiringIs DEF Placed, Advances
    <2>. QED  BY <2>1
  <1>2. Wiring[x.n + 1] = Wired(e) /\ AnEvent(e) /\ Faces
    BY <1>1, WiringIs DEF EventsHold
  <1>3. x.k < Len(Wired(e)) /\ piece = Wired(e)[x.k + 1] /\ Len(Wired(e)) \in Nat
    <2>1. Len(Wired(e)) \in Nat
      <3>. HIDE DEF e
      <3>. QED  BY WiredLength
    <2>. QED  BY <1>2, <2>1 DEF Advances
  <1>4. x.k \in 0..(Len(Wired(e)) - 1)
    BY <1>1, <1>3
  <1>5. IsProbe(q) /\ Mid(q, e, x.k) /\ ResultIs(q.result, x.n)
    BY DEF ProbeIsAt
  <1>6. Moved(q, e, x.k, piece, next)
    <2>. HIDE DEF e
    <2>. QED  BY <1>3, <1>4, <1>5, ProbeMoves
  <1>7. CASE x.k + 1 < Len(Wired(e))
    <2>1. y.n = x.n /\ y.k = x.k + 1
      BY <1>2, <1>7 DEF Advances
    <2>. HIDE DEF next
    <2>2. IsProbe(next) /\ Mid(next, e, x.k + 1) /\ next.result = q.result
      BY <1>6, <1>7 DEF Moved
    <2>. QED  BY <1>5, <2>1, <2>2 DEF ProbeIsAt, next
  <1>8. CASE x.k + 1 = Len(Wired(e))
    <2>1. y.n = x.n + 1 /\ y.k = 0
      BY <1>2, <1>8, <1>3 DEF Advances
    <2>. HIDE DEF next
    <2>2. IsProbe(next) /\ Mid(next, e, 0) /\ next.result = Told(q.result, e)
      BY <1>6, <1>8 DEF Moved
    <2>3. Mid(next, sent[y.n + 1], 0)
      BY <2>2 DEF Mid
    <2>4. ResultIs(Told(q.result, e), x.n + 1)
      BY <1>1, <1>2, <1>5, ResultGrows DEF Faces
    <2>. QED  BY <2>1, <2>2, <2>3, <2>4 DEF ProbeIsAt, next
  <1>. QED  BY <1>1, <1>3, <1>7, <1>8

LEMMA PushAlong ==
    ASSUME EventsHold, NEW q, NEW x, NEW w, NEW y, ProbeIsAt(q, x), Leads(Wiring, x, w, y)
    PROVE  ProbeIsAt(Push(q, w), y)
  <1>1. PICK f : Trail(Wiring, w, f) /\ f[0] = x /\ f[Len(w)] = y
    BY DEF Leads
  <1>2. Len(w) \in Nat
    BY DEF Leads
  <1>3. PICK r : PushSteps(q, w, r) /\ Push(q, w) = r[Len(w)]
    BY <1>2, PushReads
  <1>. DEFINE G == {m \in 0..Len(w) : ProbeIsAt(r[m], f[m])}
  <1>4. 0 \in G
    BY <1>1, <1>2, <1>3 DEF PushSteps
  <1>5. ASSUME NEW m \in 1..Len(w), m - 1 \in G PROVE m \in G
    <2>1. m - 1 \in 0..Len(w) /\ m \in 0..Len(w) /\ ProbeIsAt(r[m - 1], f[m - 1])
      BY <1>5
    <2>2. Placed(Wiring, f[m - 1]) /\ Advances(Wiring, f[m - 1], w[m], f[m])
      BY <1>1, <2>1 DEF Trail
    <2>3. r[m] = Read(r[m - 1], w[m])
      BY <1>3 DEF PushSteps
    <2>4. ProbeIsAt(r[m], f[m])
      BY <2>1, <2>2, <2>3, ProbeStep
    <2>. QED  BY <2>1, <2>4
  <1>6. 0..Len(w) \subseteq G
    <2>. HIDE DEF G
    <2>. QED  BY <1>2, <1>4, <1>5, UpTo
  <1>7. Len(w) \in G
    <2>. HIDE DEF G
    <2>. QED  BY <1>2, <1>6
  <1>. QED  BY <1>1, <1>3, <1>7

------------------------------------------------------------------------------
(* ModelClient: the reader along the stream *)

IsReader(r) == r = [buffer |-> r.buffer, event |-> r.event, data |-> r.data, last |-> r.last]
ReaderFields(r, buffer, event, data) == IsReader(r) /\ r.buffer = buffer /\ r.event = event /\ r.data = data
LEMMA ReaderBuffer ==
    ASSUME NEW r, NEW b, NEW e, NEW d, ReaderFields(r, b, e, d), NEW v, NEW s, s = [r EXCEPT !.buffer = v]
    PROVE  ReaderFields(s, v, e, d)
  BY DEF IsReader, ReaderFields
LEMMA ReaderEvent ==
    ASSUME NEW r, NEW b, NEW e, NEW d, ReaderFields(r, b, e, d), NEW v, NEW s, s = [r EXCEPT !.event = v]
    PROVE  ReaderFields(s, b, v, d)
  BY DEF IsReader, ReaderFields
LEMMA ReaderData ==
    ASSUME NEW r, NEW b, NEW e, NEW d, ReaderFields(r, b, e, d), NEW v, NEW s, s = [r EXCEPT !.data = v]
    PROVE  ReaderFields(s, b, e, v)
  BY DEF IsReader, ReaderFields
LEMMA ReaderLast ==
    ASSUME NEW r, NEW b, NEW e, NEW d, ReaderFields(r, b, e, d), NEW v, NEW s, s = [r EXCEPT !.last = v]
    PROVE  ReaderFields(s, b, e, d)
  BY DEF IsReader, ReaderFields

IsClient(c) == c = [reader |-> c.reader, turn |-> c.turn]
ClientFields(c, buffer, event, data, t) == IsClient(c) /\ ReaderFields(c.reader, buffer, event, data) /\ c.turn = t
LEMMA ClientReader ==
    ASSUME NEW c, IsClient(c), NEW b, NEW e, NEW d, NEW r, ReaderFields(r, b, e, d),
           NEW s, s = [c EXCEPT !.reader = r]
    PROVE  ClientFields(s, b, e, d, c.turn)
  <1>1. s.reader = r /\ s.turn = c.turn
    BY DEF IsClient
  <1>2. IsClient(s)
    BY DEF IsClient
  <1>. QED  BY <1>1, <1>2 DEF ClientFields

------------------------------------------------------------------------------
(* What an event makes of the turn *)

IsTurn(t) == "usage" \in DOMAIN t /\ "outcome" \in DOMAIN t
LeavesIt(t, new) == IsTurn(new) /\ new.usage = t.usage /\ new.outcome = t.outcome
HearsEvent(t, e, new) ==
    /\ IsTurn(new)
    /\ t.outcome # "reading" => new = t
    /\ t.outcome = "reading" /\ e.name = "completed" =>
          new.usage = <<Tokens("responses", e.usage)>> /\ new.outcome \in {"aborted", "done"}
    /\ t.outcome = "reading" /\ e.name = "failed" => new.usage = t.usage /\ new.outcome = "error"
    /\ t.outcome = "reading" /\ e.name \notin {"completed", "failed"} => LeavesIt(t, new)

LEMMA StartSame == ASSUME NEW t, IsTurn(t), NEW id PROVE LeavesIt(t, ReasoningItemStart(t, id))
  <1>1. ASSUME NEW v, NEW s, s = [t EXCEPT !.reasoning = v] PROVE LeavesIt(t, s)
    BY <1>1 DEF IsTurn, LeavesIt
  <1>. QED  BY <1>1 DEF ReasoningItemStart
LEMMA ReasonSame == ASSUME NEW t, IsTurn(t), NEW text PROVE LeavesIt(t, ReasoningDelta(t, text))
  <1>1. ASSUME NEW v, NEW s, s = [t EXCEPT !.reasoning = v] PROVE LeavesIt(t, s)
    BY <1>1 DEF IsTurn, LeavesIt
  <1>. QED  BY <1>1 DEF ReasoningDelta
LEMMA TextSame == ASSUME NEW t, IsTurn(t), NEW text PROVE LeavesIt(t, TextDelta(t, text))
  BY DEF IsTurn, LeavesIt, TextDelta
LEMMA CallSame == ASSUME NEW t, IsTurn(t), NEW index, NEW id PROVE LeavesIt(t, ToolCallStart(t, index, id))
  <1>1. ASSUME NEW v, NEW s, s = [t EXCEPT !.calls = v] PROVE LeavesIt(t, s)
    BY <1>1 DEF IsTurn, LeavesIt
  <1>. QED  BY <1>1 DEF ToolCallStart
LEMMA ArgumentsSame == ASSUME NEW t, IsTurn(t), NEW index, NEW text PROVE LeavesIt(t, ToolCallDelta(t, index, text))
  <1>1. CASE index \in DOMAIN t.calls
    <2>1. ToolCallDelta(t, index, text) = [t EXCEPT !.calls[index].text = t.calls[index].text \o text]
      BY <1>1 DEF ToolCallDelta
    <2>2. ASSUME NEW v, NEW s, s = [t EXCEPT !.calls[index].text = v] PROVE LeavesIt(t, s)
      BY <2>2 DEF IsTurn, LeavesIt
    <2>. QED  BY <2>1, <2>2
  <1>2. CASE index \notin DOMAIN t.calls
    BY <1>2 DEF ToolCallDelta, LeavesIt
  <1>. QED  BY <1>1, <1>2
LEMMA ItemSame == ASSUME NEW t, IsTurn(t), NEW kind PROVE LeavesIt(t, ItemDone(t, kind))
  <1>1. ASSUME NEW v, NEW w, NEW s, s = [t EXCEPT !.bubble = v, !.path = w] PROVE LeavesIt(t, s)
    BY <1>1 DEF IsTurn, LeavesIt
  <1>2. ASSUME NEW v, NEW w, NEW s, s = [t EXCEPT !.reasoning = v, !.path = w] PROVE LeavesIt(t, s)
    BY <1>2 DEF IsTurn, LeavesIt
  <1>3. ASSUME NEW v, NEW w, NEW s, s = [t EXCEPT !.finished = v, !.calls = w] PROVE LeavesIt(t, s)
    BY <1>3 DEF IsTurn, LeavesIt
  <1>4. CASE kind = "message" /\ t.bubble # <<>>
    BY <1>1, <1>4 DEF ItemDone
  <1>5. CASE kind = "reasoning" /\ t.reasoning # <<>>
    BY <1>2, <1>5 DEF ItemDone
  <1>6. CASE kind = "call" /\ DOMAIN t.calls # {}
    BY <1>3, <1>6 DEF ItemDone
  <1>7. LeavesIt(t, t)
    BY DEF LeavesIt
  <1>. QED  BY <1>4, <1>5, <1>6, <1>7 DEF ItemDone
LEMMA DoneEnds ==
    ASSUME NEW t, IsTurn(t)
    PROVE  IsTurn(Done(t)) /\ Done(t).usage = t.usage /\ Done(t).outcome = IF signal THEN "aborted" ELSE "done"
  <1>1. CASE signal
    BY <1>1 DEF IsTurn, Done
  <1>2. CASE ~ signal
    BY <1>2 DEF IsTurn, Done
  <1>. QED  BY <1>1, <1>2

TurnOf(c, e) == Heard(c, e.name, e).turn
LEMMA HeardIs ==
    ASSUME NEW c, IsTurn(c.turn), NEW e
    PROVE  HearsEvent(c.turn, e, TurnOf(c, e))
  <1>. DEFINE t == c.turn kind == items[e.item].kind new == TurnOf(c, e)
  <1>1. CASE t.outcome # "reading"
    <2>1. new = t
      BY <1>1, Zenon DEF TurnOf, Heard
    <2>. QED  BY <1>1, <2>1 DEF HearsEvent
  <1>2. CASE t.outcome = "reading" /\ e.name = "completed"
    <2>1. new = Done(Usage(t, e))
      BY <1>2 DEF TurnOf, Heard
    <2>2. IsTurn(Usage(t, e)) /\ Usage(t, e).usage = <<Tokens("responses", e.usage)>>
      BY DEF Usage, IsTurn
    <2>3. IsTurn(new) /\ new.usage = <<Tokens("responses", e.usage)>> /\ new.outcome \in {"aborted", "done"}
      <3>. HIDE DEF new
      <3>. QED  BY <2>1, <2>2, DoneEnds
    <2>. QED  BY <1>2, <2>3 DEF HearsEvent
  <1>3. CASE t.outcome = "reading" /\ e.name = "failed"
    <2>1. new = [t EXCEPT !.outcome = "error"]
      BY <1>3 DEF TurnOf, Heard
    <2>2. IsTurn(new) /\ new.usage = t.usage /\ new.outcome = "error"
      <3>. HIDE DEF new
      <3>. QED  BY <2>1 DEF IsTurn
    <2>. QED  BY <1>3, <2>2 DEF HearsEvent
  <1>4. CASE t.outcome = "reading" /\ e.name \notin {"completed", "failed"}
    <2>1. \/ new = t
          \/ new = ReasoningItemStart(t, e.item)
          \/ \E index : new = ToolCallStart(t, index, e.item)
          \/ new = ReasoningDelta(t, <<e.item>>)
          \/ new = TextDelta(t, <<e.item>>)
          \/ \E index : new = ToolCallDelta(t, index, <<e.item>>)
          \/ new = ItemDone(t, kind)
      BY <1>4, Zenon DEF TurnOf, Heard
    <2>2. LeavesIt(t, t)
      BY DEF LeavesIt
    <2>3. LeavesIt(t, new)
      <3>. HIDE DEF new, kind, t
      <3>1. IsTurn(t)
        BY DEF t
      <3>. QED  BY <2>1, <2>2, <3>1, StartSame, CallSame, ReasonSame, TextSame, ArgumentsSame, ItemSame
    <2>. QED  BY <1>4, <2>3 DEF HearsEvent, LeavesIt
  <1>. QED  BY <1>1, <1>2, <1>3, <1>4

------------------------------------------------------------------------------
(* The reader, one piece on *)

LEMMA ClientHead ==
    ASSUME NEW c, NEW b, NEW n, NEW d, NEW t, ClientFields(c, b, n, d, t), NEW piece, piece.part = "head"
    PROVE  ClientFields(ReadPiece(c, piece), Append(b, piece), n, d, t)
  <1>. DEFINE r == [c.reader EXCEPT !.buffer = Append(b, piece)]
  <1>1. IsClient(c) /\ ReaderFields(c.reader, b, n, d) /\ c.turn = t /\ c.reader.buffer = b
    BY DEF ClientFields, ReaderFields
  <1>2. ReadPiece(c, piece) = [c EXCEPT !.reader = r]
    BY <1>1 DEF ReadPiece
  <1>3. ReaderFields(r, Append(b, piece), n, d)
    BY <1>1, ReaderBuffer, Zenon
  <1>. HIDE DEF r
  <1>. QED  BY <1>1, <1>2, <1>3, ClientReader
LEMMA ClientEnd ==
    ASSUME NEW c, NEW piece, piece.part = "end",
           NEW next, next = ReadLine(c, Whole(Append(c.reader.buffer, piece))),
           NEW b, NEW n, NEW d, NEW t, ClientFields(next, b, n, d, t)
    PROVE  ClientFields(ReadPiece(c, piece), <<>>, n, d, t)
  <1>. DEFINE r == [next.reader EXCEPT !.buffer = <<>>]
  <1>1. IsClient(next) /\ ReaderFields(next.reader, b, n, d) /\ next.turn = t
    BY DEF ClientFields
  <1>2. ReadPiece(c, piece) = [next EXCEPT !.reader = r]
    BY DEF ReadPiece
  <1>3. ReaderFields(r, <<>>, n, d)
    BY <1>1, ReaderBuffer, Zenon
  <1>. HIDE DEF r
  <1>. QED  BY <1>1, <1>2, <1>3, ClientReader

LEMMA EventLine ==
    ASSUME NEW c, NEW b, NEW n, NEW d, NEW t, ClientFields(c, b, n, d, t), NEW e
    PROVE  ClientFields(ReadLine(c, Field("event", e)), b, e.name, d, t)
  <1>. DEFINE r == [c.reader EXCEPT !.event = e.name]
  <1>1. IsClient(c) /\ ReaderFields(c.reader, b, n, d) /\ c.turn = t
    BY DEF ClientFields
  <1>2. ReadLine(c, Field("event", e)) = [c EXCEPT !.reader = r]
    BY DEF ReadLine, Field
  <1>3. ReaderFields(r, b, e.name, d)
    BY <1>1, ReaderEvent, Zenon
  <1>. HIDE DEF r
  <1>. QED  BY <1>1, <1>2, <1>3, ClientReader
LEMMA DataLine ==
    ASSUME NEW c, NEW b, NEW n, NEW d, NEW t, ClientFields(c, b, n, d, t), NEW e
    PROVE  ClientFields(ReadLine(c, Field("data", e)), b, n, Append(d, e), t)
  <1>. DEFINE r == [c.reader EXCEPT !.data = Append(c.reader.data, e)]
  <1>1. IsClient(c) /\ ReaderFields(c.reader, b, n, d) /\ c.turn = t /\ c.reader.data = d
    BY DEF ClientFields, ReaderFields
  <1>2. ReadLine(c, Field("data", e)) = [c EXCEPT !.reader = r]
    BY DEF ReadLine, Field
  <1>3. ReaderFields(r, b, n, Append(d, e))
    BY <1>1, ReaderData, Zenon
  <1>. HIDE DEF r
  <1>. QED  BY <1>1, <1>2, <1>3, ClientReader

ClientHears(c, e, new) ==
    /\ IsClient(new) /\ IsReader(new.reader)
    /\ new.reader.event = NoEvent /\ new.reader.data = <<>>
    /\ HearsEvent(c.turn, e, new.turn)
LEMMA BlankLine ==
    ASSUME NEW c, NEW e, NEW b, NEW t, ClientFields(c, b, e.name, <<e>>, t), IsTurn(t)
    PROVE  ClientHears(c, e, ReadLine(c, Blank))
  <1>. DEFINE a == [c.reader EXCEPT !.event = NoEvent]
              r == [a EXCEPT !.data = <<>>]
              empty == [c EXCEPT !.reader = [c.reader EXCEPT !.event = NoEvent, !.data = <<>>]]
  <1>1. /\ IsClient(c) /\ ReaderFields(c.reader, b, e.name, <<e>>) /\ c.turn = t
        /\ c.reader.event = e.name /\ c.reader.data = <<e>>
    BY DEF ClientFields, ReaderFields
  <1>2. [c.reader EXCEPT !.event = NoEvent, !.data = <<>>] = r
    BY <1>1 DEF ReaderFields, IsReader
  <1>3. ReaderFields(r, b, NoEvent, <<>>)
    <2>1. ReaderFields(a, b, NoEvent, <<e>>)
      BY <1>1, ReaderEvent, Zenon
    <2>. HIDE DEF a
    <2>. QED  BY <2>1, ReaderData, Zenon
  <1>4. empty = [c EXCEPT !.reader = r]
    BY <1>2, Zenon
  <1>5. ClientFields(empty, b, NoEvent, <<>>, t)
    <2>. HIDE DEF r, empty
    <2>. QED  BY <1>1, <1>3, <1>4, ClientReader
  <1>6. ReadLine(c, Blank) = Heard(empty, e.name, e)
    <2>1. Len(<<e>>) = 1 /\ <<e>>[1] = e /\ Blank.field = "blank"
      BY DEF Blank, Field
    <2>. QED  BY <1>1, <2>1 DEF ReadLine
  <1>. HIDE DEF empty
  <1>. DEFINE new == Heard(empty, e.name, e)
  <1>7. empty.turn = t /\ ReaderFields(empty.reader, b, NoEvent, <<>>)
    BY <1>5 DEF ClientFields
  <1>8. HearsEvent(t, e, TurnOf(empty, e))
    BY <1>7, HeardIs
  <1>9. new.turn = TurnOf(empty, e)
    BY DEF TurnOf
  <1>10. IsClient(new)
    BY Zenon DEF Heard, IsClient
  <1>11. PICK last : new.reader = [empty.reader EXCEPT !.last = last]
    BY DEF Heard
  <1>12. ReaderFields(new.reader, b, NoEvent, <<>>)
    <2>. HIDE DEF new
    <2>. QED  BY <1>7, <1>11, ReaderLast, Zenon
  <1>. HIDE DEF new
  <1>13. ClientHears(c, e, new)
    BY <1>1, <1>8, <1>9, <1>10, <1>12 DEF ClientHears, ReaderFields
  <1>. QED  BY <1>6, <1>13 DEF new

ClientMoved(c, e, k, next) ==
    /\ IsClient(next) /\ IsReader(next.reader)
    /\ k + 1 < 5 => Mid(next.reader, e, k + 1) /\ next.turn = c.turn
    /\ k + 1 = 5 => Mid(next.reader, e, 0) /\ HearsEvent(c.turn, e, next.turn)
LEMMA ClientMoves ==
    ASSUME NEW c, IsClient(c), IsReader(c.reader), IsTurn(c.turn), NEW e, ~ OneLine(e),
           NEW k \in 0..4, Mid(c.reader, e, k)
    PROVE  ClientMoved(c, e, k, ReadPiece(c, Wired(e)[k + 1]))
  <1>. DEFINE t == c.turn next == ReadPiece(c, Wired(e)[k + 1])
  <1>1. /\ Wired(e)[1] = Piece(Field("event", e), "head") /\ Wired(e)[2] = Piece(Field("event", e), "end")
        /\ Wired(e)[3] = Piece(Field("data", e), "head") /\ Wired(e)[4] = Piece(Field("data", e), "end")
        /\ Wired(e)[5] = Piece(Blank, "end")
    BY WiredLong
  <1>2. \A line : Piece(line, "head").part = "head" /\ Piece(line, "end").part = "end"
    BY DEF Piece
  <1>3. \A x : Append(<<>>, x) = <<x>>
    OBVIOUS
  <1>4. ASSUME NEW b, NEW n, NEW d, c.reader.buffer = b, c.reader.event = n, c.reader.data = d
        PROVE  ClientFields(c, b, n, d, t)
    BY <1>4 DEF ClientFields, ReaderFields
  <1>5. CASE k = 0
    <2>1. ClientFields(c, <<>>, NoEvent, <<>>, t)
      BY <1>4, <1>5 DEF Mid
    <2>2. next = ReadPiece(c, Wired(e)[1]) /\ Wired(e)[1].part = "head"
      BY <1>1, <1>2, <1>5
    <2>. HIDE DEF next
    <2>3. ClientFields(next, <<Wired(e)[1]>>, NoEvent, <<>>, t)
      BY <2>1, <2>2, <1>3, ClientHead
    <2>4. Mid(next.reader, e, 1)
      BY <2>3 DEF Mid, ClientFields, ReaderFields
    <2>. QED  BY <1>5, <2>3, <2>4 DEF ClientMoved, ClientFields, ReaderFields, next
  <1>6. CASE k = 1
    <2>1. c.reader.buffer = <<Wired(e)[1]>> /\ ClientFields(c, <<Wired(e)[1]>>, NoEvent, <<>>, t)
      BY <1>4, <1>6 DEF Mid
    <2>2. next = ReadPiece(c, Wired(e)[2]) /\ Wired(e)[2].part = "end"
      BY <1>1, <1>2, <1>6
    <2>3. Whole(Append(c.reader.buffer, Wired(e)[2])) = Field("event", e)
      BY <1>1, <2>1, WholeLine
    <2>. HIDE DEF next
    <2>4. ClientFields(ReadLine(c, Field("event", e)), <<Wired(e)[1]>>, e.name, <<>>, t)
      BY <2>1, EventLine
    <2>5. ClientFields(next, <<>>, e.name, <<>>, t)
      BY <2>2, <2>3, <2>4, ClientEnd
    <2>6. Mid(next.reader, e, 2)
      BY <2>5 DEF Mid, ClientFields, ReaderFields
    <2>. QED  BY <1>6, <2>5, <2>6 DEF ClientMoved, ClientFields, ReaderFields, next
  <1>7. CASE k = 2
    <2>1. ClientFields(c, <<>>, e.name, <<>>, t)
      BY <1>4, <1>7 DEF Mid
    <2>2. next = ReadPiece(c, Wired(e)[3]) /\ Wired(e)[3].part = "head"
      BY <1>1, <1>2, <1>7
    <2>. HIDE DEF next
    <2>3. ClientFields(next, <<Wired(e)[3]>>, e.name, <<>>, t)
      BY <2>1, <2>2, <1>3, ClientHead
    <2>4. Mid(next.reader, e, 3)
      BY <2>3 DEF Mid, ClientFields, ReaderFields
    <2>. QED  BY <1>7, <2>3, <2>4 DEF ClientMoved, ClientFields, ReaderFields, next
  <1>8. CASE k = 3
    <2>1. c.reader.buffer = <<Wired(e)[3]>> /\ ClientFields(c, <<Wired(e)[3]>>, e.name, <<>>, t)
      BY <1>4, <1>8 DEF Mid
    <2>2. next = ReadPiece(c, Wired(e)[4]) /\ Wired(e)[4].part = "end"
      BY <1>1, <1>2, <1>8
    <2>3. Whole(Append(c.reader.buffer, Wired(e)[4])) = Field("data", e)
      BY <1>1, <2>1, WholeLine
    <2>. HIDE DEF next
    <2>4. ClientFields(ReadLine(c, Field("data", e)), <<Wired(e)[3]>>, e.name, <<e>>, t)
      <3>1. ClientFields(ReadLine(c, Field("data", e)), <<Wired(e)[3]>>, e.name, Append(<<>>, e), t)
        BY <2>1, DataLine
      <3>. QED  BY <1>3, <3>1
    <2>5. ClientFields(next, <<>>, e.name, <<e>>, t)
      BY <2>2, <2>3, <2>4, ClientEnd
    <2>6. Mid(next.reader, e, 4)
      BY <2>5 DEF Mid, ClientFields, ReaderFields
    <2>. QED  BY <1>8, <2>5, <2>6 DEF ClientMoved, ClientFields, ReaderFields, next
  <1>9. CASE k = 4
    <2>1. c.reader.buffer = <<>> /\ ClientFields(c, <<>>, e.name, <<e>>, t)
      BY <1>4, <1>9 DEF Mid
    <2>2. next = ReadPiece(c, Wired(e)[5]) /\ Wired(e)[5].part = "end"
      BY <1>1, <1>2, <1>9
    <2>3. Whole(Append(c.reader.buffer, Wired(e)[5])) = Blank
      BY <1>1, <2>1, WholeBlank
    <2>. HIDE DEF next
    <2>. DEFINE heardOf == ReadLine(c, Blank)
    <2>4. ClientHears(c, e, heardOf)
      BY <2>1, BlankLine
    <2>. HIDE DEF heardOf
    <2>5. ClientFields(heardOf, heardOf.reader.buffer, NoEvent, <<>>, heardOf.turn)
      BY <2>4 DEF ClientHears, ClientFields, ReaderFields
    <2>6. ClientFields(next, <<>>, NoEvent, <<>>, heardOf.turn)
      BY <2>2, <2>3, <2>5, ClientEnd DEF heardOf
    <2>7. Mid(next.reader, e, 0) /\ next.turn = heardOf.turn
      BY <2>6 DEF Mid, ClientFields, ReaderFields
    <2>. QED  BY <1>9, <2>4, <2>6, <2>7 DEF ClientMoved, ClientHears, ClientFields, ReaderFields, next
  <1>. QED  BY <1>5, <1>6, <1>7, <1>8, <1>9

------------------------------------------------------------------------------
(* The reader along the stream *)

ChunkSteps(c, w, f) == f[0] = c /\ \A n \in 1..Len(w) : f[n] = ReadPiece(f[n - 1], w[n])
LEMMA ChunkReads ==
    ASSUME NEW c, NEW w, Len(w) \in Nat
    PROVE  \E f : ChunkSteps(c, w, f) /\ FeedChunk(c, w) = f[Len(w)]
  <1>. DEFINE Def(m, f) == [n \in 0..m |-> IF n = 0 THEN c ELSE ReadPiece(f[n - 1], w[n])]
              G == {m \in 0..Len(w) : \E f : f = Def(m, f)}
  <1>1. 0 \in G
    <2>. DEFINE first == [n \in 0..0 |-> c]
    <2>1. first = Def(0, first)
      <3>1. \A n \in 0..0 : n = 0
        OBVIOUS
      <3>. QED  BY <3>1
    <2>. HIDE DEF first, Def
    <2>. QED  BY <2>1
  <1>2. ASSUME NEW m \in 1..Len(w), m - 1 \in G PROVE m \in G
    <2>1. PICK f : f = Def(m - 1, f)
      BY <1>2
    <2>. DEFINE longer == [n \in 0..m |-> IF n = m THEN ReadPiece(f[m - 1], w[m]) ELSE f[n]]
    <2>2. /\ m \in 0..m /\ 0 \in 0..(m - 1) /\ 0 \in 0..m /\ 0 # m
          /\ \A n \in 0..m : n = m \/ n \in 0..(m - 1)
          /\ \A n \in 0..(m - 1) : n \in 0..m /\ n # m
          /\ \A n \in 1..m : n - 1 \in 0..(m - 1) /\ n \in 0..m /\ n # 0
          /\ \A n \in 0..m : n = 0 \/ n \in 1..m
      OBVIOUS
    <2>3. longer[m] = ReadPiece(f[m - 1], w[m]) /\ \A n \in 0..(m - 1) : longer[n] = f[n]
      BY <2>2, Zenon
    <2>4. \A n \in 0..(m - 1) : f[n] = IF n = 0 THEN c ELSE ReadPiece(f[n - 1], w[n])
      BY <2>1, Zenon
    <2>5. longer = [n \in 0..m |-> longer[n]]
      OBVIOUS
    <2>. HIDE DEF longer
    <2>6. ASSUME NEW n \in 0..m
          PROVE  longer[n] = IF n = 0 THEN c ELSE ReadPiece(longer[n - 1], w[n])
      <3>1. CASE n = m
        BY <2>2, <2>3, <3>1, Zenon
      <3>2. CASE n \in 0..(m - 1)
        <4>1. CASE n = 0
          BY <2>2, <2>3, <2>4, <4>1, Zenon
        <4>2. CASE n # 0
          BY <2>2, <2>3, <2>4, <3>2, <4>2, Zenon
        <4>. QED  BY <4>1, <4>2
      <3>. QED  BY <2>2, <3>1, <3>2
    <2>7. longer = Def(m, longer)
      BY <2>5, <2>6, Zenon
    <2>. HIDE DEF Def
    <2>. QED  BY <2>7
  <1>3. PICK g : g = Def(Len(w), g)
    <2>1. 0..Len(w) \subseteq G
      <3>. HIDE DEF G
      <3>. QED  BY <1>1, <1>2, UpTo
    <2>2. Len(w) \in G
      <3>. HIDE DEF G
      <3>. QED  BY <2>1
    <2>. HIDE DEF Def
    <2>. QED  BY <2>2
  <1>. DEFINE t == CHOOSE f : f = Def(Len(w), f)
  <1>4. t = Def(Len(w), t)
    <2>. HIDE DEF Def
    <2>. QED  BY <1>3, Zenon
  <1>5. FeedChunk(c, w) = t[Len(w)]
    BY Zenon DEF FeedChunk
  <1>. HIDE DEF t
  <1>6. ChunkSteps(c, w, t)
    <2>1. \A n \in 0..Len(w) : t[n] = IF n = 0 THEN c ELSE ReadPiece(t[n - 1], w[n])
      BY <1>4, Zenon
    <2>2. 0 \in 0..Len(w) /\ \A n \in 1..Len(w) : n \in 0..Len(w) /\ n # 0
      OBVIOUS
    <2>. QED  BY <2>1, <2>2, Zenon DEF ChunkSteps
  <1>. QED  BY <1>5, <1>6


\* The verdicts this reader knows.
Decides(e) == e.name \in {"completed", "failed"}
\* At most one use, or the usage of a response.done.
Cheap(uses, n) == uses <= 1 \/ \E m \in 1..n : sent[m].name = "response.done"
\* What n events have made of the turn.
TurnAt(t, n) ==
    /\ IsTurn(t)
    /\ t.outcome = "reading" => t.usage = <<>> /\ ~ letGo /\ \A m \in 1..n : ~ Decides(sent[m])
    /\ t.usage # <<>> => \E m \in 1..n : sent[m].name = "completed" /\ t.usage = <<Tokens("responses", sent[m].usage)>>
    /\ t.outcome = "error" => letGo \/ \E m \in 1..n : sent[m].name = "failed"
    /\ t.outcome = "done" /\ t.usage = <<>> => settled # Unsettled /\ Cheap(settled.uses, n)
ClientIsAt(c, x) ==
    IsClient(c) /\ IsReader(c.reader) /\ Mid(c.reader, sent[x.n + 1], x.k) /\ TurnAt(c.turn, x.n)

LEMMA ResponsesEvents ==
    ASSUME NEW e, AnEvent(e), protocol = "responses"
    PROVE  /\ e.name \in {"added", "delta", "done"} \cup {"completed", "response.done"} \cup {"failed", "cancelled"}
           /\ e.at # "none" <=> e.name \in {"completed", "response.done"}
  <1>1. \/ e.name \in {"added", "delta", "done"} /\ e.at = "none"
        \/ e.name \in {"completed", "response.done"} /\ e.at # "none"
        \/ e.name \in {"failed", "cancelled"} /\ e.at = "none"
    BY DEF AnEvent, Verdicts, Others, Event, Plain, Note, Saying
  <1>. QED  BY <1>1
LEMMA TurnGrows ==
    ASSUME NEW t, NEW n \in Nat, TurnAt(t, n), NEW new, HearsEvent(t, sent[n + 1], new),
           AnEvent(sent[n + 1]), protocol = "responses"
    PROVE  TurnAt(new, n + 1)
  <1>. DEFINE e == sent[n + 1]
  <1>1. n + 1 \in 1..(n + 1) /\ (\A m \in 1..n : m \in 1..(n + 1)) /\ \A m \in 1..(n + 1) : m \in 1..n \/ m = n + 1
    OBVIOUS
  <1>2. \A uses : Cheap(uses, n) => Cheap(uses, n + 1)
    BY <1>1 DEF Cheap
  <1>3. CASE t.outcome # "reading"
    <2>1. new = t
      BY <1>3 DEF HearsEvent
    <2>. QED  BY <1>1, <1>2, <1>3, <2>1 DEF TurnAt
  <1>4. CASE t.outcome = "reading" /\ e.name = "completed"
    <2>1. new.usage = <<Tokens("responses", e.usage)>> /\ new.outcome \in {"aborted", "done"} /\ IsTurn(new)
      BY <1>4 DEF HearsEvent
    <2>2. new.usage # <<>>
      BY <2>1
    <2>. QED  BY <1>1, <1>4, <2>1, <2>2 DEF TurnAt
  <1>5. CASE t.outcome = "reading" /\ e.name = "failed"
    <2>1. new.usage = <<>> /\ new.outcome = "error" /\ IsTurn(new)
      BY <1>5 DEF HearsEvent, TurnAt
    <2>. QED  BY <1>1, <1>5, <2>1 DEF TurnAt
  <1>6. CASE t.outcome = "reading" /\ e.name \notin {"completed", "failed"}
    <2>1. new.usage = <<>> /\ new.outcome = "reading" /\ IsTurn(new)
      BY <1>6 DEF HearsEvent, TurnAt, LeavesIt
    <2>2. ~ letGo /\ \A m \in 1..(n + 1) : ~ Decides(sent[m])
      BY <1>1, <1>6 DEF TurnAt, Decides
    <2>. QED  BY <2>1, <2>2 DEF TurnAt
  <1>. QED  BY <1>3, <1>4, <1>5, <1>6

LEMMA ClientStep ==
    ASSUME EventsHold, protocol = "responses", NEW c, NEW x, NEW piece, NEW y, ClientIsAt(c, x),
           Placed(Wiring, x), Advances(Wiring, x, piece, y)
    PROVE  ClientIsAt(ReadPiece(c, piece), y)
  <1>. DEFINE e == sent[x.n + 1] next == ReadPiece(c, piece)
  <1>1. x.n \in Nat /\ x.n + 1 \in 1..Len(sent) /\ x.k \in Nat
    <2>1. x.n \in 0..Len(sent) /\ x.n < Len(sent) /\ Len(sent) \in Nat /\ x.k \in Nat
      BY WiringIs DEF Placed, Advances
    <2>. QED  BY <2>1
  <1>2. Wiring[x.n + 1] = Wired(e) /\ AnEvent(e)
    BY <1>1, WiringIs DEF EventsHold
  <1>3. ~ OneLine(e)
    <2>1. e.name # "keep-alive" /\ Note.name = "keep-alive"
      <3>. HIDE DEF e
      <3>. QED  BY <1>2, ResponsesEvents DEF Note, Plain, Event
    <2>. QED  BY <2>1 DEF OneLine
  <1>4. x.k < 5 /\ piece = Wired(e)[x.k + 1] /\ Len(Wired(e)) = 5
    <2>1. Len(Wired(e)) = 5
      BY <1>3, WiredLength
    <2>. QED  BY <1>2, <2>1 DEF Advances
  <1>5. x.k \in 0..4
    BY <1>1, <1>4
  <1>6. IsClient(c) /\ IsReader(c.reader) /\ Mid(c.reader, e, x.k) /\ TurnAt(c.turn, x.n) /\ IsTurn(c.turn)
    BY DEF ClientIsAt, TurnAt
  <1>7. ClientMoved(c, e, x.k, next)
    <2>. HIDE DEF e
    <2>. QED  BY <1>3, <1>4, <1>5, <1>6, ClientMoves
  <1>8. CASE x.k + 1 < 5
    <2>1. y.n = x.n /\ y.k = x.k + 1
      BY <1>2, <1>4, <1>8 DEF Advances
    <2>. HIDE DEF next
    <2>2. IsClient(next) /\ IsReader(next.reader) /\ Mid(next.reader, e, x.k + 1) /\ next.turn = c.turn
      BY <1>7, <1>8 DEF ClientMoved
    <2>. QED  BY <1>6, <2>1, <2>2 DEF ClientIsAt, next
  <1>9. CASE x.k + 1 = 5
    <2>1. y.n = x.n + 1 /\ y.k = 0
      BY <1>2, <1>4, <1>9 DEF Advances
    <2>. HIDE DEF next
    <2>2. IsClient(next) /\ IsReader(next.reader) /\ Mid(next.reader, e, 0) /\ HearsEvent(c.turn, e, next.turn)
      BY <1>7, <1>9 DEF ClientMoved
    <2>3. Mid(next.reader, sent[y.n + 1], 0)
      BY <2>2 DEF Mid
    <2>4. TurnAt(next.turn, x.n + 1)
      BY <1>1, <1>2, <1>6, <2>2, TurnGrows
    <2>. QED  BY <2>1, <2>2, <2>3, <2>4 DEF ClientIsAt, next
  <1>. QED  BY <1>1, <1>4, <1>8, <1>9

LEMMA ReadsAlong ==
    ASSUME EventsHold, protocol = "responses", NEW c, NEW x, NEW w, NEW y, ClientIsAt(c, x), Leads(Wiring, x, w, y)
    PROVE  ClientIsAt(FeedChunk(c, w), y)
  <1>1. PICK f : Trail(Wiring, w, f) /\ f[0] = x /\ f[Len(w)] = y
    BY DEF Leads
  <1>2. Len(w) \in Nat
    BY DEF Leads
  <1>3. PICK r : ChunkSteps(c, w, r) /\ FeedChunk(c, w) = r[Len(w)]
    BY <1>2, ChunkReads
  <1>. DEFINE G == {m \in 0..Len(w) : ClientIsAt(r[m], f[m])}
  <1>4. 0 \in G
    BY <1>1, <1>2, <1>3 DEF ChunkSteps
  <1>5. ASSUME NEW m \in 1..Len(w), m - 1 \in G PROVE m \in G
    <2>1. m - 1 \in 0..Len(w) /\ m \in 0..Len(w) /\ ClientIsAt(r[m - 1], f[m - 1])
      BY <1>5
    <2>2. Placed(Wiring, f[m - 1]) /\ Advances(Wiring, f[m - 1], w[m], f[m])
      BY <1>1, <2>1 DEF Trail
    <2>3. r[m] = ReadPiece(r[m - 1], w[m])
      BY <1>3 DEF ChunkSteps
    <2>4. ClientIsAt(r[m], f[m])
      BY <2>1, <2>2, <2>3, ClientStep
    <2>. QED  BY <2>1, <2>4
  <1>6. 0..Len(w) \subseteq G
    <2>. HIDE DEF G
    <2>. QED  BY <1>2, <1>4, <1>5, UpTo
  <1>7. Len(w) \in G
    <2>. HIDE DEF G
    <2>. QED  BY <1>2, <1>6
  <1>. QED  BY <1>1, <1>3, <1>7

------------------------------------------------------------------------------
(* The invariant of a round *)

\* A verdict is the upstream's last word.
Lasts == \A n \in 1..Len(sent) : Judged(sent[n]) => n = Len(sent)
ItemsHold == IsList(items) /\ (protocol # "responses" => items = <<>>)
Said == [n |-> Len(sent), k |-> 0]
\* The relay is at x, the client at y, and between them is what is on its way.
StreamAt(x, y) ==
    /\ x.n = seen /\ Placed(Wiring, x) /\ ProbeIsAt(probe, x)
    /\ IF link = "up" THEN Leads(Wiring, x, wire, Said) ELSE wire = <<>>
    /\ y.n = heard /\ Placed(Wiring, y) /\ y.n <= x.n
    /\ IF letGo THEN down = <<>> ELSE Leads(Wiring, y, down, x)
    /\ protocol = "responses" => Mid(reader, sent[y.n + 1], y.k)
StreamHolds == IsList(wire) /\ IsList(down) /\ \E x, y : StreamAt(x, y)
SettledHolds == settled # Unsettled => settled = Settlement(probe.result)
ClientHolds ==
    protocol = "responses" =>
       /\ IsReader(reader) /\ "state" \in DOMAIN posting
       /\ Streaming => TurnAt(turn, heard)
       /\ ~ Streaming => settled = Unsettled
       /\ ~ Streaming /\ posting.state # "over" => turn = NewTurn /\ heard = 0 /\ ~ letGo
RoundHolds == EventsHold /\ Lasts /\ ItemsHold /\ StreamHolds /\ SettledHolds /\ ClientHolds

\* What was said stays said.
SaidStays ==
    /\ protocol' = protocol /\ Len(sent) \in Nat /\ Len(sent') \in Nat /\ Len(sent) <= Len(sent')
    /\ \A n \in 1..Len(sent) : sent'[n] = sent[n]
LEMMA Unchanged == ASSUME Len(sent) \in Nat, sent' = sent, protocol' = protocol PROVE SaidStays
  BY DEF SaidStays
LEMMA WiringStays ==
    ASSUME SaidStays
    PROVE  /\ Len(Wiring') = Len(sent') /\ Len(Wiring) = Len(sent)
           /\ \A n \in 1..Len(sent) : Wiring'[n] = Wiring[n]
  <1>1. \A e : (Wired(e))' = Wired(e)
    BY DEF Wired, SaidStays
  <1>2. Wiring \in Seq({Wired(sent[n]) : n \in 1..Len(sent)}) /\ Len(Wiring) = Len(sent)
    BY DEF SaidStays, Wiring
  <1>3. Wiring' \in Seq({(Wired(sent[n]))' : n \in 1..Len(sent')}) /\ Len(Wiring') = Len(sent')
    BY DEF SaidStays, Wiring
  <1>4. ASSUME NEW n \in 1..Len(sent) PROVE Wiring'[n] = Wiring[n]
    <2>1. n \in 1..Len(sent') /\ sent'[n] = sent[n] /\ protocol' = protocol
      BY DEF SaidStays
    <2>2. Wiring[n] = Wired(sent[n])
      BY Zenon DEF Wiring
    <2>3. Wiring'[n] = (Wired(sent[n]))'
      BY <2>1, Zenon DEF Wiring
    <2>4. (Wired(sent[n]))' = Wired(sent[n])
      BY <2>1, Zenon DEF Wired
    <2>. QED  BY <2>2, <2>3, <2>4
  <1>. QED  BY <1>2, <1>3, <1>4

PlacedHere(x) == x.n \in 0..Len(sent) /\ x.k \in Nat /\ (x.k = 0 \/ x.n + 1 \in 1..Len(sent))
LEMMA PlacesInside ==
    ASSUME Len(sent) \in Nat, Len(Wiring) = Len(sent), NEW x, Placed(Wiring, x)
    PROVE  PlacedHere(x)
  <1>1. x.n \in 0..Len(sent) /\ x.k \in Nat /\ (x.k = 0 \/ x.n < Len(sent))
    BY DEF Placed
  <1>. QED  BY <1>1 DEF PlacedHere

LEMMA ProbeStays ==
    ASSUME SaidStays, NEW x, Placed(Wiring, x), ProbeIsAt(probe, x), probe' = probe
    PROVE  ProbeIsAt(probe, x)'
  <1>1. protocol' = protocol /\ PlacedHere(x)
    <2>1. Len(sent) \in Nat /\ Len(Wiring) = Len(sent)
      BY WiringStays DEF SaidStays
    <2>. QED  BY <2>1, PlacesInside DEF SaidStays
  <1>2. IsProbe(probe)'
    BY DEF ProbeIsAt, IsProbe
  <1>3. (Mid(probe, sent[x.n + 1], x.k))'
    <2>1. Mid(probe, sent[x.n + 1], x.k)
      BY DEF ProbeIsAt
    <2>2. CASE x.k = 0
      BY <2>1, <2>2 DEF Mid
    <2>3. CASE x.k # 0
      <3>1. sent'[x.n + 1] = sent[x.n + 1]
        BY <1>1, <2>3 DEF SaidStays, PlacedHere
      <3>. QED  BY <1>1, <2>1, <3>1, Zenon DEF Mid, Wired, OneLine
    <2>. QED  BY <2>2, <2>3
  <1>4. (ResultIs(probe.result, x.n))'
    <2>1. x.n \in Nat /\ \A m \in 1..x.n : sent'[m] = sent[m]
      BY <1>1 DEF PlacedHere, SaidStays
    <2>2. \A m \in 1..x.n : \A j \in (m + 1)..x.n : sent'[j] = sent[j]
      BY <2>1
    <2>3. ResultIs(probe.result, x.n)
      BY DEF ProbeIsAt
    <2>4. (UsageIs(probe.result.usage, x.n))'
      BY <1>1, <2>1, <2>2, <2>3 DEF ResultIs, UsageIs
    <2>5. (VerdictIs(probe.result.terminal, x.n))'
      BY <1>1, <2>1, <2>2, <2>3 DEF ResultIs, VerdictIs
    <2>6. /\ (IsResult(probe.result) /\ probe.result.saw \in BOOLEAN)'
          /\ probe.result.saw <=> \E m \in 1..x.n : sent'[m] # Note
      BY <2>1, <2>3 DEF ResultIs, IsResult
    <2>. QED  BY <2>4, <2>5, <2>6 DEF ResultIs
  <1>. QED  BY <1>2, <1>3, <1>4 DEF ProbeIsAt

LEMMA ReaderStays ==
    ASSUME SaidStays, NEW x, Placed(Wiring, x), Mid(reader, sent[x.n + 1], x.k), reader' = reader
    PROVE  (Mid(reader, sent[x.n + 1], x.k))'
  <1>1. protocol' = protocol /\ PlacedHere(x)
    <2>1. Len(sent) \in Nat /\ Len(Wiring) = Len(sent)
      BY WiringStays DEF SaidStays
    <2>. QED  BY <2>1, PlacesInside DEF SaidStays
  <1>2. CASE x.k = 0
    BY <1>2 DEF Mid
  <1>3. CASE x.k # 0
    <2>1. sent'[x.n + 1] = sent[x.n + 1]
      BY <1>1, <1>3 DEF SaidStays, PlacedHere
    <2>. QED  BY <1>1, <2>1, Zenon DEF Mid, Wired, OneLine
  <1>. QED  BY <1>2, <1>3

LEMMA TurnStays ==
    ASSUME SaidStays, heard \in 0..Len(sent), TurnAt(turn, heard), turn' = turn, heard' = heard, letGo' = letGo,
           settled = Unsettled \/ settled' = settled
    PROVE  TurnAt(turn, heard)'
  <1>1. \A m \in 1..heard : sent'[m] = sent[m]
    BY DEF SaidStays
  <1>. QED  BY <1>1 DEF TurnAt, IsTurn, Cheap, Decides

------------------------------------------------------------------------------
(* The upstream's steps *)

LEMMA ListJoin ==
    ASSUME NEW u, NEW v, IsList(u), IsList(v)
    PROVE  IsList(u \o v) /\ Behind(u, v, u \o v) /\ Len(u) \in Nat /\ Len(v) \in Nat /\ DOMAIN u = 1..Len(u)
  <1>1. PICK S, T : u \in Seq(S) /\ v \in Seq(T)
    BY DEF IsList
  <1>. DEFINE R == S \cup T
  <1>2. u \in Seq(R) /\ v \in Seq(R)
    BY <1>1
  <1>. HIDE DEF R
  <1>3. u \o v \in Seq(R) /\ Behind(u, v, u \o v)
    BY <1>2, Joined
  <1>. QED  BY <1>2, <1>3 DEF IsList
LEMMA ListMore ==
    ASSUME NEW s, IsList(s), NEW e
    PROVE  /\ IsList(Append(s, e)) /\ Len(s) \in Nat /\ Len(Append(s, e)) = Len(s) + 1
           /\ \A n \in 1..Len(s) : Append(s, e)[n] = s[n]
           /\ Append(s, e)[Len(s) + 1] = e
  <1>1. PICK T : s \in Seq(T)
    BY DEF IsList
  <1>. DEFINE R == T \cup {e}
  <1>2. s \in Seq(R) /\ e \in R
    BY <1>1
  <1>. HIDE DEF R
  <1>. QED  BY <1>2 DEF IsList
LEMMA EmptyList == IsList(<<>>) /\ Len(<<>>) = 0
  <1>1. <<>> \in Seq({})
    OBVIOUS
  <1>. QED  BY <1>1 DEF IsList
LEMMA WiredIsList == \A e : IsList(Wired(e)) /\ Len(Wired(e)) \in Nat /\ Len(Wired(e)) > 0
  <1>1. ASSUME NEW a, NEW b, NEW c PROVE IsList(<<a, b, c>>)
    <2>1. <<a, b, c>> \in Seq({a, b, c})
      OBVIOUS
    <2>. QED  BY <2>1 DEF IsList
  <1>2. ASSUME NEW a, NEW b, NEW c, NEW d, NEW f PROVE IsList(<<a, b, c, d, f>>)
    <2>1. <<a, b, c, d, f>> \in Seq({a, b, c, d, f})
      OBVIOUS
    <2>. QED  BY <2>1 DEF IsList
  <1>3. ASSUME NEW e PROVE IsList(Wired(e))
    <2>1. CASE OneLine(e)
      BY <1>1, <2>1, WiredShort
    <2>2. CASE ~ OneLine(e)
      BY <1>2, <2>2, WiredLong
    <2>. QED  BY <2>1, <2>2
  <1>. QED  BY <1>3, WiredLength

SaysMore(e) ==
    /\ link = "up" /\ sent' = Append(sent, e) /\ wire' = wire \o Wired(e)
    /\ UNCHANGED <<protocol, link, relayVars, down, letGo, clientVars>>
LEMMA StreamGrows ==
    ASSUME EventsHold, StreamHolds, NEW e, SaysMore(e)
    PROVE  StreamHolds' /\ SaidStays /\ Len(sent) \in Nat /\ heard \in 0..Len(sent)
  <1>1. SaidStays /\ Len(sent) \in Nat /\ Len(sent') = Len(sent) + 1 /\ sent'[Len(sent) + 1] = e
    BY ListMore DEF SaysMore, EventsHold, SaidStays
  <1>2. PICK x, y : StreamAt(x, y)
    BY DEF StreamHolds
  <1>3. Extends(Wiring, Wiring') /\ Len(Wiring) = Len(sent)
    BY <1>1, WiringStays DEF Extends
  <1>4. ProbeIsAt(probe, x)' /\ Placed(Wiring', x) /\ Placed(Wiring', y)
    BY <1>1, <1>2, <1>3, ProbeStays, PlacedMore DEF StreamAt, SaysMore, relayVars
  <1>5. Leads(Wiring', x, wire', [n |-> Len(sent'), k |-> 0])
    <2>. DEFINE last == [n |-> Len(sent) + 1, k |-> 0]
    <2>1. Leads(Wiring', x, wire, Said)
      BY <1>2, <1>3, LeadsMore DEF StreamAt, SaysMore
    <2>2. Wiring'[Len(sent) + 1] = Wired(e)
      <3>1. ASSUME NEW n, n = Len(sent) + 1 PROVE Wiring'[n] = Wired(e)
        <4>1. n \in 1..Len(sent') /\ sent'[n] = e
          BY <1>1, <3>1
        <4>2. Wiring'[n] = (Wired(sent[n]))'
          BY <4>1, Zenon DEF Wiring
        <4>3. (Wired(sent[n]))' = Wired(e)
          BY <1>1, <4>1, Zenon DEF Wired, SaidStays
        <4>. QED  BY <4>2, <4>3
      <3>. QED  BY <3>1
    <2>3. Leads(Wiring', Said, Wired(e), last)
      <3>1. IsList(Wired(e)) /\ Len(Wired(e)) \in Nat /\ Len(Wired(e)) > 0
        BY WiredIsList
      <3>2. Said.n = Len(sent) /\ Said.k = 0 /\ Len(sent) + 1 = Len(Wiring')
        BY <1>1, <1>3 DEF Said, Extends
      <3>. QED  BY <1>1, <2>2, <3>1, <3>2, LeadsEvent
    <2>4. IsList(wire) /\ IsList(Wired(e))
      BY WiredIsList DEF StreamHolds
    <2>5. Leads(Wiring', x, wire \o Wired(e), last)
      <3>1. Behind(wire, Wired(e), wire \o Wired(e))
        BY <2>4, ListJoin
      <3>. HIDE DEF last
      <3>. QED  BY <2>1, <2>3, <3>1, LeadsJoin
    <2>. QED  BY <1>1, <2>5 DEF SaysMore
  <1>6. IF letGo THEN down = <<>> ELSE Leads(Wiring', y, down, x)
    BY <1>2, <1>3, LeadsMore DEF StreamAt
  <1>7. protocol = "responses" => (Mid(reader, sent[y.n + 1], y.k))'
    BY <1>1, <1>2, ReaderStays DEF StreamAt, SaysMore, clientVars
  <1>8. StreamAt(x, y)'
    BY <1>2, <1>4, <1>5, <1>6, <1>7 DEF StreamAt, SaysMore, relayVars, clientVars, Said
  <1>9. IsList(wire') /\ IsList(down')
    BY WiredIsList, ListJoin DEF SaysMore, StreamHolds
  <1>10. heard \in 0..Len(sent)
    BY <1>2, <1>3 DEF StreamAt, Placed
  <1>. QED  BY <1>1, <1>8, <1>9, <1>10 DEF StreamHolds

LEMMA SaysKeeps ==
    ASSUME RoundHolds, Reading, NEW e, SaysMore(e), AnEvent(e), ItemsHold', \A n \in 1..Len(sent) : ~ Judged(sent[n])
    PROVE  RoundHolds'
  <1>1. StreamHolds' /\ SaidStays /\ Len(sent) \in Nat /\ heard \in 0..Len(sent)
    BY StreamGrows DEF RoundHolds
  <1>2. /\ IsList(sent') /\ Len(sent') = Len(sent) + 1 /\ sent'[Len(sent) + 1] = e
        /\ \A n \in 1..Len(sent) : sent'[n] = sent[n]
    BY ListMore DEF SaysMore, EventsHold, RoundHolds
  <1>3. \A n \in 1..Len(sent') : n \in 1..Len(sent) \/ n = Len(sent')
    BY <1>1, <1>2
  <1>4. EventsHold'
    <2>1. ASSUME NEW n \in 1..Len(sent') PROVE (AnEvent(sent[n]))'
      <3>1. AnEvent(sent'[n])
        BY <1>2, <1>3 DEF RoundHolds, EventsHold
      <3>. QED  BY <3>1, <1>1 DEF AnEvent, SaidStays, Verdicts, Others
    <2>. QED  BY <1>1, <1>2, <2>1 DEF EventsHold, RoundHolds, Faces, SaidStays
  <1>5. Lasts'
    BY <1>2, <1>3 DEF Lasts
  <1>6. SettledHolds' /\ settled' = settled /\ letGo' = letGo /\ UNCHANGED clientVars
    BY DEF RoundHolds, SettledHolds, SaysMore, relayVars
  <1>7. ClientHolds'
    <2>1. protocol = "responses" => TurnAt(turn, heard)'
      BY <1>1, <1>6, TurnStays DEF RoundHolds, ClientHolds, Reading, clientVars
    <2>2. Streaming' /\ (IsReader(reader)' <=> IsReader(reader))
      BY <1>6 DEF Reading, Streaming, clientVars, IsReader
    <2>3. posting' = posting
      BY <1>6 DEF clientVars
    <2>. QED  BY <1>1, <2>1, <2>2, <2>3 DEF RoundHolds, ClientHolds, SaidStays
  <1>. QED  BY <1>1, <1>4, <1>5, <1>6, <1>7 DEF RoundHolds

LEMMA UpstreamKeeps ==
    ASSUME RoundHolds, Reading, UpstreamNext, UNCHANGED clientVars
    PROVE  RoundHolds'
  <1>1. ~ Over => \A n \in 1..Len(sent) : ~ Judged(sent[n])
    <2>1. PICK T : sent \in Seq(T)
      BY DEF RoundHolds, EventsHold, IsList
    <2>. QED  BY <2>1 DEF Over, Judged
  <1>2. IsList(items) /\ Len(items) \in Nat /\ DOMAIN items = 1..Len(items)
    BY DEF RoundHolds, ItemsHold, IsList
  <1>3. ASSUME NEW e, Says(e) PROVE SaysMore(e) /\ protocol' = protocol
    BY <1>3 DEF Says, SaysMore
  <1>4. items' = items /\ protocol' = protocol => ItemsHold'
    BY DEF RoundHolds, ItemsHold
  <1>5. ASSUME NEW kind, Adds(kind) PROVE RoundHolds'
    <2>. DEFINE e == Event("added", Len(items) + 1, "none", NoUsage)
    <2>1. Says(e) /\ ~ Over /\ protocol = "responses" /\ items' = Append(items, [kind |-> kind, phase |-> "added"])
      BY <1>5 DEF Adds
    <2>2. AnEvent(e)
      BY <1>2, <2>1 DEF AnEvent, Saying
    <2>. HIDE DEF e
    <2>3. ItemsHold'
      BY <1>2, <1>3, <2>1, ListMore DEF ItemsHold
    <2>. QED  BY <1>1, <1>3, <2>1, <2>2, <2>3, SaysKeeps
  <1>6. ASSUME NEW i \in DOMAIN items, NEW name \in {"delta", "done"}, NEW stage,
               ~ Over, Alters(i, stage), Says(Event(name, i, "none", NoUsage))
        PROVE  RoundHolds'
    <2>. DEFINE e == Event(name, i, "none", NoUsage)
    <2>1. protocol = "responses" /\ i \in Nat
      BY <1>2 DEF RoundHolds, ItemsHold, EventsHold
    <2>2. AnEvent(e)
      BY <2>1 DEF AnEvent, Saying
    <2>3. IsList(items')
      <3>1. PICK T : items \in Seq(T)
        BY <1>2 DEF IsList
      <3>. DEFINE v == [items[i] EXCEPT !.phase = stage]
      <3>2. items' = [items EXCEPT ![i] = v]
        BY <1>6 DEF Alters
      <3>. HIDE DEF v
      <3>3. items \in Seq(T \cup {v}) /\ v \in T \cup {v}
        BY <3>1
      <3>4. items' \in Seq(T \cup {v})
        BY <3>2, <3>3
      <3>. QED  BY <3>4 DEF IsList
    <2>4. Says(e) /\ ItemsHold'
      BY <1>3, <1>6, <2>1, <2>3 DEF ItemsHold
    <2>. HIDE DEF e
    <2>. QED  BY <1>1, <1>3, <1>6, <2>2, <2>4, SaysKeeps
  <1>7. ASSUME NEW i \in DOMAIN items, Gives(i) \/ Ends(i) PROVE RoundHolds'
    BY <1>6, <1>7 DEF Gives, Ends
  <1>8. ASSUME NEW e \in Verdicts, Concludes(e) PROVE RoundHolds'
    BY <1>1, <1>3, <1>4, <1>8, SaysKeeps DEF Concludes, AnEvent
  <1>9. ASSUME NEW e \in Others, Tells(e) PROVE RoundHolds'
    BY <1>1, <1>3, <1>4, <1>9, SaysKeeps DEF Tells, AnEvent
  <1>10. CASE KeepsAlive
    <2>1. Says(Note) /\ items' = items /\ protocol # "responses" /\ 1..Len(sent) = {}
      BY <1>10 DEF KeepsAlive
    <2>2. AnEvent(Note)
      BY <2>1 DEF AnEvent
    <2>. QED  BY <1>3, <1>4, <2>1, <2>2, SaysKeeps
  <1>. QED  BY <1>5, <1>7, <1>8, <1>9, <1>10 DEF UpstreamNext

------------------------------------------------------------------------------
(* The relay's and the client's steps *)

LEMMA ListCut ==
    ASSUME NEW w, IsList(w), NEW n \in 0..Len(w)
    PROVE  LET u == SubSeq(w, 1, n)
               v == SubSeq(w, n + 1, Len(w))
           IN  IsList(u) /\ IsList(v) /\ Behind(u, v, w) /\ Len(u) \in Nat /\ Len(v) \in Nat /\ DOMAIN u = 1..Len(u)
  <1>. DEFINE u == SubSeq(w, 1, n) v == SubSeq(w, n + 1, Len(w))
  <1>1. PICK T : w \in Seq(T)
    BY DEF IsList
  <1>2. u \in Seq(T) /\ v \in Seq(T) /\ Len(u) = n /\ Len(v) = Len(w) - n
    BY <1>1
  <1>3. (\A i \in 1..n : u[i] = w[i]) /\ (\A i \in 1..(Len(w) - n) : v[i] = w[n + i]) /\ Len(w) \in Nat
    BY <1>1
  <1>. HIDE DEF u, v
  <1>4. Behind(u, v, w)
    BY <1>2, <1>3 DEF Behind
  <1>5. IsList(u) /\ IsList(v)
    BY <1>2 DEF IsList
  <1>6. Len(u) \in Nat /\ Len(v) \in Nat /\ DOMAIN u = 1..Len(u)
    BY <1>2
  <1>. QED  BY <1>4, <1>5, <1>6 DEF u, v

LEMMA WiringIsBlanked ==
    ASSUME EventsHold
    PROVE  /\ Blanked(Wiring) /\ Len(Wiring) \in Nat /\ Len(Wiring) = Len(sent)
           /\ \A n \in 1..Len(Wiring) : Len(Wiring[n]) \in Nat
  <1>1. Blank = Piece(Blank, "end").line
    BY DEF Piece
  <1>2. ASSUME NEW e PROVE \A i \in 1..Len(Wired(e)) : Wired(e)[i].line = Blank <=> i = Len(Wired(e))
    <2>1. CASE OneLine(e)
      <3>. DEFINE a == Piece(Opening(e), "head") b == Piece(Opening(e), "end") c == Piece(Blank, "end")
      <3>1. Wired(e) = <<a, b, c>>
        BY <2>1, WiredShort
      <3>2. a.line # Blank /\ b.line # Blank /\ c.line = Blank
        BY <1>1, WholeLine DEF Opening
      <3>. HIDE DEF a, b, c
      <3>3. \A i \in 1..3 : <<a, b, c>>[i].line = Blank <=> i = 3
        BY <3>2
      <3>. QED  BY <3>1, <3>3
    <2>2. CASE ~ OneLine(e)
      <3>. DEFINE a == Piece(Field("event", e), "head") b == Piece(Field("event", e), "end")
                  c == Piece(Field("data", e), "head") d == Piece(Field("data", e), "end") f == Piece(Blank, "end")
      <3>1. Wired(e) = <<a, b, c, d, f>>
        BY <2>2, WiredLong
      <3>2. a.line # Blank /\ b.line # Blank /\ c.line # Blank /\ d.line # Blank /\ f.line = Blank
        BY <1>1, WholeLine
      <3>. HIDE DEF a, b, c, d, f
      <3>3. \A i \in 1..5 : <<a, b, c, d, f>>[i].line = Blank <=> i = 5
        BY <3>2
      <3>. QED  BY <3>1, <3>3
    <2>. QED  BY <2>1, <2>2
  <1>3. /\ Len(sent) \in Nat /\ Len(Wiring) = Len(sent)
        /\ \A n \in 1..Len(sent) : Wiring[n] = Wired(sent[n])
    BY WiringIs
  <1>4. \A n \in 1..Len(Wiring) : Len(Wiring[n]) \in Nat
    BY <1>3, WiredIsList
  <1>5. Blanked(Wiring)
    BY <1>2, <1>3 DEF Blanked
  <1>. QED  BY <1>3, <1>4, <1>5

EventsStay == UNCHANGED <<protocol, items, sent>>
LEMMA EventsSame ==
    ASSUME EventsHold, Lasts, ItemsHold, EventsStay
    PROVE  /\ EventsHold' /\ Lasts' /\ ItemsHold'
           /\ SaidStays /\ Wiring' = Wiring /\ sent' = sent /\ protocol' = protocol
  <1>1. sent' = sent /\ protocol' = protocol /\ items' = items
    BY DEF EventsStay
  <1>2. Wiring' = Wiring
    BY <1>1 DEF Wiring, Wired
  <1>3. SaidStays
    BY <1>1, ListMore DEF SaidStays, EventsHold
  <1>4. EventsHold'
    BY <1>1 DEF EventsHold, AnEvent, Verdicts, Others, Faces
  <1>5. Lasts'
    BY <1>1 DEF Lasts
  <1>6. ItemsHold'
    BY <1>1 DEF ItemsHold
  <1>. QED  BY <1>1, <1>2, <1>3, <1>4, <1>5, <1>6

LEMMA StreamSame ==
    ASSUME EventsHold, Lasts, ItemsHold, StreamHolds, EventsStay, UNCHANGED <<link, wire, probe, seen, reader, heard>>,
           (down' = down /\ letGo' = letGo) \/ (down' = <<>> /\ letGo' = TRUE)
    PROVE  StreamHolds'
  <1>1. PICK x, y : StreamAt(x, y)
    BY DEF StreamHolds
  <1>2. SaidStays /\ Wiring' = Wiring /\ sent' = sent /\ protocol' = protocol
    BY EventsSame
  <1>3. ProbeIsAt(probe, x)' /\ (protocol = "responses" => (Mid(reader, sent[y.n + 1], y.k))')
    BY <1>1, <1>2, ProbeStays, ReaderStays DEF StreamAt
  <1>4. StreamAt(x, y)'
    BY <1>1, <1>2, <1>3 DEF StreamAt, Said
  <1>5. IsList(wire') /\ IsList(down')
    BY EmptyList DEF StreamHolds
  <1>. QED  BY <1>4, <1>5 DEF StreamHolds

LEMMA HeardInside ==
    ASSUME EventsHold, StreamHolds
    PROVE  heard \in 0..Len(sent)
  <1>1. PICK x, y : StreamAt(x, y)
    BY DEF StreamHolds
  <1>. QED  BY <1>1, WiringIs DEF StreamAt, Placed

LEMMA ChunkKeepsStream ==
    ASSUME EventsHold, Lasts, ItemsHold, StreamHolds, SendsOn, UNCHANGED clientVars
    PROVE  StreamHolds'
  <1>1. PICK n \in 1..MaxChunk :
           /\ n <= Len(wire) /\ down = <<>>
           /\ wire' = SubSeq(wire, n + 1, Len(wire))
           /\ probe' = Push(probe, SubSeq(wire, 1, n))
           /\ seen' = seen + EventsIn(SubSeq(wire, 1, n))
           /\ IF letGo THEN down' = down ELSE down' = down \o SubSeq(wire, 1, n)
    BY DEF SendsOn
  <1>2. /\ wire # <<>> /\ EventsStay /\ UNCHANGED <<link, letGo, reader, heard>>
    BY DEF SendsOn, upVars, EventsStay, clientVars
  <1>3. PICK x, y : StreamAt(x, y)
    BY DEF StreamHolds
  <1>4. link = "up" /\ Leads(Wiring, x, wire, Said)
    BY <1>2, <1>3 DEF StreamAt
  <1>. DEFINE chunk == SubSeq(wire, 1, n) rest == SubSeq(wire, n + 1, Len(wire))
  <1>5. n \in 0..Len(wire) /\ IsList(wire)
    BY <1>1, ListMore, ProbeBounds DEF StreamHolds
  <1>6. /\ IsList(chunk) /\ IsList(rest) /\ Behind(chunk, rest, wire)
        /\ Len(chunk) \in Nat /\ Len(rest) \in Nat /\ DOMAIN chunk = 1..Len(chunk)
    BY <1>5, ListCut
  <1>7. wire' = rest /\ probe' = Push(probe, chunk) /\ seen' = seen + EventsIn(chunk)
        /\ down' = IF letGo THEN down ELSE down \o chunk
    BY <1>1
  <1>. HIDE DEF chunk, rest
  <1>8. PICK z : Leads(Wiring, x, chunk, z) /\ Leads(Wiring, z, rest, Said)
    BY <1>4, <1>6, LeadsSplit DEF Between
  <1>9. EventsIn(chunk) \in Nat /\ z.n = x.n + EventsIn(chunk) /\ Placed(Wiring, z)
    BY <1>6, <1>8, WiringIsBlanked, BlanksCount, LeadsEnds
  <1>10. ProbeIsAt(Push(probe, chunk), z)
    BY <1>3, <1>8, PushAlong DEF StreamAt
  <1>11. Wiring' = Wiring /\ sent' = sent /\ protocol' = protocol /\ SaidStays
    BY <1>2, EventsSame
  <1>12. ProbeIsAt(probe, z)'
    <2>1. ASSUME NEW q, q = probe', ProbeIsAt(q, z) PROVE ProbeIsAt(probe, z)'
      BY <1>11, <2>1, Zenon DEF ProbeIsAt, Mid, Wired, OneLine, ResultIs, UsageIs, VerdictIs
    <2>. QED  BY <1>7, <1>10, <2>1
  <1>13. protocol = "responses" => (Mid(reader, sent[y.n + 1], y.k))'
    BY <1>2, <1>3, <1>11, ReaderStays DEF StreamAt
  <1>14. z.n = seen' /\ y.n <= z.n
    <2>1. x.n \in Nat /\ y.n \in Nat /\ x.n = seen /\ y.n <= x.n
      BY <1>3, WiringIs DEF StreamAt, Placed
    <2>. QED  BY <1>7, <1>9, <2>1
  <1>15. IF letGo THEN down' = <<>> ELSE Leads(Wiring, y, down', z)
    <2>1. CASE letGo
      BY <1>1, <1>7, <2>1
    <2>2. CASE ~ letGo
      <3>1. Leads(Wiring, y, down, x) /\ IsList(down)
        BY <1>3, <2>2 DEF StreamAt, StreamHolds
      <3>2. Behind(down, chunk, down \o chunk)
        BY <1>6, <3>1, ListJoin
      <3>3. Leads(Wiring, y, down \o chunk, z)
        BY <1>8, <3>1, <3>2, LeadsJoin
      <3>. QED  BY <1>7, <2>2, <3>3
    <2>. QED  BY <2>1, <2>2
  <1>16. StreamAt(z, y)'
    BY <1>2, <1>3, <1>4, <1>7, <1>8, <1>9, <1>11, <1>12, <1>13, <1>14, <1>15 DEF StreamAt, Said
  <1>17. IsList(wire') /\ IsList(down')
    BY <1>6, <1>7, ListJoin DEF StreamHolds
  <1>. QED  BY <1>16, <1>17 DEF StreamHolds

LEMMA ClientWaits ==
    ASSUME RoundHolds, EventsStay, UNCHANGED clientVars, letGo' = letGo,
           settled' = settled \/ (settled = Unsettled /\ Streaming)
    PROVE  ClientHolds'
  <1>1. SaidStays /\ heard \in 0..Len(sent)
    BY EventsSame, HeardInside DEF RoundHolds
  <1>2. protocol' = protocol /\ reader' = reader /\ turn' = turn /\ heard' = heard /\ posting' = posting
    BY DEF EventsStay, clientVars
  <1>3. protocol = "responses" /\ Streaming => TurnAt(turn, heard)'
    BY <1>1, <1>2, TurnStays DEF RoundHolds, ClientHolds
  <1>. QED  BY <1>2, <1>3 DEF RoundHolds, ClientHolds, Streaming, IsReader

LEMMA RelayKeeps ==
    ASSUME RoundHolds, Streaming, RelayNext \/ Hangs, UNCHANGED clientVars
    PROVE  RoundHolds'
  <1>1. CASE SendsOn
    <2>1. EventsStay /\ letGo' = letGo /\ settled = Unsettled
      BY <1>1 DEF SendsOn, EventsStay, upVars
    <2>2. SettledHolds'
      BY <1>1 DEF SendsOn, SettledHolds
    <2>3. StreamHolds'
      BY <1>1, ChunkKeepsStream DEF RoundHolds
    <2>4. EventsHold' /\ Lasts' /\ ItemsHold'
      BY <2>1, EventsSame DEF RoundHolds
    <2>5. ClientHolds'
      BY <2>1, ClientWaits
    <2>. QED  BY <2>2, <2>3, <2>4, <2>5 DEF RoundHolds
  <1>2. CASE Settle
    <2>1. /\ EventsStay /\ letGo' = letGo /\ settled = Unsettled
          /\ UNCHANGED <<link, wire, probe, seen, reader, heard, down>>
      BY <1>2 DEF Settle, EventsStay, upVars, clientVars
    <2>2. SettledHolds'
      BY <1>2 DEF Settle, SettledHolds
    <2>3. StreamHolds'
      BY <2>1, StreamSame DEF RoundHolds
    <2>4. EventsHold' /\ Lasts' /\ ItemsHold'
      BY <2>1, EventsSame DEF RoundHolds
    <2>5. ClientHolds'
      BY <2>1, ClientWaits
    <2>. QED  BY <2>2, <2>3, <2>4, <2>5 DEF RoundHolds
  <1>3. CASE Hangs
    <2>1. /\ EventsStay /\ letGo' = letGo /\ settled' = settled /\ wire' = <<>> /\ link' = "over"
          /\ UNCHANGED <<probe, seen, reader, heard, down>>
      BY <1>3 DEF Hangs, EventsStay, relayVars, clientVars
    <2>2. SettledHolds'
      BY <2>1 DEF SettledHolds, RoundHolds
    <2>3. StreamHolds'
      <3>1. PICK x, y : StreamAt(x, y)
        BY DEF StreamHolds, RoundHolds
      <3>2. SaidStays /\ Wiring' = Wiring /\ sent' = sent /\ protocol' = protocol
        BY <2>1, EventsSame DEF RoundHolds
      <3>3. ProbeIsAt(probe, x)' /\ (protocol = "responses" => (Mid(reader, sent[y.n + 1], y.k))')
        BY <2>1, <3>1, <3>2, ProbeStays, ReaderStays DEF StreamAt
      <3>4. StreamAt(x, y)'
        BY <2>1, <3>1, <3>2, <3>3 DEF StreamAt
      <3>5. IsList(wire') /\ IsList(down')
        BY <2>1, EmptyList DEF StreamHolds, RoundHolds
      <3>. QED  BY <3>4, <3>5 DEF StreamHolds
    <2>4. EventsHold' /\ Lasts' /\ ItemsHold'
      BY <2>1, EventsSame DEF RoundHolds
    <2>5. ClientHolds'
      BY <2>1, ClientWaits
    <2>. QED  BY <2>2, <2>3, <2>4, <2>5 DEF RoundHolds
  <1>. QED  BY <1>1, <1>2, <1>3 DEF RelayNext

------------------------------------------------------------------------------
(* The client's steps *)

LEMMA NewTurnIs == \A t : t = NewTurn => IsTurn(t) /\ t.usage = <<>> /\ t.outcome = "reading"
  BY DEF NewTurn, IsTurn

LEMMA ReadsKeeps ==
    ASSUME RoundHolds, Reads
    PROVE  RoundHolds'
  <1>1. /\ Streaming /\ down # <<>> /\ down' = <<>> /\ heard' = heard + EventsIn(down)
        /\ EventsStay /\ UNCHANGED <<link, wire, probe, seen, settled, letGo, posting>>
    BY DEF Reads, EventsStay, upVars, relayVars
  <1>2. /\ EventsHold' /\ Lasts' /\ ItemsHold' /\ SaidStays
        /\ Wiring' = Wiring /\ sent' = sent /\ protocol' = protocol
    BY <1>1, EventsSame DEF RoundHolds
  <1>3. PICK x, y : StreamAt(x, y)
    BY DEF RoundHolds, StreamHolds
  <1>4. ~ letGo /\ Leads(Wiring, y, down, x) /\ IsList(down)
    BY <1>1, <1>3 DEF StreamAt, RoundHolds, StreamHolds
  <1>5. heard' = x.n
    <2>1. DOMAIN down = 1..Len(down)
      BY <1>4, ListJoin
    <2>2. x.n = y.n + EventsIn(down)
      BY <1>4, <2>1, WiringIsBlanked, BlanksCount DEF RoundHolds
    <2>. QED  BY <1>1, <1>3, <2>2 DEF StreamAt
  <1>. DEFINE was == [reader |-> reader, turn |-> turn] after == FeedChunk(was, down)
  <1>6. ASSUME protocol = "responses"
        PROVE  reader' = after.reader /\ turn' = after.turn /\ ClientIsAt(after, x)
    <2>1. reader' = after.reader /\ turn' = after.turn
      BY <1>6, Zenon DEF Reads
    <2>2. IsReader(reader) /\ TurnAt(turn, heard)
      BY <1>1, <1>6 DEF RoundHolds, ClientHolds
    <2>3. was.reader = reader /\ was.turn = turn /\ IsClient(was)
      BY DEF IsClient
    <2>. HIDE DEF was
    <2>4. ClientIsAt(was, y)
      BY <1>3, <1>6, <2>2, <2>3 DEF ClientIsAt, StreamAt
    <2>5. ClientIsAt(after, x)
      BY <1>4, <1>6, <2>4, ReadsAlong DEF RoundHolds
    <2>. QED  BY <2>1, <2>5
  <1>. HIDE DEF after
  <1>7. ProbeIsAt(probe, x)'
    BY <1>1, <1>2, <1>3, ProbeStays DEF StreamAt
  <1>8. protocol = "responses" => (Mid(reader, sent[x.n + 1], x.k))'
    <2>1. ASSUME NEW r, r = reader', Mid(r, sent[x.n + 1], x.k) PROVE (Mid(reader, sent[x.n + 1], x.k))'
      BY <1>2, <2>1, Zenon DEF Mid, Wired, OneLine
    <2>. QED  BY <1>6, <2>1 DEF ClientIsAt
  <1>9. StreamAt(x, x)'
    <2>1. Placed(Wiring, x) /\ x.n \in Nat /\ Leads(Wiring, x, <<>>, x)
      BY <1>3, WiringIs, LeadsNowhere, EmptyList DEF StreamAt, Placed, RoundHolds
    <2>. QED  BY <1>1, <1>2, <1>3, <1>4, <1>5, <1>7, <1>8, <2>1 DEF StreamAt, Said
  <1>10. StreamHolds'
    <2>1. IsList(wire') /\ IsList(down')
      BY <1>1, EmptyList DEF RoundHolds, StreamHolds
    <2>. QED  BY <1>9, <2>1 DEF StreamHolds
  <1>11. SettledHolds'
    BY <1>1 DEF RoundHolds, SettledHolds
  <1>12. ClientHolds'
    <2>1. ASSUME protocol = "responses" PROVE TurnAt(turn, heard)' /\ IsReader(reader)'
      <3>1. TurnAt(after.turn, x.n) /\ IsReader(after.reader)
        BY <1>6, <2>1 DEF ClientIsAt
      <3>2. TurnAt(turn, heard)'
        BY <1>1, <1>2, <1>5, <1>6, <2>1, <3>1 DEF TurnAt, IsTurn, Cheap, Decides
      <3>3. IsReader(reader)'
        BY <1>6, <2>1, <3>1 DEF IsReader
      <3>. QED  BY <3>2, <3>3
    <2>. QED  BY <1>1, <1>2, <2>1 DEF RoundHolds, ClientHolds, Streaming
  <1>. QED  BY <1>2, <1>10, <1>11, <1>12 DEF RoundHolds

\* What the relay makes of an answer without a verdict the reader knows.
LEMMA CutShort ==
    ASSUME EventsHold, protocol = "responses", NEW r, NEW n \in 0..Len(sent), ResultIs(r, n),
           \A m \in 1..n : ~ Decides(sent[m])
    PROVE  Cheap(Settlement(r).uses, n)
  <1>1. CASE \E m \in 1..n : sent[m].name = "response.done"
    BY <1>1 DEF Cheap
  <1>2. CASE \A m \in 1..n : sent[m].name # "response.done"
    <2>1. ASSUME NEW m \in 1..n PROVE sent[m].at = "none"
      <3>1. AnEvent(sent[m]) /\ sent[m].name \notin {"completed", "response.done"}
        BY <1>2, ListMore DEF EventsHold, Decides
      <3>. QED  BY <3>1, ResponsesEvents
    <2>2. r.usage = <<>>
      BY <2>1 DEF ResultIs, UsageIs
    <2>3. \/ Settlement(r) = [status |-> "aborted", uses |-> IF r.saw THEN 1 ELSE 0]
          \/ Settlement(r) = [status |-> "upstream_error", uses |-> 0]
      BY <2>2 DEF Settlement
    <2>. QED  BY <2>3 DEF Cheap
  <1>. QED  BY <1>1, <1>2

LEMMA OthersStay ==
    ASSUME RoundHolds, EventsStay, UNCHANGED <<link, wire, probe, seen, reader, heard, settled>>,
           (down' = down /\ letGo' = letGo) \/ (down' = <<>> /\ letGo' = TRUE)
    PROVE  EventsHold' /\ Lasts' /\ ItemsHold' /\ StreamHolds' /\ SettledHolds' /\ SaidStays /\ sent' = sent
           /\ protocol' = protocol /\ heard \in 0..Len(sent)
  <1>1. EventsHold' /\ Lasts' /\ ItemsHold' /\ SaidStays /\ sent' = sent /\ protocol' = protocol
    BY EventsSame DEF RoundHolds
  <1>2. StreamHolds' /\ heard \in 0..Len(sent)
    BY StreamSame, HeardInside DEF RoundHolds
  <1>3. SettledHolds'
    BY DEF RoundHolds, SettledHolds
  <1>. QED  BY <1>1, <1>2, <1>3

LEMMA EndsKeeps ==
    ASSUME RoundHolds, EndsRound \/ Cancels \/ Loses
    PROVE  RoundHolds'
  <1>1. /\ Reading /\ EventsStay /\ UNCHANGED <<link, wire, probe, seen, reader, heard, settled, posting>>
        /\ (down' = down /\ letGo' = letGo) \/ (down' = <<>> /\ letGo' = TRUE)
    BY DEF EndsRound, Cancels, Loses, LetsGo, EventsStay, probeVars, upVars, relayVars
  <1>2. /\ EventsHold' /\ Lasts' /\ ItemsHold' /\ StreamHolds' /\ SettledHolds' /\ sent' = sent
        /\ protocol' = protocol /\ heard \in 0..Len(sent)
    BY <1>1, OthersStay
  <1>3. ClientHolds'
    <2>. SUFFICES ASSUME protocol = "responses" PROVE ClientHolds'
      BY <1>2 DEF ClientHolds
    <2>1. /\ TurnAt(turn, heard) /\ turn.outcome = "reading" /\ IsReader(reader) /\ Streaming
          /\ IsTurn(turn) /\ turn.usage = <<>> /\ ~ letGo /\ \A m \in 1..heard : ~ Decides(sent[m])
      BY <1>1 DEF Reading, RoundHolds, ClientHolds, TurnAt
    <2>2. Streaming' /\ IsReader(reader)'
      BY <1>1, <2>1 DEF Streaming, IsReader
    <2>3. TurnAt(turn, heard)'
      <3>1. CASE EndsRound
        <4>1. turn' = Done(turn) /\ down = <<>> /\ settled # Unsettled /\ letGo' = letGo
          BY <3>1 DEF EndsRound, probeVars
        <4>2. Cheap(settled.uses, heard)
          <5>1. PICK x, y : StreamAt(x, y)
            BY DEF RoundHolds, StreamHolds
          <5>2. Leads(Wiring, y, <<>>, x) /\ ResultIs(probe.result, x.n) /\ y.n = heard
            BY <2>1, <4>1, <5>1 DEF StreamAt, ProbeIsAt
          <5>3. x.n = heard
            BY <5>2, LeadsEnds, EmptyList
          <5>4. Cheap(Settlement(probe.result).uses, heard)
            BY <1>2, <2>1, <5>2, <5>3, CutShort DEF RoundHolds
          <5>. QED  BY <4>1, <5>4 DEF RoundHolds, SettledHolds
        <4>3. IsTurn(turn') /\ turn'.usage = <<>> /\ turn'.outcome \in {"aborted", "done"}
          BY <2>1, <4>1, DoneEnds
        <4>. QED  BY <1>1, <1>2, <4>1, <4>2, <4>3 DEF TurnAt, IsTurn, Cheap
      <3>2. CASE Cancels
        <4>1. turn' = Done(turn) /\ signal /\ letGo' = TRUE
          BY <3>2 DEF Cancels, LetsGo
        <4>2. IsTurn(turn') /\ turn'.usage = <<>> /\ turn'.outcome = "aborted"
          BY <2>1, <4>1, DoneEnds
        <4>. QED  BY <1>1, <4>1, <4>2 DEF TurnAt, IsTurn
      <3>3. CASE Loses
        <4>1. turn' = [turn EXCEPT !.outcome = "error"] /\ letGo' = TRUE
          BY <3>3 DEF Loses, LetsGo, Closed
        <4>2. IsTurn(turn') /\ turn'.usage = <<>> /\ turn'.outcome = "error"
          BY <2>1, <4>1 DEF IsTurn
        <4>. QED  BY <1>1, <4>1, <4>2 DEF TurnAt, IsTurn
      <3>. QED  BY <3>1, <3>2, <3>3
    <2>4. "state" \in DOMAIN posting'
      BY <1>1 DEF RoundHolds, ClientHolds
    <2>. QED  BY <2>2, <2>3, <2>4 DEF ClientHolds
  <1>. QED  BY <1>2, <1>3 DEF RoundHolds

LEMMA PostsKeep ==
    ASSUME RoundHolds, BeginsRound \/ Again \/ Accepted \/ Strips \/ Unavailable \/ Refused
    PROVE  RoundHolds'
  <1>1. UNCHANGED <<probeVars, reader, heard>>
    BY DEF BeginsRound, Again, Accepted, Strips, Unavailable, Refused
  <1>2. /\ EventsStay /\ UNCHANGED <<link, wire, probe, seen, reader, heard, settled>>
        /\ (down' = down /\ letGo' = letGo) \/ (down' = <<>> /\ letGo' = TRUE)
    BY <1>1 DEF EventsStay, probeVars, upVars, relayVars
  <1>3. /\ EventsHold' /\ Lasts' /\ ItemsHold' /\ StreamHolds' /\ SettledHolds' /\ sent' = sent
        /\ protocol' = protocol
    BY <1>2, OthersStay
  <1>4. posting.state \in {"idle", "pausing", "posted"} /\ ~ Streaming
    BY DEF BeginsRound, Again, Accepted, Strips, Unavailable, Refused, Streaming
  <1>5. ClientHolds'
    <2>. SUFFICES ASSUME protocol = "responses" PROVE ClientHolds'
      BY <1>3 DEF ClientHolds
    <2>1. IsReader(reader) /\ settled = Unsettled /\ turn = NewTurn /\ heard = 0 /\ ~ letGo
      BY <1>4 DEF RoundHolds, ClientHolds
    <2>2. IsReader(reader)' /\ settled' = Unsettled /\ heard' = 0 /\ ~ letGo'
      BY <1>1, <2>1 DEF IsReader, probeVars, relayVars
    <2>3. /\ "state" \in DOMAIN posting' 
          /\ \/ posting'.state \in {"posted", "pausing"} /\ turn' = turn
             \/ posting'.state = "over"
             \/ posting'.state = "streaming" /\ turn' = turn
      <3>1. "state" \in DOMAIN posting
        BY DEF RoundHolds, ClientHolds
      <3>2. \A v : "state" \in DOMAIN [posting EXCEPT !.state = v] /\ [posting EXCEPT !.state = v].state = v
        BY <3>1
      <3>3. /\ "state" \in DOMAIN [posting EXCEPT !.stripped = TRUE]
            /\ [posting EXCEPT !.stripped = TRUE].state = posting.state
        BY <3>1
      <3>4. \A n, v : "state" \in DOMAIN Post(n, FALSE, v) /\ Post(n, FALSE, v).state = v
        BY DEF Post
      <3>5. CASE BeginsRound
        BY <3>2, <3>5 DEF BeginsRound
      <3>6. CASE Again
        <4>1. \/ posting' = [posting EXCEPT !.state = "over"]
              \/ posting' = Post(2, FALSE, "posted") /\ turn' = turn
          BY <3>6 DEF Again
        <4>2. CASE posting' = [posting EXCEPT !.state = "over"]
          BY <3>2, <4>2
        <4>3. CASE posting' = Post(2, FALSE, "posted") /\ turn' = turn
          BY <3>4, <4>3
        <4>. QED  BY <4>1, <4>2, <4>3
      <3>7. CASE Accepted
        BY <3>4, <3>7 DEF Accepted
      <3>8. CASE Strips
        BY <3>3, <3>8 DEF Strips
      <3>9. CASE Unavailable
        BY <3>2, <3>9 DEF Unavailable
      <3>10. CASE Refused
        BY <3>2, <3>10 DEF Refused
      <3>. QED  BY <3>5, <3>6, <3>7, <3>8, <3>9, <3>10
    <2>4. TurnAt(turn, heard)' \/ turn' # turn
      <3>1. IsTurn(turn) /\ turn.usage = <<>> /\ turn.outcome = "reading"
        BY <2>1, NewTurnIs
      <3>. QED  BY <2>2, <3>1 DEF TurnAt, IsTurn
    <2>. QED  BY <2>1, <2>2, <2>3, <2>4 DEF ClientHolds, Streaming
  <1>. QED  BY <1>3, <1>5 DEF RoundHolds

LEMMA RestKeeps ==
    ASSUME RoundHolds, Abort \/ UNCHANGED <<probeVars, clientVars>>
    PROVE  RoundHolds'
  <1>1. UNCHANGED <<probeVars, reader, heard, turn, posting>>
    BY DEF Abort, clientVars
  <1>2. /\ EventsStay /\ UNCHANGED <<link, wire, probe, seen, reader, heard, settled>>
        /\ down' = down /\ letGo' = letGo
    BY <1>1 DEF EventsStay, probeVars, upVars, relayVars
  <1>3. /\ EventsHold' /\ Lasts' /\ ItemsHold' /\ StreamHolds' /\ SettledHolds' /\ SaidStays
        /\ protocol' = protocol /\ heard \in 0..Len(sent)
    BY <1>2, OthersStay
  <1>4. protocol = "responses" /\ Streaming => TurnAt(turn, heard)'
    BY <1>1, <1>2, <1>3, TurnStays DEF RoundHolds, ClientHolds
  <1>5. ClientHolds'
    BY <1>1, <1>2, <1>3, <1>4 DEF RoundHolds, ClientHolds, Streaming, IsReader
  <1>. QED  BY <1>3, <1>5 DEF RoundHolds

LEMMA RoundBegins == ClientInit => RoundHolds
  <1>. SUFFICES ASSUME ClientInit PROVE RoundHolds
    OBVIOUS
  <1>1. /\ protocol \in {"responses", "chat", "anthropic"} /\ items = <<>> /\ sent = <<>> /\ wire = <<>> /\ link = "up"
        /\ probe = NewProbe /\ seen = 0 /\ down = <<>> /\ letGo = FALSE /\ settled = Unsettled
        /\ reader = NewReader /\ heard = 0 /\ turn = NewTurn
        /\ posting = Post(1, FALSE, IF protocol = "responses" THEN "idle" ELSE "streaming")
    BY DEF ClientInit, ProbeInit
  <1>2. Len(sent) = 0 /\ IsList(sent) /\ IsList(items) /\ IsList(wire) /\ IsList(down) /\ 1..Len(sent) = {}
    BY <1>1, EmptyList
  <1>3. EventsHold /\ Lasts /\ ItemsHold /\ SettledHolds
    BY <1>1, <1>2 DEF EventsHold, Lasts, ItemsHold, SettledHolds, Faces
  <1>4. Len(Wiring) = 0
    BY <1>2, <1>3, WiringIs
  <1>5. /\ IsProbe(probe) /\ Mid(probe, sent[1], 0)
        /\ probe.result.saw = FALSE /\ probe.result.usage = <<>> /\ probe.result.terminal = "pending"
        /\ IsResult(probe.result)
    BY <1>1 DEF NewProbe, IsProbe, IsResult, Mid
  <1>6. IsReader(reader) /\ Mid(reader, sent[1], 0)
    BY <1>1 DEF NewReader, IsReader, Mid
  <1>. DEFINE x == [n |-> 0, k |-> 0]
  <1>7. x.n = 0 /\ x.k = 0 /\ x = Said
    BY <1>2 DEF Said
  <1>. HIDE DEF x
  <1>8. Placed(Wiring, x) /\ Leads(Wiring, x, <<>>, x)
    <2>1. Placed(Wiring, x)
      BY <1>4, <1>7 DEF Placed
    <2>. QED  BY <2>1, LeadsNowhere, EmptyList
  <1>9. ResultIs(probe.result, 0)
    <2>1. 1..0 = {}
      OBVIOUS
    <2>. QED  BY <1>5, <2>1, Zenon DEF ResultIs, UsageIs, VerdictIs
  <1>10. StreamAt(x, x)
    BY <1>1, <1>5, <1>6, <1>7, <1>8, <1>9 DEF StreamAt, ProbeIsAt
  <1>11. StreamHolds
    BY <1>2, <1>10 DEF StreamHolds
  <1>12. ClientHolds
    BY <1>1, <1>6 DEF ClientHolds, Streaming, Post
  <1>. QED  BY <1>3, <1>11, <1>12 DEF RoundHolds

LEMMA RoundHoldsOn == RoundHolds /\ [RoundNext]_<<probeVars, clientVars>> => RoundHolds'
  BY PostsKeep, ReadsKeeps, EndsKeeps, UpstreamKeeps, RelayKeeps, RestKeeps DEF RoundNext

\* However the answer is cut and wherever it breaks off, the relay's probe knows
\* the last usage, the last verdict and whether there was an event
\* (UsageProbe::push).
THEOREM ProbeAlwaysAgrees == RoundSpec => []ProbeAgrees
  <1>1. RoundHolds => ProbeAgrees
    <2>. SUFFICES ASSUME RoundHolds PROVE ProbeAgrees
      OBVIOUS
    <2>. DEFINE usages == {n \in 1..seen : sent[n].at # "none"}
                verdicts == {n \in 1..seen : sent[n].name \in Good \cup Bad}
                latest(places) == CHOOSE n \in places : \A m \in places : m <= n
    <2>1. PICK x, y : StreamAt(x, y)
      BY DEF RoundHolds, StreamHolds
    <2>2. ResultIs(probe.result, seen) /\ seen \in Nat
      BY <2>1, WiringIs DEF StreamAt, ProbeIsAt, Placed, RoundHolds
    <2>3. ASSUME NEW places \in SUBSET (1..seen), NEW n \in places, \A j \in (n + 1)..seen : j \notin places
          PROVE  latest(places) = n
      <3>1. \A m \in places : m <= n
        BY <2>2, <2>3
      <3>2. latest(places) \in places /\ \A m \in places : m <= latest(places)
        BY <3>1
      <3>. HIDE DEF latest
      <3>3. n \in Nat /\ latest(places) \in Nat /\ n <= latest(places) /\ latest(places) <= n
        <4>1. \A m \in places : m \in 1..seen
          BY <2>3
        <4>2. n \in places /\ n \in 1..seen /\ latest(places) \in 1..seen
          BY <2>3, <3>2, <4>1
        <4>3. n <= latest(places) /\ latest(places) <= n
          BY <3>1, <3>2, <4>2
        <4>. QED  BY <2>2, <4>2, <4>3
      <3>. QED  BY <3>3
    <2>4. probe.result.usage = IF usages = {} THEN <<>> ELSE <<Tokens(protocol, sent[latest(usages)].usage)>>
      <3>1. CASE probe.result.usage = <<>> /\ \A m \in 1..seen : sent[m].at = "none"
        BY <3>1
      <3>2. CASE \E m \in 1..seen : /\ sent[m].at # "none"
                                    /\ probe.result.usage = <<Tokens(protocol, sent[m].usage)>>
                                    /\ \A j \in (m + 1)..seen : sent[j].at = "none"
        <4>1. PICK m \in 1..seen : /\ sent[m].at # "none"
                                   /\ probe.result.usage = <<Tokens(protocol, sent[m].usage)>>
                                   /\ \A j \in (m + 1)..seen : sent[j].at = "none"
          BY <3>2
        <4>2. m \in usages /\ usages \in SUBSET (1..seen) /\ \A j \in (m + 1)..seen : j \notin usages
          BY <4>1
        <4>. HIDE DEF usages
        <4>3. latest(usages) = m /\ usages # {}
          <5>. HIDE DEF latest
          <5>. QED  BY <2>3, <4>2
        <4>. HIDE DEF latest
        <4>. QED  BY <4>1, <4>3
      <3>. QED  BY <2>2, <3>1, <3>2 DEF ResultIs, UsageIs
    <2>5. probe.result.terminal = IF verdicts = {} THEN "pending"
                                  ELSE IF sent[latest(verdicts)].name \in Good THEN "completed" ELSE "failed"
      <3>1. \A m \in 1..seen : m \in verdicts <=> Judged(sent[m])
        BY DEF Judged
      <3>2. CASE probe.result.terminal = "pending" /\ \A m \in 1..seen : ~ Judged(sent[m])
        BY <3>1, <3>2
      <3>3. CASE \E m \in 1..seen : /\ Judged(sent[m]) /\ probe.result.terminal = Judgement(sent[m])
                                    /\ \A j \in (m + 1)..seen : ~ Judged(sent[j])
        <4>1. PICK m \in 1..seen : /\ Judged(sent[m]) /\ probe.result.terminal = Judgement(sent[m])
                                   /\ \A j \in (m + 1)..seen : ~ Judged(sent[j])
          BY <3>3
        <4>2. m \in verdicts /\ verdicts \in SUBSET (1..seen)
          BY <3>1, <4>1
        <4>3. \A j \in (m + 1)..seen : j \notin verdicts
          <5>1. \A j \in (m + 1)..seen : j \in 1..seen
            BY <2>2
          <5>. HIDE DEF verdicts
          <5>. QED  BY <3>1, <4>1, <5>1
        <4>. HIDE DEF verdicts
        <4>4. latest(verdicts) = m /\ verdicts # {}
          <5>. HIDE DEF latest
          <5>. QED  BY <2>3, <4>2, <4>3
        <4>. HIDE DEF latest
        <4>. QED  BY <4>1, <4>4 DEF Judgement
      <3>. QED  BY <2>2, <3>2, <3>3 DEF ResultIs, VerdictIs
    <2>6. probe.result.saw <=> \E n \in 1..seen : sent[n] # Note
      BY <2>2 DEF ResultIs
    <2>. QED  BY <2>4, <2>5, <2>6, Zenon DEF ProbeAgrees, Good
  <1>. QED  BY <1>1, RoundBegins, RoundHoldsOn, PTL DEF RoundSpec

\* What the desktop is told a round used is what the relay bills for it, a round
\* that failed for the desktop is free, and one that ended for it without a usage
\* costs at most one use unless the upstream's last word was response.done, whose
\* usage the relay alone takes (observe_responses, settlement_for, the reader's
\* response.completed and response.failed).
THEOREM BillsAgree == RoundSpec => []SameBill
  <1>1. RoundHolds => SameBill
    <2>. SUFFICES ASSUME RoundHolds, protocol = "responses", settled # Unsettled
                  PROVE  /\ turn.usage # <<>> => settled.uses = BilledUses(Billable(turn.usage[1]))
                         /\ turn.outcome = "error" /\ ~letGo => settled.uses = 0
                         /\ turn.outcome = "done" /\ turn.usage = <<>> =>
                               settled.uses <= 1 \/ \E n \in 1..heard : sent[n].name = "response.done"
      BY DEF SameBill
    <2>1. TurnAt(turn, heard) /\ settled = Settlement(probe.result)
      BY DEF RoundHolds, ClientHolds, SettledHolds
    <2>2. PICK x, y : StreamAt(x, y)
      BY DEF RoundHolds, StreamHolds
    <2>3. ResultIs(probe.result, seen) /\ seen \in 0..Len(sent) /\ heard \in Nat /\ heard <= seen /\ Len(sent) \in Nat
      BY <2>2, WiringIs DEF StreamAt, ProbeIsAt, Placed, RoundHolds
    <2>4. ASSUME NEW m \in 1..heard, Judged(sent[m])
          PROVE  m = seen /\ probe.result.terminal = Judgement(sent[m])
      <3>1. m \in 1..Len(sent) /\ m \in 1..seen
        BY <2>3
      <3>2. m = Len(sent)
        BY <2>4, <3>1 DEF RoundHolds, Lasts
      <3>3. m = seen
        BY <2>3, <3>1, <3>2
      <3>4. \A j \in 1..seen : Judged(sent[j]) => j = m
        BY <2>3, <3>2 DEF RoundHolds, Lasts
      <3>. QED  BY <2>3, <2>4, <3>1, <3>3, <3>4 DEF ResultIs, VerdictIs
    <2>5. ASSUME turn.usage # <<>> PROVE settled.uses = BilledUses(Billable(turn.usage[1]))
      <3>1. PICK m \in 1..heard : sent[m].name = "completed" /\ turn.usage = <<Tokens("responses", sent[m].usage)>>
        BY <2>1, <2>5 DEF TurnAt
      <3>2. m = seen /\ probe.result.terminal = "completed"
        BY <2>4, <3>1 DEF Judged, Judgement, Good, Bad
      <3>3. sent[m].at # "none" /\ m \in 1..seen
        <4>1. m \in 1..Len(sent) /\ m \in 1..seen
          BY <2>3
        <4>2. AnEvent(sent[m])
          BY <4>1 DEF RoundHolds, EventsHold
        <4>. QED  BY <3>1, <4>1, <4>2, ResponsesEvents
      <3>4. probe.result.usage = <<Tokens("responses", sent[m].usage)>>
        <4>1. PICK k \in 1..seen : /\ sent[k].at # "none" /\ probe.result.usage = <<Tokens(protocol, sent[k].usage)>>
                                   /\ \A j \in (k + 1)..seen : sent[j].at = "none"
          BY <2>3, <3>3 DEF ResultIs, UsageIs
        <4>2. k = m
          BY <2>3, <3>2, <3>3, <4>1
        <4>. QED  BY <4>1, <4>2
      <3>5. probe.result.usage = turn.usage /\ turn.usage # <<>> /\ probe.result.terminal # "failed"
        BY <3>1, <3>2, <3>4, <2>5
      <3>6. Settlement(probe.result) = [status |-> "ok", uses |-> BilledUses(Billable(turn.usage[1]))]
        <4>1. \A r : r.terminal # "failed" /\ r.usage # <<>> =>
                 Settlement(r) = [status |-> "ok", uses |-> BilledUses(Billable(r.usage[1]))]
          BY Zenon DEF Settlement
        <4>. QED  BY <3>5, <4>1
      <3>. QED  BY <2>1, <3>6
    <2>6. ASSUME turn.outcome = "error", ~ letGo PROVE settled.uses = 0
      <3>1. PICK m \in 1..heard : sent[m].name = "failed"
        BY <2>1, <2>6 DEF TurnAt
      <3>2. probe.result.terminal = "failed"
        BY <2>4, <3>1 DEF Judged, Judgement, Good, Bad
      <3>3. Settlement(probe.result) = [status |-> "upstream_error", uses |-> 0]
        BY <3>2, Zenon DEF Settlement
      <3>. QED  BY <2>1, <3>3
    <2>. QED  BY <2>1, <2>5, <2>6 DEF TurnAt, Cheap
  <1>. QED  BY <1>1, RoundBegins, RoundHoldsOn, PTL DEF RoundSpec
==============================================================================
