---------------------------- MODULE SessionMigration ----------------------------
(***************************************************************************)
(* The migration of session files at each start (file/migrate.rs, called   *)
(* by FileStorage::open): a file that holds several topics, each opened by *)
(* a boundary node, is split into sessions of their own.  A file whose     *)
(* split fails is skipped and stays beside what was made of it.  Between   *)
(* starts the kernel goes on creating, answering, editing and compacting   *)
(* sessions, whose files the next start looks at again.                    *)
(***************************************************************************)
EXTENDS Integers, Sequences, FiniteSets

CONSTANTS
    Files,     \* names of session files, each used once
    Legacy,    \* contents an old version may have left in a file
    KeepLast,  \* compaction_keep_last
    MaxId,     \* bound: messages
    MaxStarts  \* bound: starts, after a crash or not

ASSUME BoundAssumption == KeepLast \in Nat \ {0} /\ MaxId \in Nat /\ MaxStarts \in Nat

VARIABLES
    sessions, \* status, active path and messages of each session file
    bak,     \* what has been put aside, by name
    start,   \* the start in progress: the files left to look at, the one being split
    made,    \* files a migration wrote and the kernel has not touched since
    nextId,  \* MessageId::new
    starts,  \* starts so far
    cuts     \* splits that were cut short, by a crash or a failing call

migrationVars == <<sessions, bak, start, made, nextId, starts, cuts>>

None == 0
Message == [id : Nat, parent : Nat, kind : {"user", "assistant", "boundary", "system"}]
Content == [st : {"absent", "active", "archived"}, path : Nat, msgs : Seq(Message)]
Absent == [st |-> "absent", path |-> None, msgs |-> <<>>]
NoSplit == [of |-> "none", segments |-> <<>>]
Running == [up |-> TRUE, todo |-> {}, split |-> NoSplit]

Present(f) == sessions[f].st # "absent"
Fresh(f) == ~Present(f) /\ bak[f] = Absent
IdsOf(s) == {s[i].id : i \in DOMAIN s}
IndexOf(s, id) == CHOOSE i \in DOMAIN s : s[i].id = id
LastId(s) == IF s = <<>> THEN None ELSE s[Len(s)].id
Chain(s, end) ==
    IF end \notin IdsOf(s) THEN s
    ELSE LET up[n \in 0..Len(s)] ==
                 IF n = 0 THEN <<s[IndexOf(s, end)]>>
                 ELSE LET p == Head(up[n - 1]).parent
                      IN  IF p \in IdsOf(s) THEN <<s[IndexOf(s, p)]>> \o up[n - 1] ELSE up[n - 1]
         IN  up[Len(s)]

\* A file holds trees: its ids are its own, and who follows the parents comes
\* to an end.
Above(s, rank) == \A i \in DOMAIN s : s[i].parent \in IdsOf(s) => rank[s[i].parent] < rank[s[i].id]
Trees(s) ==
    /\ \A i, j \in DOMAIN s : s[i].id = s[j].id => i = j
    /\ \A i \in DOMAIN s : s[i].parent \in IdsOf(s) \cup {None}
    /\ None \notin IdsOf(s)
    /\ \E rank \in [IdsOf(s) -> 0..Len(s)] : Above(s, rank)
ASSUME FileAssumption == "none" \notin Files
ASSUME LegacyAssumption ==
    \A was \in Legacy : /\ was \in Content /\ was.st # "absent" /\ Trees(was.msgs)
                        /\ IdsOf(was.msgs) = 1..Len(was.msgs)

------------------------------------------------------------------------------
(* split_segments and build_segment *)

IsBoundary(m) == m.kind = "boundary"
\* The members of s at these places, in their order.
Picked(s, at) ==
    LET taken[n \in 0..Len(s)] ==
            IF n = 0 THEN <<>> ELSE IF n \in at THEN Append(taken[n - 1], s[n]) ELSE taken[n - 1]
    IN  taken[Len(s)]
\* The boundaries in the order of the file; the n-th opens segment n.
Boundaries(s) == Picked(s, {i \in DOMAIN s : IsBoundary(s[i])})
\* Where the way up from a message ends: at a boundary or at a root.
Top(s, i) ==
    LET up[n \in 0..Len(s)] ==   \* n steps up
            IF n = 0 THEN s[i].id
            ELSE LET m == s[IndexOf(s, up[n - 1])]
                 IN  IF IsBoundary(m) \/ m.parent \notin IdsOf(s) THEN m.id ELSE m.parent
    IN  s[IndexOf(s, up[Len(s)])]
Segment(s, i) == IF IsBoundary(Top(s, i)) THEN IndexOf(Boundaries(s), Top(s, i).id) ELSE 0
Group(s, n) == Picked(s, {i \in DOMAIN s : Segment(s, i) = n})
Groups(s) == [n \in 1..Len(Boundaries(s)) + 1 |-> Group(s, n - 1)]
NonEmptyGroups(s) == Picked(Groups(s), {n \in DOMAIN Groups(s) : Groups(s)[n] # <<>>})
\* Not groups.len(): the first topic may itself begin with a boundary.
GroupCount(s) == Len(Groups(s))
Topics(s) == Len(NonEmptyGroups(s))

Detached(s) ==
    [i \in DOMAIN s |-> IF s[i].parent \in IdsOf(s) THEN s[i] ELSE [s[i] EXCEPT !.parent = None]]
SegmentStatus(was, s) == IF was.path \in IdsOf(s) THEN was.st ELSE "archived"
BuildSegment(was, s) ==
    [st |-> SegmentStatus(was, s), msgs |-> Detached(s),
     path |-> IF was.path \in IdsOf(s) THEN was.path ELSE None]

------------------------------------------------------------------------------
(* A start *)

CutShort == cuts' = IF start.split = NoSplit THEN cuts ELSE cuts + 1

StartOver ==
    /\ starts < MaxStarts
    /\ start' = [up |-> FALSE, todo |-> {f \in Files : Present(f)}, split |-> NoSplit]
    /\ starts' = starts + 1
    /\ CutShort
    /\ UNCHANGED <<sessions, bak, made, nextId>>

LookAt(f) ==
    /\ f \in start.todo /\ start.split = NoSplit
    /\ start' = IF Topics(sessions[f].msgs) <= 1
                  THEN [start EXCEPT !.todo = @ \ {f}]
                  ELSE [start EXCEPT !.split = [of |-> f,
                           segments |-> NonEmptyGroups(sessions[f].msgs)]]
    /\ UNCHANGED <<sessions, bak, made, nextId, starts, cuts>>

\* Each segment goes to a new key, written whole.
WriteSegment(f) ==
    /\ start.split # NoSplit /\ start.split.segments # <<>> /\ Fresh(f)
    /\ sessions' = [sessions EXCEPT ![f] =
                    BuildSegment(sessions[start.split.of], Head(start.split.segments))]
    /\ start' = [start EXCEPT !.split.segments = Tail(@)]
    /\ made' = made \cup {f}
    /\ UNCHANGED <<bak, nextId, starts, cuts>>

\* Only then is the old file put aside.
BackUpEarly ==
    /\ start.split # NoSplit
    /\ LET f == start.split.of IN
       /\ sessions' = [sessions EXCEPT ![f] = Absent]
       /\ bak' = [bak EXCEPT ![f] = sessions[f]]
       /\ start' = [start EXCEPT !.todo = @ \ {f}, !.split = NoSplit]
    /\ UNCHANGED <<made, nextId, starts, cuts>>
BackUp ==
    /\ start.split # NoSplit /\ start.split.segments = <<>>
    /\ LET f == start.split.of IN
       /\ sessions' = [sessions EXCEPT ![f] = Absent]
       /\ bak' = [bak EXCEPT ![f] = sessions[f]]
       /\ start' = [start EXCEPT !.todo = @ \ {f}, !.split = NoSplit]
    /\ UNCHANGED <<made, nextId, starts, cuts>>

\* A file that cannot be read, a segment that cannot be written, a backup that
\* cannot be made: the file stays, and so do the segments it already has.
Skip(f) ==
    /\ f \in start.todo /\ (start.split # NoSplit => start.split.of = f)
    /\ start' = [start EXCEPT !.todo = @ \ {f}, !.split = NoSplit]
    /\ CutShort
    /\ UNCHANGED <<sessions, bak, made, nextId, starts>>

Loaded ==
    /\ ~start.up /\ start.todo = {}
    /\ start' = Running
    /\ UNCHANGED <<sessions, bak, made, nextId, starts, cuts>>

------------------------------------------------------------------------------
(* The kernel between starts *)

Archived == [f \in Files |-> IF sessions[f].st = "active" THEN [sessions[f] EXCEPT !.st = "archived"]
                                                        ELSE sessions[f]]
Msg(parent, kind) == [id |-> nextId, parent |-> parent, kind |-> kind]
Touched(f) == made' = made \ {f}
NewMessage == nextId <= MaxId /\ nextId' = nextId + 1

\* create_new_session, with the summary of the old one or without.
Create(f, carry) ==
    /\ start.up /\ Fresh(f)
    /\ IF carry
         THEN /\ \E a \in Files : sessions[a].st = "active" /\ sessions[a].msgs # <<>>
              /\ NewMessage
              /\ sessions' = [Archived EXCEPT ![f] = [st |-> "active", path |-> nextId,
                                                   msgs |-> <<Msg(None, "boundary")>>]]
         ELSE /\ sessions' = [Archived EXCEPT ![f] = [Absent EXCEPT !.st = "active"]]
              /\ UNCHANGED nextId
    /\ UNCHANGED <<bak, start, made, starts, cuts>>

\* append_user and the messages of a turn go to the end of the path.
Say(f, kind) ==
    /\ start.up /\ sessions[f].st = "active" /\ NewMessage
    /\ sessions' = [sessions EXCEPT
         ![f].msgs = Append(@, Msg(LastId(Chain(@, sessions[f].path)), kind)),
         ![f].path = nextId]
    /\ Touched(f)
    /\ UNCHANGED <<bak, start, starts, cuts>>

\* derive_branch: a new user message beside the one that is edited.
Edit(f) ==
    /\ start.up /\ sessions[f].st = "active" /\ NewMessage
    /\ LET path == Chain(sessions[f].msgs, sessions[f].path) IN
       \E i \in DOMAIN path :
         /\ path[i].kind = "user"
         /\ sessions' = [sessions EXCEPT ![f].msgs = Append(@, Msg(path[i].parent, "user")),
                                   ![f].path = nextId]
    /\ Touched(f)
    /\ UNCHANGED <<bak, start, starts, cuts>>

\* splice_compaction: the summary has no parent, the kept end hangs under it.
Compact(f) ==
    /\ start.up /\ sessions[f].st = "active" /\ NewMessage
    /\ LET path == Chain(sessions[f].msgs, sessions[f].path)
           first == path[Len(path) - KeepLast + 1].id
           s == sessions[f].msgs
       IN  /\ Len(path) > KeepLast
           /\ sessions' = [sessions EXCEPT ![f].msgs =
                Append([i \in DOMAIN s |-> IF s[i].id = first THEN [s[i] EXCEPT !.parent = nextId]
                                           ELSE s[i]], Msg(None, "system"))]
    /\ Touched(f)
    /\ UNCHANGED <<bak, start, starts, cuts>>

------------------------------------------------------------------------------
MigrationInit ==
    /\ \E f \in Files, was \in Legacy \cup {Absent} :
         /\ sessions = [g \in Files |-> IF g = f THEN was ELSE Absent]
         /\ nextId = Len(was.msgs) + 1
    /\ bak = [f \in Files |-> Absent]
    /\ start = Running /\ made = {} /\ starts = 0 /\ cuts = 0

MigrationNext ==
    \/ StartOver \/ BackUp \/ Loaded
    \/ \E f \in Files : LookAt(f) \/ WriteSegment(f) \/ Skip(f)
    \/ \E f \in Files :
         \/ \E carry \in BOOLEAN : Create(f, carry)
         \/ \E kind \in {"user", "assistant"} : Say(f, kind)
         \/ Edit(f) \/ Compact(f)

MigrationSpec == MigrationInit /\ [][MigrationNext]_migrationVars

------------------------------------------------------------------------------
(* Properties *)

\* A topic is a boundary and everything below it: a message that opens no topic
\* is in the topic of its parent, and one that has no parent is in the head
\* (split_segments walks up, and stops at the nearest boundary).
TopicsFollowParents ==
    \A f \in start.todo :
      LET s == sessions[f].msgs IN
      \A i \in DOMAIN s : ~IsBoundary(s[i]) =>
        Segment(s, i) = IF s[i].parent \in IdsOf(s)
                          THEN Segment(s, IndexOf(s, s[i].parent)) ELSE 0

\* However often a split is cut short, by a crash or a failing call, each
\* message is in some session (migrate_file puts the old file aside only behind
\* its last segment); each time leaves one copy more of a message at most.
Copies(id) == {f \in Files : id \in IdsOf(sessions[f].msgs)}
NothingLost ==
    \A id \in 1..(nextId - 1) :
      /\ Copies(id) # {}
      /\ start.split = NoSplit => Cardinality(Copies(id)) <= cuts + 1

\* A session is self-contained: no message has its parent in another file
\* (build_segment drops a parent from outside).
LinksStayInside ==
    \A f \in Files : \A i \in DOMAIN sessions[f].msgs :
      sessions[f].msgs[i].parent \in IdsOf(sessions[f].msgs) \cup {None}

\* migrate.rs:136 "no new Active": the segment with the old path alone inherits
\* the old status.  Only a split that was cut short leaves that segment beside
\* the old file, and both are active.
NoNewActive ==
    start.split = NoSplit => Cardinality({f \in Files : sessions[f].st = "active"}) <= cuts + 1

\* migrate.rs:9: what a migration wrote is never split again.
SplitOnce == start.split # NoSplit => start.split.of \notin made

\* A split, repeated and cut short however often, moves whole topics: nothing
\* is lost, cut off from its parent's file or made active by it.
SplitIsSound == TopicsFollowParents /\ NothingLost /\ LinksStayInside /\ NoNewActive
=============================================================================
