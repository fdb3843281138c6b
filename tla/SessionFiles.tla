------------------------------ MODULE SessionFiles ------------------------------
(***************************************************************************)
(* The files of the file storage (kernel/plugin/storage/file): one         *)
(* <key>.jsonl per session, a line of metadata and a line per message, and *)
(* the book of mistakes.  The request loop, the task of the turn, a title  *)
(* task and a tool called from a page use them at the same time.           *)
(*                                                                         *)
(* An operation changes the memory under the lock.  Then, without it, it   *)
(* appends a line, or writes a snapshot to a temporary file and renames    *)
(* that over the file, or unlinks the file.  Each system call is a step.   *)
(* The temporary file of a name is one for all writers, so a writer may    *)
(* find its open file renamed or unlinked by another: hold says where the  *)
(* file it has open is now.  The program may die between any two steps;    *)
(* what the operating system has taken is on the disk (a loss of power     *)
(* before that is not modelled: nothing here is fsynced).                  *)
(***************************************************************************)
EXTENDS Naturals, Sequences, FiniteSets, SequencesExt

CONSTANTS
    Keys,       \* session keys, each made once
    Book,       \* mistakes.json
    Programs,   \* what a turn may do to the store, see TurnProgram
    Tools,      \* {"tool"}, or {} when no page calls a tool
    MaxChange,  \* bound: operations
    MaxFaults,  \* bound: system calls that fail
    MaxCrashes  \* bound: restarts

\* A key is a uuid.
ASSUME KeysAssumption == Book \notin Keys /\ IsFiniteSet(Keys)
ASSUME ProgramsAssumption == Programs \subseteq Seq({"save", "say", "branch", "touch"})
ASSUME ToolsAssumption == Tools \subseteq {"tool"}
ASSUME BoundAssumption == MaxChange \in Nat /\ MaxFaults \in Nat /\ MaxCrashes \in Nat

Names == Keys \cup {Book}
Actors == {"loop", "turn", "title"} \cup Tools

VARIABLES
    mem,     \* Inner.sessions, Inner.messages and Inner.mistakes by name
    file,    \* the file of each name
    tmp,     \* the temporary file of each name
    task,    \* per actor: the operations left, the step of the first, its locals
    born,    \* keys that have been used
    change,  \* operations so far, the version of what they write
    doubt,   \* an operation overlapped another on the same name, or failed
    strayed, \* names ever in doubt
    faults,  \* system calls that failed
    crashes, \* restarts
    backend  \* AnyStorage: "file", or "memory" when the files cannot be loaded

vars == <<mem, file, tmp, task, born, change, doubt, strayed, faults, crashes, backend>>
disk == <<file, tmp>>
counts == <<born, faults, crashes, backend>>

\* st: the status in the metadata line, "book" for the book; "empty" for a file
\* without that line.  torn: the end is a piece of a line, or stale bytes.
File(st, rev, msgs) == [st |-> st, rev |-> rev, msgs |-> msgs, torn |-> FALSE]
Absent == File("absent", 0, <<>>)
Empty == File("empty", 0, <<>>)
NoBook == File("book", 0, <<>>)

Op(op, n) == [op |-> op, name |-> n]
NoTask == [todo |-> <<>>, st |-> "ready", snap |-> Absent, hold |-> "none", alone |-> TRUE]

\* What FileStorage::open makes of a file: lines that do not parse are skipped.
Loadable(f) == f # Empty /\ ~f.torn
Loaded(n) ==
    IF n = Book THEN IF file[n] = Absent THEN NoBook ELSE file[n]
    ELSE IF file[n].st = "empty" THEN Absent ELSE [file[n] EXCEPT !.torn = FALSE]

IsLive(n) == mem[n].st \notin {"absent"}
Actives == {k \in Keys : mem[k].st = "active"}
Idle == task["loop"].todo = <<>>
NoTurn == task["turn"].todo = <<>>
Busy(a) == task[a].st # "ready"
BusyOn(n) == {a \in Actors : Busy(a) /\ Head(task[a].todo).name = n}

------------------------------------------------------------------------------
(* What the handlers do to the store, one operation after the other. *)

\* In the order of a hash map: any.
EachOf(op, S) == {[i \in DOMAIN s |-> Op(op, s[i])] : s \in SetToSeqs(S)}
ArchiveAll == EachOf("archive", Actives)

Run(a, program) == task' = [task EXCEPT ![a].todo = program]
Plan(program) == Run("loop", program) /\ UNCHANGED <<mem, disk, change, doubt, strayed, counts>>

\* continue_in writes the whole file (the activity) before append_user appends.
SendAppending(k) == <<Op("say", k), Op("touch", k), Op("turn", k)>>
SendProgram(k) == <<Op("touch", k), Op("say", k), Op("touch", k), Op("turn", k)>>
FirstSend(k) == <<Op("create", k), Op("say", k), Op("touch", k), Op("turn", k)>>

Send(k) ==
    /\ Idle /\ NoTurn
    /\ \/ k \in Actives /\ Plan(SendProgram(k))
       \/ Actives = {} /\ k \notin born /\ Plan(FirstSend(k))

CreateProgram(k, carry) ==
    {archive \o <<Op("create", k)>> \o (IF carry THEN <<Op("say", k), Op("touch", k)>> ELSE <<>>) :
        archive \in ArchiveAll}
Create(k, carry) ==
    /\ Idle /\ NoTurn /\ k \notin born
    /\ carry => \E a \in Actives : mem[a].msgs # <<>>
    /\ \E program \in CreateProgram(k, carry) : Plan(program)

ActivateFirst(k) == {<<Op("activate", k)>> \o archive : archive \in EachOf("archive", Actives \ {k})}
OpenProgram(k) == {archive \o <<Op("activate", k)>> : archive \in ArchiveAll}
Open(k) == Idle /\ NoTurn /\ IsLive(k) /\ \E program \in OpenProgram(k) : Plan(program)

Rename(k) == Idle /\ IsLive(k) /\ Plan(<<Op("touch", k)>>)
Switch(k) == Idle /\ k \in Actives /\ mem[k].msgs # <<>> /\ Plan(<<Op("touch", k)>>)
Edit(k) == Idle /\ k \in Actives /\ mem[k].msgs # <<>> /\ Plan(<<Op("branch", k), Op("turn", k)>>)

\* Deleting the active session makes an empty one in its place.
Delete(k, new) ==
    /\ Idle /\ NoTurn /\ IsLive(k)
    /\ new \notin born
    /\ Plan(<<Op("remove", k)>> \o (IF k \in Actives THEN <<Op("create", new)>> ELSE <<>>))

\* The turn saves mistakes, appends its messages, splices in a summary, and
\* moves the path; then it wakes the title task.
TurnProgram(k, p) ==
    [i \in DOMAIN p |-> Op(p[i], IF p[i] = "save" THEN Book ELSE k)] \o <<Op("title", k)>>

StartTurn ==
    /\ task["loop"].todo # <<>> /\ Head(task["loop"].todo).op = "turn"
    /\ LET k == Head(task["loop"].todo).name IN
       IF NoTurn
         THEN \E p \in Programs :
                task' = [task EXCEPT !["loop"].todo = <<>>, !["turn"].todo = TurnProgram(k, p)]
         ELSE Run("loop", <<>>)
    /\ UNCHANGED <<mem, disk, change, doubt, strayed, counts>>

\* maybe_generate_title finds a title to write, or none.
StartTitle ==
    /\ task["turn"].todo # <<>> /\ Head(task["turn"].todo).op = "title"
    /\ LET k == Head(task["turn"].todo).name IN
       \/ task["title"].todo = <<>>
          /\ task' = [task EXCEPT !["turn"].todo = <<>>, !["title"].todo = <<Op("touch", k)>>]
       \/ Run("turn", <<>>)
    /\ UNCHANGED <<mem, disk, change, doubt, strayed, counts>>

\* A page saves, updates or removes mistakes.
SaveMistakes(a) ==
    /\ a \in Tools /\ task[a].todo = <<>>
    /\ Run(a, <<Op("save", Book)>>)
    /\ UNCHANGED <<mem, disk, change, doubt, strayed, counts>>

------------------------------------------------------------------------------
(* One operation *)

\* create_session refuses a key in use; all others refuse one that is not.
Applies(o) == (o.op = "create") = ~IsLive(o.name)
Changed(o, f, v) ==
    CASE o.op = "create" -> File("active", v, <<>>)
      [] o.op = "remove" -> Absent
      [] o.op = "archive" -> [f EXCEPT !.st = "archived", !.rev = v]
      [] o.op = "activate" -> [f EXCEPT !.st = "active", !.rev = v]
      [] o.op = "say" -> [f EXCEPT !.msgs = Append(f.msgs, v)]
      [] o.op = "branch" -> [f EXCEPT !.msgs = Append(f.msgs, v), !.rev = v]
      [] o.op \in {"touch", "save"} -> [f EXCEPT !.rev = v]
FirstStep(o) ==
    CASE o.op = "say" -> "openlog" [] o.op = "remove" -> "unlink" [] OTHER -> "snap"

Doubt(n) == doubt' = [doubt EXCEPT ![n] = TRUE] /\ strayed' = strayed \cup {n}

\* Under the lock: the memory changes, or the operation is refused and its
\* handler gives up.
Change(a) ==
    /\ task[a].todo # <<>> /\ ~Busy(a) /\ change < MaxChange
    /\ LET o == Head(task[a].todo) IN
       /\ o.op \notin {"turn", "title"}
       /\ \/ /\ Applies(o)
             /\ mem' = [mem EXCEPT ![o.name] = Changed(o, mem[o.name], change + 1)]
             /\ task' = [b \in Actors |->
                           IF b = a THEN [task[a] EXCEPT !.st = FirstStep(o),
                                              !.snap = [Absent EXCEPT !.rev = change + 1],
                                              !.alone = BusyOn(o.name) = {}]
                           ELSE IF b \in BusyOn(o.name) THEN [task[b] EXCEPT !.alone = FALSE]
                           ELSE task[b]]
             /\ IF BusyOn(o.name) # {} THEN Doubt(o.name) ELSE UNCHANGED <<doubt, strayed>>
             /\ born' = born \cup (IF o.op = "create" THEN {o.name} ELSE {})
             /\ change' = change + 1
          \/ ~Applies(o) /\ Run(a, <<>>) /\ UNCHANGED <<mem, doubt, strayed, born, change>>
    /\ UNCHANGED <<disk, faults, crashes, backend>>

At(a, st, n) == Busy(a) /\ task[a].st = st /\ Head(task[a].todo).name = n
Goes(a, st) == task' = [task EXCEPT ![a].st = st]
\* The operation is over and the handler goes on to its next.
Finished(a) == [NoTask EXCEPT !.todo = Tail(task[a].todo)]
Done(a) == task' = [task EXCEPT ![a] = Finished(a)]
\* It failed and the handler gives up.  But the turn goes on behind a mistake
\* that was not saved; and when a message could not be appended, it appends no
\* other, splices in its summary, if it has one and the first message to keep
\* is there, moves the path and wakes the title task.
Left(a) ==
    LET o == Head(task[a].todo)
        rest == Tail(task[a].todo)
        ends == <<Op("touch", o.name), Op("title", o.name)>>
    IN  CASE a # "turn" -> {<<>>}
          [] a = "turn" /\ o.op # "say" -> {rest}
          [] a = "turn" /\ o.op = "say" ->
               IF Op("branch", o.name) \in Range(rest)
               THEN {ends, <<Op("branch", o.name)>> \o ends} ELSE {Tail(ends)}
GivesUp(a) == \E left \in Left(a) : task' = [task EXCEPT ![a] = [NoTask EXCEPT !.todo = left]]
\* The file that others have open is no longer where it was.
Moved(from, to, n, t) ==
    [b \in Actors |-> IF b \in BusyOn(n) /\ t[b].hold = from THEN [t[b] EXCEPT !.hold = to] ELSE t[b]]

Snapshot(a, n) ==
    /\ At(a, "snap", n)
    /\ IF IsLive(n) THEN task' = [task EXCEPT ![a].st = "opentmp", ![a].snap = mem[n]]
                    ELSE GivesUp(a)
    /\ UNCHANGED <<mem, disk, change, doubt, strayed, counts>>

\* fs::write opens the temporary file and truncates it, whoever made it ...
OpenInPlace(a, n) ==
    /\ At(a, "opentmp", n)
    /\ file' = [file EXCEPT ![n] = Empty] /\ tmp' = [tmp EXCEPT ![n] = Empty]
    /\ task' = [task EXCEPT ![a].st = "writetmp", ![a].hold = "tmp"]
    /\ UNCHANGED <<mem, change, doubt, strayed, counts>>
OpenTmp(a, n) ==
    /\ At(a, "opentmp", n)
    /\ tmp' = [tmp EXCEPT ![n] = Empty]
    /\ task' = [task EXCEPT ![a].st = "writetmp", ![a].hold = "tmp"]
    /\ UNCHANGED <<mem, file, change, doubt, strayed, counts>>

\* ... and writes from its start, over what another may have written.
WriteTmp(a, n) ==
    /\ At(a, "writetmp", n)
    /\ LET over(f, left) == [task[a].snap EXCEPT !.torn = left /\ f # Empty] IN
       \E left \in BOOLEAN :   \* bytes of a longer one are left behind it
         /\ tmp' = IF task[a].hold = "tmp" THEN [tmp EXCEPT ![n] = over(tmp[n], left)] ELSE tmp
         /\ file' = IF task[a].hold = "file" THEN [file EXCEPT ![n] = over(file[n], left)] ELSE file
    /\ Goes(a, "rename")
    /\ UNCHANGED <<mem, change, doubt, strayed, counts>>

\* A write of the whole file that nothing overlapped makes the disk right again.
RenameTmp(a, n) ==
    /\ At(a, "rename", n) /\ tmp[n] # Absent
    /\ file' = [file EXCEPT ![n] = tmp[n]]
    /\ tmp' = [tmp EXCEPT ![n] = Absent]
    /\ task' = [Moved("tmp", "file", n, Moved("file", "none", n, task)) EXCEPT ![a] = Finished(a)]
    /\ doubt' = [doubt EXCEPT ![n] = doubt[n] /\ ~task[a].alone]
    /\ UNCHANGED <<mem, change, strayed, counts>>

\* Another writer has renamed the temporary file already.
RenameFails(a, n) ==
    /\ At(a, "rename", n) /\ tmp[n] = Absent
    /\ GivesUp(a)
    /\ UNCHANGED <<mem, disk, change, doubt, strayed, counts>>

\* append_line: open or create, then write one line.
OpenLog(a, n) ==
    /\ At(a, "openlog", n)
    /\ file' = [file EXCEPT ![n] = IF @ = Absent THEN Empty ELSE @]
    /\ task' = [task EXCEPT ![a].st = "writelog", ![a].hold = "file"]
    /\ UNCHANGED <<mem, tmp, change, doubt, strayed, counts>>

\* A line behind a piece of a line is lost with it.
Extended(f, v) == IF f.torn THEN [f EXCEPT !.torn = FALSE] ELSE [f EXCEPT !.msgs = Append(f.msgs, v)]
WriteLog(a, n) ==
    /\ At(a, "writelog", n)
    /\ file' = IF task[a].hold = "file" THEN [file EXCEPT ![n] = Extended(file[n], task[a].snap.rev)] ELSE file
    /\ Done(a)
    /\ UNCHANGED <<mem, tmp, change, doubt, strayed, counts>>

Unlink(a, n) ==
    /\ At(a, "unlink", n)
    /\ file' = [file EXCEPT ![n] = Absent]
    /\ task' = [Moved("file", "none", n, task) EXCEPT ![a] = Finished(a)]
    /\ UNCHANGED <<mem, tmp, change, doubt, strayed, counts>>

\* A system call fails; a write that fails may have written a piece.
Fault(a, n) ==
    /\ Busy(a) /\ Head(task[a].todo).name = n /\ task[a].st # "snap" /\ faults < MaxFaults
    /\ \E piece \in BOOLEAN :
         /\ piece => task[a].st = "writelog" /\ task[a].hold = "file" /\ file[n] # Empty
         /\ file' = [file EXCEPT ![n].torn = file[n].torn \/ piece]
    /\ GivesUp(a)
    /\ Doubt(n)
    /\ faults' = faults + 1
    /\ UNCHANGED <<mem, tmp, change, born, crashes, backend>>

\* The program dies, perhaps in the middle of an append, and starts again.
\* A book that does not parse makes it use no file at all.
Crash ==
    /\ crashes < MaxCrashes
    /\ \E cut \in SUBSET {n \in Names : \E a \in Actors :
                            At(a, "writelog", n) /\ task[a].hold = "file" /\ file[n] # Empty} :
         file' = [n \in Names |-> [file[n] EXCEPT !.torn = @ \/ n \in cut]]
    /\ IF Loadable(file'[Book])
         THEN /\ mem' = [n \in Names |-> Loaded(n)']
              /\ task' = [a \in Actors |-> NoTask]
              /\ doubt' = [n \in Names |-> FALSE]
              /\ UNCHANGED backend
         ELSE backend' = "memory" /\ UNCHANGED <<mem, task, doubt>>
    /\ crashes' = crashes + 1
    /\ UNCHANGED <<tmp, born, change, strayed, faults>>

------------------------------------------------------------------------------
Init ==
    /\ mem = [n \in Names |-> IF n = Book THEN NoBook ELSE Absent]
    /\ file = [n \in Names |-> Absent] /\ tmp = [n \in Names |-> Absent]
    /\ task = [a \in Actors |-> NoTask]
    /\ born = {} /\ change = 0
    /\ doubt = [n \in Names |-> FALSE] /\ strayed = {}
    /\ faults = 0 /\ crashes = 0 /\ backend = "file"

Requests(k) ==
    \/ Send(k) \/ \E carry \in BOOLEAN : Create(k, carry)
    \/ Open(k) \/ Rename(k) \/ Switch(k) \/ Edit(k) \/ \E new \in Keys : Delete(k, new)
Steps(a) ==
    \/ SaveMistakes(a) \/ Change(a)
    \/ \E n \in Names :
         \/ Snapshot(a, n) \/ OpenTmp(a, n) \/ WriteTmp(a, n) \/ RenameTmp(a, n)
         \/ RenameFails(a, n) \/ OpenLog(a, n) \/ WriteLog(a, n) \/ Unlink(a, n)
         \/ Fault(a, n)
Next ==
    /\ backend = "file"
    /\ \/ \E k \in Keys : Requests(k)
       \/ StartTurn \/ StartTitle
       \/ \E a \in Actors : Steps(a)
       \/ Crash

Spec == Init /\ [][Next]_vars

------------------------------------------------------------------------------
(* Properties *)

\* Each file, seen through what a restart would load, keeps the promise of
\* SessionLog: quiet operations reach the disk all at once and in order, what
\* is not in doubt survives a crash at any step, and a whole write that nothing
\* overlaps heals the file (persist_session_meta, append_message, continue_in).
Durable == [n \in Names |-> Loaded(n)]
InProgress == [n \in Names |-> BusyOn(n) # {}]
Log == INSTANCE SessionLog WITH
    live <- mem, durable <- Durable, fails <- faults, busy <- InProgress
KeepsTheLog == Log!Spec

\* archive_all_active comes before create_session and activate: wherever the
\* program dies, the files hold one active session at most, as long as no write
\* failed and no two operations overlapped.
OneActiveOnDisk ==
    strayed \cap Keys = {} => Cardinality({k \in Keys : Loaded(k).st = "active"}) <= 1

\* atomic_write_str: unless two saves of the book overlapped, it parses at
\* every moment, so that a restart does not fall back to an empty memory.
BookLoads == Book \notin strayed => Loadable(file[Book])

=============================================================================
