--------------------------- MODULE SessionFilesProofs ---------------------------
(***************************************************************************)
(* The files of the storage keep the promise of SessionLog, hold one       *)
(* active session at most, and a book that parses, for any number of       *)
(* sessions, operations, turns, failing calls and crashes.                 *)
(***************************************************************************)
EXTENDS SessionFiles, SequenceTheorems, FiniteSetTheorems, TLAPS

------------------------------------------------------------------------------
(* The values of the variables *)

\* Who but the loop leaves the status of a session alone.
QuietKinds == {"save", "say", "branch", "touch", "turn", "title"}
Kinds == QuietKinds \cup {"create", "remove", "archive", "activate"}
Whole == {"create", "archive", "activate", "branch", "touch", "save"}
WholeStages == {"snap", "opentmp", "writetmp", "rename"}
LogStages == {"openlog", "writelog"}
Stages == {"ready", "unlink"} \cup WholeStages \cup LogStages

OpsOf(a) ==
    {o \in [op : Kinds, name : Names] :
        (o.op = "save" <=> o.name = Book) /\ (a # "loop" => o.op \in QuietKinds)}

LiveStatuses(n) == IF n = Book THEN {"book"} ELSE {"active", "archived"}
Files == [st : {"absent", "empty", "active", "archived", "book"}, rev : Nat, msgs : Seq(Nat), torn : BOOLEAN]
LiveFiles(n) == {f \in Files : f.st \in LiveStatuses(n)}
\* What the memory may hold of a name, and what its file and its temporary file.
Stored(n) == {f \in LiveFiles(n) : ~f.torn}
MemOf(n) == Stored(n) \cup (IF n = Book THEN {} ELSE {f \in Files : f.st = "absent" /\ ~f.torn})
TmpOf(n) == {Absent, Empty} \cup LiveFiles(n)
FileOf(n) == TmpOf(n) \cup (IF n = Book THEN {} ELSE {f \in Files : f.st \in {"absent", "empty"}})

\* The step an operation is at is one of its kind, and what it is going to
\* write is something the memory has held.
TaskOf(a) ==
    {t \in [todo : Seq(OpsOf(a)), st : Stages, snap : Files, hold : {"none", "tmp", "file"}, alone : BOOLEAN] :
        t.st # "ready" =>
          /\ t.todo # <<>>
          /\ t.st \in WholeStages => Head(t.todo).op \in Whole
          /\ t.st \in LogStages => Head(t.todo).op = "say"
          /\ t.st = "unlink" => Head(t.todo).op = "remove"
          /\ t.st \in {"opentmp", "writetmp"} => t.snap \in Stored(Head(t.todo).name)}

Types ==
    /\ DOMAIN mem = Names /\ \A n \in Names : mem[n] \in MemOf(n)
    /\ DOMAIN file = Names /\ \A n \in Names : file[n] \in FileOf(n)
    /\ DOMAIN tmp = Names /\ \A n \in Names : tmp[n] \in TmpOf(n)
    /\ DOMAIN task = Actors /\ \A a \in Actors : task[a] \in TaskOf(a)
    /\ doubt \in [Names -> BOOLEAN]
    /\ change \in Nat /\ faults \in Nat
    /\ strayed \subseteq Names

------------------------------------------------------------------------------
(* A name and who is busy on it *)

\* What an operation that nothing overlaps finds at its steps.
AloneAt(a, n) ==
    /\ BusyOn(n) = {a}
    /\ task[a].st \in WholeStages => IsLive(n)
    /\ task[a].st \in {"opentmp", "writetmp"} => task[a].snap = mem[n]
    /\ task[a].st = "writetmp" => task[a].hold = "tmp" /\ tmp[n] = Empty
    /\ task[a].st = "rename" => tmp[n] = mem[n]
    /\ task[a].st = "writelog" => task[a].hold = "file"
    /\ task[a].st = "unlink" => mem[n] = Absent
    /\ Head(task[a].todo).op = "archive" => mem[n].st = "archived"

\* An append that is going to reach a file without a torn end.
Saying(a, n) ==
    /\ ~file[n].torn
    /\ Loaded(n).st # "absent"
    /\ mem[n] = [Loaded(n) EXCEPT !.msgs = Append(Loaded(n).msgs, task[a].snap.rev)]

NameInv(n) ==
    /\ doubt[n] => n \in strayed
    /\ \A a \in BusyOn(n) : task[a].alone => AloneAt(a, n)
    /\ n = Book /\ n \notin strayed => Loadable(file[n])
    /\ ~doubt[n] =>
          /\ BusyOn(n) = {} => Loaded(n) = mem[n]
          /\ \A a \in BusyOn(n) : /\ task[a].alone
                                  /\ task[a].st \in LogStages => Saying(a, n)
          /\ "loop" \notin BusyOn(n) => Loaded(n).st = mem[n].st

\* Only a crash leaves a torn end behind that is not in doubt, and the next
\* message of that session comes after a write of the whole file.
Heals(n, s) ==
    \A i \in 1..Len(s) : s[i].op \in {"say", "turn"} /\ s[i].name = n =>
        \E j \in 1..(i - 1) : s[j].op \in Whole /\ s[j].name = n
TornInv == \A n \in Keys : ~doubt[n] /\ file[n].torn => \A a \in Actors : Heals(n, task[a].todo)

\* The sessions that are active, in memory or on the disk; before a program
\* activates one it archives or removes the others.
Holders == {k \in Keys : mem[k].st = "active" \/ Loaded(k).st = "active"}
Opens(o) == o.op \in {"create", "activate"}
Clears(s, H) ==
    \A i \in 1..Len(s) : Opens(s[i]) =>
        /\ \A k \in H : \/ k = s[i].name
                        \/ \E j \in 1..(i - 1) : s[j].op \in {"archive", "remove"} /\ s[j].name = k
        /\ \A j \in 1..Len(s) : Opens(s[j]) => j = i
ActiveInv ==
    strayed \cap Keys = {} =>
        /\ \A k, j \in Holders : k = j
        /\ Clears(task["loop"].todo, Holders)

Running == Types /\ (\A n \in Names : NameInv(n)) /\ TornInv /\ ActiveInv
\* Once it has fallen back to the memory the program leaves the files alone.
IInv == IF backend = "file" THEN Running ELSE OneActiveOnDisk /\ BookLoads

------------------------------------------------------------------------------
(* Programs as sequences of operations *)

LEMMA Programming ==
    ASSUME NEW S, NEW s \in Seq(S), s # <<>>
    PROVE  /\ Len(s) \in Nat \ {0} /\ Head(s) = s[1] /\ Head(s) \in S
           /\ Tail(s) \in Seq(S) /\ Len(Tail(s)) = Len(s) - 1
           /\ \A i \in 1..Len(Tail(s)) : i + 1 \in 1..Len(s) /\ Tail(s)[i] = s[i + 1]
  <1>1. Len(s) \in Nat /\ Len(s) # 0
    BY EmptySeq
  <1>2. Head(s) \in S /\ Tail(s) \in Seq(S)
    BY HeadTailProperties
  <1>3. Len(Tail(s)) = Len(s) - 1
    BY <1>1, HeadTailProperties
  <1>4. \A i \in 1..Len(Tail(s)) : Tail(s)[i] = s[i + 1]
    BY HeadTailProperties
  <1>. QED  BY <1>1, <1>2, <1>3, <1>4

\* What is left to do goes on to heal a name, if the operation done was not
\* the write of the whole file.
LEMMA HealsTail ==
    ASSUME NEW S, NEW s \in Seq(S), s # <<>>, NEW n, Heals(n, s),
           ~(Head(s).op \in Whole /\ Head(s).name = n)
    PROVE  Heals(n, Tail(s))
  <1>. SUFFICES ASSUME NEW i \in 1..Len(Tail(s)), Tail(s)[i].op \in {"say", "turn"}, Tail(s)[i].name = n
                PROVE  \E j \in 1..(i - 1) : Tail(s)[j].op \in Whole /\ Tail(s)[j].name = n
    BY DEF Heals
  <1>1. i + 1 \in 1..Len(s) /\ s[i + 1].op \in {"say", "turn"} /\ s[i + 1].name = n
    BY Programming
  <1>2. PICK j \in 1..i : s[j].op \in Whole /\ s[j].name = n
    BY <1>1 DEF Heals
  <1>3. j # 1
    BY <1>2, Programming
  <1>4. j - 1 \in 1..(i - 1) /\ j - 1 \in 1..Len(Tail(s)) /\ (j - 1) + 1 = j
    BY <1>3, Programming
  <1>5. Tail(s)[j - 1] = s[j]
    BY <1>4, Programming
  <1>. QED  BY <1>2, <1>4, <1>5

LEMMA ClearsTail ==
    ASSUME NEW S, NEW s \in Seq(S), s # <<>>, NEW H, NEW G, G \subseteq H, Clears(s, H),
           Head(s).op \in {"archive", "remove"} => Head(s).name \notin G
    PROVE  Clears(Tail(s), G)
  <1>. SUFFICES ASSUME NEW i \in 1..Len(Tail(s)), Opens(Tail(s)[i])
                PROVE  /\ \A k \in G : \/ k = Tail(s)[i].name
                                       \/ \E j \in 1..(i - 1) : Tail(s)[j].op \in {"archive", "remove"} /\ Tail(s)[j].name = k
                       /\ \A j \in 1..Len(Tail(s)) : Opens(Tail(s)[j]) => j = i
    BY DEF Clears
  <1>1. i + 1 \in 1..Len(s) /\ Opens(s[i + 1]) /\ Tail(s)[i] = s[i + 1]
    BY Programming
  <1>2. ASSUME NEW k \in G, k # Tail(s)[i].name
        PROVE  \E j \in 1..(i - 1) : Tail(s)[j].op \in {"archive", "remove"} /\ Tail(s)[j].name = k
    <2>1. PICK j \in 1..i : s[j].op \in {"archive", "remove"} /\ s[j].name = k
      BY <1>1, <1>2 DEF Clears
    <2>2. j # 1
      BY <2>1, Programming
    <2>3. j - 1 \in 1..(i - 1) /\ j - 1 \in 1..Len(Tail(s)) /\ (j - 1) + 1 = j
      BY <2>2, Programming
    <2>4. Tail(s)[j - 1] = s[j]
      BY <2>3, Programming
    <2>. QED  BY <2>1, <2>3, <2>4
  <1>3. ASSUME NEW j \in 1..Len(Tail(s)), Opens(Tail(s)[j])
        PROVE  j = i
    <2>1. j + 1 \in 1..Len(s) /\ Opens(s[j + 1])
      BY <1>3, Programming
    <2>. QED  BY <1>1, <2>1 DEF Clears
  <1>. QED  BY <1>2, <1>3

\* A program whose first operation opens a session opens no other.
LEMMA ClearsFewer ==
    ASSUME NEW s, NEW H, NEW G, G \subseteq H, Clears(s, H)
    PROVE  Clears(s, G)
  BY DEF Clears

LEMMA NothingToDo == /\ \A n : Heals(n, <<>>)
                     /\ \A H : Clears(<<>>, H)
                     /\ \A a : <<>> \in Seq(OpsOf(a))
  BY DEF Heals, Clears

------------------------------------------------------------------------------
(* Types *)

LEMMA Fresh ==
    /\ Absent \in Files /\ Empty \in Files /\ NoBook \in Files
    /\ Absent.st = "absent" /\ ~Absent.torn /\ Absent.rev = 0
    /\ Empty.st = "empty" /\ ~Empty.torn /\ Empty.torn = Absent.torn
    /\ NoBook.st = "book" /\ ~NoBook.torn
    /\ NoBook \in Stored(Book)
  BY DEF Absent, Empty, NoBook, File, Files, Stored, LiveFiles, LiveStatuses

LEMMA Named == Book \in Names /\ Keys \subseteq Names /\ \A n \in Names : n # Book => n \in Keys
  BY DEF Names

\* What a restart loads of a session; of the book, if it parses.
LEMMA LoadedTypes ==
    ASSUME Types, NEW n \in Names, n = Book => Loadable(file[n])
    PROVE  Loaded(n) \in MemOf(n)
  <1>1. file[n] \in FileOf(n)
    BY DEF Types
  <1>2. CASE n = Book
    BY <1>1, <1>2, Fresh DEF FileOf, TmpOf, Loaded, Loadable, MemOf, Stored, LiveFiles, LiveStatuses
  <1>3. CASE n # Book /\ file[n].st = "empty"
    BY <1>1, <1>3, Fresh DEF Loaded, MemOf
  <1>4. CASE n # Book /\ file[n].st # "empty"
    <2>1. file[n] \in Files
      BY <1>1, Fresh DEF FileOf, TmpOf, LiveFiles
    <2>2. Loaded(n) = [file[n] EXCEPT !.torn = FALSE]
      BY <1>4 DEF Loaded
    <2>3. Loaded(n) \in Files /\ ~Loaded(n).torn /\ Loaded(n).st = file[n].st
      BY <2>1, <2>2 DEF Files
    <2>4. file[n].st \in {"absent", "active", "archived"}
      BY <1>1, <1>4, Fresh DEF FileOf, TmpOf, LiveFiles, LiveStatuses
    <2>. QED  BY <1>4, <2>3, <2>4 DEF MemOf, Stored, LiveFiles, LiveStatuses
  <1>. QED  BY <1>2, <1>3, <1>4

LEMMA TaskTypes ==
    ASSUME Types, NEW a \in Actors
    PROVE  /\ task[a] \in TaskOf(a)
           /\ task[a] \in [todo : Seq(OpsOf(a)), st : Stages, snap : Files, hold : {"none", "tmp", "file"}, alone : BOOLEAN]
  BY DEF Types, TaskOf

\* Who is busy on a name has an operation on it.
LEMMA BusyTypes ==
    ASSUME Types, NEW n \in Names, NEW a \in BusyOn(n)
    PROVE  /\ a \in Actors /\ task[a].st # "ready" /\ task[a].todo # <<>>
           /\ task[a].todo \in Seq(OpsOf(a))
           /\ Head(task[a].todo) \in OpsOf(a) /\ Head(task[a].todo).name = n
           /\ Tail(task[a].todo) \in Seq(OpsOf(a))
           /\ task[a].st \in WholeStages => Head(task[a].todo).op \in Whole
           /\ task[a].st \in LogStages => Head(task[a].todo).op = "say" /\ n \in Keys
           /\ task[a].st = "unlink" => Head(task[a].todo).op = "remove" /\ n \in Keys
           /\ task[a].st \in {"opentmp", "writetmp"} => task[a].snap \in Stored(n)
  <1>1. a \in Actors /\ task[a].st # "ready" /\ Head(task[a].todo).name = n
    BY DEF BusyOn, Busy
  <1>2. task[a] \in TaskOf(a)
    BY <1>1, TaskTypes
  <1>3. /\ task[a].todo # <<>> /\ task[a].todo \in Seq(OpsOf(a))
        /\ task[a].st \in WholeStages => Head(task[a].todo).op \in Whole
        /\ task[a].st \in LogStages => Head(task[a].todo).op = "say"
        /\ task[a].st = "unlink" => Head(task[a].todo).op = "remove"
        /\ task[a].st \in {"opentmp", "writetmp"} => task[a].snap \in Stored(n)
    BY <1>1, <1>2 DEF TaskOf
  <1>4. Head(task[a].todo) \in OpsOf(a) /\ Tail(task[a].todo) \in Seq(OpsOf(a))
    BY <1>3, Programming
  <1>5. Head(task[a].todo).op \in {"say", "remove"} => n \in Keys
    BY <1>1, <1>4, Named DEF OpsOf
  <1>. QED  BY <1>1, <1>3, <1>4, <1>5

------------------------------------------------------------------------------
(* One name at a time *)

\* Nothing happens to n.
Same(n) ==
    /\ mem'[n] = mem[n] /\ file'[n] = file[n] /\ tmp'[n] = tmp[n] /\ doubt'[n] = doubt[n]
    /\ n \in strayed' <=> n \in strayed
    /\ BusyOn(n)' = BusyOn(n) /\ \A a \in BusyOn(n) : task'[a] = task[a]

LEMMA SameKeeps ==
    ASSUME NEW n \in Names, NameInv(n), Same(n)
    PROVE  NameInv(n)' /\ Loaded(n)' = Loaded(n)
  <1>1. Loaded(n)' = Loaded(n) /\ Loadable(file[n])' = Loadable(file[n]) /\ IsLive(n)' = IsLive(n)
    BY DEF Same, Loaded, Loadable, IsLive
  <1>2. \A a \in BusyOn(n) : AloneAt(a, n)' = AloneAt(a, n) /\ Saying(a, n)' = Saying(a, n)
    <2>. SUFFICES ASSUME NEW a \in BusyOn(n)
                  PROVE  AloneAt(a, n)' = AloneAt(a, n) /\ Saying(a, n)' = Saying(a, n)
      OBVIOUS
    <2>1. AloneAt(a, n)' = AloneAt(a, n)
      BY <1>1 DEF Same, AloneAt
    <2>2. Saying(a, n)' = Saying(a, n)
      BY <1>1 DEF Same, Saying
    <2>. QED  BY <2>1, <2>2
  <1>3. n \in Names => (\A a \in BusyOn(n) : task'[a].alone = task[a].alone /\ task'[a].st = task[a].st)
    BY DEF Same
  <1>. QED  BY <1>1, <1>2, <1>3 DEF NameInv, Same

\* What a turn may have left once it appends no other message.
Closing(a) == {s \in Seq(OpsOf(a)) : a = "turn" /\ \A i \in 1..Len(s) : s[i].op \notin {"say", "turn"}}

\* What a step of a's operation on n does to the programs.
Proceeds(a, n) ==
    /\ \A b \in Actors \ {a} : task'[b].todo = task[b].todo
    /\ \/ task'[a].todo = task[a].todo
       \/ task'[a].todo = <<>>
       \/ task'[a].todo = Tail(task[a].todo)
       \/ task'[a].todo \in Closing(a)

\* It does nothing to other names, and to n what the promise allows.
LEMMA DiskStep ==
    ASSUME Running, NEW n \in Names, NEW a \in BusyOn(n),
           UNCHANGED <<mem, change>>, Types', NameInv(n)', \A m \in Names \ {n} : Same(m),
           strayed \subseteq strayed', Proceeds(a, n), doubt'[n] => n \in strayed',
           doubt[n] => doubt'[n] \/ Loaded(n)' = mem[n],
           doubt'[n] \/ Loaded(n)' = mem[n] \/ Loaded(n)' = Loaded(n),
           n \in Keys /\ ~doubt'[n] /\ file'[n].torn =>
               ~doubt[n] /\ file[n].torn
               /\ (Head(task[a].todo).op \in Whole => task'[a].todo \in {task[a].todo, <<>>}),
           a = "loop" /\ task'[a].todo = Tail(task[a].todo) /\ Head(task[a].todo).op \in {"archive", "remove"} =>
               doubt'[n] \/ (Loaded(n)'.st # "active" /\ mem[n].st # "active")
    PROVE  Running'
  <1>1. \A m \in Names : NameInv(m)'
    BY SameKeeps DEF Running
  <1>2. \A m \in Names \ {n} : Loaded(m)' = Loaded(m)
    BY SameKeeps DEF Running
  <1>3. task[a].todo # <<>> /\ task[a].todo \in Seq(OpsOf(a)) /\ Head(task[a].todo).name = n /\ a \in Actors
    BY BusyTypes DEF Running
  <1>4. TornInv'
    <2>. SUFFICES ASSUME NEW m \in Keys, ~doubt'[m], file'[m].torn, NEW b \in Actors
                  PROVE  Heals(m, task'[b].todo)
      BY DEF TornInv
    <2>1. m \in Names /\ ~doubt[m] /\ file[m].torn
      BY Named DEF Same
    <2>2. Heals(m, task[b].todo)
      BY <2>1 DEF Running, TornInv
    <2>3. CASE task'[b].todo = task[b].todo \/ task'[b].todo = <<>>
      BY <2>2, <2>3, NothingToDo
    <2>4. CASE b = a /\ (task'[a].todo \in Closing(a))
      BY <2>4 DEF Closing, Heals
    <2>5. CASE ~(task'[b].todo = task[b].todo \/ task'[b].todo = <<>> \/ (b = a /\ task'[a].todo \in Closing(a)))
      <3>1. b = a /\ task'[a].todo = Tail(task[a].todo)
        BY <2>5 DEF Proceeds
      <3>2. ~(Head(task[a].todo).op \in Whole /\ Head(task[a].todo).name = m)
        BY <1>3, <2>5, <3>1
      <3>. QED  BY <1>3, <2>2, <3>1, <3>2, HealsTail
    <2>. QED  BY <2>3, <2>4, <2>5
  <1>5. ActiveInv'
    <2>. SUFFICES ASSUME strayed' \cap Keys = {}
                  PROVE  (\A k, j \in Holders' : k = j) /\ Clears(task'["loop"].todo, Holders')
      BY DEF ActiveInv
    <2>1. strayed \cap Keys = {}
      OBVIOUS
    <2>2. n \in Keys => ~doubt'[n]
      OBVIOUS
    <2>3. Holders' \subseteq Holders
      <3>. SUFFICES ASSUME NEW k \in Keys, mem'[k].st = "active" \/ Loaded(k)'.st = "active"
                    PROVE  mem[k].st = "active" \/ Loaded(k).st = "active"
        BY DEF Holders
      <3>1. k # n => Loaded(k)' = Loaded(k)
        BY <1>2, Named
      <3>2. k = n => Loaded(k)' = mem[k] \/ Loaded(k)' = Loaded(k)
        BY <2>2
      <3>. QED  BY <3>1, <3>2
    <2>4. (\A k, j \in Holders : k = j) /\ Clears(task["loop"].todo, Holders)
      BY <2>1 DEF Running, ActiveInv
    <2>5. Clears(task'["loop"].todo, Holders')
      <3>1. CASE task'["loop"].todo = task["loop"].todo
        BY <2>3, <2>4, <3>1, ClearsFewer
      <3>2. CASE task'["loop"].todo = <<>>
        BY <3>2, NothingToDo
      <3>3. CASE task'["loop"].todo # task["loop"].todo /\ task'["loop"].todo # <<>>
        <4>1. "loop" \in Actors
          BY DEF Actors
        <4>2. a = "loop" /\ task'[a].todo = Tail(task[a].todo)
          BY <3>3, <4>1 DEF Proceeds, Closing
        <4>3. Head(task[a].todo).op \in {"archive", "remove"} => n \notin Holders'
          BY <2>2, <4>2 DEF Holders
        <4>. QED  BY <1>3, <2>3, <2>4, <4>2, <4>3, ClearsTail
      <3>. QED  BY <3>1, <3>2, <3>3
    <2>. QED  BY <2>3, <2>4, <2>5
  <1>. QED  BY <1>1, <1>4, <1>5 DEF Running

------------------------------------------------------------------------------
(* Steps of one operation *)

\* An operation goes on to its next step.
LEMMA GoesOn ==
    ASSUME Running, NEW n \in Names, NEW a \in BusyOn(n), NEW t \in TaskOf(a),
           task' = [task EXCEPT ![a] = t], t.todo = task[a].todo, t.st # "ready"
    PROVE  /\ \A m \in Names : BusyOn(m)' = BusyOn(m)
           /\ \A b \in Actors \ {a} : task'[b] = task[b]
           /\ task'[a] = t /\ Proceeds(a, n)
           /\ DOMAIN task' = Actors /\ \A b \in Actors : task'[b] \in TaskOf(b)
  <1>1. DOMAIN task = Actors /\ \A b \in Actors : task[b] \in TaskOf(b)
    BY DEF Running, Types
  <1>2. a \in Actors /\ task[a].st # "ready"
    BY BusyTypes DEF Running
  <1>3. task'[a] = t /\ \A b \in Actors \ {a} : task'[b] = task[b]
    BY <1>1, <1>2
  <1>4. ASSUME NEW m \in Names
        PROVE  BusyOn(m)' = BusyOn(m)
    BY <1>2, <1>3 DEF BusyOn, Busy
  <1>. QED  BY <1>1, <1>2, <1>3, <1>4 DEF Proceeds

\* An operation ends, and its file is renamed or gone for those who have it open.
EndsOn(a, n) ==
    /\ DOMAIN task' = Actors
    /\ \A b \in Actors \ {a} :
          \/ task'[b] = task[b]
          \/ b \in BusyOn(n) /\ \E h \in {"none", "file"} : task'[b] = [task[b] EXCEPT !.hold = h]
    /\ \/ task'[a] \in {NoTask, Finished(a)}
       \/ \E s \in Closing(a) : task'[a] = [NoTask EXCEPT !.todo = s]

LEMMA EndedTypes ==
    ASSUME Running, NEW n \in Names, NEW a \in BusyOn(n)
    PROVE  /\ NoTask \in TaskOf(a) /\ Finished(a) \in TaskOf(a)
           /\ NoTask.todo = <<>> /\ NoTask.st = "ready"
           /\ Finished(a).todo = Tail(task[a].todo) /\ Finished(a).st = "ready"
           /\ \A s \in Closing(a) : /\ [NoTask EXCEPT !.todo = s] \in TaskOf(a)
                                   /\ [NoTask EXCEPT !.todo = s].todo = s
                                   /\ [NoTask EXCEPT !.todo = s].st = "ready"
  BY BusyTypes, NothingToDo, Fresh DEF Running, NoTask, Finished, TaskOf, Stages, Closing

LEMMA Ending ==
    ASSUME Running, NEW n \in Names, NEW a \in BusyOn(n), EndsOn(a, n)
    PROVE  /\ BusyOn(n)' = BusyOn(n) \ {a}
           /\ \A m \in Names \ {n} : BusyOn(m)' = BusyOn(m) /\ \A b \in BusyOn(m) : task'[b] = task[b]
           /\ \A b \in Actors \ {a} : task'[b].alone = task[b].alone
           /\ Proceeds(a, n)
           /\ DOMAIN task' = Actors /\ \A b \in Actors : task'[b] \in TaskOf(b)
  <1>1. \A b \in Actors : task[b] \in TaskOf(b)
    BY DEF Running, Types
  <1>2. a \in Actors /\ task[a].st # "ready" /\ Head(task[a].todo).name = n
    BY BusyTypes DEF Running
  <1>3. task'[a] \in TaskOf(a) /\ task'[a].st = "ready"
        /\ (task'[a].todo \in {<<>>, Tail(task[a].todo)} \/ task'[a].todo \in Closing(a))
    <2>1. CASE task'[a] \in {NoTask, Finished(a)}
      BY <2>1, EndedTypes
    <2>2. CASE \E s \in Closing(a) : task'[a] = [NoTask EXCEPT !.todo = s]
      BY <2>2, EndedTypes
    <2>. QED  BY <2>1, <2>2 DEF EndsOn
  <1>4. ASSUME NEW b \in Actors \ {a}
        PROVE  /\ task'[b] \in TaskOf(b) /\ task'[b].alone = task[b].alone
               /\ task'[b].todo = task[b].todo /\ task'[b].st = task[b].st
               /\ b \notin BusyOn(n) => task'[b] = task[b]
    <2>1. CASE task'[b] = task[b]
      BY <1>1, <2>1
    <2>2. CASE b \in BusyOn(n) /\ \E h \in {"none", "file"} : task'[b] = [task[b] EXCEPT !.hold = h]
      BY <1>1, <2>2 DEF TaskOf
    <2>. QED  BY <2>1, <2>2 DEF EndsOn
  <1>5. \A m \in Names, b \in Actors \ {a} : b \in BusyOn(m)' <=> b \in BusyOn(m)
    BY <1>4 DEF BusyOn, Busy
  <1>6. \A m \in Names : a \notin BusyOn(m)'
    BY <1>3 DEF BusyOn, Busy
  <1>7. \A m \in Names \ {n} : a \notin BusyOn(m) /\ BusyOn(m) \cap BusyOn(n) = {}
    BY <1>2 DEF BusyOn
  <1>8. \A m \in Names : BusyOn(m) \subseteq Actors /\ BusyOn(m)' \subseteq Actors
    BY DEF BusyOn
  <1>9. BusyOn(n)' = BusyOn(n) \ {a}
    BY <1>5, <1>6, <1>8
  <1>10. \A m \in Names \ {n} : BusyOn(m)' = BusyOn(m)
    BY <1>5, <1>6, <1>7, <1>8
  <1>11. \A m \in Names \ {n} : \A b \in BusyOn(m) : task'[b] = task[b]
    BY <1>4, <1>7, <1>8
  <1>. QED  BY <1>3, <1>4, <1>9, <1>10, <1>11 DEF EndsOn, Proceeds

\* Whoever gives up ends so.
LEMMA GivesUpEnds ==
    ASSUME Running, NEW n \in Names, NEW a \in BusyOn(n), GivesUp(a)
    PROVE  EndsOn(a, n)
  <1>1. PICK left \in Left(a) : task' = [task EXCEPT ![a] = [NoTask EXCEPT !.todo = left]]
    BY DEF GivesUp
  <1>. DEFINE o == Head(task[a].todo)
  <1>2. a \in Actors /\ o \in OpsOf(a)
    BY BusyTypes DEF Running
  <1>3. \/ left = <<>> \/ left = Tail(task[a].todo)
        \/ /\ a = "turn" /\ o.op = "say"
           /\ left \in {<<Op("title", o.name)>>, <<Op("touch", o.name), Op("title", o.name)>>,
                        <<Op("branch", o.name), Op("touch", o.name), Op("title", o.name)>>}
    BY <1>1 DEF Left
  <1>4. CASE left = <<>> \/ left = Tail(task[a].todo)
    <2>1. [NoTask EXCEPT !.todo = <<>>] = NoTask
      BY EndedTypes DEF TaskOf
    <2>. QED  BY <1>1, <1>2, <1>4, <2>1 DEF EndsOn, Finished, Running, Types
  <1>5. CASE a = "turn" /\ o.op = "say" /\
             left \in {<<Op("title", o.name)>>, <<Op("touch", o.name), Op("title", o.name)>>,
                      <<Op("branch", o.name), Op("touch", o.name), Op("title", o.name)>>}
    <2>1. o.name \in Names /\ o.name # Book
      BY <1>2, <1>5 DEF OpsOf
    <2>2. \A k \in {"branch", "touch", "title"} :
             Op(k, o.name) \in OpsOf(a) /\ Op(k, o.name).op \notin {"say", "turn"}
      BY <2>1 DEF Op, OpsOf, Kinds, QuietKinds
    <2>. DEFINE S == {x \in OpsOf(a) : x.op \notin {"say", "turn"}}
    <2>3. \A x, y, z \in S : <<x>> \in Seq(S) /\ <<x, y>> \in Seq(S) /\ <<x, y, z>> \in Seq(S)
      OBVIOUS
    <2>4. left \in Seq(S)
      <3>1. Op("branch", o.name) \in S /\ Op("touch", o.name) \in S /\ Op("title", o.name) \in S
        BY <2>2
      <3>2. /\ <<Op("title", o.name)>> \in Seq(S)
            /\ <<Op("touch", o.name), Op("title", o.name)>> \in Seq(S)
            /\ <<Op("branch", o.name), Op("touch", o.name), Op("title", o.name)>> \in Seq(S)
        BY <2>3, <3>1, Zenon
      <3>. QED  BY <1>5, <3>2, Zenon
    <2>5. left \in Seq(OpsOf(a)) /\ \A i \in 1..Len(left) : left[i] \in S
      BY <2>4
    <2>6. left \in Closing(a)
      BY <1>5, <2>5 DEF Closing
    <2>. QED  BY <1>1, <1>2, <2>6 DEF EndsOn, Running, Types
  <1>. QED  BY <1>3, <1>4, <1>5

\* Whoever finds another on the same file is not alone, and the file in doubt.
LEMMA NotAlone ==
    ASSUME Running, NEW n \in Names, NEW a \in BusyOn(n)
    PROVE  /\ task[a].alone => AloneAt(a, n) /\ BusyOn(n) = {a}
           /\ ~task[a].alone => doubt[n] /\ n \in strayed /\ \A b \in BusyOn(n) : ~task[b].alone
           /\ task[a].alone \in BOOLEAN /\ doubt[n] \in BOOLEAN
  BY BusyTypes, TaskTypes DEF Running, NameInv, AloneAt, Types

LEMMA GoesName ==
    ASSUME Running, NEW n \in Names, NEW a \in BusyOn(n), UNCHANGED <<mem, doubt, strayed>>,
           BusyOn(n)' = BusyOn(n), \A b \in Actors \ {a} : task'[b] = task[b],
           task'[a].alone = task[a].alone,
           task[a].alone => AloneAt(a, n)' /\ Loaded(n)' = Loaded(n)
                            /\ (n = Book /\ Loadable(file[n]) => Loadable(file[n])')
                            /\ (task'[a].st \in LogStages /\ ~doubt[n] => Saying(a, n)')
    PROVE  NameInv(n)'
  <1>1. CASE ~task[a].alone
    <2>1. doubt[n]' /\ (n \in strayed)' /\ BusyOn(n) \subseteq Actors
      BY <1>1, NotAlone DEF BusyOn
    <2>2. \A b \in BusyOn(n) : ~task'[b].alone
      BY <1>1, <2>1, NotAlone
    <2>. QED  BY <2>1, <2>2 DEF NameInv
  <1>2. CASE task[a].alone
    <2>1. BusyOn(n) = {a}
      BY <1>2, NotAlone
    <2>2. NameInv(n)
      BY DEF Running
    <2>. QED  BY <1>2, <2>1, <2>2 DEF NameInv
  <1>. QED  BY <1>1, <1>2

LEMMA EndsName ==
    ASSUME Running, NEW n \in Names, NEW a \in BusyOn(n), EndsOn(a, n), UNCHANGED mem,
           doubt'[n] => n \in strayed', ~task[a].alone => doubt'[n],
           task[a].alone => doubt'[n] \/ Loaded(n)' = mem[n],
           task[a].alone /\ n = Book /\ n \notin strayed' => Loadable(file[n])'
    PROVE  NameInv(n)'
  <1>1. BusyOn(n)' = BusyOn(n) \ {a} /\ \A b \in Actors \ {a} : task'[b].alone = task[b].alone
    BY Ending
  <1>2. CASE ~task[a].alone
    <2>1. doubt'[n] /\ n \in strayed' /\ BusyOn(n) \subseteq Actors
      BY <1>2 DEF BusyOn
    <2>2. \A b \in BusyOn(n)' : ~task'[b].alone
      BY <1>1, <1>2, <2>1, NotAlone
    <2>. QED  BY <2>1, <2>2 DEF NameInv
  <1>3. CASE task[a].alone
    <2>1. BusyOn(n)' = {}
      BY <1>1, <1>3, NotAlone
    <2>. QED  BY <1>3, <2>1 DEF NameInv
  <1>. QED  BY <1>2, <1>3, NotAlone

------------------------------------------------------------------------------
(* Steps of the disk keep the promise *)

\* The disk follows the memory, or is in doubt.
LEMMA Advances ==
    ASSUME Running, NEW n \in Names, BusyOn(n) # {}, UNCHANGED <<mem, faults>>, Types',
           \A m \in Names \ {n} : Same(m), doubt'[n] => doubt[n],
           doubt'[n] \/ Loaded(n)' = mem[n] \/ (BusyOn(n)' # {} /\ Loaded(n)' = Loaded(n))
    PROVE  Log!Next
  <1>1. \A m \in Names \ {n} : Durable'[m] = Durable[m] /\ InProgress'[m] = InProgress[m] /\ doubt'[m] = doubt[m]
    BY SameKeeps DEF Running, Durable, InProgress, Same
  <1>2. InProgress[n] /\ (InProgress'[n] <=> BusyOn(n)' # {}) /\ Durable[n] = Loaded(n) /\ Durable'[n] = Loaded(n)'
    BY DEF InProgress, Durable
  <1>3. Log!Advance(n)
    BY <1>1, <1>2 DEF Log!Advance, Log!Others
  <1>. QED  BY <1>3 DEF Log!Next

\* The files of other names stay.
OnlyOn(n) ==
    /\ DOMAIN file' = Names /\ DOMAIN tmp' = Names
    /\ \A m \in Names \ {n} : file'[m] = file[m] /\ tmp'[m] = tmp[m]

LEMMA GoStep ==
    ASSUME Running, NEW n \in Names, NEW a \in BusyOn(n), NEW t \in TaskOf(a),
           task' = [task EXCEPT ![a] = t], t.todo = task[a].todo, t.st # "ready", t.alone = task[a].alone,
           UNCHANGED <<mem, doubt, strayed, change, faults>>,
           OnlyOn(n), file'[n] \in FileOf(n), tmp'[n] \in TmpOf(n),
           task[a].alone => AloneAt(a, n)' /\ Loaded(n)' = Loaded(n)
                            /\ (n = Book /\ Loadable(file[n]) => Loadable(file[n])')
                            /\ (n \in Keys /\ file'[n].torn => file[n].torn)
                            /\ (t.st \in LogStages /\ ~doubt[n] => Saying(a, n)')
    PROVE  Running' /\ Log!Next
  <1>1. /\ \A m \in Names : BusyOn(m)' = BusyOn(m)
        /\ \A b \in Actors \ {a} : task'[b] = task[b]
        /\ task'[a] = t /\ Proceeds(a, n)
        /\ DOMAIN task' = Actors /\ \A b \in Actors : task'[b] \in TaskOf(b)
    BY GoesOn
  <1>2. a \notin UNION {BusyOn(m) : m \in Names \ {n}} /\ a \in Actors /\ task[a].todo # <<>>
    BY BusyTypes DEF BusyOn, Running
  <1>3. \A m \in Names \ {n} : Same(m)
    BY <1>1, <1>2 DEF Same, OnlyOn, BusyOn
  <1>4. Types'
    BY <1>1 DEF Running, Types, OnlyOn
  <1>5. NameInv(n)'
    BY <1>1, GoesName
  <1>6. doubt'[n] \/ Loaded(n)' = Loaded(n)
    BY NotAlone
  <1>7. n \in Keys /\ ~doubt'[n] /\ file'[n].torn => ~doubt[n] /\ file[n].torn
    BY NotAlone
  <1>8. doubt'[n] => n \in strayed'
    BY DEF Running, NameInv
  <1>9. task'[a].todo = task[a].todo /\ task[a].todo # Tail(task[a].todo)
    <2>1. task[a].todo \in Seq(OpsOf(a)) /\ task[a].todo # <<>>
      BY BusyTypes DEF Running
    <2>2. Len(Tail(task[a].todo)) = Len(task[a].todo) - 1 /\ Len(task[a].todo) \in Nat
      BY <2>1, Programming
    <2>3. Len(Tail(task[a].todo)) # Len(task[a].todo)
      BY <2>2
    <2>. QED  BY <1>1, <2>3
  <1>10. Running'
    BY <1>1, <1>3, <1>4, <1>5, <1>6, <1>7, <1>8, <1>9, DiskStep
  <1>11. Log!Next
    BY <1>1, <1>3, <1>4, <1>6, Advances
  <1>. QED  BY <1>10, <1>11

LEMMA EndStep ==
    ASSUME Running, NEW n \in Names, NEW a \in BusyOn(n), EndsOn(a, n),
           UNCHANGED <<mem, strayed, change>>, doubt' \in [Names -> BOOLEAN],
           \A m \in Names \ {n} : doubt'[m] = doubt[m], doubt'[n] => doubt[n],
           OnlyOn(n), file'[n] \in FileOf(n), tmp'[n] \in TmpOf(n), faults' = faults,
           ~task[a].alone => doubt'[n],
           task[a].alone => Loaded(n)' = mem[n] \/ doubt'[n],
           task[a].alone /\ n = Book => Loadable(file[n])',
           n \in Keys /\ ~doubt'[n] /\ file'[n].torn =>
              ~doubt[n] /\ file[n].torn /\ Head(task[a].todo).op \notin Whole,
           Head(task[a].todo).op \in {"archive", "remove"} => doubt'[n] \/ mem[n].st # "active"
    PROVE  Running' /\ Log!Next
  <1>1. /\ \A m \in Names \ {n} : BusyOn(m)' = BusyOn(m) /\ \A b \in BusyOn(m) : task'[b] = task[b]
        /\ Proceeds(a, n)
        /\ DOMAIN task' = Actors /\ \A b \in Actors : task'[b] \in TaskOf(b)
    BY Ending
  <1>2. \A m \in Names \ {n} : Same(m)
    BY <1>1 DEF Same, OnlyOn
  <1>3. Types'
    BY <1>1 DEF Running, Types, OnlyOn
  <1>4. doubt'[n] => n \in strayed'
    BY DEF Running, NameInv
  <1>5. NameInv(n)'
    BY <1>4, EndsName
  <1>6. doubt'[n] \/ Loaded(n)' = mem[n]
    BY NotAlone
  <1>7. Running'
    BY <1>1, <1>2, <1>3, <1>4, <1>5, <1>6, DiskStep
  <1>8. Log!Next
    BY <1>2, <1>3, <1>6, Advances
  <1>. QED  BY <1>7, <1>8

------------------------------------------------------------------------------
(* The system calls *)

LEMMA NextStage ==
    ASSUME Types, NEW n \in Names, NEW a \in BusyOn(n),
           NEW t \in [todo : Seq(OpsOf(a)), st : Stages, snap : Files, hold : {"none", "tmp", "file"}, alone : BOOLEAN],
           t.todo = task[a].todo,
           \/ task[a].st \in WholeStages /\ t.st \in WholeStages
           \/ task[a].st \in LogStages /\ t.st \in LogStages,
           t.st \in {"opentmp", "writetmp"} => t.snap \in Stored(n)
    PROVE  t \in TaskOf(a) /\ t.st # "ready"
  <1>1. /\ t.todo # <<>> /\ Head(t.todo).name = n
        /\ t.st \in WholeStages => Head(t.todo).op \in Whole
        /\ t.st \in LogStages => Head(t.todo).op = "say"
    BY BusyTypes DEF WholeStages, LogStages
  <1>2. t.st \notin {"ready", "unlink"}
    BY DEF WholeStages, LogStages
  <1>. QED  BY <1>1, <1>2 DEF TaskOf

LEMMA AtBusy ==
    ASSUME Types, NEW n \in Names, NEW a \in Actors, NEW st, At(a, st, n)
    PROVE  a \in BusyOn(n) /\ task[a].st = st
  BY DEF At, BusyOn

\* A write of what the memory holds, or has held.
LEMMA SnapshotStep ==
    ASSUME Running, NEW n \in Names, NEW a \in Actors, Snapshot(a, n)
    PROVE  Running' /\ Log!Next
  <1>1. a \in BusyOn(n) /\ task[a].st = "snap"
    BY AtBusy DEF Running, Snapshot
  <1>2. UNCHANGED <<mem, file, tmp, change, doubt, strayed, born, faults, crashes, backend>>
    BY DEF Snapshot, disk, counts
  <1>3. OnlyOn(n) /\ file'[n] \in FileOf(n) /\ tmp'[n] \in TmpOf(n)
    BY <1>2 DEF Running, Types, OnlyOn
  <1>4. CASE IsLive(n)
    <2>. DEFINE t == [task[a] EXCEPT !.st = "opentmp", !.snap = mem[n]]
    <2>1. task' = [task EXCEPT ![a] = t]
      BY <1>4 DEF Snapshot
    <2>2. mem[n] \in Stored(n)
      BY <1>4, Fresh DEF Running, Types, MemOf, IsLive
    <2>3. /\ t \in [todo : Seq(OpsOf(a)), st : Stages, snap : Files, hold : {"none", "tmp", "file"}, alone : BOOLEAN]
          /\ t.todo = task[a].todo /\ t.st = "opentmp" /\ t.alone = task[a].alone /\ t.snap = mem[n]
      BY <2>2, TaskTypes DEF Running, Stages, WholeStages, Stored, LiveFiles
    <2>7. t \in TaskOf(a)
      BY <1>1, <2>2, <2>3, NextStage DEF Running, WholeStages
    <2>. HIDE DEF t
    <2>4. task'[a] = t /\ BusyOn(n)' = BusyOn(n)
      BY <1>1, <2>1, <2>3, <2>7, GoesOn
    <2>5. task[a].alone => AloneAt(a, n)'
      BY <1>1, <1>2, <2>3, <2>4, NotAlone DEF AloneAt, IsLive, WholeStages, LogStages
    <2>6. Loaded(n)' = Loaded(n)
      BY <1>2 DEF Loaded
    <2>. QED  BY <1>1, <1>2, <1>3, <2>1, <2>3, <2>5, <2>6, <2>7, GoStep DEF LogStages
  <1>5. CASE ~IsLive(n)
    <2>1. EndsOn(a, n)
      BY <1>1, <1>5, GivesUpEnds DEF Snapshot
    <2>2. ~task[a].alone
      BY <1>1, <1>5, NotAlone DEF AloneAt, WholeStages
    <2>3. doubt[n] /\ doubt' \in [Names -> BOOLEAN]
      BY <1>1, <1>2, <2>2, NotAlone DEF Running, Types
    <2>. QED  BY <1>1, <1>2, <1>3, <2>1, <2>2, <2>3, EndStep
  <1>. QED  BY <1>4, <1>5

LEMMA OpenTmpStep ==
    ASSUME Running, NEW n \in Names, NEW a \in Actors, OpenTmp(a, n)
    PROVE  Running' /\ Log!Next
  <1>1. a \in BusyOn(n) /\ task[a].st = "opentmp"
    BY AtBusy DEF Running, OpenTmp
  <1>2. UNCHANGED <<mem, file, change, doubt, strayed, faults>> /\ tmp' = [tmp EXCEPT ![n] = Empty]
    BY DEF OpenTmp, counts
  <1>3. OnlyOn(n) /\ file'[n] \in FileOf(n) /\ tmp'[n] = Empty /\ tmp'[n] \in TmpOf(n)
    BY <1>2 DEF Running, Types, OnlyOn, TmpOf
  <1>. DEFINE t == [task[a] EXCEPT !.st = "writetmp", !.hold = "tmp"]
  <1>4. task' = [task EXCEPT ![a] = t]
    BY DEF OpenTmp
  <1>5. /\ t \in [todo : Seq(OpsOf(a)), st : Stages, snap : Files, hold : {"none", "tmp", "file"}, alone : BOOLEAN]
        /\ t.todo = task[a].todo /\ t.st = "writetmp" /\ t.alone = task[a].alone /\ t.snap = task[a].snap
        /\ t.hold = "tmp"
    BY TaskTypes DEF Running, Stages, WholeStages
  <1>6. t \in TaskOf(a) /\ t.st # "ready"
    BY <1>1, <1>5, NextStage, BusyTypes DEF Running, WholeStages
  <1>. HIDE DEF t
  <1>7. task'[a] = t /\ BusyOn(n)' = BusyOn(n)
    BY <1>1, <1>4, <1>5, <1>6, GoesOn
  <1>8. task[a].alone => AloneAt(a, n)'
    BY <1>1, <1>2, <1>3, <1>5, <1>7, NotAlone DEF AloneAt, IsLive, WholeStages, LogStages
  <1>9. Loaded(n)' = Loaded(n)
    BY <1>2 DEF Loaded
  <1>. QED  BY <1>1, <1>2, <1>3, <1>4, <1>5, <1>6, <1>8, <1>9, GoStep DEF LogStages

LEMMA WriteTmpStep ==
    ASSUME Running, NEW n \in Names, NEW a \in Actors, WriteTmp(a, n)
    PROVE  Running' /\ Log!Next
  <1>1. a \in BusyOn(n) /\ task[a].st = "writetmp"
    BY AtBusy DEF Running, WriteTmp
  <1>2. UNCHANGED <<mem, change, doubt, strayed, faults>>
    BY DEF WriteTmp, counts
  <1>. DEFINE over(f, left) == [task[a].snap EXCEPT !.torn = left /\ f # Empty]
  <1>3. PICK left \in BOOLEAN :
            /\ tmp' = IF task[a].hold = "tmp" THEN [tmp EXCEPT ![n] = over(tmp[n], left)] ELSE tmp
            /\ file' = IF task[a].hold = "file" THEN [file EXCEPT ![n] = over(file[n], left)] ELSE file
    BY DEF WriteTmp
  <1>4. task[a].snap \in Stored(n)
    BY <1>1, BusyTypes DEF Running
  <1>5. \A f : over(f, left) \in LiveFiles(n)
    BY <1>4 DEF Stored, LiveFiles, Files
  <1>6. over(Empty, left) = task[a].snap
    BY <1>4 DEF Stored, LiveFiles, Files
  <1>. HIDE DEF over
  <1>7. OnlyOn(n) /\ file'[n] \in FileOf(n) /\ tmp'[n] \in TmpOf(n)
    BY <1>3, <1>5 DEF Running, Types, OnlyOn, TmpOf, FileOf
  <1>8. task[a].alone => tmp'[n] = mem[n] /\ file'[n] = file[n]
    BY <1>1, <1>3, <1>6, NotAlone DEF AloneAt, Running, Types
  <1>. DEFINE t == [task[a] EXCEPT !.st = "rename"]
  <1>9. task' = [task EXCEPT ![a] = t]
    BY DEF WriteTmp, Goes
  <1>10. /\ t \in [todo : Seq(OpsOf(a)), st : Stages, snap : Files, hold : {"none", "tmp", "file"}, alone : BOOLEAN]
         /\ t.todo = task[a].todo /\ t.st = "rename" /\ t.alone = task[a].alone
    BY TaskTypes DEF Running, Stages, WholeStages
  <1>11. t \in TaskOf(a) /\ t.st # "ready"
    BY <1>1, <1>10, NextStage DEF Running, WholeStages
  <1>. HIDE DEF t
  <1>12. task'[a] = t /\ BusyOn(n)' = BusyOn(n)
    BY <1>1, <1>9, <1>10, <1>11, GoesOn
  <1>13. task[a].alone => AloneAt(a, n)'
    BY <1>1, <1>2, <1>8, <1>10, <1>12, NotAlone DEF AloneAt, IsLive, WholeStages, LogStages
  <1>14. task[a].alone => Loaded(n)' = Loaded(n) /\ Loadable(file[n])' = Loadable(file[n])
    BY <1>8 DEF Loaded, Loadable
  <1>. QED  BY <1>1, <1>2, <1>7, <1>8, <1>9, <1>10, <1>11, <1>13, <1>14, GoStep DEF LogStages

\* The rename of a write that was alone gives the file what the memory holds.
LEMMA MemLoads ==
    ASSUME Types, NEW n \in Names, file'[n] = mem[n], mem[n].st # "absent"
    PROVE  Loaded(n)' = mem[n] /\ Loadable(file[n])' /\ ~file'[n].torn
  <1>1. mem[n] \in Stored(n)
    BY DEF Types, MemOf
  <1>2. mem[n] \in Files /\ ~mem[n].torn /\ mem[n].st \notin {"absent", "empty"}
    BY <1>1 DEF Stored, LiveFiles, LiveStatuses
  <1>3. mem[n] # Absent /\ mem[n] # Empty
    BY <1>2, Fresh
  <1>4. [mem[n] EXCEPT !.torn = FALSE] = mem[n]
    BY <1>2 DEF Files
  <1>. QED  BY <1>2, <1>3, <1>4 DEF Loaded, Loadable

LEMMA RenameTmpStep ==
    ASSUME Running, NEW n \in Names, NEW a \in Actors, RenameTmp(a, n)
    PROVE  Running' /\ Log!Next
  <1>1. a \in BusyOn(n) /\ task[a].st = "rename" /\ tmp[n] # Absent
    BY AtBusy DEF Running, RenameTmp
  <1>2. UNCHANGED <<mem, change, strayed, faults>> /\ file' = [file EXCEPT ![n] = tmp[n]]
        /\ tmp' = [tmp EXCEPT ![n] = Absent] /\ doubt' = [doubt EXCEPT ![n] = doubt[n] /\ ~task[a].alone]
    BY DEF RenameTmp, counts
  <1>3. OnlyOn(n) /\ file'[n] \in FileOf(n) /\ tmp'[n] \in TmpOf(n) /\ file'[n] = tmp[n]
    BY <1>2 DEF Running, Types, OnlyOn, TmpOf, FileOf
  <1>4. doubt' \in [Names -> BOOLEAN] /\ \A m \in Names \ {n} : doubt'[m] = doubt[m]
        /\ (doubt'[n] <=> doubt[n] /\ ~task[a].alone)
    BY <1>2, TaskTypes DEF Running, Types
  <1>5. EndsOn(a, n)
    <2>. DEFINE s == Moved("file", "none", n, task)
                r == Moved("tmp", "file", n, s)
    <2>1. task' = [r EXCEPT ![a] = Finished(a)]
      BY DEF RenameTmp
    <2>2. DOMAIN r = Actors /\ DOMAIN s = Actors
      BY DEF Moved
    <2>3. ASSUME NEW b \in Actors
          PROVE  \/ r[b] = task[b]
                 \/ b \in BusyOn(n) /\ \E h \in {"none", "file"} : r[b] = [task[b] EXCEPT !.hold = h]
      <3>1. s[b] = task[b] \/ (b \in BusyOn(n) /\ s[b] = [task[b] EXCEPT !.hold = "none"])
        BY DEF Moved
      <3>2. r[b] = s[b] \/ (b \in BusyOn(n) /\ s[b].hold = "tmp" /\ r[b] = [s[b] EXCEPT !.hold = "file"])
        BY DEF Moved
      <3>3. [task[b] EXCEPT !.hold = "none"].hold = "none"
        BY TaskTypes DEF Running
      <3>. QED  BY <3>1, <3>2, <3>3
    <2>. HIDE DEF r, s
    <2>. QED  BY <2>1, <2>2, <2>3 DEF EndsOn
  <1>6. task[a].alone => file'[n] = mem[n] /\ mem[n].st # "absent"
    BY <1>1, <1>3, NotAlone DEF AloneAt, IsLive, WholeStages
  <1>7. task[a].alone => Loaded(n)' = mem[n] /\ Loadable(file[n])' /\ ~file'[n].torn
    BY <1>6, MemLoads DEF Running
  <1>8. ~task[a].alone => doubt'[n]
    <2>1. ~task[a].alone => doubt[n]
      BY <1>1, NotAlone
    <2>2. doubt'[n] = (doubt[n] /\ ~task[a].alone)
      BY <1>2 DEF Running, Types
    <2>. QED  BY <2>1, <2>2, Zenon
  <1>9. Head(task[a].todo).op = "archive" => doubt'[n] \/ mem[n].st # "active"
    BY <1>1, <1>8, NotAlone DEF AloneAt
  <1>10. Head(task[a].todo).op # "remove"
    BY <1>1, BusyTypes DEF Running, WholeStages, Whole
  <1>. QED  BY <1>1, <1>2, <1>3, <1>4, <1>5, <1>7, <1>8, <1>9, <1>10, EndStep

LEMMA RenameFailsStep ==
    ASSUME Running, NEW n \in Names, NEW a \in Actors, RenameFails(a, n)
    PROVE  Running' /\ Log!Next
  <1>1. a \in BusyOn(n) /\ task[a].st = "rename" /\ tmp[n] = Absent
    BY AtBusy DEF Running, RenameFails
  <1>2. UNCHANGED <<mem, file, tmp, change, doubt, strayed, faults>>
    BY DEF RenameFails, disk, counts
  <1>3. OnlyOn(n) /\ file'[n] \in FileOf(n) /\ tmp'[n] \in TmpOf(n)
    BY <1>2 DEF Running, Types, OnlyOn
  <1>4. EndsOn(a, n)
    BY <1>1, GivesUpEnds DEF RenameFails
  <1>5. ~task[a].alone
    BY <1>1, NotAlone, Fresh DEF AloneAt, IsLive, WholeStages
  <1>6. doubt[n] /\ doubt' \in [Names -> BOOLEAN]
    BY <1>1, <1>2, <1>5, NotAlone DEF Running, Types
  <1>. QED  BY <1>1, <1>2, <1>3, <1>4, <1>5, <1>6, EndStep

\* An append creates the file if there is none, which loads as none.
LEMMA AbsentLoads == [Absent EXCEPT !.torn = FALSE] = Absent
  <1>1. Absent \in Files /\ Absent.torn = FALSE
    BY Fresh DEF Files
  <1>. QED  BY <1>1 DEF Files

LEMMA OpenLogStep ==
    ASSUME Running, NEW n \in Names, NEW a \in Actors, OpenLog(a, n)
    PROVE  Running' /\ Log!Next
  <1>1. a \in BusyOn(n) /\ task[a].st = "openlog" /\ n \in Keys /\ n # Book
    BY AtBusy, BusyTypes, KeysAssumption DEF Running, OpenLog, LogStages
  <1>2. UNCHANGED <<mem, tmp, change, doubt, strayed, faults>>
        /\ file' = [file EXCEPT ![n] = IF file[n] = Absent THEN Empty ELSE file[n]]
    BY DEF OpenLog, counts
  <1>3. OnlyOn(n) /\ file'[n] = (IF file[n] = Absent THEN Empty ELSE file[n])
        /\ file'[n] \in FileOf(n) /\ tmp'[n] \in TmpOf(n)
    BY <1>2 DEF Running, Types, OnlyOn, TmpOf, FileOf
  <1>. DEFINE t == [task[a] EXCEPT !.st = "writelog", !.hold = "file"]
  <1>4. task' = [task EXCEPT ![a] = t]
    BY DEF OpenLog
  <1>5. /\ t \in [todo : Seq(OpsOf(a)), st : Stages, snap : Files, hold : {"none", "tmp", "file"}, alone : BOOLEAN]
        /\ t.todo = task[a].todo /\ t.st = "writelog" /\ t.alone = task[a].alone /\ t.snap = task[a].snap
        /\ t.hold = "file"
    BY TaskTypes DEF Running, Stages, LogStages
  <1>6. t \in TaskOf(a) /\ t.st # "ready"
    BY <1>1, <1>5, NextStage DEF Running, LogStages
  <1>. HIDE DEF t
  <1>7. task'[a] = t /\ BusyOn(n)' = BusyOn(n)
    BY <1>1, <1>4, <1>5, <1>6, GoesOn
  <1>8. task[a].alone => AloneAt(a, n)'
    BY <1>1, <1>2, <1>5, <1>7, NotAlone DEF AloneAt, IsLive, WholeStages, LogStages
  <1>9. Loaded(n)' = Loaded(n) /\ file'[n].torn = file[n].torn
    <2>1. CASE file[n] = Absent
      <3>1. Loaded(n) = Absent
        BY <1>1, <2>1, Fresh, AbsentLoads DEF Loaded
      <3>2. Loaded(n)' = Absent
        BY <1>1, <1>3, <2>1, Fresh DEF Loaded
      <3>. QED  BY <1>3, <2>1, <3>1, <3>2, Fresh
    <2>2. CASE file[n] # Absent
      BY <1>3, <2>2 DEF Loaded
    <2>. QED  BY <2>1, <2>2
  <1>10. ~doubt[n] => Saying(a, n)
    BY <1>1 DEF Running, NameInv, LogStages
  <1>11. ~doubt[n] => Saying(a, n)'
    BY <1>2, <1>5, <1>7, <1>9, <1>10 DEF Saying
  <1>. QED  BY <1>1, <1>2, <1>3, <1>4, <1>5, <1>6, <1>8, <1>9, <1>11, GoStep

\* The line of a message that is alone and not in doubt is read as it was said.
LEMMA WriteLogStep ==
    ASSUME Running, NEW n \in Names, NEW a \in Actors, WriteLog(a, n)
    PROVE  Running' /\ Log!Next
  <1>1. a \in BusyOn(n) /\ task[a].st = "writelog" /\ n \in Keys /\ n # Book /\ Head(task[a].todo).op = "say"
    BY AtBusy, BusyTypes, KeysAssumption DEF Running, WriteLog, LogStages
  <1>2. UNCHANGED <<mem, tmp, change, doubt, strayed, faults>>
    BY DEF WriteLog, counts
  <1>. DEFINE f == Extended(file[n], task[a].snap.rev)
  <1>3. file' = IF task[a].hold = "file" THEN [file EXCEPT ![n] = f] ELSE file
    BY DEF WriteLog
  <1>4. file[n] \in Files /\ task[a].snap.rev \in Nat
    BY <1>1, Fresh, TaskTypes DEF Running, Types, FileOf, TmpOf, LiveFiles, Files
  <1>5. f \in Files /\ f.st = file[n].st /\ ~f.torn
    <2>1. CASE file[n].torn
      BY <1>4, <2>1 DEF Extended, Files
    <2>2. CASE ~file[n].torn
      <3>1. file[n].msgs \in Seq(Nat) /\ Append(file[n].msgs, task[a].snap.rev) \in Seq(Nat)
        BY <1>4 DEF Files
      <3>2. f = [file[n] EXCEPT !.msgs = Append(file[n].msgs, task[a].snap.rev)]
        BY <2>2 DEF Extended
      <3>. QED  BY <1>4, <2>2, <3>1, <3>2 DEF Files
    <2>. QED  BY <2>1, <2>2
  <1>6. f \in FileOf(n)
    BY <1>1, <1>5, Fresh DEF Running, Types, FileOf, TmpOf, LiveFiles
  <1>7. OnlyOn(n) /\ file'[n] \in FileOf(n) /\ tmp'[n] \in TmpOf(n)
    BY <1>2, <1>3, <1>6 DEF Running, Types, OnlyOn
  <1>8. doubt' \in [Names -> BOOLEAN]
    BY <1>2 DEF Running, Types
  <1>9. ~doubt[n] => Saying(a, n) /\ task[a].alone /\ task[a].hold = "file"
    BY <1>1, NotAlone DEF Running, NameInv, LogStages, AloneAt
  <1>10. ~doubt[n] => ~file'[n].torn /\ Loaded(n)' = mem[n]
    <2>. SUFFICES ASSUME ~doubt[n]
                  PROVE  ~file'[n].torn /\ Loaded(n)' = mem[n]
      OBVIOUS
    <2>1. file'[n] = f
      BY <1>3, <1>9 DEF Running, Types
    <2>2. ~file[n].torn /\ f = [file[n] EXCEPT !.msgs = Append(file[n].msgs, task[a].snap.rev)]
      BY <1>9 DEF Saying, Extended
    <2>3. file[n].st # "empty" /\ Loaded(n) = [file[n] EXCEPT !.torn = FALSE]
      BY <1>1, <1>9, Fresh DEF Saying, Loaded
    <2>4. Loaded(n) = file[n]
      BY <1>4, <2>2, <2>3 DEF Files
    <2>5. mem[n] = f
      BY <1>9, <2>2, <2>4 DEF Saying
    <2>. HIDE DEF f
    <2>6. Loaded(n)' = [f EXCEPT !.torn = FALSE]
      BY <1>1, <1>5, <2>1, <2>3 DEF Loaded
    <2>. QED  BY <1>5, <2>1, <2>5, <2>6 DEF Files
  <1>11. EndsOn(a, n)
    BY <1>1 DEF WriteLog, Done, EndsOn, Running, Types
  <1>12. doubt[n] \/ task[a].alone
    BY <1>9
  <1>. QED  BY <1>1, <1>2, <1>7, <1>8, <1>9, <1>10, <1>11, EndStep

LEMMA UnlinkStep ==
    ASSUME Running, NEW n \in Names, NEW a \in Actors, Unlink(a, n)
    PROVE  Running' /\ Log!Next
  <1>1. a \in BusyOn(n) /\ task[a].st = "unlink" /\ n \in Keys /\ n # Book
    BY AtBusy, BusyTypes, KeysAssumption DEF Running, Unlink
  <1>2. UNCHANGED <<mem, tmp, change, doubt, strayed, faults>> /\ file' = [file EXCEPT ![n] = Absent]
    BY DEF Unlink, counts
  <1>3. OnlyOn(n) /\ file'[n] = Absent /\ file'[n] \in FileOf(n) /\ tmp'[n] \in TmpOf(n)
    BY <1>2 DEF Running, Types, OnlyOn, TmpOf, FileOf
  <1>4. doubt' \in [Names -> BOOLEAN]
    BY <1>2 DEF Running, Types
  <1>5. EndsOn(a, n)
    <2>. DEFINE s == Moved("file", "none", n, task)
    <2>1. task' = [s EXCEPT ![a] = Finished(a)]
      BY DEF Unlink
    <2>2. /\ DOMAIN s = Actors
          /\ \A b \in Actors : s[b] = task[b] \/ (b \in BusyOn(n) /\ s[b] = [task[b] EXCEPT !.hold = "none"])
      BY DEF Moved
    <2>. HIDE DEF s
    <2>. QED  BY <2>1, <2>2 DEF EndsOn
  <1>6. Loaded(n)' = Absent /\ ~file'[n].torn
    BY <1>1, <1>3, Fresh, AbsentLoads DEF Loaded
  <1>7. task[a].alone => mem[n] = Absent
    BY <1>1, NotAlone DEF AloneAt
  <1>8. ~task[a].alone => doubt[n]
    BY <1>1, NotAlone
  <1>. QED  BY <1>1, <1>2, <1>3, <1>4, <1>5, <1>6, <1>7, <1>8, Fresh, EndStep

\* A failing call puts its name in doubt.
LEMMA FaultStep ==
    ASSUME Running, NEW n \in Names, NEW a \in Actors, Fault(a, n)
    PROVE  Running' /\ Log!Next
  <1>1. a \in BusyOn(n)
    BY DEF Fault, BusyOn
  <1>2. UNCHANGED <<mem, tmp, change>> /\ faults' = faults + 1 /\ GivesUp(a)
        /\ doubt' = [doubt EXCEPT ![n] = TRUE] /\ strayed' = strayed \cup {n}
    BY DEF Fault, Doubt
  <1>3. PICK piece \in BOOLEAN :
            /\ piece => task[a].st = "writelog"
            /\ file' = [file EXCEPT ![n].torn = file[n].torn \/ piece]
    BY DEF Fault
  <1>4. file[n] \in Files
    BY Fresh DEF Running, Types, FileOf, TmpOf, LiveFiles
  <1>. DEFINE f == [file[n] EXCEPT !.torn = file[n].torn \/ piece]
  <1>5. f \in Files /\ f.st = file[n].st /\ (~piece => f = file[n])
    BY <1>4 DEF Files
  <1>6. n = Book => ~piece
    BY <1>1, <1>3, BusyTypes, KeysAssumption DEF Running, LogStages
  <1>7. f \in FileOf(n)
    BY <1>5, <1>6, Fresh DEF Running, Types, FileOf, TmpOf, LiveFiles
  <1>8. OnlyOn(n) /\ file'[n] = f
    BY <1>2, <1>3 DEF Running, Types, OnlyOn
  <1>. HIDE DEF f
  <1>9. EndsOn(a, n)
    BY <1>1, <1>2, GivesUpEnds
  <1>10. /\ \A m \in Names \ {n} : BusyOn(m)' = BusyOn(m) /\ \A b \in BusyOn(m) : task'[b] = task[b]
         /\ Proceeds(a, n)
         /\ DOMAIN task' = Actors /\ \A b \in Actors : task'[b] \in TaskOf(b)
    BY <1>1, <1>9, Ending
  <1>11. /\ doubt' \in [Names -> BOOLEAN] /\ doubt'[n] /\ \A m \in Names \ {n} : doubt'[m] = doubt[m]
         /\ strayed' \subseteq Names /\ n \in strayed' /\ strayed \subseteq strayed'
         /\ \A m \in Names \ {n} : m \in strayed' <=> m \in strayed
    BY <1>2 DEF Running, Types
  <1>12. \A m \in Names \ {n} : Same(m)
    BY <1>2, <1>8, <1>10, <1>11 DEF Same, OnlyOn
  <1>13. Types'
    BY <1>2, <1>7, <1>8, <1>10, <1>11 DEF Running, Types, OnlyOn
  <1>14. NameInv(n)'
    BY <1>1, <1>2, <1>9, <1>11, EndsName
  <1>15. Running'
    BY <1>1, <1>2, <1>10, <1>11, <1>12, <1>13, <1>14, DiskStep
  <1>16. Log!Fail(n)
    <2>1. \A m \in Names \ {n} : Durable'[m] = Durable[m] /\ InProgress'[m] = InProgress[m]
      BY <1>12, SameKeeps DEF Running, Durable, InProgress, Same
    <2>2. InProgress[n]
      BY <1>1 DEF InProgress
    <2>. QED  BY <1>2, <2>1, <2>2 DEF Log!Fail, Log!Others
  <1>. QED  BY <1>15, <1>16 DEF Log!Next

------------------------------------------------------------------------------
(* An operation changes the memory *)

LEMMA ChangedTypes ==
    ASSUME NEW n \in Names, NEW f \in MemOf(n), NEW o, o.name = n, NEW v \in Nat,
           o.op \in Kinds \ {"turn", "title"}, o.op = "save" <=> n = Book,
           (o.op = "create") = ~(f.st \notin {"absent"})
    PROVE  /\ Changed(o, f, v) \in MemOf(n)
           /\ o.op \in Whole => Changed(o, f, v).st # "absent"
           /\ o.op = "remove" => Changed(o, f, v) = Absent
           /\ o.op = "archive" => Changed(o, f, v).st = "archived"
           /\ o.op \in QuietKinds => Changed(o, f, v).st = f.st
           /\ Changed(o, f, v).st = "active" => f.st = "active" \/ Opens(o)
  <1>. DEFINE g == Changed(o, f, v)
  <1>1. f \in Files /\ f.msgs \in Seq(Nat) /\ ~f.torn
        /\ f.st \in (IF n = Book THEN {"book"} ELSE {"absent", "active", "archived"})
    BY Fresh DEF MemOf, Stored, LiveFiles, LiveStatuses, Files
  <1>2. \A h \in Files : ~h.torn /\ h.st \in LiveStatuses(n) => h \in MemOf(n)
    BY DEF MemOf, Stored, LiveFiles
  <1>3. Append(f.msgs, v) \in Seq(Nat) /\ <<>> \in Seq(Nat)
    BY <1>1
  <1>4. CASE o.op = "create"
    <2>1. g = File("active", v, <<>>)
      BY <1>4 DEF Changed
    <2>2. g \in Files /\ ~g.torn /\ g.st = "active" /\ n # Book
      BY <1>3, <1>4, <2>1 DEF File, Files
    <2>. QED  BY <1>2, <1>4, <2>2 DEF LiveStatuses, Opens, QuietKinds
  <1>5. CASE o.op = "remove"
    <2>1. g = Absent /\ n # Book
      BY <1>5 DEF Changed
    <2>. QED  BY <1>5, <2>1, Fresh DEF MemOf, QuietKinds, Whole
  <1>6. CASE o.op \notin {"create", "remove"}
    <2>1. f.st \in LiveStatuses(n)
      BY <1>1, <1>6 DEF LiveStatuses
    <2>2. CASE o.op = "archive"
      <3>1. g = [f EXCEPT !.st = "archived", !.rev = v]
        BY <2>2 DEF Changed
      <3>2. g \in Files /\ ~g.torn /\ g.st = "archived" /\ n # Book
        BY <1>1, <2>2, <3>1 DEF Files
      <3>. QED  BY <1>2, <2>2, <3>2 DEF LiveStatuses, QuietKinds
    <2>3. CASE o.op = "activate"
      <3>1. g = [f EXCEPT !.st = "active", !.rev = v]
        BY <2>3 DEF Changed
      <3>2. g \in Files /\ ~g.torn /\ g.st = "active" /\ n # Book
        BY <1>1, <2>3, <3>1 DEF Files
      <3>. QED  BY <1>2, <2>3, <3>2 DEF LiveStatuses, QuietKinds, Opens
    <2>4. CASE o.op \in {"say", "branch", "touch", "save"}
      <3>1. \/ g = [f EXCEPT !.msgs = Append(f.msgs, v)]
            \/ g = [f EXCEPT !.msgs = Append(f.msgs, v), !.rev = v]
            \/ g = [f EXCEPT !.rev = v]
        BY <2>4 DEF Changed
      <3>2. g \in Files /\ ~g.torn /\ g.st = f.st
        BY <1>1, <1>3, <3>1 DEF Files
      <3>. QED  BY <1>1, <1>2, <2>1, <2>4, <3>2 DEF LiveStatuses
    <2>. QED  BY <1>6, <2>2, <2>3, <2>4 DEF Kinds, QuietKinds
  <1>. QED  BY <1>4, <1>5, <1>6

\* What an operation does under the lock, as an action of its name.
Applied(a, o, n) ==
    /\ Applies(o) /\ UNCHANGED <<file, tmp, faults>> /\ change' = change + 1
    /\ mem' = [mem EXCEPT ![n] = Changed(o, mem[n], change + 1)]
    /\ task' = [b \in Actors |->
                  IF b = a THEN [task[a] EXCEPT !.st = FirstStep(o),
                                     !.snap = [Absent EXCEPT !.rev = change + 1],
                                     !.alone = BusyOn(n) = {}]
                  ELSE IF b \in BusyOn(n) THEN [task[b] EXCEPT !.alone = FALSE]
                  ELSE task[b]]
    /\ IF BusyOn(n) # {} THEN Doubt(n) ELSE UNCHANGED <<doubt, strayed>>

LEMMA AppliedTasks ==
    ASSUME Running, NEW a \in Actors, NEW n \in Names, NEW o \in OpsOf(a), o.name = n,
           task[a].st = "ready", task[a].todo # <<>>, o = Head(task[a].todo),
           o.op \notin {"turn", "title"}, Applied(a, o, n)
    PROVE  /\ DOMAIN task' = Actors /\ \A b \in Actors : task'[b] \in TaskOf(b)
           /\ \A b \in Actors : task'[b].todo = task[b].todo
           /\ \A b \in BusyOn(n) : ~task'[b].alone
           /\ BusyOn(n)' = BusyOn(n) \cup {a}
           /\ \A m \in Names \ {n} : BusyOn(m)' = BusyOn(m) /\ \A b \in BusyOn(m) : task'[b] = task[b]
           /\ task'[a].st = FirstStep(o) /\ task'[a].snap.rev = change + 1
           /\ task'[a].alone = (BusyOn(n) = {})
  <1>1. DOMAIN task' = Actors
    BY DEF Applied
  <1>2. FirstStep(o) \in {"openlog", "unlink", "snap"} /\ FirstStep(o) # "ready"
    BY DEF FirstStep
  <1>3. change + 1 \in Nat
    BY DEF Running, Types
  <1>4. [Absent EXCEPT !.rev = change + 1] \in Files /\ [Absent EXCEPT !.rev = change + 1].rev = change + 1
    BY <1>3, Fresh DEF Files
  <1>. DEFINE t == [task[a] EXCEPT !.st = FirstStep(o), !.snap = [Absent EXCEPT !.rev = change + 1],
                                   !.alone = BusyOn(n) = {}]
  <1>5. task'[a] = t
    BY DEF Applied
  <1>6. /\ t \in [todo : Seq(OpsOf(a)), st : Stages, snap : Files, hold : {"none", "tmp", "file"}, alone : BOOLEAN]
        /\ t.todo = task[a].todo /\ t.st = FirstStep(o) /\ t.snap.rev = change + 1 /\ t.alone = (BusyOn(n) = {})
    BY <1>2, <1>4, TaskTypes DEF Running, Stages, WholeStages, LogStages
  <1>. HIDE DEF t
  <1>7. /\ FirstStep(o) \in WholeStages => o.op \in Whole
        /\ FirstStep(o) \in LogStages => o.op = "say"
        /\ FirstStep(o) = "unlink" => o.op = "remove"
    BY DEF FirstStep, WholeStages, LogStages, OpsOf, Kinds, QuietKinds, Whole
  <1>8. t \in TaskOf(a)
    BY <1>2, <1>6, <1>7 DEF TaskOf
  <1>9. ASSUME NEW b \in Actors \ {a}
        PROVE  /\ task'[b] \in TaskOf(b) /\ task'[b].todo = task[b].todo /\ task'[b].st = task[b].st
               /\ b \in BusyOn(n) => ~task'[b].alone
               /\ b \notin BusyOn(n) => task'[b] = task[b]
    <2>1. task[b] \in TaskOf(b)
      BY TaskTypes DEF Running
    <2>2. CASE b \in BusyOn(n)
      <3>1. task'[b] = [task[b] EXCEPT !.alone = FALSE]
        BY <2>2 DEF Applied
      <3>. QED  BY <2>1, <2>2, <3>1 DEF TaskOf
    <2>3. CASE b \notin BusyOn(n)
      BY <2>1, <2>3 DEF Applied
    <2>. QED  BY <2>2, <2>3
  <1>10. \A m \in Names : a \notin BusyOn(m) /\ BusyOn(m) \subseteq Actors /\ BusyOn(m)' \subseteq Actors
    BY DEF BusyOn, Busy
  <1>11. \A m \in Names, b \in Actors \ {a} : b \in BusyOn(m)' <=> b \in BusyOn(m)
    BY <1>9 DEF BusyOn, Busy
  <1>12. \A m \in Names : a \in BusyOn(m)' <=> m = n
    BY <1>2, <1>5, <1>6 DEF BusyOn, Busy
  <1>13. BusyOn(n)' = BusyOn(n) \cup {a}
    BY <1>10, <1>11, <1>12
  <1>14. \A m \in Names \ {n} : BusyOn(m)' = BusyOn(m)
    BY <1>10, <1>11, <1>12
  <1>15. \A m \in Names \ {n} : \A b \in BusyOn(m) : b \in Actors \ {a} /\ b \notin BusyOn(n)
    BY <1>10 DEF BusyOn
  <1>16. \A m \in Names \ {n} : \A b \in BusyOn(m) : task'[b] = task[b]
    BY <1>9, <1>15
  <1>17. \A b \in Actors : task'[b] \in TaskOf(b) /\ task'[b].todo = task[b].todo
    BY <1>5, <1>6, <1>8, <1>9
  <1>18. \A b \in BusyOn(n) : ~task'[b].alone
    BY <1>9, <1>10
  <1>. QED  BY <1>1, <1>5, <1>6, <1>13, <1>14, <1>16, <1>17, <1>18

LEMMA AppliedName ==
    ASSUME Running, NEW a \in Actors, NEW n \in Names, NEW o \in OpsOf(a), o.name = n,
           task[a].st = "ready", task[a].todo # <<>>, o = Head(task[a].todo),
           o.op \notin {"turn", "title"}, Applied(a, o, n)
    PROVE  NameInv(n)' /\ (doubt[n] => doubt'[n])
  <1>1. /\ \A b \in BusyOn(n) : ~task'[b].alone
        /\ BusyOn(n)' = BusyOn(n) \cup {a}
        /\ task'[a].st = FirstStep(o) /\ task'[a].snap.rev = change + 1
        /\ task'[a].alone = (BusyOn(n) = {}) /\ task'[a].todo = task[a].todo
    BY AppliedTasks
  <1>2. CASE BusyOn(n) # {}
    <2>1. doubt'[n] /\ n \in strayed'
      BY <1>2 DEF Applied, Doubt, Running, Types
    <2>2. \A b \in BusyOn(n)' : ~task'[b].alone
      BY <1>1, <1>2
    <2>. QED  BY <2>1, <2>2 DEF NameInv
  <1>3. CASE BusyOn(n) = {}
    <2>1. UNCHANGED <<doubt, strayed, file, tmp>> /\ BusyOn(n)' = {a} /\ task'[a].alone
      BY <1>1, <1>3 DEF Applied
    <2>2. NameInv(n) /\ mem[n] \in MemOf(n) /\ change + 1 \in Nat
      BY DEF Running, Types
    <2>3. mem'[n] = Changed(o, mem[n], change + 1)
      BY DEF Applied, Running, Types
    <2>4. /\ o.op \in Whole => mem'[n].st # "absent"
          /\ o.op = "remove" => mem'[n] = Absent
          /\ o.op = "archive" => mem'[n].st = "archived"
          /\ o.op \in QuietKinds => mem'[n].st = mem[n].st
      <3>1. (o.op = "create") = ~(mem[n].st \notin {"absent"})
        BY DEF Applied, Applies, IsLive
      <3>2. o.op \in Kinds \ {"turn", "title"} /\ (o.op = "save" <=> n = Book)
        BY DEF OpsOf
      <3>. QED  BY <2>2, <2>3, <3>1, <3>2, ChangedTypes
    <2>5. /\ FirstStep(o) = "openlog" => o.op = "say"
          /\ FirstStep(o) = "unlink" => o.op = "remove"
          /\ FirstStep(o) = "snap" => o.op \in Whole
          /\ FirstStep(o) \in {"openlog", "unlink", "snap"}
      BY DEF FirstStep, OpsOf, Kinds, QuietKinds, Whole
    <2>6. AloneAt(a, n)'
      BY <1>1, <2>1, <2>4, <2>5 DEF AloneAt, IsLive, WholeStages
    <2>7. Loaded(n)' = Loaded(n)
      BY <2>1 DEF Loaded
    <2>8. ASSUME ~doubt[n]
          PROVE  Loaded(n) = mem[n] /\ (FirstStep(o) \in LogStages => Saying(a, n)')
                 /\ (a # "loop" => Loaded(n).st = mem'[n].st)
      <3>1. Loaded(n) = mem[n]
        BY <1>3, <2>2, <2>8 DEF NameInv
      <3>2. a # "loop" => mem'[n].st = mem[n].st
        BY <2>4 DEF OpsOf
      <3>3. ASSUME FirstStep(o) \in LogStages
            PROVE  Saying(a, n)'
        <4>1. o.op = "say" /\ n # Book /\ n \in Keys
          BY <2>5, <3>3, Named DEF LogStages, OpsOf
        <4>2. mem[n].st # "absent"
          BY <4>1 DEF Applied, Applies, IsLive
        <4>3. mem'[n] = [mem[n] EXCEPT !.msgs = Append(mem[n].msgs, change + 1)]
          BY <2>3, <4>1 DEF Changed
        <4>4. ~file[n].torn
          <5>1. Len(task[a].todo) \in Nat \ {0} /\ Head(task[a].todo) = task[a].todo[1]
            BY Programming, TaskTypes DEF Running
          <5>2. ~Heals(n, task[a].todo)
            BY <4>1, <5>1 DEF Heals
          <5>. QED  BY <2>8, <4>1, <5>2 DEF Running, TornInv
        <4>. QED  BY <1>1, <2>1, <2>7, <3>1, <4>2, <4>3, <4>4 DEF Saying
      <3>. QED  BY <3>1, <3>2, <3>3
    <2>. QED  BY <1>1, <2>1, <2>2, <2>6, <2>7, <2>8 DEF NameInv
  <1>4. doubt[n] => doubt'[n]
    BY DEF Applied, Doubt, Running, Types
  <1>. QED  BY <1>2, <1>3, <1>4

LEMMA AppliedStep ==
    ASSUME Running, NEW a \in Actors, NEW n \in Names, NEW o \in OpsOf(a), o.name = n,
           task[a].st = "ready", task[a].todo # <<>>, o = Head(task[a].todo),
           o.op \notin {"turn", "title"}, Applied(a, o, n)
    PROVE  Running' /\ Log!Next
  <1>1. /\ DOMAIN task' = Actors /\ \A b \in Actors : task'[b] \in TaskOf(b)
        /\ \A b \in Actors : task'[b].todo = task[b].todo
        /\ BusyOn(n)' = BusyOn(n) \cup {a}
        /\ \A m \in Names \ {n} : BusyOn(m)' = BusyOn(m) /\ \A b \in BusyOn(m) : task'[b] = task[b]
    BY AppliedTasks
  <1>2. UNCHANGED <<file, tmp, faults>> /\ change' = change + 1
        /\ mem' = [mem EXCEPT ![n] = Changed(o, mem[n], change + 1)]
    BY DEF Applied
  <1>3. /\ doubt' \in [Names -> BOOLEAN] /\ strayed' \subseteq Names
        /\ \A m \in Names \ {n} : doubt'[m] = doubt[m] /\ (m \in strayed' <=> m \in strayed)
        /\ strayed \subseteq strayed'
    BY DEF Applied, Doubt, Running, Types
  <1>4. /\ Changed(o, mem[n], change + 1) \in MemOf(n)
        /\ Changed(o, mem[n], change + 1).st = "active" => mem[n].st = "active" \/ Opens(o)
    <2>1. (o.op = "create") = ~(mem[n].st \notin {"absent"})
      BY DEF Applied, Applies, IsLive
    <2>2. o.op \in Kinds \ {"turn", "title"} /\ (o.op = "save" <=> n = Book)
      BY DEF OpsOf
    <2>3. mem[n] \in MemOf(n) /\ change + 1 \in Nat
      BY DEF Running, Types
    <2>. QED  BY <2>1, <2>2, <2>3, ChangedTypes
  <1>. DEFINE g == Changed(o, mem[n], change + 1)
  <1>. HIDE DEF g
  <1>5. mem'[n] = g /\ DOMAIN mem' = Names /\ \A m \in Names \ {n} : mem'[m] = mem[m]
    BY <1>2 DEF Running, Types, g
  <1>6. Types'
    <2>1. \A m \in Names : mem'[m] \in MemOf(m)
      BY <1>4, <1>5 DEF Running, Types, g
    <2>2. change' \in Nat
      BY <1>2 DEF Running, Types
    <2>. QED  BY <1>1, <1>2, <1>3, <1>5, <2>1, <2>2 DEF Running, Types
  <1>7. \A m \in Names \ {n} : Same(m)
    BY <1>1, <1>2, <1>3, <1>5 DEF Same
  <1>8. NameInv(n)' /\ (doubt[n] => doubt'[n])
    BY AppliedName
  <1>9. \A m \in Names : NameInv(m)'
    BY <1>7, <1>8, SameKeeps DEF Running
  <1>10. \A m \in Names : Loaded(m)' = Loaded(m)
    BY <1>2 DEF Loaded
  <1>11. TornInv'
    <2>1. \A m \in Keys : ~doubt'[m] => ~doubt[m]
      BY <1>3, <1>8, Named
    <2>. QED  BY <1>1, <1>2, <2>1 DEF Running, TornInv
  <1>12. ActiveInv'
    <2>. SUFFICES ASSUME strayed' \cap Keys = {}
                  PROVE  (\A k, j \in Holders' : k = j) /\ Clears(task'["loop"].todo, Holders')
      BY DEF ActiveInv
    <2>1. (\A k, j \in Holders : k = j) /\ Clears(task["loop"].todo, Holders)
      BY <1>3 DEF Running, ActiveInv
    <2>2. task'["loop"].todo = task["loop"].todo
      BY <1>1 DEF Actors
    <2>3. Holders' \subseteq Holders \cup {n}
      BY <1>5, <1>10, Named DEF Holders
    <2>4. CASE Opens(o)
      <3>1. a = "loop"
        BY <2>4 DEF Opens, OpsOf, QuietKinds
      <3>2. Len(task[a].todo) \in Nat \ {0} /\ o = task[a].todo[1]
        BY Programming, TaskTypes DEF Running
      <3>3. \A k \in Holders : k = n
        BY <2>1, <2>4, <3>1, <3>2 DEF Clears
      <3>4. \A k \in Holders' : k = n
        BY <2>3, <3>3
      <3>5. \A i \in 1..Len(task[a].todo) : Opens(task[a].todo[i]) => i = 1
        BY <2>1, <2>4, <3>1, <3>2 DEF Clears
      <3>6. Clears(task["loop"].todo, Holders')
        BY <3>1, <3>2, <3>4, <3>5 DEF Clears
      <3>. QED  BY <2>2, <3>4, <3>6
    <2>5. CASE ~Opens(o)
      <3>1. Holders' \subseteq Holders
        BY <1>4, <1>5, <1>10, <2>5, Named DEF Holders, g
      <3>2. Clears(task["loop"].todo, Holders')
        BY <2>1, <3>1, ClearsFewer
      <3>. QED  BY <2>1, <2>2, <3>1, <3>2
    <2>. QED  BY <2>4, <2>5
  <1>13. Log!Begin(n)
    <2>1. Durable' = Durable
      BY <1>10 DEF Durable
    <2>2. InProgress' = [InProgress EXCEPT ![n] = TRUE]
      BY <1>1 DEF InProgress
    <2>3. doubt' = [doubt EXCEPT ![n] = doubt[n] \/ InProgress[n]]
      <3>1. InProgress[n] = (BusyOn(n) # {})
        BY DEF InProgress
      <3>2. CASE BusyOn(n) # {}
        <4>1. doubt' = [doubt EXCEPT ![n] = TRUE] /\ (doubt[n] \/ InProgress[n]) = TRUE
          BY <3>1, <3>2 DEF Applied, Doubt
        <4>. QED  BY <4>1
      <3>3. CASE BusyOn(n) = {}
        <4>1. doubt' = doubt /\ (doubt[n] \/ InProgress[n]) = doubt[n]
          BY <3>1, <3>3 DEF Applied, Running, Types
        <4>. QED  BY <4>1 DEF Running, Types
      <3>. QED  BY <3>2, <3>3
    <2>. QED  BY <1>2, <1>5, <2>1, <2>2, <2>3 DEF Log!Begin, Log!Others
  <1>. QED  BY <1>6, <1>9, <1>11, <1>12, <1>13 DEF Running, Log!Next

------------------------------------------------------------------------------
(* An actor gets a program *)

\* A program that fits what the files and the sessions are now.
Fits(b, s) ==
    /\ s \in Seq(OpsOf(b))
    /\ \A n \in Keys : ~doubt[n] /\ file[n].torn => Heals(n, s)
    /\ b = "loop" /\ strayed \cap Keys = {} => Clears(s, Holders)

LEMMA Replanned ==
    ASSUME Running, UNCHANGED <<mem, file, tmp, change, doubt, strayed, faults>>, DOMAIN task' = Actors,
           \A b \in Actors :
              \/ task'[b] = task[b]
              \/ \E s : task[b].st = "ready" /\ Fits(b, s) /\ task'[b] = [task[b] EXCEPT !.todo = s]
    PROVE  Running' /\ UNCHANGED Log!logVars
  <1>1. ASSUME NEW b \in Actors
        PROVE  /\ task'[b] \in TaskOf(b) /\ task'[b].st = task[b].st
               /\ Busy(b) => task'[b] = task[b]
               /\ task'[b].todo = task[b].todo \/ Fits(b, task'[b].todo)
    <2>1. CASE task'[b] = task[b]
      BY <2>1, TaskTypes DEF Running
    <2>2. CASE \E s : task[b].st = "ready" /\ Fits(b, s) /\ task'[b] = [task[b] EXCEPT !.todo = s]
      <3>1. PICK s : task[b].st = "ready" /\ Fits(b, s) /\ task'[b] = [task[b] EXCEPT !.todo = s]
        BY <2>2
      <3>2. s \in Seq(OpsOf(b))
        BY <3>1 DEF Fits
      <3>3. /\ task'[b] \in [todo : Seq(OpsOf(b)), st : Stages, snap : Files, hold : {"none", "tmp", "file"}, alone : BOOLEAN]
            /\ task'[b].st = "ready" /\ task'[b].todo = s
        BY <3>1, <3>2, TaskTypes DEF Running
      <3>. QED  BY <3>1, <3>3 DEF TaskOf, Busy
    <2>. QED  BY <1>1, <2>1, <2>2
  <1>2. ASSUME NEW m \in Names
        PROVE  BusyOn(m)' = BusyOn(m) /\ Same(m)
    <2>1. BusyOn(m)' = BusyOn(m)
      BY <1>1 DEF BusyOn, Busy
    <2>2. \A b \in BusyOn(m) : task'[b] = task[b]
      BY <1>1 DEF BusyOn
    <2>. QED  BY <2>1, <2>2 DEF Same
  <1>3. \A m \in Names : NameInv(m)' /\ Loaded(m)' = Loaded(m)
    BY <1>2, SameKeeps DEF Running
  <1>4. Types'
    BY <1>1 DEF Running, Types
  <1>5. TornInv'
    <2>. SUFFICES ASSUME NEW n \in Keys, ~doubt'[n], file'[n].torn, NEW b \in Actors
                  PROVE  Heals(n, task'[b].todo)
      BY DEF TornInv
    <2>1. Heals(n, task[b].todo)
      BY DEF Running, TornInv
    <2>2. Fits(b, task'[b].todo) => Heals(n, task'[b].todo)
      BY DEF Fits
    <2>. QED  BY <1>1, <2>1, <2>2
  <1>6. ActiveInv'
    <2>1. Holders' = Holders
      BY <1>3, Named DEF Holders
    <2>2. task'["loop"].todo = task["loop"].todo \/ Fits("loop", task'["loop"].todo)
      BY <1>1 DEF Actors
    <2>3. strayed \cap Keys = {} => Clears(task'["loop"].todo, Holders)
      BY <2>2 DEF Running, ActiveInv, Fits
    <2>. QED  BY <2>1, <2>3 DEF Running, ActiveInv
  <1>7. Durable' = Durable /\ InProgress' = InProgress
    BY <1>2, <1>3 DEF Durable, InProgress
  <1>. QED  BY <1>2, <1>3, <1>4, <1>5, <1>6, <1>7 DEF Running, Log!logVars

\* One actor, between two operations, gets a program.
LEMMA RunStep ==
    ASSUME Running, UNCHANGED <<mem, file, tmp, change, doubt, strayed, faults>>, NEW a \in Actors,
           task[a].st = "ready", NEW s, Run(a, s), Fits(a, s)
    PROVE  Running' /\ UNCHANGED Log!logVars
  <1>1. DOMAIN task' = Actors /\ task'[a] = [task[a] EXCEPT !.todo = s]
        /\ \A b \in Actors \ {a} : task'[b] = task[b]
    BY DEF Run, Running, Types
  <1>. QED  BY <1>1, Replanned

LEMMA NothingFits == ASSUME NEW b PROVE Fits(b, <<>>)
  BY NothingToDo DEF Fits

LEMMA Between ==
    ASSUME Types, NEW a \in Actors, task[a].todo = <<>> \/ Head(task[a].todo).op \in {"turn", "title"}
    PROVE  task[a].st = "ready"
  BY TaskTypes DEF TaskOf, Stages, WholeStages, LogStages, Whole

\* While the loop is at rest, the disk and the memory agree on what is active.
LEMMA HeldActive ==
    ASSUME Running, Idle, strayed \cap Keys = {}
    PROVE  Holders = Actives /\ \A k, j \in Actives : k = j
  <1>1. "loop" \in Actors /\ task["loop"].st = "ready"
    BY Between DEF Running, Idle, Actors
  <1>2. ASSUME NEW k \in Keys
        PROVE  Loaded(k).st = mem[k].st
    <2>1. ~doubt[k]
      BY Named DEF Running, NameInv
    <2>2. "loop" \notin BusyOn(k)
      BY <1>1 DEF BusyOn, Busy
    <2>. QED  BY <2>1, <2>2, Named DEF Running, NameInv
  <1>3. Holders = Actives
    BY <1>2 DEF Holders, Actives
  <1>. QED  BY <1>3 DEF Running, ActiveInv

LEMMA ChangeStep ==
    ASSUME Running, NEW a \in Actors, Change(a)
    PROVE  Running' /\ [Log!Next]_(Log!logVars)
  <1>. DEFINE o == Head(task[a].todo)
              n == o.name
  <1>1. task[a].todo # <<>> /\ task[a].st = "ready" /\ o.op \notin {"turn", "title"}
    BY DEF Change, Busy
  <1>2. o \in OpsOf(a) /\ n \in Names
    <2>1. task[a].todo \in Seq(OpsOf(a))
      BY TaskTypes DEF Running
    <2>2. o \in OpsOf(a)
      BY <1>1, <2>1, Programming
    <2>. QED  BY <2>2 DEF OpsOf
  <1>3. CASE Applies(o)
    <2>1. Applied(a, o, n)
      BY <1>3 DEF Change, Applied, disk
    <2>. HIDE DEF o, n
    <2>2. o = Head(task[a].todo) /\ o.name = n
      BY DEF o, n
    <2>. QED  BY <1>1, <1>2, <2>1, <2>2, AppliedStep
  <1>4. CASE ~Applies(o)
    <2>1. Run(a, <<>>) /\ UNCHANGED <<mem, file, tmp, change, doubt, strayed, faults>>
      BY <1>4 DEF Change, disk
    <2>. QED  BY <1>1, <2>1, NothingFits, RunStep
  <1>. QED  BY <1>3, <1>4

------------------------------------------------------------------------------
(* The programs of the handlers *)

LEMMA OpTypes ==
    /\ \A op, n : Op(op, n).op = op /\ Op(op, n).name = n
    /\ \A op \in Kinds \ {"save"}, k \in Keys : Op(op, k) \in OpsOf("loop")
    /\ \A op \in QuietKinds \ {"save"}, k \in Keys : \A a : Op(op, k) \in OpsOf(a)
    /\ \A a : Op("save", Book) \in OpsOf(a)
  BY KeysAssumption, Named DEF Op, OpsOf, Kinds, QuietKinds

\* In whatever order a set of sessions is archived, each of them is, if there is
\* one at most.
LEMMA EachArchived ==
    ASSUME NEW S \in SUBSET Keys, NEW e \in EachOf("archive", S)
    PROVE  /\ e \in Seq(OpsOf("loop")) /\ Len(e) \in Nat
           /\ \A i \in 1..Len(e) : e[i].op = "archive" /\ e[i].name \in S
           /\ (\A x, y \in S : x = y) => \A x \in S : \E i \in 1..Len(e) : e[i].name = x
  <1>1. IsFiniteSet(S) /\ Cardinality(S) \in Nat
    BY KeysAssumption, FS_Subset, FS_CardinalityType
  <1>2. PICK s \in SetToSeqs(S) : e = [i \in DOMAIN s |-> Op("archive", s[i])]
    BY DEF EachOf
  <1>3. s \in [1..Cardinality(S) -> S]
    BY <1>2 DEF SetToSeqs
  <1>4. \A i \in 1..Cardinality(S) : s[i] \in S /\ e[i] = Op("archive", s[i])
    BY <1>2, <1>3
  <1>5. \A i \in 1..Cardinality(S) : e[i] \in OpsOf("loop") /\ e[i].op = "archive" /\ e[i].name = s[i]
    BY <1>4, OpTypes DEF Kinds
  <1>6. DOMAIN e = 1..Cardinality(S)
    BY <1>2, <1>3
  <1>7. e \in [1..Cardinality(S) -> OpsOf("loop")]
    BY <1>2, <1>5, <1>6
  <1>8. e \in Seq(OpsOf("loop")) /\ Len(e) = Cardinality(S)
    BY <1>1, <1>7
  <1>9. ASSUME \A x, y \in S : x = y, NEW x \in S
        PROVE  \E i \in 1..Len(e) : e[i].name = x
    <2>1. S = {x}
      BY <1>9
    <2>2. Cardinality(S) = 1
      BY <2>1, FS_Singleton
    <2>3. e[1].name = x
      BY <1>4, <1>5, <1>9, <2>2
    <2>. QED  BY <1>8, <2>2, <2>3
  <1>. QED  BY <1>1, <1>3, <1>5, <1>8, <1>9

\* Archive the sessions of S, then go on with r.
LEMMA ArchiveThen ==
    ASSUME NEW S \in SUBSET Keys, NEW e \in EachOf("archive", S), NEW r \in Seq(OpsOf("loop")),
           Len(r) \in Nat \ {0}, \A i \in 2..Len(r) : ~Opens(r[i])
    PROVE  /\ e \o r \in Seq(OpsOf("loop"))
           /\ \A n : Heals(n, r) => Heals(n, e \o r)
           /\ \A H : (\A k \in H : k = r[1].name \/ (k \in S /\ \A x, y \in S : x = y)) => Clears(e \o r, H)
  <1>. DEFINE p == e \o r
  <1>1. /\ e \in Seq(OpsOf("loop")) /\ Len(e) \in Nat
        /\ \A i \in 1..Len(e) : e[i].op = "archive" /\ e[i].name \in S
    BY EachArchived
  <1>2. p \in Seq(OpsOf("loop")) /\ Len(p) = Len(e) + Len(r)
    BY <1>1, ConcatProperties
  <1>3. \A i \in 1..Len(p) : p[i] = IF i <= Len(e) THEN e[i] ELSE r[i - Len(e)]
    BY <1>1, ConcatProperties
  <1>. HIDE DEF p
  <1>4. \A i \in 1..Len(e) : i \in 1..Len(p) /\ p[i] = e[i]
    BY <1>1, <1>2, <1>3
  <1>5. ASSUME NEW i \in 1..Len(r)
        PROVE  Len(e) + i \in 1..Len(p) /\ p[Len(e) + i] = r[i]
    <2>1. Len(e) + i \in 1..Len(p) /\ ~(Len(e) + i <= Len(e)) /\ (Len(e) + i) - Len(e) = i
      BY <1>1, <1>2
    <2>. QED  BY <1>3, <2>1
  <1>6. \A i \in 1..Len(p) : i \in 1..Len(e) \/ \E j \in 1..Len(r) : i = Len(e) + j
    <2>. SUFFICES ASSUME NEW i \in 1..Len(p), i \notin 1..Len(e)
                  PROVE  \E j \in 1..Len(r) : i = Len(e) + j
      OBVIOUS
    <2>1. i - Len(e) \in 1..Len(r) /\ i = Len(e) + (i - Len(e))
      BY <1>1, <1>2
    <2>. QED  BY <2>1
  <1>7. ASSUME NEW n, Heals(n, r)
        PROVE  Heals(n, p)
    <2>. SUFFICES ASSUME NEW i \in 1..Len(p), p[i].op \in {"say", "turn"}, p[i].name = n
                  PROVE  \E j \in 1..(i - 1) : p[j].op \in Whole /\ p[j].name = n
      BY DEF Heals
    <2>1. PICK m \in 1..Len(r) : i = Len(e) + m
      BY <1>1, <1>4, <1>6
    <2>2. PICK j \in 1..(m - 1) : r[j].op \in Whole /\ r[j].name = n
      BY <1>5, <1>7, <2>1 DEF Heals
    <2>3. p[Len(e) + j] = r[j] /\ Len(e) + j \in 1..(i - 1)
      BY <1>1, <1>5, <2>1, <2>2
    <2>. QED  BY <2>2, <2>3
  <1>8. ASSUME NEW H, \A k \in H : k = r[1].name \/ (k \in S /\ \A x, y \in S : x = y)
        PROVE  Clears(p, H)
    <2>. SUFFICES ASSUME NEW i \in 1..Len(p), Opens(p[i])
                  PROVE  /\ \A k \in H : \/ k = p[i].name
                                         \/ \E j \in 1..(i - 1) : p[j].op \in {"archive", "remove"} /\ p[j].name = k
                         /\ \A j \in 1..Len(p) : Opens(p[j]) => j = i
      BY DEF Clears
    <2>1. \A j \in 1..Len(p) : Opens(p[j]) => j = Len(e) + 1
      <3>. SUFFICES ASSUME NEW j \in 1..Len(p), Opens(p[j])
                    PROVE  j = Len(e) + 1
        OBVIOUS
      <3>1. PICK m \in 1..Len(r) : j = Len(e) + m
        BY <1>1, <1>4, <1>6 DEF Opens
      <3>2. Opens(r[m])
        BY <1>5, <3>1
      <3>3. m = 1
        BY <3>2
      <3>. QED  BY <3>1, <3>3
    <2>2. i = Len(e) + 1
      BY <2>1
    <2>3. p[i] = r[1]
      BY <1>5, <2>2
    <2>4. ASSUME NEW k \in H, k # p[i].name
          PROVE  \E j \in 1..(i - 1) : p[j].op \in {"archive", "remove"} /\ p[j].name = k
      <3>1. PICK j \in 1..Len(e) : e[j].name = k
        BY <1>8, <2>3, <2>4, EachArchived
      <3>2. j \in 1..(i - 1) /\ p[j] = e[j]
        BY <1>1, <1>4, <2>2
      <3>. QED  BY <1>1, <3>1, <3>2
    <2>. QED  BY <2>1, <2>2, <2>4
  <1>. QED  BY <1>2, <1>7, <1>8 DEF p

------------------------------------------------------------------------------
(* The handlers *)

LEMMA PlanStep ==
    ASSUME Running, Idle, NEW s, Plan(s), Fits("loop", s)
    PROVE  Running' /\ UNCHANGED Log!logVars
  <1>1. "loop" \in Actors /\ task["loop"].st = "ready"
    BY Between DEF Running, Idle, Actors
  <1>2. UNCHANGED <<mem, file, tmp, change, doubt, strayed, faults>> /\ Run("loop", s)
    BY DEF Plan, disk, counts
  <1>. QED  BY <1>1, <1>2, RunStep

\* A program that leaves the status of the sessions alone.
LEMMA QuietFits ==
    ASSUME NEW s \in Seq(OpsOf("loop")), \A i \in 1..Len(s) : ~Opens(s[i]), \A n \in Keys : Heals(n, s)
    PROVE  Fits("loop", s)
  BY DEF Fits, Clears

LEMMA SendStep ==
    ASSUME Running, NEW k \in Keys, Send(k)
    PROVE  Running' /\ UNCHANGED Log!logVars
  <1>1. Idle
    BY DEF Send
  <1>2. CASE k \in Actives /\ Plan(SendProgram(k))
    <2>. DEFINE s == SendProgram(k)
    <2>1. s \in Seq(OpsOf("loop")) /\ Len(s) = 4
      BY OpTypes DEF SendProgram, Kinds, QuietKinds
    <2>2. /\ s[1] = Op("touch", k) /\ s[2] = Op("say", k) /\ s[3] = Op("touch", k) /\ s[4] = Op("turn", k)
      BY DEF SendProgram
    <2>. HIDE DEF s
    <2>3. \A i \in 1..Len(s) : ~Opens(s[i])
      BY <2>1, <2>2, OpTypes DEF Opens
    <2>4. \A n \in Keys : Heals(n, s)
      BY <2>1, <2>2, OpTypes DEF Heals, Whole
    <2>5. Fits("loop", s)
      BY <2>1, <2>3, <2>4, QuietFits
    <2>. QED  BY <1>1, <1>2, <2>5, PlanStep DEF s
  <1>3. CASE Actives = {} /\ Plan(FirstSend(k))
    <2>. DEFINE s == FirstSend(k)
    <2>1. s \in Seq(OpsOf("loop")) /\ Len(s) = 4
      BY OpTypes DEF FirstSend, Kinds, QuietKinds
    <2>2. /\ s[1] = Op("create", k) /\ s[2] = Op("say", k) /\ s[3] = Op("touch", k) /\ s[4] = Op("turn", k)
      BY DEF FirstSend
    <2>. HIDE DEF s
    <2>3. \A n \in Keys : Heals(n, s)
      BY <2>1, <2>2, OpTypes DEF Heals, Whole
    <2>4. strayed \cap Keys = {} => Holders = {}
      BY <1>1, <1>3, HeldActive
    <2>5. Clears(s, {})
      BY <2>1, <2>2, OpTypes DEF Clears, Opens
    <2>6. Fits("loop", s)
      BY <2>1, <2>3, <2>4, <2>5 DEF Fits
    <2>. QED  BY <1>1, <1>3, <2>6, PlanStep DEF s
  <1>. QED  BY <1>2, <1>3 DEF Send

LEMMA CreateStep ==
    ASSUME Running, NEW k \in Keys, NEW carry \in BOOLEAN, Create(k, carry)
    PROVE  Running' /\ UNCHANGED Log!logVars
  <1>1. Idle /\ Actives \in SUBSET Keys
    BY DEF Create, Actives
  <1>. DEFINE r == <<Op("create", k)>> \o (IF carry THEN <<Op("say", k), Op("touch", k)>> ELSE <<>>)
  <1>2. PICK e \in EachOf("archive", Actives) :
            Plan((e \o <<Op("create", k)>>) \o (IF carry THEN <<Op("say", k), Op("touch", k)>> ELSE <<>>))
    BY DEF Create, CreateProgram, ArchiveAll
  <1>. DEFINE c == <<Op("create", k)>>
              m == IF carry THEN <<Op("say", k), Op("touch", k)>> ELSE <<>>
  <1>3. /\ c \in Seq(OpsOf("loop")) /\ Len(c) = 1 /\ c[1] = Op("create", k)
        /\ m \in Seq(OpsOf("loop")) /\ Len(m) \in {0, 2}
        /\ Len(m) = 2 => m[1] = Op("say", k) /\ m[2] = Op("touch", k)
    BY OpTypes DEF Kinds, QuietKinds
  <1>4. e \in Seq(OpsOf("loop"))
    BY <1>1, EachArchived
  <1>5. r = c \o m /\ Plan((e \o c) \o m)
    BY <1>2
  <1>. HIDE DEF r, c, m
  <1>10. Plan(e \o r)
    <2>1. (e \o c) \o m = e \o (c \o m)
      BY <1>3, <1>4, ConcatAssociative
    <2>. QED  BY <1>5, <2>1
  <1>6. /\ r \in Seq(OpsOf("loop")) /\ Len(r) \in {1, 3} /\ r[1] = Op("create", k)
        /\ Len(r) = 3 => r[2] = Op("say", k) /\ r[3] = Op("touch", k)
    <2>1. r \in Seq(OpsOf("loop")) /\ Len(r) = Len(c) + Len(m)
      BY <1>3, <1>5, ConcatProperties
    <2>2. \A i \in 1..Len(c) + Len(m) : r[i] = IF i <= Len(c) THEN c[i] ELSE m[i - Len(c)]
      BY <1>3, <1>5, ConcatProperties
    <2>. QED  BY <1>3, <2>1, <2>2
  <1>7. (\A i \in 2..Len(r) : ~Opens(r[i])) /\ \A n : Heals(n, r)
    BY <1>6, OpTypes DEF Opens, Heals, Whole
  <1>8. e \o r \in Seq(OpsOf("loop")) /\ \A n \in Keys : Heals(n, e \o r)
    BY <1>1, <1>6, <1>7, ArchiveThen
  <1>9. strayed \cap Keys = {} => Clears(e \o r, Holders)
    <2>. SUFFICES ASSUME strayed \cap Keys = {}
                  PROVE  Clears(e \o r, Holders)
      OBVIOUS
    <2>1. \A h \in Holders : h \in Actives /\ \A x, y \in Actives : x = y
      BY <1>1, HeldActive
    <2>2. \A H : (\A h \in H : h = r[1].name \/ (h \in Actives /\ \A x, y \in Actives : x = y)) => Clears(e \o r, H)
      BY <1>1, <1>6, <1>7, ArchiveThen
    <2>. QED  BY <2>1, <2>2
  <1>. QED  BY <1>1, <1>8, <1>9, <1>10, PlanStep DEF Fits

LEMMA OpenStep ==
    ASSUME Running, NEW k \in Keys, Open(k)
    PROVE  Running' /\ UNCHANGED Log!logVars
  <1>1. Idle /\ Actives \in SUBSET Keys
    BY DEF Open, Actives
  <1>. DEFINE r == <<Op("activate", k)>>
  <1>2. PICK e \in EachOf("archive", Actives) : Plan(e \o r)
    BY DEF Open, OpenProgram, ArchiveAll
  <1>3. r \in Seq(OpsOf("loop")) /\ Len(r) = 1 /\ r[1] = Op("activate", k)
    BY OpTypes DEF Kinds, QuietKinds
  <1>8. Len(r) \in Nat \ {0}
    BY <1>3
  <1>. HIDE DEF r
  <1>4. \A i \in 2..Len(r) : ~Opens(r[i])
    BY <1>3
  <1>7. \A n : Heals(n, r)
    BY <1>3, OpTypes DEF Heals
  <1>5. e \o r \in Seq(OpsOf("loop")) /\ \A n : Heals(n, e \o r)
    <2>1. e \o r \in Seq(OpsOf("loop")) /\ \A n : Heals(n, r) => Heals(n, e \o r)
      BY <1>1, <1>2, <1>3, <1>4, <1>8, ArchiveThen
    <2>. QED  BY <1>7, <2>1
  <1>6. strayed \cap Keys = {} => Clears(e \o r, Holders)
    <2>. SUFFICES ASSUME strayed \cap Keys = {}
                  PROVE  Clears(e \o r, Holders)
      OBVIOUS
    <2>1. \A h \in Holders : h \in Actives /\ \A x, y \in Actives : x = y
      BY <1>1, HeldActive
    <2>2. \A H : (\A h \in H : h = r[1].name \/ (h \in Actives /\ \A x, y \in Actives : x = y)) => Clears(e \o r, H)
      BY <1>1, <1>2, <1>3, <1>4, <1>8, ArchiveThen
    <2>. QED  BY <2>1, <2>2
  <1>. QED  BY <1>1, <1>2, <1>5, <1>6, PlanStep DEF Fits

LEMMA TouchStep ==
    ASSUME Running, NEW k \in Keys, Rename(k) \/ Switch(k)
    PROVE  Running' /\ UNCHANGED Log!logVars
  <1>. DEFINE s == <<Op("touch", k)>>
  <1>1. Idle /\ Plan(s)
    BY DEF Rename, Switch
  <1>2. s \in Seq(OpsOf("loop")) /\ Len(s) = 1 /\ s[1] = Op("touch", k)
    BY OpTypes DEF Kinds, QuietKinds
  <1>. HIDE DEF s
  <1>3. (\A i \in 1..Len(s) : ~Opens(s[i])) /\ \A n \in Keys : Heals(n, s)
    BY <1>2, OpTypes DEF Opens, Heals
  <1>. QED  BY <1>1, <1>2, <1>3, QuietFits, PlanStep

LEMMA EditStep ==
    ASSUME Running, NEW k \in Keys, Edit(k)
    PROVE  Running' /\ UNCHANGED Log!logVars
  <1>. DEFINE s == <<Op("branch", k), Op("turn", k)>>
  <1>1. Idle /\ Plan(s)
    BY DEF Edit
  <1>2. s \in Seq(OpsOf("loop")) /\ Len(s) = 2 /\ s[1] = Op("branch", k) /\ s[2] = Op("turn", k)
    BY OpTypes DEF Kinds, QuietKinds
  <1>. HIDE DEF s
  <1>3. (\A i \in 1..Len(s) : ~Opens(s[i])) /\ \A n \in Keys : Heals(n, s)
    BY <1>2, OpTypes DEF Opens, Heals, Whole
  <1>. QED  BY <1>1, <1>2, <1>3, QuietFits, PlanStep

LEMMA DeleteStep ==
    ASSUME Running, NEW k \in Keys, NEW new \in Keys, Delete(k, new)
    PROVE  Running' /\ UNCHANGED Log!logVars
  <1>. DEFINE s == <<Op("remove", k)>> \o (IF k \in Actives THEN <<Op("create", new)>> ELSE <<>>)
  <1>1. Idle /\ Plan(s)
    BY DEF Delete
  <1>. DEFINE c == <<Op("remove", k)>>
              m == IF k \in Actives THEN <<Op("create", new)>> ELSE <<>>
  <1>2. /\ c \in Seq(OpsOf("loop")) /\ Len(c) = 1 /\ c[1] = Op("remove", k)
        /\ m \in Seq(OpsOf("loop")) /\ Len(m) \in {0, 1}
        /\ Len(m) = 1 => m[1] = Op("create", new) /\ k \in Actives
    BY OpTypes DEF Kinds, QuietKinds
  <1>6. s = c \o m
    OBVIOUS
  <1>. HIDE DEF s, c, m
  <1>3. s \in Seq(OpsOf("loop")) /\ Len(s) \in {1, 2} /\ s[1] = Op("remove", k)
        /\ (Len(s) = 2 => s[2] = Op("create", new) /\ k \in Actives)
    BY <1>2, <1>6, ConcatProperties
  <1>4. \A n \in Keys : Heals(n, s)
    BY <1>3, OpTypes DEF Heals
  <1>5. ASSUME strayed \cap Keys = {}
        PROVE  Clears(s, Holders)
    <2>1. k \in Actives => \A h \in Holders : h = k
      BY <1>1, <1>5, HeldActive
    <2>. QED  BY <1>3, <2>1, OpTypes DEF Clears, Opens
  <1>. QED  BY <1>1, <1>3, <1>4, <1>5, PlanStep DEF Fits

\* A turn does nothing to the sessions of others.
LEMMA TurnPrograms ==
    ASSUME NEW k \in Keys, NEW p \in Programs
    PROVE  /\ TurnProgram(k, p) \in Seq(OpsOf("turn"))
           /\ \A n \in Keys \ {k} : Heals(n, TurnProgram(k, p))
  <1>. DEFINE q == [i \in DOMAIN p |-> Op(p[i], IF p[i] = "save" THEN Book ELSE k)]
              c == <<Op("title", k)>>
  <1>1. p \in Seq({"save", "say", "branch", "touch"}) /\ Len(p) \in Nat /\ DOMAIN p = 1..Len(p)
    BY ProgramsAssumption
  <1>2. \A i \in 1..Len(p) : q[i] \in OpsOf("turn") /\ q[i].name \in {Book, k}
    <2>. SUFFICES ASSUME NEW i \in 1..Len(p)
                  PROVE  q[i] \in OpsOf("turn") /\ q[i].name \in {Book, k}
      OBVIOUS
    <2>1. p[i] \in {"save", "say", "branch", "touch"} /\ q[i] = Op(p[i], IF p[i] = "save" THEN Book ELSE k)
      BY <1>1
    <2>. QED  BY <2>1, OpTypes DEF QuietKinds
  <1>3. q \in Seq(OpsOf("turn")) /\ Len(q) = Len(p)
    BY <1>1, <1>2
  <1>4. c \in Seq(OpsOf("turn")) /\ Len(c) = 1 /\ c[1] = Op("title", k)
    BY OpTypes DEF QuietKinds
  <1>5. TurnProgram(k, p) = q \o c
    BY DEF TurnProgram
  <1>. HIDE DEF q, c
  <1>6. q \o c \in Seq(OpsOf("turn")) /\ Len(q \o c) = Len(q) + Len(c)
    BY <1>3, <1>4, ConcatProperties
  <1>7. \A i \in 1..Len(q) + Len(c) : (q \o c)[i] = IF i <= Len(q) THEN q[i] ELSE c[i - Len(q)]
    BY <1>3, <1>4, ConcatProperties
  <1>8. \A i \in 1..Len(q \o c) : (q \o c)[i].name \in {Book, k}
    <2>. SUFFICES ASSUME NEW i \in 1..Len(q \o c)
                  PROVE  (q \o c)[i].name \in {Book, k}
      OBVIOUS
    <2>1. i \in 1..Len(p) \/ i - Len(q) = 1
      BY <1>1, <1>3, <1>4, <1>6
    <2>2. CASE i \in 1..Len(p)
      BY <1>2, <1>3, <1>6, <1>7, <2>2
    <2>3. CASE i - Len(q) = 1
      BY <1>1, <1>3, <1>4, <1>6, <1>7, <2>3, OpTypes
    <2>. QED  BY <2>1, <2>2, <2>3
  <1>9. \A n \in Keys \ {k} : Heals(n, q \o c)
    BY <1>8, KeysAssumption DEF Heals
  <1>. QED  BY <1>5, <1>6, <1>9

\* The turn of a session that is not in doubt finds its file healed.
LEMMA StartTurnStep ==
    ASSUME Running, StartTurn
    PROVE  Running' /\ UNCHANGED Log!logVars
  <1>. DEFINE o == Head(task["loop"].todo)
  <1>1. task["loop"].todo # <<>> /\ o.op = "turn" /\ "loop" \in Actors /\ "turn" \in Actors
    BY DEF StartTurn, Actors
  <1>2. task["loop"].todo \in Seq(OpsOf("loop")) /\ task["loop"].st = "ready"
    BY <1>1, TaskTypes, Between DEF Running
  <1>3. o \in OpsOf("loop") /\ Len(task["loop"].todo) \in Nat \ {0} /\ o = task["loop"].todo[1]
    BY <1>1, <1>2, Programming
  <1>4. o.name \in Keys
    BY <1>1, <1>3, Named DEF OpsOf
  <1>5. UNCHANGED <<mem, file, tmp, change, doubt, strayed, faults>>
    BY DEF StartTurn, disk, counts
  <1>6. CASE ~NoTurn
    <2>1. Run("loop", <<>>)
      BY <1>6 DEF StartTurn
    <2>. QED  BY <1>1, <1>2, <1>5, <2>1, NothingFits, RunStep
  <1>7. CASE NoTurn
    <2>1. PICK p \in Programs :
              task' = [task EXCEPT !["loop"].todo = <<>>, !["turn"].todo = TurnProgram(o.name, p)]
      BY <1>7 DEF StartTurn
    <2>2. task["turn"].st = "ready"
      BY <1>1, <1>7, Between DEF Running, NoTurn
    <2>3. ASSUME ~doubt[o.name]
          PROVE  ~file[o.name].torn
      <3>1. ~Heals(o.name, task["loop"].todo)
        BY <1>1, <1>3 DEF Heals
      <3>. QED  BY <1>1, <1>4, <2>3, <3>1 DEF Running, TornInv
    <2>4. Fits("turn", TurnProgram(o.name, p))
      BY <1>4, <2>3, TurnPrograms DEF Fits
    <2>5. DOMAIN task' = Actors /\ \A b \in Actors \ {"loop", "turn"} : task'[b] = task[b]
      BY <2>1 DEF Running, Types
    <2>6. task'["loop"] = [task["loop"] EXCEPT !.todo = <<>>]
      BY <1>1, <2>1 DEF Running, Types
    <2>7. task'["turn"] = [task["turn"] EXCEPT !.todo = TurnProgram(o.name, p)]
      BY <1>1, <2>1 DEF Running, Types
    <2>. HIDE DEF o
    <2>. QED  BY <1>2, <1>5, <2>2, <2>4, <2>5, <2>6, <2>7, NothingFits, Replanned
  <1>. QED  BY <1>6, <1>7

LEMMA StartTitleStep ==
    ASSUME Running, StartTitle
    PROVE  Running' /\ UNCHANGED Log!logVars
  <1>. DEFINE o == Head(task["turn"].todo)
  <1>1. task["turn"].todo # <<>> /\ o.op = "title" /\ "title" \in Actors /\ "turn" \in Actors
    BY DEF StartTitle, Actors
  <1>2. task["turn"].todo \in Seq(OpsOf("turn")) /\ task["turn"].st = "ready"
    BY <1>1, TaskTypes, Between DEF Running
  <1>3. o \in OpsOf("turn")
    BY <1>1, <1>2, Programming
  <1>4. o.name \in Keys
    BY <1>1, <1>3, Named DEF OpsOf
  <1>5. UNCHANGED <<mem, file, tmp, change, doubt, strayed, faults>>
    BY DEF StartTitle, disk, counts
  <1>6. CASE Run("turn", <<>>)
    BY <1>1, <1>2, <1>5, <1>6, NothingFits, RunStep
  <1>7. CASE task["title"].todo = <<>>
             /\ task' = [task EXCEPT !["turn"].todo = <<>>, !["title"].todo = <<Op("touch", o.name)>>]
    <2>. DEFINE s == <<Op("touch", o.name)>>
    <2>1. task["title"].st = "ready"
      BY <1>1, <1>7, Between DEF Running
    <2>2. s \in Seq(OpsOf("title")) /\ Len(s) = 1 /\ s[1] = Op("touch", o.name)
      BY <1>4, OpTypes DEF QuietKinds
    <2>3. DOMAIN task' = Actors /\ \A b \in Actors \ {"title", "turn"} : task'[b] = task[b]
      BY <1>7 DEF Running, Types
    <2>4. task'["turn"] = [task["turn"] EXCEPT !.todo = <<>>]
      BY <1>1, <1>7 DEF Running, Types
    <2>5. task'["title"] = [task["title"] EXCEPT !.todo = s]
      BY <1>1, <1>7 DEF Running, Types
    <2>. HIDE DEF o, s
    <2>6. Fits("title", s)
      BY <2>2, OpTypes DEF Fits, Heals
    <2>. QED  BY <1>2, <1>5, <2>1, <2>3, <2>4, <2>5, <2>6, NothingFits, Replanned
  <1>. QED  BY <1>6, <1>7 DEF StartTitle

LEMMA SaveMistakesStep ==
    ASSUME Running, NEW a \in Actors, SaveMistakes(a)
    PROVE  Running' /\ UNCHANGED Log!logVars
  <1>. DEFINE s == <<Op("save", Book)>>
  <1>1. a \in Tools /\ a # "loop" /\ task[a].st = "ready" /\ Run(a, s)
    BY Between, ToolsAssumption DEF Running, SaveMistakes
  <1>2. UNCHANGED <<mem, file, tmp, change, doubt, strayed, faults>>
    BY DEF SaveMistakes, disk, counts
  <1>3. s \in Seq(OpsOf(a)) /\ Len(s) = 1 /\ s[1] = Op("save", Book)
    BY OpTypes
  <1>. HIDE DEF s
  <1>4. Fits(a, s)
    BY <1>1, <1>3, OpTypes DEF Fits, Heals
  <1>. QED  BY <1>1, <1>2, <1>4, RunStep

------------------------------------------------------------------------------
(* The program dies and starts again *)

\* A crash leaves what a restart would load of each file, and the book, as it was.
LEMMA CrashFiles ==
    ASSUME Running, Crash
    PROVE  /\ DOMAIN file' = Names
           /\ \A n \in Names : file'[n] \in FileOf(n) /\ Loaded(n)' = Loaded(n)
           /\ file'[Book] = file[Book]
  <1>1. PICK cut \in SUBSET {n \in Names : \E a \in Actors :
                                At(a, "writelog", n) /\ task[a].hold = "file" /\ file[n] # Empty} :
            file' = [n \in Names |-> [file[n] EXCEPT !.torn = @ \/ n \in cut]]
    BY DEF Crash
  <1>2. cut \subseteq Keys
    <2>. SUFFICES ASSUME NEW n \in Names, NEW a \in Actors, At(a, "writelog", n)
                  PROVE  n \in Keys
      BY <1>1
    <2>. QED  BY AtBusy, BusyTypes DEF Running, LogStages
  <1>3. ASSUME NEW n \in Names
        PROVE  /\ file[n] \in Files /\ file'[n] \in Files /\ file'[n].st = file[n].st
               /\ n \notin Keys => file'[n] = file[n]
               /\ [file'[n] EXCEPT !.torn = FALSE] = [file[n] EXCEPT !.torn = FALSE]
    <2>1. file[n] \in Files
      BY Fresh DEF Running, Types, FileOf, TmpOf, LiveFiles
    <2>2. file'[n] = [file[n] EXCEPT !.torn = file[n].torn \/ n \in cut]
      BY <1>1
    <2>3. file'[n] \in Files /\ file'[n].st = file[n].st
      BY <2>1, <2>2 DEF Files
    <2>4. n \notin cut => file'[n] = file[n]
      BY <2>1, <2>2 DEF Files
    <2>5. [file'[n] EXCEPT !.torn = FALSE] = [file[n] EXCEPT !.torn = FALSE]
      BY <2>1, <2>2 DEF Files
    <2>. QED  BY <1>2, <2>1, <2>3, <2>4, <2>5
  <1>4. file'[Book] = file[Book]
    BY <1>3, Named, KeysAssumption
  <1>5. ASSUME NEW n \in Names
        PROVE  file'[n] \in FileOf(n)
    <2>1. CASE n = Book
      BY <1>4, <2>1 DEF Running, Types
    <2>2. CASE n # Book
      <3>1. file[n].st \in {"absent", "empty"} \cup LiveStatuses(n)
        BY <2>2, Fresh DEF Running, Types, FileOf, TmpOf, LiveFiles
      <3>. QED  BY <1>3, <2>2, <3>1 DEF FileOf, TmpOf, LiveFiles
    <2>. QED  BY <2>1, <2>2
  <1>6. ASSUME NEW n \in Names
        PROVE  Loaded(n)' = Loaded(n)
    <2>1. CASE n = Book
      BY <1>4, <2>1 DEF Loaded
    <2>2. CASE n # Book
      BY <1>3, <2>2 DEF Loaded
    <2>. QED  BY <2>1, <2>2
  <1>7. DOMAIN file' = Names
    BY <1>1
  <1>. QED  BY <1>4, <1>5, <1>6, <1>7

LEMMA RestartStep ==
    ASSUME Running, Crash, Loadable(file'[Book])
    PROVE  Running' /\ Log!Next
  <1>1. /\ DOMAIN file' = Names
        /\ \A n \in Names : file'[n] \in FileOf(n) /\ Loaded(n)' = Loaded(n)
        /\ file'[Book] = file[Book]
    BY CrashFiles
  <1>2. /\ mem' = [n \in Names |-> Loaded(n)']
        /\ task' = [a \in Actors |-> NoTask]
        /\ doubt' = [n \in Names |-> FALSE]
        /\ UNCHANGED <<tmp, change, strayed, faults>>
    BY DEF Crash
  <1>3. \A n \in Names : mem'[n] = Loaded(n)' /\ mem'[n] = Loaded(n)
    BY <1>1, <1>2
  <1>4. \A n \in Names : BusyOn(n)' = {}
    BY <1>2 DEF BusyOn, Busy, NoTask
  <1>5. Types'
    <2>1. \A n \in Names : mem'[n] \in MemOf(n)
      BY <1>1, <1>3, LoadedTypes DEF Running
    <2>2. \A a \in Actors : NoTask \in TaskOf(a)
      BY NothingToDo, Fresh DEF NoTask, TaskOf, Stages
    <2>. QED  BY <1>1, <1>2, <2>1, <2>2 DEF Running, Types
  <1>6. \A n \in Names : NameInv(n)'
    <2>. SUFFICES ASSUME NEW n \in Names
                  PROVE  NameInv(n)'
      OBVIOUS
    <2>1. ~doubt'[n] /\ BusyOn(n)' = {} /\ mem'[n] = Loaded(n)'
      BY <1>2, <1>3, <1>4
    <2>. QED  BY <2>1 DEF NameInv
  <1>7. TornInv'
    BY <1>2, NothingToDo DEF TornInv, NoTask
  <1>8. ActiveInv'
    <2>1. Holders' \subseteq Holders
      BY <1>1, <1>3, Named DEF Holders
    <2>2. Clears(task'["loop"].todo, Holders')
      BY <1>2, NothingToDo DEF Actors, NoTask
    <2>. QED  BY <1>2, <2>1, <2>2 DEF Running, ActiveInv
  <1>9. Log!Restart
    <2>1. \A n \in Names : Durable'[n] = Durable[n]
      BY <1>1 DEF Durable
    <2>2. mem' = Durable'
      BY <1>2 DEF Durable
    <2>3. InProgress' = [n \in Names |-> FALSE]
      BY <1>4 DEF InProgress
    <2>. QED  BY <1>2, <2>1, <2>2, <2>3 DEF Log!Restart
  <1>. QED  BY <1>5, <1>6, <1>7, <1>8, <1>9 DEF Running, Log!Next

------------------------------------------------------------------------------
(* The theorems *)

LEMMA RunningHolds ==
    ASSUME Running
    PROVE  OneActiveOnDisk /\ BookLoads
  <1>1. BookLoads
    BY Named DEF Running, NameInv, BookLoads
  <1>2. ASSUME strayed \cap Keys = {}
        PROVE  Cardinality({k \in Keys : Loaded(k).st = "active"}) <= 1
    <2>. DEFINE A == {k \in Keys : Loaded(k).st = "active"}
    <2>1. \A k, j \in A : k = j
      BY <1>2 DEF Running, ActiveInv, Holders
    <2>. HIDE DEF A
    <2>2. CASE A = {}
      BY <2>2, FS_EmptySet DEF A
    <2>3. CASE A # {}
      <3>1. PICK x \in A : A = {x}
        BY <2>1, <2>3
      <3>. QED  BY <3>1, FS_Singleton DEF A
    <2>. QED  BY <2>2, <2>3
  <1>. QED  BY <1>1, <1>2 DEF OneActiveOnDisk

\* Once the program has fallen back to the memory it uses no file any more.
LEMMA FallBackStep ==
    ASSUME Running, Crash, ~Loadable(file'[Book])
    PROVE  /\ backend' = "memory" /\ UNCHANGED Log!logVars
           /\ OneActiveOnDisk' /\ BookLoads'
  <1>1. /\ \A n \in Names : Loaded(n)' = Loaded(n)
        /\ file'[Book] = file[Book]
    BY CrashFiles
  <1>2. backend' = "memory" /\ UNCHANGED <<mem, task, doubt, strayed, faults>>
    BY DEF Crash
  <1>3. \A n \in Names : BusyOn(n)' = BusyOn(n)
    BY <1>2 DEF BusyOn, Busy
  <1>4. Durable' = Durable /\ InProgress' = InProgress
    BY <1>1, <1>3 DEF Durable, InProgress
  <1>5. OneActiveOnDisk'
    <2>1. {k \in Keys : Loaded(k).st = "active"}' = {k \in Keys : Loaded(k).st = "active"}
      BY <1>1, Named
    <2>. QED  BY <1>2, <2>1, RunningHolds DEF OneActiveOnDisk
  <1>6. BookLoads'
    BY <1>1, <1>2, RunningHolds DEF BookLoads
  <1>. QED  BY <1>2, <1>4, <1>5, <1>6 DEF Log!logVars

LEMMA InitHolds ==
    ASSUME Init
    PROVE  IInv /\ Log!Init
  <1>1. /\ mem = [n \in Names |-> IF n = Book THEN NoBook ELSE Absent]
        /\ file = [n \in Names |-> Absent] /\ tmp = [n \in Names |-> Absent]
        /\ task = [a \in Actors |-> NoTask] /\ change = 0
        /\ doubt = [n \in Names |-> FALSE] /\ strayed = {}
        /\ faults = 0 /\ backend = "file"
    BY DEF Init
  <1>2. \A n \in Names : Loaded(n) = mem[n]
    BY <1>1, AbsentLoads, Fresh DEF Loaded
  <1>3. \A n \in Names : BusyOn(n) = {}
    BY <1>1 DEF BusyOn, Busy, NoTask
  <1>4. Types
    <2>1. \A n \in Names : mem[n] \in MemOf(n) /\ Absent \in FileOf(n) /\ Absent \in TmpOf(n)
      BY <1>1, Fresh DEF MemOf, FileOf, TmpOf
    <2>2. \A a \in Actors : NoTask \in TaskOf(a)
      BY NothingToDo, Fresh DEF NoTask, TaskOf, Stages
    <2>. QED  BY <1>1, <2>1, <2>2 DEF Types
  <1>5. \A n \in Names : NameInv(n)
    <2>1. Loadable(Absent)
      BY Fresh DEF Loadable
    <2>. QED  BY <1>1, <1>2, <1>3, <2>1 DEF NameInv
  <1>6. TornInv
    BY <1>1, Named, Fresh DEF TornInv
  <1>7. ActiveInv
    <2>1. Holders = {}
      BY <1>1, <1>2, Named, Fresh, KeysAssumption DEF Holders
    <2>2. Clears(task["loop"].todo, Holders)
      BY <1>1, NothingToDo DEF Actors, NoTask
    <2>. QED  BY <2>1, <2>2 DEF ActiveInv
  <1>8. mem = Durable /\ InProgress = [n \in Names |-> FALSE]
    BY <1>1, <1>2, <1>3 DEF Durable, InProgress
  <1>. QED  BY <1>1, <1>4, <1>5, <1>6, <1>7, <1>8 DEF IInv, Running, Log!Init

LEMMA NextKeeps ==
    ASSUME IInv, [Next]_vars
    PROVE  IInv' /\ [Log!Next]_(Log!logVars)
  <1>1. CASE UNCHANGED vars
    <2>1. UNCHANGED <<mem, file, tmp, task, change, doubt, strayed, faults, backend>>
      BY <1>1 DEF vars
    <2>2. CASE backend = "file"
      <3>1. Running' /\ UNCHANGED Log!logVars
        BY <2>1, <2>2, Replanned DEF IInv, Running, Types
      <3>. QED  BY <2>1, <2>2, <3>1 DEF IInv
    <2>3. CASE backend # "file"
      <3>1. \A n \in Names : Loaded(n)' = Loaded(n) /\ BusyOn(n)' = BusyOn(n)
        BY <2>1 DEF Loaded, BusyOn, Busy
      <3>2. Durable' = Durable /\ InProgress' = InProgress
        BY <3>1 DEF Durable, InProgress
      <3>3. {k \in Keys : Loaded(k).st = "active"}' = {k \in Keys : Loaded(k).st = "active"}
        BY <3>1, Named
      <3>. QED  BY <2>1, <2>3, <3>2, <3>3 DEF IInv, OneActiveOnDisk, BookLoads, Log!logVars
    <2>. QED  BY <2>2, <2>3
  <1>2. CASE Next
    <2>1. backend = "file" /\ Running
      BY <1>2 DEF Next, IInv
    <2>2. ASSUME NEW k \in Keys, Requests(k)
          PROVE  Running' /\ UNCHANGED Log!logVars
      BY <2>1, <2>2, SendStep, CreateStep, OpenStep, TouchStep, EditStep, DeleteStep DEF Requests
    <2>3. ASSUME NEW a \in Actors, Steps(a)
          PROVE  Running' /\ [Log!Next]_(Log!logVars)
      <3>1. CASE SaveMistakes(a) \/ Change(a)
        BY <2>1, <3>1, SaveMistakesStep, ChangeStep
      <3>2. ASSUME NEW n \in Names,
                   \/ Snapshot(a, n) \/ OpenTmp(a, n) \/ WriteTmp(a, n) \/ RenameTmp(a, n)
                   \/ RenameFails(a, n) \/ OpenLog(a, n) \/ WriteLog(a, n) \/ Unlink(a, n)
                   \/ Fault(a, n)
            PROVE  Running' /\ Log!Next
        BY <2>1, <3>2, SnapshotStep, OpenTmpStep, WriteTmpStep, RenameTmpStep, RenameFailsStep, OpenLogStep,
           WriteLogStep, UnlinkStep, FaultStep
      <3>. QED  BY <2>3, <3>1, <3>2 DEF Steps
    <2>4. CASE StartTurn \/ StartTitle
      <3>1. Running' /\ UNCHANGED Log!logVars
        BY <2>1, <2>4, StartTurnStep, StartTitleStep
      <3>2. backend' = "file"
        BY <2>1, <2>4 DEF StartTurn, StartTitle, counts
      <3>. QED  BY <3>1, <3>2 DEF IInv
    <2>5. CASE Crash /\ Loadable(file'[Book])
      <3>1. backend' = "file"
        BY <2>1, <2>5 DEF Crash
      <3>. QED  BY <2>1, <2>5, <3>1, RestartStep DEF IInv
    <2>6. CASE Crash /\ ~Loadable(file'[Book])
      BY <2>1, <2>6, FallBackStep DEF IInv
    <2>7. ASSUME ~Crash
          PROVE  backend' = "file"
      <3>1. ASSUME NEW k \in Keys, Requests(k)
            PROVE  backend' = backend
        BY <3>1 DEF Requests, Send, Create, Open, Rename, Switch, Edit, Delete, Plan, counts
      <3>2. ASSUME NEW a \in Actors, SaveMistakes(a) \/ Change(a)
            PROVE  backend' = backend
        BY <3>2 DEF SaveMistakes, Change, counts
      <3>3. ASSUME NEW a \in Actors, NEW n \in Names,
                   \/ Snapshot(a, n) \/ OpenTmp(a, n) \/ WriteTmp(a, n) \/ RenameTmp(a, n)
                   \/ RenameFails(a, n) \/ OpenLog(a, n) \/ WriteLog(a, n) \/ Unlink(a, n)
                   \/ Fault(a, n)
            PROVE  backend' = backend
        BY <3>3 DEF Snapshot, OpenTmp, WriteTmp, RenameTmp, RenameFails, OpenLog, WriteLog, Unlink, Fault, counts
      <3>4. StartTurn \/ StartTitle => backend' = backend
        BY DEF StartTurn, StartTitle, counts
      <3>. QED  BY <1>2, <2>1, <2>7, <3>1, <3>2, <3>3, <3>4 DEF Next, Steps
    <2>8. CASE ~Crash
      <3>1. Running' /\ [Log!Next]_(Log!logVars)
        BY <1>2, <2>2, <2>3, <2>4, <2>8, StartTurnStep, StartTitleStep, <2>1 DEF Next
      <3>. QED  BY <2>7, <2>8, <3>1 DEF IInv
    <2>. QED  BY <2>5, <2>6, <2>8
  <1>. QED  BY <1>1, <1>2

\* Each file keeps the promise of SessionLog at every step: quiet operations
\* reach the disk whole and in order, what is not in doubt survives a crash at
\* any moment, and a whole write that nothing overlaps heals the file
\* (persist_session_meta, append_message, continue_in, FileStorage::open).
THEOREM KeepsItsLog == Spec => KeepsTheLog
  <1>1. Init => IInv /\ Log!Init
    BY InitHolds
  <1>2. IInv /\ [Next]_vars => IInv' /\ [Log!Next]_(Log!logVars)
    BY NextKeeps
  <1>. QED  BY <1>1, <1>2, PTL DEF Spec, KeepsTheLog, Log!Spec

\* Wherever the program dies, the files hold one active session at most, as long
\* as no write failed and no two operations overlapped: archive_all_active has
\* reached the disk before create_session and activate do.
THEOREM OneActiveStaysOnDisk == Spec => []OneActiveOnDisk
  <1>1. Init => IInv
    BY InitHolds
  <1>2. IInv /\ [Next]_vars => IInv'
    BY NextKeeps
  <1>3. IInv => OneActiveOnDisk
    BY RunningHolds DEF IInv
  <1>. QED  BY <1>1, <1>2, <1>3, PTL DEF Spec

\* Unless two saves of the book overlapped or one failed, it parses at every
\* moment, so that a restart finds it (atomic_write_str, open_storage).
THEOREM BookAlwaysLoads == Spec => []BookLoads
  <1>1. Init => IInv
    BY InitHolds
  <1>2. IInv /\ [Next]_vars => IInv'
    BY NextKeeps
  <1>3. IInv => BookLoads
    BY RunningHolds DEF IInv
  <1>. QED  BY <1>1, <1>2, <1>3, PTL DEF Spec
=============================================================================
