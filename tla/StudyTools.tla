------------------------------ MODULE StudyTools -----------------------------
(***************************************************************************)
(* The learning plugins (src/plugin): the check of an exercise and the     *)
(* upload of graded work, which put mistakes into the book; the book's     *)
(* commands; the history of exercises in the memory and the exercises      *)
(* drawn or generated past it.  What gaps, compose and weekly read off the *)
(* book is in WeakPoints.                                                  *)
(*                                                                         *)
(* The turn's tool and the user's command run on two threads.  A handler   *)
(* waits for the model and for the worker only; there it can be given up.  *)
(* Between two calls of the storage it cannot, but the other thread runs.  *)
(***************************************************************************)
EXTENDS Naturals, Sequences, FiniteSets

CONSTANTS
    Threads,       \* the turn's and the user's
    Points,        \* knowledge points
    Items,         \* exercises that have an identity: of a template, of the pool
    PointOf,       \* the point of each
    Freeform,      \* the one identity of all that the model writes
    NoItem,
    Template,      \* the template's item for a point, or NoItem
    SeedPool,      \* the pool that comes with the program
    FilePool,      \* and the one in the data directory
    MaxRecords,    \* records the history keeps
    Window,        \* days for which a solved item counts as mastered
    MaxAttempts,   \* drafts of an item with a figure
    MaxUpload,     \* wrong items of an upload
    MaxOps, MaxDay

ASSUME RecordsAssumption == MaxRecords \in Nat \ {0} /\ MaxAttempts \in Nat \ {0} /\ Window \in Nat
ASSUME ThreadsAssumption == IsFiniteSet(Threads)
ASSUME BoundsAssumption == MaxUpload \in Nat /\ MaxOps \in Nat /\ MaxDay \in Nat

VARIABLES
    book,          \* the mistakes as the storage holds them
    disk,          \* the book in its file, and the change it is of
    changes,       \* changes of the book so far
    history,       \* the records under practice/history
    made,          \* records saved so far
    call,          \* what each caller is in the middle of
    day,
    raced,         \* a save has put something older over something newer
    ops

bookVars == <<book, disk, changes>>
historyVars == <<history, made>>
vars == <<book, disk, changes, history, made, call, day, raced, ops>>

Nothing == [op |-> "none", item |-> NoItem]
Free(c) == call[c].op \in {"none", "given"}
GoesOn(c, r) == call' = [call EXCEPT ![c] = r]
Starts(c) == Free(c) /\ ops < MaxOps /\ ops' = ops + 1 /\ UNCHANGED <<day, raced>>
Goes == UNCHANGED <<day, raced, ops>>

------------------------------------------------------------------------------
(* The book: MistakeStore.  It is changed under its lock and written after,
   from a copy taken under the lock again; what cannot be written is reported
   and stays in the book. *)

Mistake(by) == [by |-> by, right |-> FALSE, gone |-> FALSE]
\* The caller changes the book, and goes on with then if that is written.
Changes(c, b, then) ==
    /\ book' = b
    /\ changes' = changes + 1
    /\ GoesOn(c, [op |-> "changed", then |-> then])
    /\ UNCHANGED <<disk, history, made>>
Archives(c, by, then) == Changes(c, Append(book, Mistake(by)), then)
Copy(c) ==
    /\ call[c].op = "changed"
    /\ GoesOn(c, [op |-> "writing", then |-> call[c].then, copy |-> [book |-> book, no |-> changes]])
    /\ Goes /\ UNCHANGED <<bookVars, historyVars>>
WriteAnyway(c) ==
    /\ call[c].op = "writing"
    /\ \/ disk' = call[c].copy /\ raced' = (raced \/ disk.no > call[c].copy.no)
       \/ UNCHANGED <<disk, raced>>
    /\ GoesOn(c, call[c].then)
    /\ UNCHANGED <<book, changes, historyVars, day, ops>>
Write(c) ==
    /\ call[c].op = "writing"
    /\ \/ /\ disk' = call[c].copy
          /\ raced' = (raced \/ disk.no > call[c].copy.no)
          /\ GoesOn(c, call[c].then)
       \/ /\ GoesOn(c, Nothing)
          /\ UNCHANGED <<disk, raced>>
    /\ UNCHANGED <<book, changes, historyVars, day, ops>>

\* grading::update marks a mistake as right or wrong, or rewords it; remove and
\* remove_many hide some.
Update(c, k, right) ==
    /\ Starts(c)
    /\ ~book[k].gone
    /\ Changes(c, [book EXCEPT ![k].right = right], Nothing)
RemoveMany(c, ks) ==
    /\ Starts(c)
    /\ \E k \in ks : ~book[k].gone
    /\ Changes(c, [k \in DOMAIN book |-> IF k \in ks THEN [book[k] EXCEPT !.gone = TRUE] ELSE book[k]], Nothing)

\* grading::upload archives the wrong ones of the graded items, one by one.
Uploading(wrong) == IF wrong = 0 THEN Nothing ELSE [op |-> "upload", wrong |-> wrong]
Upload(c, wrong) ==
    /\ Starts(c)
    /\ GoesOn(c, Uploading(wrong))
    /\ UNCHANGED <<bookVars, historyVars>>
ArchiveNext(c) ==
    /\ call[c].op = "upload"
    /\ Archives(c, "upload", Uploading(call[c].wrong - 1))
    /\ Goes

------------------------------------------------------------------------------
(* practice::check *)

\* An answer that is the reference answer is right, and that is all; any other
\* is sent to the model.
Check(c, i) ==
    /\ Starts(c)
    /\ GoesOn(c, [op |-> "judging", item |-> i])
    /\ UNCHANGED <<bookVars, historyVars>>
Judge(c, right) ==
    /\ call[c].op = "judging"
    /\ GoesOn(c, IF right THEN [op |-> "loading", item |-> call[c].item, right |-> TRUE]
                           ELSE [op |-> "archiving", item |-> call[c].item])
    /\ Goes /\ UNCHANGED <<bookVars, historyVars>>

\* A wrong answer is archived before it is recorded, and not recorded if that
\* fails.
Recording(c) == [op |-> "loading", item |-> call[c].item, right |-> FALSE]
Archive(c) ==
    /\ call[c].op = "archiving"
    /\ Archives(c, "check", Recording(c))
    /\ Goes

\* load_history: a history that cannot be read is taken for an empty one.
LoadHistory(c) ==
    /\ call[c].op = "loading"
    /\ \E loaded \in {history, << >>} :
          GoesOn(c, [op |-> "recording", item |-> call[c].item, right |-> call[c].right, loaded |-> loaded])
    /\ Goes /\ UNCHANGED <<bookVars, historyVars>>
\* record_attempt: the record is added at the end, the oldest are dropped, and
\* the whole is saved; an error of the memory is ignored.
OldestKept(records) == SubSeq(records, 1, IF Len(records) > MaxRecords THEN MaxRecords ELSE Len(records))
LastKept(records) ==
    IF Len(records) > MaxRecords THEN SubSeq(records, Len(records) - MaxRecords + 1, Len(records)) ELSE records
Record(c) ==
    /\ call[c].op = "recording"
    /\ LET new == [item |-> call[c].item, right |-> call[c].right, day |-> day, no |-> made + 1] IN
       \/ /\ history' = LastKept(Append(call[c].loaded, new))
          /\ made' = made + 1
          /\ raced' = (raced \/ history # call[c].loaded)
       \/ UNCHANGED <<historyVars, raced>>
    /\ GoesOn(c, Nothing)
    /\ UNCHANGED <<bookVars, day, ops>>

------------------------------------------------------------------------------
(* practice::generate *)

\* recent_mastered, as of the record numbered no.
Masters(r) == r.right /\ r.day + Window >= day
Mastered(records) == {records[n].item : n \in {m \in DOMAIN records : Masters(records[m])}}
Seen(records) == [items |-> Mastered(records), upTo |-> IF records = << >> THEN 0 ELSE records[Len(records)].no]
Given(i, seen) == [op |-> "given", item |-> i, seen |-> seen]
Written == Given(Freeform, Seen(<< >>))

\* A template is handed out unless it is mastered; the model writes the rest.
GenerateAll(c, p) ==
    /\ Starts(c)
    /\ \E records \in {history, << >>} :
          GoesOn(c, IF Template[p] # NoItem THEN Given(Template[p], Seen(records))
                     ELSE [op |-> "drafting", tries |-> 0])
    /\ UNCHANGED <<bookVars, historyVars>>
Generate(c, p) ==
    /\ Starts(c)
    /\ \E records \in {history, << >>} :
          GoesOn(c, IF Template[p] \notin Mastered(records) \cup {NoItem} THEN Given(Template[p], Seen(records))
                     ELSE [op |-> "drafting", tries |-> 0])
    /\ UNCHANGED <<bookVars, historyVars>>

\* The model's draft: one without a figure is handed out.
Draft(c, figure) ==
    /\ call[c].op = "drafting"
    /\ GoesOn(c, IF figure THEN [call[c] EXCEPT !.op = "verifying", !.tries = @ + 1] ELSE Written)
    /\ Goes /\ UNCHANGED <<bookVars, historyVars>>
\* The worker's verdict on the figure: one that fails is drafted again, up to
\* MaxAttempts; a worker that is silent or away lets it pass.
Verify(c, verdict) ==
    /\ call[c].op = "verifying"
    /\ GoesOn(c, CASE verdict \in {"ok", "away"} -> Written
                    [] verdict = "fail" /\ call[c].tries < MaxAttempts -> [call[c] EXCEPT !.op = "drafting"]
                    [] OTHER -> Nothing)
    /\ Goes /\ UNCHANGED <<bookVars, historyVars>>

\* At the level of the exam an item of the pool is drawn that is not mastered;
\* the pool is read after the history.
Exam(c, p) ==
    /\ Starts(c)
    /\ \E records \in {history, << >>} :
          GoesOn(c, [op |-> "drawing", point |-> p, seen |-> Seen(records)])
    /\ UNCHANGED <<bookVars, historyVars>>
Draw(c) ==
    /\ call[c].op = "drawing"
    /\ \E pool \in {SeedPool, FilePool} :
          LET left == {i \in pool : PointOf[i] = call[c].point} \ call[c].seen.items IN
          IF left = {} THEN GoesOn(c, Nothing) ELSE \E i \in left : GoesOn(c, Given(i, call[c].seen))
    /\ Goes /\ UNCHANGED <<bookVars, historyVars>>

\* A call is given up, or the model or the worker refuses.
GiveUp(c) ==
    /\ call[c].op \in {"judging", "drafting", "verifying"}
    /\ GoesOn(c, Nothing)
    /\ Goes /\ UNCHANGED <<bookVars, historyVars>>

------------------------------------------------------------------------------
Tick == day < MaxDay /\ day' = day + 1 /\ UNCHANGED <<bookVars, historyVars, call, raced, ops>>

\* The program ends and starts again: the book is read from its file.
Restart ==
    /\ ops < MaxOps /\ ops' = ops + 1
    /\ book' = disk.book
    /\ call' = [c \in Threads |-> Nothing]
    /\ UNCHANGED <<disk, changes, historyVars, day, raced>>

Init ==
    /\ book = << >> /\ changes = 0 /\ disk = [book |-> << >>, no |-> 0]
    /\ history = << >> /\ made = 0
    /\ call = [c \in Threads |-> Nothing]
    /\ day = 0 /\ raced = FALSE /\ ops = 0

Starting(c) ==
    \/ \E k \in DOMAIN book, right \in BOOLEAN : Update(c, k, right)
    \/ \E ks \in SUBSET DOMAIN book : RemoveMany(c, ks)
    \/ \E wrong \in 0..MaxUpload : Upload(c, wrong)
    \/ \E i \in Items \cup {Freeform} : Check(c, i)
    \/ \E p \in Points : Generate(c, p) \/ Exam(c, p)
Advance(c) ==
    \/ Copy(c) \/ Write(c) \/ ArchiveNext(c) \/ Archive(c) \/ LoadHistory(c) \/ Record(c) \/ Draw(c) \/ GiveUp(c)
    \/ \E right \in BOOLEAN : Judge(c, right)
    \/ \E figure \in BOOLEAN : Draft(c, figure)
    \/ \E verdict \in {"ok", "away", "fail", "error"} : Verify(c, verdict)
Next == Tick \/ Restart \/ \E c \in Threads : Starting(c) \/ Advance(c)
Spec == Init /\ [][Next]_vars

------------------------------------------------------------------------------

\* The values of the variables.
TypeOK ==
    /\ made \in Nat /\ changes \in Nat /\ day \in 0..MaxDay /\ ops \in 0..MaxOps /\ raced \in BOOLEAN
    /\ Len(history) <= MaxRecords
    /\ \A n \in DOMAIN history : history[n].item \in Items \cup {Freeform}
    /\ disk.no <= changes

\* A history that was not saved over holds the last MaxRecords answers judged,
\* in their order: history.rs drops the oldest, never the newest.
KeptWhenAlone ==
    LET kept == IF made < MaxRecords THEN made ELSE MaxRecords
    IN  /\ TypeOK
        /\ ~raced => [n \in DOMAIN history |-> history[n].no] = [n \in 1..kept |-> made - kept + n]

\* What the history holds as answered wrong is in the book's file, whatever
\* failed and whenever the program restarted: check.rs archives before it
\* records.
WrongIsArchived ==
    ~raced => Cardinality({n \in DOMAIN history : ~history[n].right})
              <= Cardinality({k \in DOMAIN disk.book : disk.book[k].by = "check"})

\* An exercise that has an identity is not given to who has solved it within
\* the window, by the history as it could be read: only an answer that comes
\* while the exercise is drawn is missed, and what two that save over each
\* other forget and bring back (recent_mastered, draw).
GivenIsNew ==
    [][\A c \in Threads :
         ~raced /\ call'[c].op = "given" /\ call'[c] # call[c] /\ call'[c].item # Freeform =>
            \A n \in DOMAIN history :
               Masters(history[n]) /\ history[n].item = call'[c].item => history[n].no > call'[c].seen.upTo]_vars
==============================================================================
