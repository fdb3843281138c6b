----------------------------- MODULE StorageProofs ----------------------------
(***************************************************************************)
(* What is on disk, and what a start does with it.                         *)
(*                                                                         *)
(* The files of the memory implement the map of MemoryTree, for every set  *)
(* of paths, clients and contents, any old layout and any number of        *)
(* crashes and failing calls: an entry changes only by a save or a removal *)
(* of it, no start loses one, and none puts an old content over a newer    *)
(* one before a start has failed.                                          *)
(*                                                                         *)
(* The migration of session files moves whole topics and loses nothing,    *)
(* for any files with any trees in them, any number of splits cut short or *)
(* given up anywhere, and whatever the kernel adds in between.  The        *)
(* invariant says of each message which file counts as its holder while a  *)
(* split is under way, and allows one holder more for each that was cut    *)
(* short.  A file is a forest: a rank falls along the parents, so that the *)
(* way up from a message, which the code follows until a boundary or a     *)
(* root, is shorter than the file.                                         *)
(***************************************************************************)
EXTENDS MemoryFiles, SessionMigration, FiniteSetTheorems, WellFoundedInduction, TLAPS

------------------------------------------------------------------------------
(* Names *)

\* Files of different kinds, of different paths or of different writes have
\* different names.
LEMMA NamesDiffer ==
    ASSUME NEW p, NEW q, NEW k, NEW j
    PROVE  /\ New(p) # Old(q) /\ New(p) # Tmp(q, k) /\ New(p) # Residue(q, k)
           /\ Old(p) # Tmp(q, k) /\ Old(p) # Residue(q, k) /\ Tmp(p, j) # Residue(q, k)
           /\ New(p) = New(q) => p = q
           /\ Old(p) = Old(q) => p = q
           /\ Tmp(p, j) = Tmp(q, k) => p = q /\ j = k
  BY DEF New, Old, Tmp, Residue

LEMMA NamesAreNames ==
    ASSUME NEW p \in Paths
    PROVE  /\ New(p) \in Names /\ Old(p) \in Names
           /\ \A k \in TmpIds : Tmp(p, k) \in Names /\ Residue(p, k) \in Names
  BY DEF Names

\* The first of a name tells its kind, the second its path.
LEMMA NameParts ==
    ASSUME NEW p, NEW k
    PROVE  /\ New(p)[1] = "new" /\ New(p)[2] = p
           /\ Old(p)[1] = "old" /\ Old(p)[2] = p
           /\ Tmp(p, k)[1] = "tmp" /\ Tmp(p, k)[2] = p /\ Tmp(p, k)[3] = k
           /\ Residue(p, k)[1] = "residue" /\ Residue(p, k)[2] = p
  BY DEF New, Old, Tmp, Residue

\* The names the migration moves: old entries and temporary files.
Movable == {Old(p) : p \in Paths} \cup {Tmp(p, k) : p \in Paths, k \in TmpIds}

LEMMA UndecodableIsMovable == Undecodable \subseteq Movable
  BY NameParts DEF Undecodable, Movable, Names

\* A fresh identity is one that no file has.
LEMMA UnusedIsFresh ==
    ASSUME MayWrite
    PROVE  Unused \in TmpIds /\ \A p \in Paths : ~Exists(Tmp(p, Unused)) /\ ~Exists(Residue(p, Unused))
  BY DEF MayWrite, Unused, Taken

------------------------------------------------------------------------------
(* The invariant *)

FileTypes == files \in [Names -> Contents \cup {NoContent}]
ClientTypes ==
    /\ client \in [Clients -> [op : {"none", "save", "remove"}, path : Paths \cup {NoPath}, tmp : TmpIds \cup {0}]]
    /\ \A c \in Clients : client[c].op # "none" => client[c].path \in Paths /\ EntryFits(client[c].path)
    /\ \A c \in Clients : client[c].op = "save" => client[c].tmp \in TmpIds
    /\ ~Up => \A c \in Clients : client[c] = Idle
BootTypes ==
    /\ boot \in [st : BootStates, todo : SUBSET Movable, name : Movable \cup {NoName}, tmp : TmpIds \cup {0}]
    /\ boot.st \in {"written", "named"} => boot.name \in Movable
    /\ boot.st = "written" => boot.tmp \in TmpIds
    /\ failed \in BOOLEAN

\* A file in the new layout has a name in it.
NewNamesFit == \A p \in Paths : Exists(New(p)) => EntryFits(p)

\* Until a start has failed, an entry that is there twice has one content.
LayoutsAgree ==
    ~failed => \A p \in Paths : Exists(New(p)) /\ Exists(Old(p)) => files[New(p)] = files[Old(p)]

\* No old entry is left out of a migration, what has been copied is what was
\* there, and only a failed start has left one.
MoveHolds ==
    /\ boot.st = "up" => \A p \in Paths : ~Exists(Old(p))
    /\ boot.st = "degraded" => failed
    /\ boot.st = "moving" => \A p \in Paths : Exists(Old(p)) => Old(p) \in boot.todo
    /\ boot.st \in {"written", "named"} =>
          \A p \in Paths : Exists(Old(p)) => Old(p) \in boot.todo \/ boot.name = Old(p)
    /\ boot.st = "written" =>
          \A p \in Paths : boot.name = Old(p) =>
              EntryFits(p) /\ Exists(Old(p)) /\ files[Tmp(p, boot.tmp)] = files[Old(p)]
    /\ boot.st = "named" =>
          \A p \in Paths : boot.name = Old(p) => Exists(Old(p)) /\ files[New(p)] = files[Old(p)]
    /\ \A p \in Paths : Old(p) \in boot.todo => Exists(Old(p)) /\ boot.name # Old(p)

IInv == FileTypes /\ ClientTypes /\ BootTypes /\ NewNamesFit /\ LayoutsAgree /\ MoveHolds

LEMMA InitIInv == ASSUME Init PROVE IInv
  <1>1. FileTypes
    BY OldAssumption DEF Init, FileTypes
  <1>2. ~Up /\ boot = At("down", {}, NoName, 0) /\ failed = FALSE
    BY DEF Init, Up, At
  <1>3. ClientTypes
    BY <1>2 DEF Init, ClientTypes, Idle
  <1>4. BootTypes
    BY <1>2 DEF BootTypes, At, BootStates
  <1>5. \A p \in Paths : /\ Exists(New(p)) => p \in Misread
                         /\ Exists(Old(p)) => p \in OldEntries
    <2>. TAKE p \in Paths
    <2>1. \A n \in Names : files[n] # NoContent => n \in AtFirst
      BY DEF Init
    <2>2. New(p) \in AtFirst => p \in Misread
      BY MisreadAssumption, OldAssumption, NameParts DEF AtFirst, New, Old
    <2>3. Old(p) \in AtFirst => p \in OldEntries
      BY MisreadAssumption, OldAssumption DEF AtFirst, New, Old
    <2>. QED  BY <2>1, <2>2, <2>3, NamesAreNames DEF Exists
  <1>6. NewNamesFit /\ LayoutsAgree
    BY <1>5, MisreadAssumption DEF NewNamesFit, LayoutsAgree
  <1>7. MoveHolds
    BY <1>2 DEF MoveHolds, At
  <1>. QED  BY <1>1, <1>3, <1>4, <1>6, <1>7 DEF IInv

------------------------------------------------------------------------------
(* The running kernel keeps it *)

\* The files of an entry are among the files, and have a content or none.
LEMMA EntryFiles ==
    ASSUME FileTypes, NEW p \in Paths
    PROVE  /\ New(p) \in DOMAIN files /\ Old(p) \in DOMAIN files
           /\ \A k \in TmpIds : /\ Tmp(p, k) \in DOMAIN files /\ Residue(p, k) \in DOMAIN files
                               /\ files[Tmp(p, k)] \in Contents \cup {NoContent}
           /\ files[New(p)] \in Contents \cup {NoContent}
           /\ files[Old(p)] \in Contents \cup {NoContent}
  BY NamesAreNames DEF FileTypes

\* A step that writes nothing but temporary files and those made of them.
EntriesStay == \A p \in Paths : files'[New(p)] = files[New(p)] /\ files'[Old(p)] = files[Old(p)]

\* It changes entries of the new layout alone: there are no old ones, or a
\* start has failed.
LEMMA UpKeeps ==
    ASSUME IInv, Up, UNCHANGED <<boot, failed>>, FileTypes', ClientTypes',
           \A p \in Paths : files'[Old(p)] = files[Old(p)],
           \A p \in Paths : files'[New(p)] # NoContent => EntryFits(p)
    PROVE  IInv'
  <1>1. \A p \in Paths : Exists(Old(p))' <=> Exists(Old(p))
    BY DEF Exists
  <1>2. boot.st \in {"up", "degraded"} /\ (~failed => \A p \in Paths : ~Exists(Old(p)))
    BY DEF IInv, MoveHolds, Up
  <1>3. NewNamesFit' /\ LayoutsAgree'
    BY <1>1, <1>2 DEF NewNamesFit, LayoutsAgree, Exists
  <1>4. BootTypes'
    BY DEF IInv, BootTypes
  <1>5. MoveHolds'
    BY <1>1, <1>2 DEF IInv, MoveHolds
  <1>. QED  BY <1>3, <1>4, <1>5 DEF IInv

LEMMA SaveKeeps ==
    ASSUME IInv, NEW c \in Clients, NEW p \in Paths, NEW v \in Contents, Save(c, p, v)
    PROVE  IInv' /\ EntriesStay
  <1>1. Unused \in TmpIds /\ Tmp(p, Unused) \in Names
    BY UnusedIsFresh, NamesAreNames DEF Save
  <1>2. files' = [files EXCEPT ![Tmp(p, Unused)] = v] /\ UNCHANGED <<boot, failed>> /\ Up /\ EntryFits(p)
        /\ client' = [client EXCEPT ![c] = [op |-> "save", path |-> p, tmp |-> Unused]]
    BY DEF Save
  <1>3. FileTypes'
    BY <1>1, <1>2 DEF IInv, FileTypes
  <1>4. EntriesStay
    BY <1>2, NamesDiffer, EntryFiles DEF IInv, EntriesStay
  <1>5. ClientTypes'
    BY <1>1, <1>2 DEF IInv, ClientTypes, Up
  <1>6. \A q \in Paths : files'[New(q)] # NoContent => EntryFits(q)
    BY <1>4 DEF IInv, NewNamesFit, EntriesStay, Exists
  <1>. QED  BY <1>2, <1>3, <1>4, <1>5, <1>6, UpKeeps DEF EntriesStay

LEMMA DoneTypes ==
    ASSUME IInv, Up, UNCHANGED boot, NEW c \in Clients, Done(c)
    PROVE  ClientTypes'
  BY DEF IInv, ClientTypes, Done, Idle, Up

LEMMA SaveRenameKeeps ==
    ASSUME IInv, NEW c \in Clients, SaveRename(c)
    PROVE  IInv'
  <1>. DEFINE p == client[c].path
              k == client[c].tmp
  <1>1. p \in Paths /\ EntryFits(p) /\ k \in TmpIds
    BY DEF SaveRename, IInv, ClientTypes
  <1>2. Up /\ UNCHANGED <<boot, failed>> /\ Done(c) /\ files' = Renamed(p, k)
    BY DEF SaveRename
  <1>. HIDE DEF p, k
  <1>3. \/ files' = files
        \/ files' = [files EXCEPT ![New(p)] = files[Tmp(p, k)], ![Tmp(p, k)] = NoContent]
    BY <1>2 DEF Renamed
  <1>4. FileTypes'
    BY <1>1, <1>3, EntryFiles, NamesAreNames DEF IInv, FileTypes
  <1>5. \A q \in Paths : files'[Old(q)] = files[Old(q)]
    BY <1>1, <1>3, EntryFiles, NamesDiffer DEF IInv
  <1>6. \A q \in Paths : files'[New(q)] # NoContent => EntryFits(q)
    BY <1>1, <1>3, EntryFiles, NamesDiffer DEF IInv, NewNamesFit, Exists
  <1>. QED  BY <1>2, <1>4, <1>5, <1>6, DoneTypes, UpKeeps

LEMMA RemoveKeeps ==
    ASSUME IInv, NEW c \in Clients, NEW p \in Paths, Remove(c, p)
    PROVE  IInv'
  <1>1. /\ Up /\ UNCHANGED <<boot, failed>> /\ EntryFits(p)
        /\ files' = files \/ files' = [files EXCEPT ![New(p)] = NoContent]
        /\ client' = [client EXCEPT ![c] = [op |-> "remove", path |-> p, tmp |-> 0]]
    BY DEF Remove
  <1>2. FileTypes'
    BY <1>1 DEF IInv, FileTypes
  <1>3. ClientTypes'
    BY <1>1 DEF IInv, ClientTypes, Up
  <1>4. \A q \in Paths : files'[Old(q)] = files[Old(q)]
    BY <1>1, EntryFiles, NamesDiffer DEF IInv
  <1>5. \A q \in Paths : files'[New(q)] # NoContent => EntryFits(q)
    BY <1>1, EntryFiles, NamesDiffer DEF IInv, NewNamesFit, Exists
  <1>. QED  BY <1>1, <1>2, <1>3, <1>4, <1>5, UpKeeps

LEMMA RemoveUnderKeeps ==
    ASSUME IInv, NEW c \in Clients, NEW n \in Names, RemoveUnder(c, n)
    PROVE  IInv'
  <1>1. /\ Up /\ UNCHANGED <<boot, client, failed>> /\ n[1] \in {"new", "tmp"}
        /\ files' = [files EXCEPT ![n] = NoContent]
    BY DEF RemoveUnder, UnderRemoved
  <1>2. FileTypes'
    BY <1>1 DEF IInv, FileTypes
  <1>3. ClientTypes'
    BY <1>1 DEF IInv, ClientTypes, Up
  <1>4. ASSUME NEW q \in Paths
        PROVE  files'[Old(q)] = files[Old(q)]
    <2>1. n # Old(q)
      BY <1>1 DEF Old
    <2>. QED  BY <1>1, <2>1, EntryFiles DEF IInv
  <1>5. \A q \in Paths : files'[New(q)] # NoContent => EntryFits(q)
    BY <1>1, EntryFiles DEF IInv, NewNamesFit, Exists
  <1>. QED  BY <1>1, <1>2, <1>3, <1>4, <1>5, UpKeeps

LEMMA EndKeeps ==
    ASSUME IInv, NEW c \in Clients, RemoveTree(c) \/ GivesUp(c)
    PROVE  IInv'
  <1>1. Up /\ UNCHANGED <<files, boot, failed>> /\ Done(c)
    BY DEF RemoveTree, GivesUp
  <1>2. FileTypes' /\ \A q \in Paths : files'[New(q)] # NoContent => EntryFits(q)
    BY <1>1 DEF IInv, FileTypes, NewNamesFit, Exists
  <1>. QED  BY <1>1, <1>2, DoneTypes, UpKeeps

------------------------------------------------------------------------------
(* The start-up keeps it *)

\* Where no file changes, what the files hold stays true.
LEMMA SameFiles ==
    ASSUME IInv, UNCHANGED files, failed => failed'
    PROVE  FileTypes' /\ NewNamesFit' /\ LayoutsAgree'
  BY DEF IInv, FileTypes, NewNamesFit, LayoutsAgree, Exists

LEMMA CrashKeeps ==
    ASSUME IInv, Crash
    PROVE  IInv'
  <1>1. /\ UNCHANGED <<files, failed>> /\ boot' = At("down", {}, NoName, 0)
        /\ client' = [c \in Clients |-> Idle]
    BY DEF Crash
  <1>2. ClientTypes'
    BY <1>1 DEF ClientTypes, Idle
  <1>3. BootTypes' /\ MoveHolds'
    BY <1>1 DEF IInv, BootTypes, BootStates, MoveHolds, At
  <1>. QED  BY <1>1, <1>2, <1>3, SameFiles DEF IInv

LEMMA ListKeeps ==
    ASSUME IInv, List
    PROVE  IInv'
  <1>1. UNCHANGED <<files, client, failed>> /\ boot' = At("moving", Undecodable, NoName, 0) /\ ~Up
    BY DEF List, Up
  <1>2. ClientTypes'
    BY <1>1 DEF IInv, ClientTypes
  <1>3. BootTypes'
    BY <1>1, UndecodableIsMovable DEF IInv, BootTypes, BootStates, At
  <1>4. \A p \in Paths : Old(p) \in Undecodable <=> Exists(Old(p))
    BY NamesAreNames, NameParts DEF Undecodable
  <1>5. \A p \in Paths : NoName # Old(p)
    BY DEF NoName, Old
  <1>6. MoveHolds'
    BY <1>1, <1>4, <1>5 DEF MoveHolds, At, Exists
  <1>. QED  BY <1>1, <1>2, <1>3, <1>6, SameFiles DEF IInv

\* A start that is given up leaves every file as it is.
LEMMA DegradedKeeps ==
    ASSUME IInv, Degraded, UNCHANGED <<files, client>>, ~Up
    PROVE  IInv'
  <1>1. boot' = At("degraded", {}, NoName, 0) /\ failed' = TRUE
    BY DEF Degraded
  <1>2. ClientTypes'
    BY <1>1 DEF IInv, ClientTypes, Up, At
  <1>3. BootTypes' /\ MoveHolds'
    BY <1>1 DEF IInv, BootTypes, BootStates, MoveHolds, At
  <1>. QED  BY <1>1, <1>2, <1>3, SameFiles DEF IInv

LEMMA ReadKeeps ==
    ASSUME IInv, NEW n \in Movable, Read(n)
    PROVE  IInv' /\ EntriesStay
  <1>1. n \in boot.todo /\ boot.st = "moving" /\ UNCHANGED client /\ ~Up
    BY DEF Read, Up
  <1>2. CASE ~TargetFits(n)
    <2>1. Degraded /\ UNCHANGED files
      BY <1>2 DEF Read
    <2>. QED  BY <1>1, <2>1, DegradedKeeps DEF EntriesStay
  <1>3. CASE TargetFits(n)
    <2>. DEFINE k == Unused
    <2>1. PICK p \in Paths : n[2] = p /\ (n = Old(p) \/ \E j \in TmpIds : n = Tmp(p, j))
      BY NameParts DEF Movable
    <2>2. /\ files' = [files EXCEPT ![Tmp(p, k)] = files[n]]
          /\ boot' = At("written", boot.todo \ {n}, n, k)
          /\ k \in TmpIds /\ UNCHANGED failed
      BY <1>3, <2>1, UnusedIsFresh DEF Read
    <2>. HIDE DEF k
    <2>3. EntriesStay
      BY <2>2, EntryFiles, NamesDiffer DEF IInv, EntriesStay
    <2>4. FileTypes'
      BY <2>1, <2>2, NamesAreNames DEF IInv, FileTypes
    <2>5. NewNamesFit' /\ LayoutsAgree'
      BY <2>2, <2>3 DEF IInv, NewNamesFit, LayoutsAgree, EntriesStay, Exists
    <2>6. ClientTypes'
      BY <1>1, <2>2 DEF IInv, ClientTypes, Up, At
    <2>7. BootTypes'
      BY <1>1, <2>2 DEF IInv, BootTypes, BootStates, At
    <2>8. MoveHolds'
      <3>1. files'[Tmp(p, k)] = files[n]
        BY <2>1, <2>2, EntryFiles DEF IInv
      <3>2. boot'.st = "written" /\ boot'.todo = boot.todo \ {n} /\ boot'.name = n /\ boot'.tmp = k
        BY <2>2 DEF At
      <3>3. \A q \in Paths : n = Old(q) => q = p /\ Exists(Old(p))
        BY <1>1, <2>1, NamesDiffer DEF IInv, MoveHolds
      <3>4. \A q \in Paths : Exists(Old(q)) => Old(q) \in boot.todo
        BY <1>1 DEF IInv, MoveHolds
      <3>5. \A q \in Paths : Old(q) \in boot.todo => Exists(Old(q))
        BY DEF IInv, MoveHolds
      <3>6. \A q \in Paths : Exists(Old(q))' <=> Exists(Old(q))
        BY <2>3 DEF EntriesStay, Exists
      <3>7. \A q \in Paths : n = Old(q) => Exists(Old(q))' /\ files'[Tmp(q, k)] = files'[Old(q)]
        BY <2>3, <3>1, <3>3, <3>6 DEF EntriesStay
      <3>8. \A q \in Paths : n = Old(q) => EntryFits(q)
        BY <1>3, NameParts DEF TargetFits
      <3>. QED  BY <3>2, <3>4, <3>5, <3>6, <3>7, <3>8 DEF MoveHolds
    <2>. QED  BY <2>3, <2>4, <2>5, <2>6, <2>7, <2>8 DEF IInv
  <1>. QED  BY <1>2, <1>3

\* The entry of an old file that is moved gets the old content, in place of
\* the same or of none unless a start has failed; nothing else changes.
Moves(p) ==
    /\ Exists(Old(p)) /\ files'[New(p)] = files[Old(p)]
    /\ \A q \in Paths \ {p} : files'[New(q)] = files[New(q)]
    /\ \A q \in Paths : files'[Old(q)] = files[Old(q)]
LEMMA WriteKeeps ==
    ASSUME IInv, Write
    PROVE  IInv' /\ (EntriesStay \/ \E p \in Paths : Moves(p))
  <1>1. /\ boot.st = "written" /\ UNCHANGED <<client, failed>> /\ boot.tmp \in TmpIds
        /\ boot' = [boot EXCEPT !.st = "named"] /\ boot.name \in Movable
    BY DEF Write, IInv, BootTypes
  <1>2. /\ boot'.st = "named" /\ boot'.todo = boot.todo /\ boot'.name = boot.name /\ boot'.tmp = boot.tmp
        /\ BootTypes'
    BY <1>1 DEF IInv, BootTypes, BootStates
  <1>3. ClientTypes'
    BY <1>1, <1>2 DEF IInv, ClientTypes, Up
  <1>4. PICK p \in Paths : boot.name[2] = p /\ (boot.name = Old(p) \/ \E k \in TmpIds : boot.name = Tmp(p, k))
    BY <1>1, NameParts DEF Movable
  <1>. DEFINE t == Tmp(p, boot.tmp)
  <1>5. t \in Names /\ files[t] \in Contents \cup {NoContent} /\ \A q \in Paths : t # New(q) /\ t # Old(q)
    BY <1>1, NamesAreNames, EntryFiles, NamesDiffer DEF IInv
  <1>6. CASE boot.name = Old(p)
    <2>0. Target(boot.name) = New(p)
      BY <1>4, <1>6, NameParts DEF Target
    <2>1. files' = [files EXCEPT ![New(p)] = files[t], ![t] = NoContent]
      BY <1>4, <2>0 DEF Write
    <2>2. EntryFits(p) /\ Exists(Old(p)) /\ files[t] = files[Old(p)]
      BY <1>1, <1>6 DEF IInv, MoveHolds
    <2>3. files'[New(p)] = files[Old(p)]
      BY <1>5, <2>1, <2>2, EntryFiles DEF IInv
    <2>4. \A q \in Paths : files'[Old(q)] = files[Old(q)]
      BY <1>5, <2>1, EntryFiles, NamesDiffer DEF IInv
    <2>4n. \A q \in Paths \ {p} : files'[New(q)] = files[New(q)]
      BY <1>5, <2>1, EntryFiles, NamesDiffer DEF IInv
    <2>5. FileTypes'
      BY <1>5, <2>1, NamesAreNames DEF IInv, FileTypes
    <2>6. NewNamesFit' /\ LayoutsAgree'
      <3>. SUFFICES ASSUME NEW q \in Paths
                    PROVE  /\ Exists(New(q))' => EntryFits(q)
                           /\ ~failed' /\ Exists(New(q))' /\ Exists(Old(q))' => files'[New(q)] = files'[Old(q)]
        BY DEF NewNamesFit, LayoutsAgree
      <3>1. CASE q = p
        BY <2>2, <2>3, <2>4, <3>1
      <3>2. CASE q # p
        BY <1>1, <2>4, <2>4n, <3>2 DEF IInv, NewNamesFit, LayoutsAgree, Exists
      <3>. QED  BY <3>1, <3>2
    <2>7. \A q \in Paths : boot.name = Old(q) => q = p
      BY <1>6, NamesDiffer
    <2>8. MoveHolds'
      <3>1. \A q \in Paths : Exists(Old(q))' <=> Exists(Old(q))
        BY <2>4 DEF Exists
      <3>. QED  BY <1>1, <1>2, <2>2, <2>3, <2>4, <2>7, <3>1 DEF IInv, MoveHolds
    <2>9. Moves(p)
      BY <2>2, <2>3, <2>4, <2>4n DEF Moves
    <2>. QED  BY <1>2, <1>3, <2>5, <2>6, <2>8, <2>9 DEF IInv
  <1>7. CASE \E k \in TmpIds : boot.name = Tmp(p, k)
    <2>1. PICK k \in TmpIds : boot.name = Tmp(p, k)
      BY <1>7
    <2>0. Target(boot.name) = Residue(p, k)
      BY <2>1, NameParts DEF Target
    <2>2. files' = [files EXCEPT ![Residue(p, k)] = files[t], ![t] = NoContent]
      BY <1>4, <2>0 DEF Write
    <2>3. EntriesStay
      BY <1>5, <2>2, EntryFiles, NamesDiffer DEF IInv, EntriesStay
    <2>4. FileTypes'
      BY <1>5, <2>2, NamesAreNames DEF IInv, FileTypes
    <2>5. NewNamesFit' /\ LayoutsAgree'
      BY <1>1, <2>3 DEF IInv, NewNamesFit, LayoutsAgree, EntriesStay, Exists
    <2>6. \A q \in Paths : boot.name # Old(q)
      BY <2>1, NamesDiffer
    <2>7. MoveHolds'
      BY <1>1, <1>2, <2>3, <2>6 DEF IInv, MoveHolds, EntriesStay, Exists
    <2>. QED  BY <1>2, <1>3, <2>3, <2>4, <2>5, <2>7 DEF IInv
  <1>. QED  BY <1>4, <1>6, <1>7

\* The old file goes only when the entry has its content.
Forgets(p) ==
    /\ Exists(Old(p)) /\ files[New(p)] = files[Old(p)] /\ files'[Old(p)] = NoContent
    /\ \A q \in Paths \ {p} : files'[Old(q)] = files[Old(q)]
    /\ \A q \in Paths : files'[New(q)] = files[New(q)]
LEMMA RemoveOldKeeps ==
    ASSUME IInv, RemoveOld
    PROVE  IInv' /\ (EntriesStay \/ \E p \in Paths : Forgets(p))
  <1>1. /\ boot.st = "named" /\ UNCHANGED <<client, failed>> /\ boot.name \in Movable
        /\ files' = [files EXCEPT ![boot.name] = NoContent]
        /\ boot' = At("moving", boot.todo, NoName, 0)
    BY DEF RemoveOld, IInv, BootTypes
  <1>2. boot'.st = "moving" /\ boot'.todo = boot.todo /\ boot'.name = NoName /\ BootTypes'
    BY <1>1 DEF IInv, BootTypes, BootStates, At
  <1>3. ClientTypes'
    BY <1>1, <1>2 DEF IInv, ClientTypes, Up
  <1>4. \A q \in Paths : files'[New(q)] = files[New(q)]
    BY <1>1, EntryFiles, NamesDiffer DEF IInv, Movable
  <1>4o. \A q \in Paths : files'[Old(q)] = IF boot.name = Old(q) THEN NoContent ELSE files[Old(q)]
    BY <1>1, EntryFiles, NamesDiffer DEF IInv
  <1>5. FileTypes'
    BY <1>1 DEF IInv, FileTypes
  <1>10. \A q \in Paths : Exists(New(q))' <=> Exists(New(q))
    BY <1>4 DEF Exists
  <1>10o. \A q \in Paths : Exists(Old(q))' <=> Exists(Old(q)) /\ boot.name # Old(q)
    BY <1>4o DEF Exists
  <1>6. NewNamesFit' /\ LayoutsAgree'
    BY <1>1, <1>4, <1>4o, <1>10, <1>10o DEF IInv, NewNamesFit, LayoutsAgree
  <1>7. \A q \in Paths : NoName # Old(q)
    BY DEF NoName, Old
  <1>8. MoveHolds'
    <2>1. \A q \in Paths : Old(q) \in boot.todo => Exists(Old(q))'
      BY <1>10o DEF IInv, MoveHolds
    <2>2. \A q \in Paths : Exists(Old(q))' => Old(q) \in boot.todo
      BY <1>1, <1>10o DEF IInv, MoveHolds
    <2>. QED  BY <1>2, <1>7, <2>1, <2>2 DEF MoveHolds
  <1>9. EntriesStay \/ \E p \in Paths : Forgets(p)
    <2>1. CASE \A q \in Paths : boot.name # Old(q)
      BY <1>4, <1>4o, <2>1 DEF EntriesStay
    <2>2. ASSUME NEW p \in Paths, boot.name = Old(p)
          PROVE  Forgets(p)
      <3>1. Exists(Old(p)) /\ files[New(p)] = files[Old(p)]
        BY <1>1, <2>2 DEF IInv, MoveHolds
      <3>2. \A q \in Paths \ {p} : boot.name # Old(q)
        BY <2>2, NamesDiffer
      <3>. QED  BY <1>4, <1>4o, <2>2, <3>1, <3>2 DEF Forgets
    <2>. QED  BY <2>1, <2>2
  <1>. QED  BY <1>2, <1>3, <1>5, <1>6, <1>8, <1>9 DEF IInv

LEMMA StartedKeeps ==
    ASSUME IInv, Started
    PROVE  IInv' /\ \A p \in Paths : ~Exists(Old(p))
  <1>1. /\ boot.st = "moving" /\ boot.todo = {} /\ UNCHANGED <<files, client, failed>>
        /\ boot' = At("up", {}, NoName, 0)
    BY DEF Started
  <1>2. \A p \in Paths : ~Exists(Old(p))
    BY <1>1 DEF IInv, MoveHolds
  <1>3. ClientTypes'
    BY <1>1 DEF IInv, ClientTypes, Up, At
  <1>4. BootTypes'
    BY <1>1 DEF IInv, BootTypes, BootStates, At
  <1>5. MoveHolds'
    BY <1>1, <1>2 DEF MoveHolds, At, Exists
  <1>. QED  BY <1>1, <1>2, <1>3, <1>4, <1>5, SameFiles DEF IInv

LEMMA StutterKeeps ==
    ASSUME IInv, UNCHANGED vars
    PROVE  IInv'
  BY DEF vars, IInv, FileTypes, ClientTypes, BootTypes, NewNamesFit, LayoutsAgree, MoveHolds, Exists, Up

LEMMA StartFailsKeeps ==
    ASSUME IInv, StartFails
    PROVE  IInv'
  BY DegradedKeeps DEF StartFails

\* The steps of a start, each of an old entry or a temporary file.
LEMMA BootCases ==
    ASSUME IInv, Boot
    PROVE  List \/ (\E n \in Movable : Read(n)) \/ Write \/ RemoveOld \/ Started
  BY DEF Boot, IInv, BootTypes

LEMMA NextKeeps ==
    ASSUME IInv, [Next]_vars
    PROVE  IInv'
  <1>1. CASE Boot
    BY <1>1, BootCases, ListKeeps, ReadKeeps, WriteKeeps, RemoveOldKeeps, StartedKeeps
  <1>2. ASSUME NEW c \in Clients, Goes(c) \/ GivesUp(c) PROVE IInv'
    BY <1>2, SaveRenameKeeps, RemoveUnderKeeps, EndKeeps DEF Goes
  <1>. QED  BY <1>1, <1>2, SaveKeeps, RemoveKeeps, CrashKeeps, StartFailsKeeps, StutterKeeps DEF Next

------------------------------------------------------------------------------
(* The files implement the map *)

TreeState == <<Entries, OldCopies, Removing, Up, faults, failed>>

LEMMA EntryOf ==
    ASSUME NEW p \in Paths
    PROVE  /\ Entries[p] = files[New(p)] /\ Entries'[p] = files'[New(p)]
           /\ OldCopies[p] = files[Old(p)] /\ OldCopies'[p] = files'[Old(p)]
  BY DEF Entries, OldCopies

\* Steps that change no entry, or one.
LEMMA SameEntries ==
    ASSUME EntriesStay
    PROVE  Entries' = Entries /\ OldCopies' = OldCopies
  BY DEF EntriesStay, Entries, OldCopies
LEMMA OneEntry ==
    ASSUME NEW p \in Paths, NEW v, files'[New(p)] = v,
           \A q \in Paths \ {p} : files'[New(q)] = files[New(q)],
           \A q \in Paths : files'[Old(q)] = files[Old(q)]
    PROVE  Entries' = [Entries EXCEPT ![p] = v] /\ OldCopies' = OldCopies
  BY DEF Entries, OldCopies

LEMMA InitTree ==
    ASSUME IInv, Init
    PROVE  Tree!TreeInit
  <1>1. Entries \in [Paths -> Contents \cup {NoContent}] /\ OldCopies \in [Paths -> Contents \cup {NoContent}]
    BY EntryFiles DEF IInv, Entries, OldCopies
  <1>2. Removing = [c \in Clients |-> NoPath]
    BY DEF Init, Removing, Idle
  <1>3. Up = FALSE /\ faults = 0 /\ failed = FALSE
    BY DEF Init, Up, At
  <1>. QED  BY <1>1, <1>2, <1>3 DEF Tree!TreeInit

\* Who is saving, or has nothing to do, has half removed nothing.
LEMMA RemovingOf ==
    ASSUME IInv, NEW c \in Clients
    PROVE  /\ client[c].op # "remove" => Removing[c] = NoPath
           /\ client[c].op = "remove" => Removing[c] = client[c].path /\ Removing[c] # NoPath
  BY PathAssumption DEF IInv, ClientTypes, Removing

LEMMA SaveStutters ==
    ASSUME IInv, NEW c \in Clients, NEW p \in Paths, NEW v \in Contents, Save(c, p, v)
    PROVE  UNCHANGED TreeState
  <1>1. Entries' = Entries /\ OldCopies' = OldCopies
    BY SaveKeeps, SameEntries
  <1>2. client' = [client EXCEPT ![c] = [op |-> "save", path |-> p, tmp |-> Unused]] /\ client[c].op = "none"
    BY DEF Save, Idle
  <1>3. Removing' = Removing
    BY <1>2 DEF Removing, IInv, ClientTypes
  <1>. QED  BY <1>1, <1>3 DEF Save, Up, TreeState

LEMMA DoneRemoving ==
    ASSUME IInv, NEW c \in Clients, Done(c)
    PROVE  Removing' = [Removing EXCEPT ![c] = NoPath]
  BY DEF Done, Idle, Removing, IInv, ClientTypes

LEMMA SaveRenameSaves ==
    ASSUME IInv, NEW c \in Clients, SaveRename(c)
    PROVE  Tree!TreeNext \/ UNCHANGED TreeState
  <1>. DEFINE p == client[c].path
              k == client[c].tmp
  <1>1. p \in Paths /\ k \in TmpIds /\ client[c].op = "save"
    BY DEF SaveRename, IInv, ClientTypes
  <1>2. Up /\ Up' /\ UNCHANGED <<faults, failed>> /\ Done(c) /\ files' = Renamed(p, k)
    BY DEF SaveRename, Up
  <1>. HIDE DEF p, k
  <1>3. Removing' = Removing
    BY <1>1, <1>2, DoneRemoving, RemovingOf DEF Removing
  <1>4. CASE Exists(Tmp(p, k))
    <2>1. files' = [files EXCEPT ![New(p)] = files[Tmp(p, k)], ![Tmp(p, k)] = NoContent]
      BY <1>2, <1>4 DEF Renamed
    <2>2. files[Tmp(p, k)] \in Contents
      BY <1>1, <1>4, EntryFiles DEF IInv, Exists
    <2>3. /\ files'[New(p)] = files[Tmp(p, k)]
          /\ \A q \in Paths \ {p} : files'[New(q)] = files[New(q)]
          /\ \A q \in Paths : files'[Old(q)] = files[Old(q)]
      BY <1>1, <2>1, EntryFiles, NamesDiffer DEF IInv
    <2>4. Entries' = [Entries EXCEPT ![p] = files[Tmp(p, k)]] /\ OldCopies' = OldCopies
      BY <1>1, <2>3, OneEntry
    <2>5. Tree!TreeSave(p, files[Tmp(p, k)])
      BY <1>2, <1>3, <2>4 DEF Tree!TreeSave
    <2>. QED  BY <1>1, <2>2, <2>5 DEF Tree!TreeNext
  <1>5. CASE ~Exists(Tmp(p, k))
    <2>1. files' = files
      BY <1>2, <1>5 DEF Renamed
    <2>. QED  BY <1>2, <1>3, <2>1 DEF Entries, OldCopies, TreeState
  <1>. QED  BY <1>4, <1>5

LEMMA RemoveRemovesEntry ==
    ASSUME IInv, NEW c \in Clients, NEW p \in Paths, Remove(c, p)
    PROVE  Tree!TreeNext
  <1>1. /\ Up /\ Up' /\ client[c].op = "none" /\ UNCHANGED failed
        /\ client' = [client EXCEPT ![c] = [op |-> "remove", path |-> p, tmp |-> 0]]
        /\ \/ files' = [files EXCEPT ![New(p)] = NoContent] /\ UNCHANGED faults
           \/ files' = files /\ faults' = faults + 1
    BY DEF Remove, Idle, Up, Fails
  <1>2. ASSUME files' = [files EXCEPT ![New(p)] = NoContent], UNCHANGED faults
        PROVE  OldCopies' = OldCopies /\ Entries' = [Entries EXCEPT ![p] = NoContent]
    <2>1. /\ files'[New(p)] = NoContent
          /\ \A q \in Paths \ {p} : files'[New(q)] = files[New(q)]
          /\ \A q \in Paths : files'[Old(q)] = files[Old(q)]
      BY <1>2, EntryFiles, NamesDiffer DEF IInv
    <2>. QED  BY <1>2, <2>1, OneEntry
  <1>3. ASSUME files' = files
        PROVE  OldCopies' = OldCopies /\ Entries' = Entries
    BY <1>3 DEF Entries, OldCopies
  <1>4. OldCopies' = OldCopies /\ \/ Entries' = [Entries EXCEPT ![p] = NoContent] /\ UNCHANGED faults
                                  \/ Entries' = Entries /\ faults' = faults + 1
    BY <1>1, <1>2, <1>3
  <1>5. Removing' = [Removing EXCEPT ![c] = p]
    BY <1>1 DEF Removing, IInv, ClientTypes
  <1>6. Removing[c] = NoPath
    BY <1>1, RemovingOf
  <1>7. Tree!TreeRemoveEntry(c, p)
    BY <1>1, <1>4, <1>5, <1>6 DEF Tree!TreeRemoveEntry
  <1>. QED  BY <1>7 DEF Tree!TreeNext

\* An entry under p has a name only if the directory of p has one.
LEMMA FitUnder ==
    ASSUME NEW p \in Paths, NEW q \in Paths, IsUnder(p, q), EntryFits(q)
    PROVE  TreeFits(p)
  <1>. DEFINE S == Seq(Nat) \ {<<>>}
  <1>0. p \in Seq(S) /\ q \in Seq(S) /\ p # <<>>
    BY PathAssumption
  <1>. HIDE DEF S
  <1>1. Len(p) \in Nat /\ Len(q) \in Nat /\ Len(p) # 0
    BY <1>0
  <1>2. Len(p) \in 1..Len(p) /\ Len(q) > Len(p) /\ p = SubSeq(q, 1, Len(p))
    BY <1>1 DEF IsUnder
  <1>3. \A i \in 1..Len(p) : p[i] = q[i]
    BY <1>0, <1>1, <1>2
  <1>4. \A i \in 1..Len(p) : i \in 1..(Len(q) - 1)
    BY <1>1, <1>2
  <1>5. \A i \in 1..Len(p) : FitSegment(q[i])
    BY <1>4 DEF EntryFits
  <1>6. \A i \in 1..Len(p) : FitSegment(p[i])
    BY <1>3, <1>5
  <1>. QED  BY <1>1, <1>2, <1>6 DEF TreeFits, EntryFits

LEMMA RemoveUnderRemoves ==
    ASSUME IInv, NEW c \in Clients, NEW n \in Names, RemoveUnder(c, n)
    PROVE  Tree!TreeNext \/ UNCHANGED TreeState
  <1>. DEFINE p == client[c].path
  <1>1. /\ Up /\ UNCHANGED <<boot, client, faults, failed>> /\ client[c].op = "remove"
        /\ n[1] \in {"new", "tmp"} /\ IsUnder(p, n[2]) /\ files' = [files EXCEPT ![n] = NoContent]
    BY DEF RemoveUnder, UnderRemoved
  <1>2. Removing[c] = p /\ Removing[c] # NoPath /\ Removing' = Removing /\ Up' = Up
    BY <1>1, RemovingOf DEF Removing, Up
  <1>. HIDE DEF p
  <1>3. CASE \E q \in Paths : n = New(q)
    <2>1. PICK q \in Paths : n = New(q)
      BY <1>3
    <2>2. /\ files'[New(q)] = NoContent
          /\ \A r \in Paths \ {q} : files'[New(r)] = files[New(r)]
          /\ \A r \in Paths : files'[Old(r)] = files[Old(r)]
      BY <1>1, <2>1, EntryFiles, NamesDiffer DEF IInv
    <2>3. Entries' = [Entries EXCEPT ![q] = NoContent] /\ OldCopies' = OldCopies
      BY <2>2, OneEntry
    <2>4. Tree!IsUnder(p, q)
      BY <1>1, <2>1, NameParts DEF Tree!IsUnder, IsUnder
    <2>5. Tree!TreeRemoveUnder(c, q)
      BY <1>1, <1>2, <2>3, <2>4 DEF Tree!TreeRemoveUnder
    <2>. QED  BY <2>5 DEF Tree!TreeNext
  <1>4. CASE \A q \in Paths : n # New(q)
    <2>1. \A q \in Paths : n # Old(q)
      BY <1>1, NameParts
    <2>2. EntriesStay
      BY <1>1, <1>4, <2>1, EntryFiles DEF IInv, EntriesStay
    <2>. QED  BY <1>1, <1>2, <2>2, SameEntries DEF TreeState
  <1>. QED  BY <1>3, <1>4

LEMMA RemoveTreeEnds ==
    ASSUME IInv, NEW c \in Clients, RemoveTree(c)
    PROVE  Tree!TreeNext
  <1>. DEFINE p == client[c].path
  <1>1. /\ p \in Paths /\ client[c].op = "remove" /\ Up /\ UNCHANGED <<files, boot, faults, failed>> /\ Done(c)
        /\ \A n \in Names : Exists(n) => ~UnderRemoved(p, n)
    BY DEF RemoveTree, IInv, ClientTypes
  <1>2. Removing[c] = p /\ Removing[c] # NoPath /\ Removing' = [Removing EXCEPT ![c] = NoPath] /\ Up' = Up
    BY <1>1, RemovingOf, DoneRemoving DEF Up
  <1>. HIDE DEF p
  <1>3. ASSUME NEW q \in Paths, Tree!IsUnder(p, q)
        PROVE  Entries[q] = NoContent
    <2>1. New(q) \in Names /\ New(q)[1] = "new" /\ New(q)[2] = q
      BY NamesAreNames, NameParts
    <2>2. IsUnder(p, q)
      BY <1>3 DEF Tree!IsUnder, IsUnder
    <2>3. Exists(New(q)) => TreeFits(p)
      BY <1>1, <2>2, FitUnder DEF IInv, NewNamesFit
    <2>4. ~Exists(New(q))
      BY <1>1, <2>1, <2>2, <2>3 DEF UnderRemoved
    <2>. QED  BY <2>4, EntryOf DEF Exists
  <1>4. Entries' = Entries /\ OldCopies' = OldCopies
    BY <1>1 DEF Entries, OldCopies
  <1>5. Tree!TreeRemoved(c)
    BY <1>1, <1>2, <1>3, <1>4 DEF Tree!TreeRemoved
  <1>. QED  BY <1>5 DEF Tree!TreeNext

LEMMA GivesUpFails ==
    ASSUME IInv, NEW c \in Clients, GivesUp(c)
    PROVE  Tree!TreeNext
  <1>1. Up /\ Up' = Up /\ UNCHANGED <<files, failed>> /\ faults' = faults + 1 /\ Done(c)
    BY DEF GivesUp, Fails, Up
  <1>2. Entries' = Entries /\ OldCopies' = OldCopies /\ Removing' = [Removing EXCEPT ![c] = NoPath]
    BY <1>1, DoneRemoving DEF Entries, OldCopies
  <1>3. Tree!TreeFails(c)
    BY <1>1, <1>2 DEF Tree!TreeFails
  <1>. QED  BY <1>3 DEF Tree!TreeNext

LEMMA CrashRestarts ==
    ASSUME Crash
    PROVE  Tree!TreeNext
  <1>1. Entries' = Entries /\ OldCopies' = OldCopies
    BY DEF Crash, Entries, OldCopies
  <1>2. Removing' = [c \in Clients |-> NoPath] /\ Up' = FALSE /\ UNCHANGED <<faults, failed>>
    BY DEF Crash, Removing, Idle, Up, At
  <1>. QED  BY <1>1, <1>2 DEF Tree!TreeRestart, Tree!TreeNext

\* A start that is given up.
LEMMA DegradedFails ==
    ASSUME IInv, ~Up, Degraded, UNCHANGED <<files, client>>, faults' \in {faults, faults + 1}
    PROVE  Tree!TreeNext
  <1>1. Entries' = Entries /\ OldCopies' = OldCopies /\ Removing' = Removing
    BY DEF Entries, OldCopies, Removing
  <1>2. Up' = TRUE /\ failed' = TRUE
    BY DEF Degraded, Up, At
  <1>3. Tree!TreeStartFails
    BY <1>1, <1>2 DEF Tree!TreeStartFails
  <1>. QED  BY <1>3 DEF Tree!TreeNext

\* The steps of a start move old copies, or are not seen.
LEMMA BootIsATreeStep ==
    ASSUME IInv, Boot
    PROVE  Tree!TreeNext \/ UNCHANGED TreeState
  <1>1. ~Up /\ Removing' = Removing /\ UNCHANGED faults
    BY DEF Boot, List, Read, Write, RemoveOld, Started, Removing, Up
  <1>2. CASE List
    <2>1. UNCHANGED <<files, failed>> /\ Up' = Up
      BY <1>2 DEF List, Up, At
    <2>. QED  BY <1>1, <2>1 DEF Entries, OldCopies, TreeState
  <1>3. ASSUME NEW n \in Movable, Read(n)
        PROVE  Tree!TreeNext \/ UNCHANGED TreeState
    <2>1. CASE TargetFits(n)
      <3>1. UNCHANGED failed /\ Up' = Up
        BY <1>3, <2>1 DEF Read, Up, At
      <3>. QED  BY <1>1, <1>3, <3>1, ReadKeeps, SameEntries DEF TreeState
    <2>2. CASE ~TargetFits(n)
      <3>1. Degraded /\ UNCHANGED <<files, client>>
        BY <1>3, <2>2 DEF Read
      <3>. QED  BY <1>1, <3>1, DegradedFails
    <2>. QED  BY <2>1, <2>2
  <1>4. CASE Write
    <2>1. UNCHANGED failed /\ Up' = Up
      BY <1>4 DEF Write, Up, IInv, BootTypes
    <2>2. CASE EntriesStay
      BY <1>1, <2>1, <2>2, SameEntries DEF TreeState
    <2>3. ASSUME NEW p \in Paths, Moves(p)
          PROVE  Tree!TreeNext
      <3>1. Entries' = [Entries EXCEPT ![p] = OldCopies[p]] /\ OldCopies' = OldCopies
        BY <2>3, OneEntry, EntryOf DEF Moves
      <3>2. OldCopies[p] # NoContent
        BY <2>3, EntryOf DEF Moves, Exists
      <3>3. failed \/ Entries[p] \in {NoContent, OldCopies[p]}
        BY <2>3, EntryOf DEF Moves, Exists, IInv, LayoutsAgree
      <3>4. Tree!TreeMove(p)
        BY <1>1, <2>1, <3>1, <3>2, <3>3 DEF Tree!TreeMove
      <3>. QED  BY <3>4 DEF Tree!TreeNext
    <2>. QED  BY <1>4, <2>2, <2>3, WriteKeeps
  <1>5. CASE RemoveOld
    <2>1. UNCHANGED failed /\ Up' = Up
      BY <1>5 DEF RemoveOld, Up, At
    <2>2. CASE EntriesStay
      BY <1>1, <2>1, <2>2, SameEntries DEF TreeState
    <2>3. ASSUME NEW p \in Paths, Forgets(p)
          PROVE  Tree!TreeNext
      <3>1. Entries' = Entries /\ OldCopies' = [OldCopies EXCEPT ![p] = NoContent]
        BY <2>3 DEF Forgets, Entries, OldCopies
      <3>2. OldCopies[p] # NoContent /\ Entries[p] = OldCopies[p]
        BY <2>3, EntryOf DEF Forgets, Exists
      <3>3. Tree!TreeForget(p)
        BY <1>1, <2>1, <3>1, <3>2 DEF Tree!TreeForget
      <3>. QED  BY <3>3 DEF Tree!TreeNext
    <2>. QED  BY <1>5, <2>2, <2>3, RemoveOldKeeps
  <1>6. CASE Started
    <2>1. UNCHANGED <<files, failed>> /\ Up' = TRUE
      BY <1>6 DEF Started, Up, At
    <2>2. \A p \in Paths : OldCopies[p] = NoContent
      BY <1>6, StartedKeeps, EntryOf DEF Exists
    <2>3. Entries' = Entries /\ OldCopies' = OldCopies
      BY <2>1 DEF Entries, OldCopies
    <2>4. Tree!TreeStarted
      BY <1>1, <2>1, <2>2, <2>3 DEF Tree!TreeStarted
    <2>. QED  BY <2>4 DEF Tree!TreeNext
  <1>. QED  BY <1>2, <1>3, <1>4, <1>5, <1>6, BootCases

LEMMA NextIsATreeStep ==
    ASSUME IInv, [Next]_vars
    PROVE  [Tree!TreeNext]_TreeState
  <1>1. CASE Boot
    BY <1>1, BootIsATreeStep
  <1>2. CASE Crash
    BY <1>2, CrashRestarts
  <1>3. CASE StartFails
    BY <1>3, DegradedFails DEF StartFails, Fails
  <1>4. ASSUME NEW c \in Clients, Goes(c)
        PROVE  Tree!TreeNext \/ UNCHANGED TreeState
    BY <1>4, SaveRenameSaves, RemoveUnderRemoves, RemoveTreeEnds DEF Goes
  <1>5. ASSUME NEW c \in Clients, GivesUp(c)
        PROVE  Tree!TreeNext
    BY <1>5, GivesUpFails
  <1>6. ASSUME NEW c \in Clients, NEW p \in Paths, Remove(c, p)
        PROVE  Tree!TreeNext
    BY <1>6, RemoveRemovesEntry
  <1>7. ASSUME NEW c \in Clients, NEW p \in Paths, NEW v \in Contents, Save(c, p, v)
        PROVE  UNCHANGED TreeState
    BY <1>7, SaveStutters
  <1>8. CASE UNCHANGED vars
    BY <1>8 DEF vars, Entries, OldCopies, Removing, Up, TreeState
  <1>. QED  BY <1>1, <1>2, <1>3, <1>4, <1>5, <1>6, <1>7, <1>8 DEF Next

\* Through any number of crashes, failing calls and starts, the files are the
\* map of MemoryService (store.rs save, remove, migrate_legacy_layout).
THEOREM FilesAreATree == Spec => IsATree
  <1>1. Init => IInv /\ Tree!TreeInit
    BY InitIInv, InitTree
  <1>2. IInv /\ [Next]_vars => IInv'
    BY NextKeeps
  <1>3. IInv /\ [Next]_vars => [Tree!TreeNext]_(Tree!treeVars)
    BY NextIsATreeStep DEF Tree!treeVars, TreeState
  <1>. QED  BY <1>1, <1>2, <1>3, PTL DEF Spec, IsATree, Tree!TreeSpec

------------------------------------------------------------------------------
(* SessionMigration: its recursions *)

Below == {pair \in Nat \X Nat : pair[1] < pair[2]}
LEMMA BelowIsFounded == IsWellFoundedOn(Below, Nat)
  BY NatLessThanWellFounded, Zenon DEF OpToRel, Below

LEMMA Least ==
    ASSUME NEW T \in SUBSET Nat, T # {}
    PROVE  \E n \in T : \A m \in T : n <= m
  <1>1. PICK n \in T : \A m \in T : ~ (<<m, n>> \in Below)
    BY BelowIsFounded, WFMin, Zenon
  <1>2. \A m \in T : ~ (m < n)
    BY <1>1 DEF Below
  <1>. QED  BY <1>2

\* What holds at 0, and at each number up to N behind one at which it holds,
\* holds up to N.
LEMMA UpTo ==
    ASSUME NEW N \in Nat, NEW G, 0 \in G, \A n \in 1..N : n - 1 \in G => n \in G
    PROVE  0..N \subseteq G
  <1>. DEFINE bad == {n \in 0..N : n \notin G}
  <1>. SUFFICES ASSUME bad # {} PROVE FALSE
    OBVIOUS
  <1>1. PICK n \in bad : \A m \in bad : n <= m
    <2>1. bad \in SUBSET Nat /\ bad # {}
      OBVIOUS
    <2>. HIDE DEF bad
    <2>. QED  BY <2>1, Least
  <1>2. n \in 1..N /\ n - 1 \in 0..N /\ ~ (n <= n - 1)
    BY <1>1
  <1>. QED  BY <1>1, <1>2

\* A function that begins with a and goes on with h, for N steps.
LEMMA Iterates ==
    ASSUME NEW A, NEW a \in A, NEW N \in Nat, NEW h \in [1..N -> [A -> A]]
    PROVE  \E f \in [0..N -> A] : f[0] = a /\ \A n \in 1..N : f[n] = h[n][f[n - 1]]
  <1>. DEFINE Reaches(m, f) == f[0] = a /\ \A n \in 1..m : f[n] = h[n][f[n - 1]]
              G == {m \in 0..N : \E f \in [0..m -> A] : Reaches(m, f)}
  <1>1. 0 \in G
    <2>. DEFINE first == [n \in 0..0 |-> a]
    <2>1. first \in [0..0 -> A] /\ Reaches(0, first)
      OBVIOUS
    <2>. HIDE DEF first, Reaches
    <2>. QED  BY <2>1
  <1>2. ASSUME NEW m \in 1..N, m - 1 \in G PROVE m \in G
    <2>1. PICK f \in [0..(m - 1) -> A] : Reaches(m - 1, f)
      BY <1>2
    <2>. DEFINE longer == [n \in 0..m |-> IF n = m THEN h[m][f[m - 1]] ELSE f[n]]
    <2>2. m \in 1..N /\ m - 1 \in 0..(m - 1) /\ f[m - 1] \in A /\ h[m][f[m - 1]] \in A
      BY <2>1
    <2>3. longer \in [0..m -> A]
      BY <2>2
    <2>4. longer[0] = a /\ longer[m] = h[m][f[m - 1]] /\ \A n \in 0..(m - 1) : longer[n] = f[n]
      BY <2>1, <2>2
    <2>. HIDE DEF longer
    <2>5. ASSUME NEW n \in 1..m PROVE longer[n] = h[n][longer[n - 1]]
      <3>1. CASE n = m
        BY <3>1, <2>4, <2>2
      <3>2. CASE n # m
        BY <3>2, <2>4, <2>1
      <3>. QED  BY <3>1, <3>2
    <2>6. Reaches(m, longer)
      BY <2>4, <2>5
    <2>. HIDE DEF Reaches
    <2>. QED  BY <2>3, <2>6
  <1>3. 0..N \subseteq G
    <2>. HIDE DEF G
    <2>. QED  BY <1>1, <1>2, UpTo
  <1>4. N \in G
    BY <1>3
  <1>. QED  BY <1>4

\* The places of s that Picked has taken up to place n, one by one.
Taking(s, at, t) ==
    /\ t[0] = <<>>
    /\ \A n \in 1..Len(s) : t[n] = IF n \in at THEN Append(t[n - 1], s[n]) ELSE t[n - 1]
LEMMA PickedTakes ==
    ASSUME NEW T, NEW s \in Seq(T), NEW at
    PROVE  \E t \in [0..Len(s) -> Seq(T)] : Taking(s, at, t) /\ Picked(s, at) = t[Len(s)]
  <1>. DEFINE Def(t) == [n \in 0..Len(s) |->
                  IF n = 0 THEN <<>> ELSE IF n \in at THEN Append(t[n - 1], s[n]) ELSE t[n - 1]]
              h == [n \in 1..Len(s) |-> [v \in Seq(T) |-> IF n \in at THEN Append(v, s[n]) ELSE v]]
  <1>1. Len(s) \in Nat /\ \A n \in 1..Len(s) : s[n] \in T
    OBVIOUS
  <1>2. PICK g \in [0..Len(s) -> Seq(T)] : g[0] = <<>> /\ \A n \in 1..Len(s) : g[n] = h[n][g[n - 1]]
    <2>1. h \in [1..Len(s) -> [Seq(T) -> Seq(T)]]
      BY <1>1
    <2>2. <<>> \in Seq(T) /\ Len(s) \in Nat
      OBVIOUS
    <2>. DEFINE A == Seq(T) a == <<>> N == Len(s)
    <2>3. a \in A /\ N \in Nat /\ h \in [1..N -> [A -> A]]
      BY <2>1, <2>2
    <2>4. \E f \in [0..N -> A] : f[0] = a /\ \A n \in 1..N : f[n] = h[n][f[n - 1]]
      <3>. HIDE DEF h, A, a, N
      <3>. QED  BY <2>3, Iterates
    <2>. QED  BY <2>4, Zenon
  <1>3. g = Def(g)
    <2>1. ASSUME NEW n \in 1..Len(s)
          PROVE  g[n] = IF n \in at THEN Append(g[n - 1], s[n]) ELSE g[n - 1]
      <3>1. n - 1 \in 0..Len(s) /\ g[n - 1] \in Seq(T)
        <4>1. n - 1 \in 0..Len(s)
          BY <1>1
        <4>. QED  BY <4>1
      <3>2. h[n] = [v \in Seq(T) |-> IF n \in at THEN Append(v, s[n]) ELSE v]
        OBVIOUS
      <3>3. h[n][g[n - 1]] = IF n \in at THEN Append(g[n - 1], s[n]) ELSE g[n - 1]
        BY <3>1, <3>2, Zenon
      <3>. QED  BY <1>2, <3>3, Zenon
    <2>2. DOMAIN g = 0..Len(s) /\ g = [n \in 0..Len(s) |-> g[n]]
      OBVIOUS
    <2>3. ASSUME NEW n \in 0..Len(s)
          PROVE  g[n] = IF n = 0 THEN <<>> ELSE IF n \in at THEN Append(g[n - 1], s[n]) ELSE g[n - 1]
      <3>1. CASE n = 0
        BY <3>1, <1>2
      <3>2. CASE n # 0
        <4>1. n \in 1..Len(s)
          BY <3>2
        <4>. QED  BY <4>1, <2>1, <3>2, Zenon
      <3>. QED  BY <3>1, <3>2
    <2>. QED  BY <2>2, <2>3, Zenon
  <1>4. (CHOOSE t : t = Def(t)) = Def(CHOOSE t : t = Def(t))
    <2>. HIDE DEF Def
    <2>. QED  BY <1>3, Zenon
  <1>5. Picked(s, at) = (CHOOSE t : t = Def(t))[Len(s)]
    BY Zenon DEF Picked
  <1>6. ASSUME NEW t, t = Def(t)
        PROVE  Taking(s, at, t) /\ t \in [0..Len(s) -> Seq(T)]
    <2>1. DOMAIN t = 0..Len(s) /\ t = [n \in 0..Len(s) |-> t[n]]
      BY <1>6, <1>1
    <2>2. t[0] = <<>>
      BY <1>6, <1>1
    <2>3. ASSUME NEW n \in 1..Len(s)
          PROVE  t[n] = IF n \in at THEN Append(t[n - 1], s[n]) ELSE t[n - 1]
      <3>1. n \in 0..Len(s) /\ n # 0
        OBVIOUS
      <3>2. t[n] = Def(t)[n]
        BY <1>6, Zenon
      <3>. QED  BY <3>1, <3>2, Zenon
    <2>. DEFINE G == {n \in 0..Len(s) : t[n] \in Seq(T)}
    <2>4. 0 \in G /\ \A n \in 1..Len(s) : n - 1 \in G => n \in G
      <3>1. 0 \in G
        <4>1. 0 \in 0..Len(s) /\ <<>> \in Seq(T)
          BY <1>1
        <4>. QED  BY <2>2, <4>1
      <3>2. ASSUME NEW n \in 1..Len(s), t[n - 1] \in Seq(T) PROVE t[n] \in Seq(T)
        <4>1. s[n] \in T /\ Append(t[n - 1], s[n]) \in Seq(T)
          BY <1>1, <3>2
        <4>. QED  BY <2>3, <3>2, <4>1
      <3>. QED  BY <3>1, <3>2
    <2>5. 0..Len(s) \subseteq G
      <3>. HIDE DEF G
      <3>. QED  BY <1>1, <2>4, UpTo
    <2>. QED  BY <2>1, <2>2, <2>3, <2>5 DEF Taking
  <1>. HIDE DEF Def
  <1>. QED  BY <1>4, <1>5, <1>6, Zenon

\* A sequence is picked from s at these places, each once.
PickedFrom(v, k, s, at, N) ==
    /\ k \in [1..Len(v) -> {n \in 1..N : n \in at}]
    /\ \A i \in 1..Len(v) : v[i] = s[k[i]]
    /\ \A i, j \in 1..Len(v) : k[i] = k[j] => i = j
    /\ \A n \in 1..N : n \in at => \E i \in 1..Len(v) : k[i] = n
LEMMA PickedIs ==
    ASSUME NEW T, NEW s \in Seq(T), NEW at
    PROVE  /\ Picked(s, at) \in Seq(T) /\ Len(Picked(s, at)) <= Len(s)
           /\ \E k : PickedFrom(Picked(s, at), k, s, at, Len(s))
  <1>1. PICK t \in [0..Len(s) -> Seq(T)] : Taking(s, at, t) /\ Picked(s, at) = t[Len(s)]
    BY PickedTakes
  <1>. DEFINE G == {n \in 0..Len(s) : Len(t[n]) <= n /\ \E k : PickedFrom(t[n], k, s, at, n)}
  <1>2. Len(s) \in Nat /\ \A n \in 1..Len(s) : s[n] \in T
    OBVIOUS
  <1>3. 0 \in G
    <2>1. t[0] = <<>> /\ Len(t[0]) = 0
      BY <1>1 DEF Taking
    <2>2. PickedFrom(t[0], <<>>, s, at, 0)
      BY <2>1 DEF PickedFrom
    <2>. QED  BY <1>2, <2>1, <2>2
  <1>4. ASSUME NEW n \in 1..Len(s), n - 1 \in G PROVE n \in G
    <2>1. PICK k : PickedFrom(t[n - 1], k, s, at, n - 1)
      BY <1>4
    <2>2. n - 1 \in 0..Len(s) /\ t[n - 1] \in Seq(T) /\ Len(t[n - 1]) \in Nat /\ Len(t[n - 1]) <= n - 1
      BY <1>4, <1>1
    <2>. DEFINE v == t[n - 1]
    <2>3. CASE n \notin at
      <3>1. t[n] = v
        BY <2>3, <1>1 DEF Taking
      <3>2. PickedFrom(v, k, s, at, n)
        <4>1. {i \in 1..n : i \in at} = {i \in 1..(n - 1) : i \in at}
          BY <2>3
        <4>2. \A p \in 1..n : p \in at => p \in 1..(n - 1)
          BY <2>3
        <4>. HIDE DEF v
        <4>. QED  BY <2>1, <4>1, <4>2, Zenon DEF PickedFrom, v
      <3>. QED  BY <2>2, <3>1, <3>2
    <2>4. CASE n \in at
      <3>1. t[n] = Append(v, s[n])
        BY <2>4, <1>1 DEF Taking
      <3>. DEFINE m == [i \in 1..(Len(v) + 1) |-> IF i = Len(v) + 1 THEN n ELSE k[i]]
      <3>2. /\ Len(t[n]) = Len(v) + 1 /\ t[n][Len(v) + 1] = s[n]
            /\ \A i \in 1..Len(v) : t[n][i] = v[i]
        BY <2>2, <3>1
      <3>3. /\ k \in [1..Len(v) -> {i \in 1..(n - 1) : i \in at}]
            /\ \A i \in 1..Len(v) : v[i] = s[k[i]]
            /\ \A i, j \in 1..Len(v) : k[i] = k[j] => i = j
            /\ \A p \in 1..(n - 1) : p \in at => \E i \in 1..Len(v) : k[i] = p
        BY <2>1 DEF PickedFrom
      <3>4. m[Len(v) + 1] = n /\ \A i \in 1..Len(v) : m[i] = k[i] /\ m[i] \in 1..(n - 1) /\ m[i] \in at
        BY <2>2, <3>3
      <3>5. m \in [1..(Len(v) + 1) -> {i \in 1..n : i \in at}]
        BY <2>2, <2>4, <3>3
      <3>. HIDE DEF m
      <3>6. ASSUME NEW i \in 1..(Len(v) + 1) PROVE t[n][i] = s[m[i]]
        <4>1. i \in 1..Len(v) \/ i = Len(v) + 1
          BY <2>2
        <4>2. CASE i = Len(v) + 1
          BY <4>2, <3>2, <3>4
        <4>3. CASE i \in 1..Len(v)
          <5>1. t[n][i] = v[i] /\ v[i] = s[k[i]] /\ m[i] = k[i]
            BY <4>3, <3>2, <3>3, <3>4
          <5>. QED  BY <5>1
        <4>. QED  BY <4>1, <4>2, <4>3
      <3>7. ASSUME NEW i \in 1..(Len(v) + 1), NEW j \in 1..(Len(v) + 1), m[i] = m[j] PROVE i = j
        <4>1. (i \in 1..Len(v) \/ i = Len(v) + 1) /\ (j \in 1..Len(v) \/ j = Len(v) + 1)
          BY <2>2
        <4>2. CASE i \in 1..Len(v) /\ j \in 1..Len(v)
          BY <4>2, <3>3, <3>4, <3>7
        <4>3. CASE i = Len(v) + 1 /\ j \in 1..Len(v)
          BY <4>3, <3>4, <3>7
        <4>4. CASE j = Len(v) + 1 /\ i \in 1..Len(v)
          BY <4>4, <3>4, <3>7
        <4>. QED  BY <4>1, <4>2, <4>3, <4>4
      <3>8. ASSUME NEW p \in 1..n, p \in at PROVE \E i \in 1..(Len(v) + 1) : m[i] = p
        <4>1. CASE p = n
          BY <4>1, <3>4, <2>2
        <4>2. CASE p # n
          <5>1. PICK i \in 1..Len(v) : k[i] = p
            BY <4>2, <3>3, <3>8
          <5>2. i \in 1..(Len(v) + 1) /\ m[i] = p
            BY <5>1, <3>4, <2>2
          <5>. QED  BY <5>2
        <4>. QED  BY <4>1, <4>2
      <3>9. PickedFrom(t[n], m, s, at, n)
        BY <3>2, <3>5, <3>6, <3>7, <3>8 DEF PickedFrom
      <3>. QED  BY <2>2, <3>2, <3>9
    <2>. QED  BY <2>3, <2>4
  <1>5. Len(s) \in G
    <2>1. 0..Len(s) \subseteq G
      <3>. HIDE DEF G
      <3>. QED  BY <1>2, <1>3, <1>4, UpTo
    <2>. QED  BY <1>2, <2>1
  <1>. QED  BY <1>1, <1>2, <1>5

------------------------------------------------------------------------------
(* SessionMigration: chains and tops *)

\* N steps from a.
Walk(A, a, N, step, f) == f \in [0..N -> A] /\ f[0] = a /\ \A n \in 1..N : f[n] = step[f[n - 1]]
HasWalk(A, a, N, step) == \E f : Walk(A, a, N, step, f)
LEMMA Repeats ==
    ASSUME NEW A, NEW a \in A, NEW N \in Nat, NEW step \in [A -> A]
    PROVE  HasWalk(A, a, N, step)
  <1>. DEFINE h == [n \in 1..N |-> step]
  <1>1. h \in [1..N -> [A -> A]] /\ \A n \in 1..N : h[n] = step
    OBVIOUS
  <1>. HIDE DEF h
  <1>2. PICK f \in [0..N -> A] : f[0] = a /\ \A n \in 1..N : f[n] = h[n][f[n - 1]]
    BY <1>1, Iterates
  <1>. QED  BY <1>1, <1>2 DEF HasWalk, Walk

\* The message that has the id.
MessageOf(s, id) == s[IndexOf(s, id)]
LEMMA AtHasId ==
    ASSUME NEW s \in Seq(Message), NEW id \in IdsOf(s)
    PROVE  IndexOf(s, id) \in DOMAIN s /\ MessageOf(s, id).id = id /\ MessageOf(s, id) \in Message
  <1>1. \E i \in DOMAIN s : s[i].id = id
    BY DEF IdsOf
  <1>2. IndexOf(s, id) \in DOMAIN s /\ s[IndexOf(s, id)].id = id
    BY <1>1, Zenon DEF IndexOf
  <1>3. \A i \in DOMAIN s : s[i] \in Message
    OBVIOUS
  <1>. QED  BY <1>2, <1>3 DEF MessageOf

\* A chain is made of messages of the file.
MadeOf(s) == {v \in Seq(Message) : v # <<>> /\ \A i \in DOMAIN v : \E j \in DOMAIN s : v[i] = s[j]}
LEMMA ChainWithin ==
    ASSUME NEW s \in Seq(Message), NEW end
    PROVE  /\ Chain(s, end) \in Seq(Message)
           /\ \A i \in DOMAIN Chain(s, end) : \E j \in DOMAIN s : Chain(s, end)[i] = s[j]
  <1>1. CASE end \notin IdsOf(s)
    <2>1. Chain(s, end) = s
      BY <1>1, Zenon DEF Chain
    <2>. QED  BY <2>1
  <1>2. CASE end \in IdsOf(s)
    <2>. DEFINE Longer(v) == LET p == Head(v).parent
                             IN  IF p \in IdsOf(s) THEN <<s[IndexOf(s, p)]>> \o v ELSE v
                N == Len(s)
                A == MadeOf(s)
                a == <<s[IndexOf(s, end)]>>
                h == [v \in A |-> Longer(v)]
                Def(f) == [n \in 0..N |-> IF n = 0 THEN a ELSE Longer(f[n - 1])]
    <2>1. N \in Nat
      OBVIOUS
    <2>2. a \in A
      <3>1. IndexOf(s, end) \in DOMAIN s /\ MessageOf(s, end) \in Message
        BY <1>2, AtHasId
      <3>. QED  BY <3>1 DEF MadeOf, MessageOf
    <2>3. ASSUME NEW v \in A PROVE Longer(v) \in A
      <3>. DEFINE p == Head(v).parent
      <3>1. v \in Seq(Message) /\ v # <<>> /\ \A i \in DOMAIN v : \E j \in DOMAIN s : v[i] = s[j]
        BY DEF MadeOf
      <3>2. CASE p \in IdsOf(s)
        <4>. DEFINE m == s[IndexOf(s, p)]
        <4>1. IndexOf(s, p) \in DOMAIN s /\ m \in Message
          <5>. HIDE DEF p
          <5>. QED  BY <3>2, AtHasId DEF MessageOf
        <4>2. Longer(v) = <<m>> \o v
          BY <3>2, Zenon
        <4>. HIDE DEF p
        <4>3. /\ <<m>> \o v \in Seq(Message) /\ <<m>> \o v # <<>>
              /\ DOMAIN (<<m>> \o v) = 1..(Len(v) + 1)
              /\ (<<m>> \o v)[1] = m /\ \A i \in 2..(Len(v) + 1) : (<<m>> \o v)[i] = v[i - 1]
          BY <3>1, <4>1
        <4>4. ASSUME NEW i \in 1..(Len(v) + 1) PROVE \E j \in DOMAIN s : (<<m>> \o v)[i] = s[j]
          <5>1. CASE i = 1
            BY <5>1, <4>1, <4>3
          <5>2. CASE i # 1
            <6>1. i - 1 \in DOMAIN v /\ (<<m>> \o v)[i] = v[i - 1]
              BY <5>2, <4>3, <3>1
            <6>. QED  BY <6>1, <3>1
          <5>. QED  BY <5>1, <5>2
        <4>. HIDE DEF m, Longer
        <4>. QED  BY <4>2, <4>3, <4>4 DEF MadeOf
      <3>3. CASE p \notin IdsOf(s)
        <4>1. Longer(v) = v
          BY <3>3, Zenon
        <4>. QED  BY <4>1
      <3>. QED  BY <3>2, <3>3
    <2>4. PICK g \in [0..N -> A] : g[0] = a /\ \A n \in 1..N : g[n] = h[g[n - 1]]
      <3>1. h \in [A -> A]
        BY <2>3
      <3>. HIDE DEF h, A, a, N
      <3>2. HasWalk(A, a, N, h)
        BY <2>1, <2>2, <3>1, Repeats
      <3>. QED  BY <3>2, Zenon DEF HasWalk, Walk
    <2>5. g = Def(g)
      <3>1. ASSUME NEW n \in 1..N PROVE g[n] = Longer(g[n - 1])
        <4>1. n - 1 \in 0..N
          BY <2>1
        <4>2. g[n - 1] \in A
          BY <4>1
        <4>3. h[g[n - 1]] = Longer(g[n - 1])
          <5>. HIDE DEF A, Longer
          <5>. QED  BY <4>2, Zenon
        <4>. QED  BY <2>4, <4>3, Zenon
      <3>. HIDE DEF Longer, a, A
      <3>2. ASSUME NEW n \in 0..N PROVE g[n] = IF n = 0 THEN a ELSE Longer(g[n - 1])
        <4>1. CASE n = 0
          BY <4>1, <2>4
        <4>2. CASE n # 0
          <5>1. n \in 1..N
            BY <4>2
          <5>. QED  BY <5>1, <3>1, <4>2, Zenon
        <4>. QED  BY <4>1, <4>2
      <3>3. g = [n \in 0..N |-> g[n]]
        OBVIOUS
      <3>. QED  BY <3>2, <3>3, Zenon
    <2>6. (CHOOSE f : f = Def(f)) = Def(CHOOSE f : f = Def(f))
      <3>. HIDE DEF Def
      <3>. QED  BY <2>5, Zenon
    <2>7. Chain(s, end) = (CHOOSE f : f = Def(f))[N]
      BY <1>2, Zenon DEF Chain
    <2>8. ASSUME NEW f, f = Def(f) PROVE f[N] \in A
      <3>. DEFINE G == {n \in 0..N : f[n] \in A}
      <3>. HIDE DEF Longer, a, A
      <3>1. \A n \in 0..N : f[n] = IF n = 0 THEN a ELSE Longer(f[n - 1])
        BY <2>8, Zenon
      <3>2. 0 \in G
        BY <2>1, <2>2, <3>1
      <3>3. ASSUME NEW n \in 1..N, n - 1 \in G PROVE n \in G
        <4>1. n \in 0..N /\ n # 0 /\ f[n - 1] \in A
          BY <3>3
        <4>2. f[n] = Longer(f[n - 1])
          BY <4>1, <3>1, Zenon
        <4>3. f[n] \in A
          BY <4>1, <4>2, <2>3, Zenon
        <4>. QED  BY <4>1, <4>3
      <3>4. 0..N \subseteq G
        <4>. HIDE DEF G, N
        <4>. QED  BY <2>1, <3>2, <3>3, UpTo
      <3>. QED  BY <2>1, <3>4
    <2>9. Chain(s, end) \in MadeOf(s)
      <3>. HIDE DEF Def, N
      <3>. QED  BY <2>6, <2>7, <2>8, Zenon
    <2>. QED  BY <2>9 DEF MadeOf
  <1>. QED  BY <1>1, <1>2

\* One step of the way up from a message to its top.
Stops(s, m) == IsBoundary(m) \/ m.parent \notin IdsOf(s)
Climb(s, id) == IF Stops(s, MessageOf(s, id)) THEN MessageOf(s, id).id ELSE MessageOf(s, id).parent
Climbing(s, i, up) ==
    /\ up \in [0..Len(s) -> IdsOf(s)]
    /\ up[0] = s[i].id
    /\ \A n \in 1..Len(s) : up[n] = Climb(s, up[n - 1])
LEMMA TopClimbs ==
    ASSUME NEW s \in Seq(Message), NEW i \in DOMAIN s
    PROVE  \E up : Climbing(s, i, up) /\ Top(s, i) = MessageOf(s, up[Len(s)])
  <1>. DEFINE Step(id) == LET m == s[IndexOf(s, id)]
                          IN  IF IsBoundary(m) \/ m.parent \notin IdsOf(s) THEN m.id ELSE m.parent
              N == Len(s)
              A == IdsOf(s)
              a == s[i].id
              h == [id \in A |-> Step(id)]
              Def(f) == [n \in 0..N |-> IF n = 0 THEN a ELSE Step(f[n - 1])]
  <1>1. N \in Nat /\ a \in A
    BY DEF IdsOf
  <1>2. \A id : Step(id) = Climb(s, id)
    BY Zenon DEF Climb, Stops, MessageOf
  <1>3. ASSUME NEW id \in A PROVE Step(id) \in A
    <2>1. MessageOf(s, id).id \in A
      BY AtHasId
    <2>2. Climb(s, id) \in A
      BY <2>1 DEF Climb, Stops
    <2>. QED  BY <1>2, <2>2, Zenon
  <1>4. PICK g \in [0..N -> A] : g[0] = a /\ \A n \in 1..N : g[n] = h[g[n - 1]]
    <2>1. h \in [A -> A]
      <3>. HIDE DEF Step, A
      <3>. QED  BY <1>3
    <2>. HIDE DEF Step, h, A, a, N
    <2>2. HasWalk(A, a, N, h)
      BY <1>1, <2>1, Repeats
    <2>. QED  BY <2>2, Zenon DEF HasWalk, Walk
  <1>5. g = Def(g)
    <2>1. ASSUME NEW n \in 1..N PROVE g[n] = Step(g[n - 1])
      <3>1. n - 1 \in 0..N
        BY <1>1
      <3>2. g[n - 1] \in A
        BY <3>1
      <3>3. h[g[n - 1]] = Step(g[n - 1])
        <4>. HIDE DEF A, Step
        <4>. QED  BY <3>2, Zenon
      <3>. QED  BY <1>4, <3>3, Zenon
    <2>. HIDE DEF Step, a, A
    <2>2. ASSUME NEW n \in 0..N PROVE g[n] = IF n = 0 THEN a ELSE Step(g[n - 1])
      <3>1. CASE n = 0
        BY <3>1, <1>4
      <3>2. CASE n # 0
        <4>1. n \in 1..N
          BY <3>2
        <4>. QED  BY <4>1, <2>1, <3>2, Zenon
      <3>. QED  BY <3>1, <3>2
    <2>3. g = [n \in 0..N |-> g[n]]
      OBVIOUS
    <2>. QED  BY <2>2, <2>3, Zenon
  <1>6. (CHOOSE f : f = Def(f)) = Def(CHOOSE f : f = Def(f))
    <2>. HIDE DEF Def
    <2>. QED  BY <1>5, Zenon
  <1>7. Top(s, i) = MessageOf(s, (CHOOSE f : f = Def(f))[N])
    BY Zenon DEF Top, MessageOf
  <1>8. ASSUME NEW f, f = Def(f) PROVE Climbing(s, i, f)
    <2>. DEFINE G == {n \in 0..N : f[n] \in A}
    <2>1. /\ DOMAIN f = 0..N /\ f = [n \in 0..N |-> f[n]]
      <3>. HIDE DEF Step, a
      <3>. QED  BY <1>8
    <2>. HIDE DEF Step, a, A
    <2>2. \A n \in 0..N : f[n] = IF n = 0 THEN a ELSE Step(f[n - 1])
      BY <1>8, Zenon
    <2>3. 0 \in G /\ f[0] = a
      BY <1>1, <2>2
    <2>4. ASSUME NEW n \in 1..N PROVE f[n] = Step(f[n - 1])
      <3>1. n \in 0..N /\ n # 0
        OBVIOUS
      <3>. QED  BY <3>1, <2>2, Zenon
    <2>5. ASSUME NEW n \in 1..N, n - 1 \in G PROVE n \in G
      <3>1. n \in 0..N /\ f[n - 1] \in A
        BY <2>5
      <3>2. f[n] \in A
        BY <3>1, <2>4, <1>3, Zenon
      <3>. QED  BY <3>1, <3>2
    <2>6. 0..N \subseteq G
      <3>. HIDE DEF G, N
      <3>. QED  BY <1>1, <2>3, <2>5, UpTo
    <2>7. f \in [0..N -> A]
      BY <2>1, <2>6
    <2>. QED  BY <2>3, <2>4, <2>7, <1>2, Zenon DEF Climbing, a, A
  <1>. HIDE DEF Def
  <1>. QED  BY <1>6, <1>7, <1>8, Zenon

\* A file holds trees, however long they are.
Once(s) == \A i, j \in DOMAIN s : s[i].id = s[j].id => i = j
Inside(s) == \A i \in DOMAIN s : s[i].parent \in IdsOf(s) \cup {None}
Forest(s) ==
    /\ s \in Seq(Message) /\ Once(s) /\ Inside(s) /\ None \notin IdsOf(s)
    /\ \E rank \in [IdsOf(s) -> Nat] : Above(s, rank)

LEMMA OnceFinds ==
    ASSUME NEW s \in Seq(Message), Once(s), NEW i \in DOMAIN s
    PROVE  s[i].id \in IdsOf(s) /\ IndexOf(s, s[i].id) = i /\ MessageOf(s, s[i].id) = s[i]
  <1>1. s[i].id \in IdsOf(s)
    BY DEF IdsOf
  <1>2. IndexOf(s, s[i].id) \in DOMAIN s /\ MessageOf(s, s[i].id).id = s[i].id
    BY <1>1, AtHasId
  <1>. QED  BY <1>1, <1>2 DEF Once, MessageOf

\* In a file of n messages none has more than n - 1 above it.
LEMMA Depths ==
    ASSUME NEW s \in Seq(Message), NEW rank \in [IdsOf(s) -> Nat], Above(s, rank)
    PROVE  \E depth \in [IdsOf(s) -> 0..(Len(s) - 1)] : Above(s, depth)
  <1>. DEFINE N == Len(s)
              Higher(id) == {j \in 1..N : rank[s[j].id] < rank[id]}
              depth == [id \in IdsOf(s) |-> Cardinality(Higher(id))]
  <1>1. N \in Nat /\ DOMAIN s = 1..N /\ \A j \in 1..N : s[j] \in Message /\ s[j].id \in IdsOf(s)
    BY DEF IdsOf
  <1>2. ASSUME NEW i \in 1..N
        PROVE  /\ IsFiniteSet(Higher(s[i].id))
               /\ Cardinality(Higher(s[i].id)) \in 0..(N - 1)
    <2>. DEFINE rest == (1..N) \ {i}
    <2>1. IsFiniteSet(1..N) /\ Cardinality(1..N) = N
      BY <1>1, FS_Interval
    <2>2. IsFiniteSet(rest) /\ Cardinality(rest) = N - 1
      BY <2>1, <1>2, FS_RemoveElement
    <2>3. ~ (rank[s[i].id] < rank[s[i].id])
      BY <1>1
    <2>4. Higher(s[i].id) \in SUBSET rest
      BY <2>3
    <2>. HIDE DEF Higher, rest
    <2>5. IsFiniteSet(Higher(s[i].id)) /\ Cardinality(Higher(s[i].id)) <= N - 1
      BY <2>2, <2>4, FS_Subset
    <2>. QED  BY <2>5, <1>1, FS_CardinalityType
  <1>3. ASSUME NEW id \in IdsOf(s) PROVE \E i \in 1..N : s[i].id = id
    BY <1>1 DEF IdsOf
  <1>4. depth \in [IdsOf(s) -> 0..(N - 1)]
    <2>1. ASSUME NEW id \in IdsOf(s) PROVE Cardinality(Higher(id)) \in 0..(N - 1)
      <3>. HIDE DEF Higher
      <3>. QED  BY <1>2, <1>3
    <2>. HIDE DEF Higher
    <2>. QED  BY <2>1
  <1>5. ASSUME NEW i \in 1..N, s[i].parent \in IdsOf(s)
        PROVE  depth[s[i].parent] < depth[s[i].id]
    <2>1. PICK k \in 1..N : s[k].id = s[i].parent
      BY <1>3, <1>5
    <2>2. rank[s[k].id] < rank[s[i].id]
      BY <1>1, <1>5, <2>1 DEF Above
    <2>3. rank[s[k].id] \in Nat /\ rank[s[i].id] \in Nat /\ \A j \in 1..N : rank[s[j].id] \in Nat
      BY <1>1
    <2>4. Higher(s[k].id) \in SUBSET Higher(s[i].id) /\ k \in Higher(s[i].id) /\ k \notin Higher(s[k].id)
      BY <2>2, <2>3
    <2>. HIDE DEF Higher
    <2>5. /\ Cardinality(Higher(s[k].id)) <= Cardinality(Higher(s[i].id))
          /\ Cardinality(Higher(s[k].id)) # Cardinality(Higher(s[i].id))
      BY <1>2, <2>4, FS_Subset
    <2>6. Cardinality(Higher(s[k].id)) < Cardinality(Higher(s[i].id))
      BY <1>1, <1>2, <2>5
    <2>. QED  BY <1>1, <1>5, <2>1, <2>6
  <1>. HIDE DEF depth
  <1>. QED  BY <1>1, <1>4, <1>5 DEF Above

LEMMA ForestDepths ==
    ASSUME NEW s, Forest(s)
    PROVE  \E depth \in [IdsOf(s) -> 0..(Len(s) - 1)] : Above(s, depth)
  BY Depths DEF Forest

\* The way up from a message comes to an end.
LEMMA TopStops ==
    ASSUME NEW s, Forest(s), NEW i \in DOMAIN s
    PROVE  \E j \in DOMAIN s : Top(s, i) = s[j] /\ Stops(s, s[j])
  <1>. DEFINE N == Len(s)
  <1>1. s \in Seq(Message) /\ N \in Nat /\ DOMAIN s = 1..N /\ 1 <= N
    BY DEF Forest
  <1>2. PICK depth \in [IdsOf(s) -> 0..(N - 1)] : Above(s, depth)
    BY ForestDepths
  <1>3. PICK up : Climbing(s, i, up) /\ Top(s, i) = MessageOf(s, up[N])
    BY <1>1, TopClimbs
  <1>4. up \in [0..N -> IdsOf(s)] /\ \A n \in 1..N : up[n] = Climb(s, up[n - 1])
    BY <1>3 DEF Climbing
  <1>5. \A n \in 0..N : depth[up[n]] \in 0..(N - 1)
    BY <1>2, <1>4
  <1>. DEFINE G == {n \in 0..N : Stops(s, MessageOf(s, up[n])) \/ depth[up[n]] + n <= N - 1}
  <1>6. 0 \in G
    BY <1>1, <1>5
  <1>7. ASSUME NEW n \in 1..N, n - 1 \in G PROVE n \in G
    <2>. DEFINE id == up[n - 1]
    <2>1. n - 1 \in 0..N /\ n \in 0..N
      BY <1>1
    <2>2. id \in IdsOf(s) /\ up[n] = Climb(s, id)
      BY <1>4, <2>1
    <2>. HIDE DEF id
    <2>3. IndexOf(s, id) \in DOMAIN s /\ MessageOf(s, id).id = id
      BY <1>1, <2>2, AtHasId
    <2>4. CASE Stops(s, MessageOf(s, id))
      <3>1. up[n] = id
        BY <2>2, <2>3, <2>4, Zenon DEF Climb
      <3>. QED  BY <2>1, <2>4, <3>1
    <2>5. CASE ~ Stops(s, MessageOf(s, id))
      <3>1. up[n] = MessageOf(s, id).parent /\ MessageOf(s, id).parent \in IdsOf(s)
        BY <2>2, <2>5, Zenon DEF Climb, Stops
      <3>2. depth[MessageOf(s, id).parent] < depth[MessageOf(s, id).id]
        BY <1>2, <2>3, <3>1 DEF Above, MessageOf
      <3>3. depth[up[n]] < depth[id]
        BY <3>1, <3>2, <2>3
      <3>4. depth[id] + (n - 1) <= N - 1
        BY <1>7, <2>5 DEF id
      <3>5. depth[id] \in 0..(N - 1) /\ depth[up[n]] \in 0..(N - 1)
        BY <1>5, <2>1 DEF id
      <3>6. depth[up[n]] + n <= N - 1
        BY <1>1, <3>3, <3>4, <3>5
      <3>. QED  BY <2>1, <3>6
    <2>. QED  BY <2>4, <2>5
  <1>8. N \in G
    <2>1. 0..N \subseteq G
      <3>. HIDE DEF G, N
      <3>. QED  BY <1>1, <1>6, <1>7, UpTo
    <2>. QED  BY <1>1, <2>1
  <1>9. Stops(s, MessageOf(s, up[N]))
    BY <1>1, <1>5, <1>8
  <1>10. IndexOf(s, up[N]) \in DOMAIN s
    BY <1>1, <1>4, AtHasId
  <1>. QED  BY <1>3, <1>9, <1>10 DEF MessageOf

LEMMA TopStays ==
    ASSUME NEW s, Forest(s), NEW i \in DOMAIN s, Stops(s, s[i])
    PROVE  Top(s, i) = s[i]
  <1>. DEFINE N == Len(s)
              id == s[i].id
  <1>1. s \in Seq(Message) /\ Once(s) /\ N \in Nat
    BY DEF Forest
  <1>2. PICK up : Climbing(s, i, up) /\ Top(s, i) = MessageOf(s, up[N])
    BY <1>1, TopClimbs
  <1>3. up[0] = id /\ \A n \in 1..N : up[n] = Climb(s, up[n - 1])
    BY <1>2 DEF Climbing
  <1>4. MessageOf(s, id) = s[i]
    BY <1>1, OnceFinds
  <1>5. Climb(s, id) = id
    BY <1>4 DEF Climb
  <1>. DEFINE G == {n \in 0..N : up[n] = id}
  <1>6. 0 \in G /\ \A n \in 1..N : n - 1 \in G => n \in G
    <2>. HIDE DEF id
    <2>. QED  BY <1>1, <1>3, <1>5
  <1>7. 0..N \subseteq G
    <2>. HIDE DEF G, N
    <2>. QED  BY <1>1, <1>6, UpTo
  <1>8. up[N] = id
    BY <1>1, <1>7
  <1>. QED  BY <1>2, <1>4, <1>8

LEMMA TopFollows ==
    ASSUME NEW s, Forest(s), NEW i \in DOMAIN s, ~ Stops(s, s[i])
    PROVE  /\ IndexOf(s, s[i].parent) \in DOMAIN s
           /\ Top(s, i) = Top(s, IndexOf(s, s[i].parent))
  <1>. DEFINE N == Len(s)
              k == IndexOf(s, s[i].parent)
  <1>1. s \in Seq(Message) /\ Once(s) /\ N \in Nat /\ N >= 1
    BY DEF Forest
  <1>2. s[i].parent \in IdsOf(s)
    BY DEF Stops
  <1>3. k \in DOMAIN s /\ s[k].id = s[i].parent
    BY <1>1, <1>2, AtHasId DEF MessageOf
  <1>. HIDE DEF k
  <1>4. PICK up : Climbing(s, i, up) /\ Top(s, i) = MessageOf(s, up[N])
    BY <1>1, TopClimbs
  <1>5. PICK down : Climbing(s, k, down) /\ Top(s, k) = MessageOf(s, down[N])
    BY <1>1, <1>3, TopClimbs
  <1>6. up[0] = s[i].id /\ \A n \in 1..N : up[n] = Climb(s, up[n - 1])
    BY <1>4 DEF Climbing
  <1>7. down[0] = s[k].id /\ \A n \in 1..N : down[n] = Climb(s, down[n - 1])
    BY <1>5 DEF Climbing
  <1>8. Climb(s, s[i].id) = s[k].id
    <2>1. MessageOf(s, s[i].id) = s[i]
      BY <1>1, OnceFinds
    <2>. QED  BY <1>3, <2>1 DEF Climb
  <1>. DEFINE G == {n \in 0..(N - 1) : up[n + 1] = down[n]}
  <1>9. 0 \in G
    <2>1. 0 \in 0..(N - 1) /\ 1 \in 1..N /\ 1 - 1 = 0 /\ 0 + 1 = 1
      BY <1>1
    <2>2. up[1] = Climb(s, up[0])
      BY <1>6, <2>1
    <2>. QED  BY <1>6, <1>7, <1>8, <2>1, <2>2
  <1>10. ASSUME NEW n \in 1..(N - 1), n - 1 \in G PROVE n \in G
    <2>1. n + 1 \in 1..N /\ (n + 1) - 1 = n /\ n \in 1..N /\ n \in 0..(N - 1) /\ (n - 1) + 1 = n
      BY <1>1
    <2>2. up[n + 1] = Climb(s, up[n]) /\ down[n] = Climb(s, down[n - 1])
      BY <1>6, <1>7, <2>1
    <2>3. up[n] = down[n - 1]
      BY <1>10, <2>1
    <2>. QED  BY <2>1, <2>2, <2>3
  <1>11. up[N] = down[N - 1]
    <2>1. 0..(N - 1) \subseteq G
      <3>1. N - 1 \in Nat
        BY <1>1
      <3>. HIDE DEF G, N
      <3>. QED  BY <3>1, <1>9, <1>10, UpTo
    <2>2. N - 1 \in 0..(N - 1) /\ (N - 1) + 1 = N
      BY <1>1
    <2>. QED  BY <2>1, <2>2
  <1>12. PICK j \in DOMAIN s : MessageOf(s, up[N]) = s[j] /\ Stops(s, s[j])
    BY <1>4, TopStops
  <1>13. Climb(s, up[N]) = s[j].id
    BY <1>12 DEF Climb
  <1>14. down[N] = s[j].id
    <2>1. N \in 1..N
      BY <1>1
    <2>. QED  BY <1>7, <1>11, <1>13, <2>1
  <1>15. MessageOf(s, down[N]) = s[j]
    BY <1>1, <1>14, OnceFinds
  <1>. QED  BY <1>3, <1>4, <1>5, <1>12, <1>15 DEF k

------------------------------------------------------------------------------
(* SessionMigration: topics *)

LEMMA PickedFile ==
    ASSUME NEW s \in Seq(Message), Once(s), NEW at
    PROVE  /\ Picked(s, at) \in Seq(Message) /\ Once(Picked(s, at))
           /\ \A i \in DOMAIN Picked(s, at) : \E k \in DOMAIN s : k \in at /\ Picked(s, at)[i] = s[k]
           /\ \A k \in DOMAIN s : k \in at => s[k].id \in IdsOf(Picked(s, at))
  <1>. DEFINE v == Picked(s, at)
  <1>1. v \in Seq(Message) /\ \E k : PickedFrom(v, k, s, at, Len(s))
    BY PickedIs
  <1>. HIDE DEF v
  <1>2. PICK k : PickedFrom(v, k, s, at, Len(s))
    BY <1>1
  <1>3. DOMAIN v = 1..Len(v) /\ DOMAIN s = 1..Len(s)
    BY <1>1
  <1>4. /\ \A i \in DOMAIN v : k[i] \in DOMAIN s /\ k[i] \in at /\ v[i] = s[k[i]]
        /\ \A i, j \in DOMAIN v : k[i] = k[j] => i = j
        /\ \A n \in DOMAIN s : n \in at => \E i \in DOMAIN v : k[i] = n
    BY <1>2, <1>3 DEF PickedFrom
  <1>5. Once(v)
    BY <1>4 DEF Once
  <1>6. ASSUME NEW n \in DOMAIN s, n \in at PROVE s[n].id \in IdsOf(v)
    BY <1>4, <1>6 DEF IdsOf
  <1>. QED  BY <1>1, <1>4, <1>5, <1>6 DEF v

LEMMA BoundariesAre ==
    ASSUME NEW s, Forest(s)
    PROVE  /\ Boundaries(s) \in Seq(Message) /\ Once(Boundaries(s)) /\ Len(Boundaries(s)) \in Nat
           /\ \A i \in DOMAIN s : IsBoundary(s[i]) =>
                /\ IndexOf(Boundaries(s), s[i].id) \in 1..Len(Boundaries(s))
                /\ Boundaries(s)[IndexOf(Boundaries(s), s[i].id)].id = s[i].id
  <1>. DEFINE at == {i \in DOMAIN s : IsBoundary(s[i])}
              b == Picked(s, at)
  <1>1. s \in Seq(Message) /\ Once(s) /\ Boundaries(s) = b
    BY DEF Forest, Boundaries
  <1>2. b \in Seq(Message) /\ Once(b) /\ \A k \in DOMAIN s : k \in at => s[k].id \in IdsOf(b)
    <2>. HIDE DEF at
    <2>. QED  BY <1>1, PickedFile
  <1>. HIDE DEF b
  <1>3. ASSUME NEW i \in DOMAIN s, IsBoundary(s[i])
        PROVE  IndexOf(b, s[i].id) \in 1..Len(b) /\ b[IndexOf(b, s[i].id)].id = s[i].id
    <2>1. s[i].id \in IdsOf(b)
      BY <1>2, <1>3
    <2>2. IndexOf(b, s[i].id) \in DOMAIN b /\ MessageOf(b, s[i].id).id = s[i].id
      BY <1>2, <2>1, AtHasId
    <2>. QED  BY <1>2, <2>2 DEF MessageOf
  <1>4. Len(b) \in Nat
    BY <1>2
  <1>. QED  BY <1>1, <1>2, <1>3, <1>4

\* The segment of a message is the one its top opens, or the head.
LEMMA SegmentIs ==
    ASSUME NEW s, Forest(s), NEW i \in DOMAIN s
    PROVE  /\ Segment(s, i) \in 0..Len(Boundaries(s))
           /\ IsBoundary(s[i]) => /\ Segment(s, i) # 0
                                  /\ Boundaries(s)[Segment(s, i)].id = s[i].id
           /\ ~ IsBoundary(s[i]) /\ Stops(s, s[i]) => Segment(s, i) = 0
           /\ ~ Stops(s, s[i]) => /\ IndexOf(s, s[i].parent) \in DOMAIN s
                                  /\ Segment(s, i) = Segment(s, IndexOf(s, s[i].parent))
  <1>1. PICK j \in DOMAIN s : Top(s, i) = s[j]
    BY TopStops
  <1>2. IsBoundary(s[j]) => IndexOf(Boundaries(s), s[j].id) \in 1..Len(Boundaries(s))
    BY BoundariesAre
  <1>3. Len(Boundaries(s)) \in Nat
    BY BoundariesAre
  <1>4. Segment(s, i) \in 0..Len(Boundaries(s))
    BY <1>1, <1>2, <1>3 DEF Segment
  <1>5. ASSUME Stops(s, s[i])
        PROVE  Segment(s, i) = IF IsBoundary(s[i]) THEN IndexOf(Boundaries(s), s[i].id) ELSE 0
    <2>1. Top(s, i) = s[i]
      BY <1>5, TopStays
    <2>. QED  BY <2>1, Zenon DEF Segment
  <1>6. ASSUME IsBoundary(s[i]) PROVE Segment(s, i) # 0 /\ Boundaries(s)[Segment(s, i)].id = s[i].id
    <2>1. Segment(s, i) = IndexOf(Boundaries(s), s[i].id)
      BY <1>5, <1>6 DEF Stops
    <2>2. /\ IndexOf(Boundaries(s), s[i].id) \in 1..Len(Boundaries(s))
          /\ Boundaries(s)[IndexOf(Boundaries(s), s[i].id)].id = s[i].id
      BY <1>6, BoundariesAre
    <2>. QED  BY <1>3, <2>1, <2>2
  <1>7. ASSUME ~ Stops(s, s[i])
        PROVE  /\ IndexOf(s, s[i].parent) \in DOMAIN s
               /\ Segment(s, i) = Segment(s, IndexOf(s, s[i].parent))
    <2>1. IndexOf(s, s[i].parent) \in DOMAIN s /\ Top(s, i) = Top(s, IndexOf(s, s[i].parent))
      BY <1>7, TopFollows
    <2>. QED  BY <2>1, Zenon DEF Segment
  <1>. QED  BY <1>4, <1>5, <1>6, <1>7

LEMMA GroupIs ==
    ASSUME NEW s, Forest(s), NEW n
    PROVE  /\ Group(s, n) \in Seq(Message) /\ Once(Group(s, n))
           /\ \A i \in DOMAIN Group(s, n) :
                \E k \in DOMAIN s : Segment(s, k) = n /\ Group(s, n)[i] = s[k]
           /\ \A k \in DOMAIN s : s[k].id \in IdsOf(Group(s, n)) <=> Segment(s, k) = n
           /\ IdsOf(Group(s, n)) \subseteq IdsOf(s)
  <1>. DEFINE at == {i \in DOMAIN s : Segment(s, i) = n}
              g == Picked(s, at)
  <1>1. s \in Seq(Message) /\ Once(s) /\ Group(s, n) = g
    BY DEF Forest, Group
  <1>2. /\ g \in Seq(Message) /\ Once(g)
        /\ \A i \in DOMAIN g : \E k \in DOMAIN s : k \in at /\ g[i] = s[k]
        /\ \A k \in DOMAIN s : k \in at => s[k].id \in IdsOf(g)
    <2>. HIDE DEF at
    <2>. QED  BY <1>1, PickedFile
  <1>. HIDE DEF g
  <1>3. ASSUME NEW id \in IdsOf(g) PROVE \E k \in DOMAIN s : Segment(s, k) = n /\ s[k].id = id
    <2>1. PICK i \in DOMAIN g : g[i].id = id
      BY DEF IdsOf
    <2>. QED  BY <1>2, <2>1
  <1>4. ASSUME NEW k \in DOMAIN s, s[k].id \in IdsOf(g) PROVE Segment(s, k) = n
    <2>1. PICK l \in DOMAIN s : Segment(s, l) = n /\ s[l].id = s[k].id
      BY <1>3, <1>4
    <2>2. l = k
      BY <1>1, <2>1 DEF Once
    <2>. QED  BY <2>1, <2>2
  <1>5. IdsOf(g) \subseteq IdsOf(s)
    BY <1>3 DEF IdsOf
  <1>. QED  BY <1>1, <1>2, <1>4, <1>5

LEMMA GroupsAre ==
    ASSUME NEW s, Forest(s)
    PROVE  /\ Groups(s) \in Seq(Seq(Message))
           /\ DOMAIN Groups(s) = 1..(Len(Boundaries(s)) + 1)
           /\ \A n \in DOMAIN Groups(s) : Groups(s)[n] = Group(s, n - 1)
           /\ Len(Boundaries(s)) \in Nat
  <1>. DEFINE N == Len(Boundaries(s)) + 1
  <1>1. Len(Boundaries(s)) \in Nat
    BY BoundariesAre
  <1>2. Groups(s) = [n \in 1..N |-> Group(s, n - 1)]
    BY DEF Groups
  <1>3. \A n \in 1..N : Group(s, n - 1) \in Seq(Message)
    BY GroupIs
  <1>. QED  BY <1>1, <1>2, <1>3

\* What a file falls into: all of it, each message once.
Parts(s, segs) ==
    /\ segs \in Seq(Seq(Message))
    /\ \A i \in DOMAIN segs : \E n : segs[i] = Group(s, n)
    /\ \A i, j \in DOMAIN segs : i # j => IdsOf(segs[i]) \cap IdsOf(segs[j]) = {}
LEMMA NonEmptyGroupsPart ==
    ASSUME NEW s, Forest(s)
    PROVE  /\ Parts(s, NonEmptyGroups(s))
           /\ \A id \in IdsOf(s) : \E i \in DOMAIN NonEmptyGroups(s) : id \in IdsOf(NonEmptyGroups(s)[i])
  <1>. DEFINE gs == Groups(s)
              at == {n \in DOMAIN gs : gs[n] # <<>>}
              v == Picked(gs, at)
              N == Len(Boundaries(s))
  <1>1. s \in Seq(Message) /\ Once(s) /\ NonEmptyGroups(s) = v
    BY DEF Forest, NonEmptyGroups
  <1>2. /\ gs \in Seq(Seq(Message)) /\ DOMAIN gs = 1..(N + 1) /\ N \in Nat
        /\ \A n \in DOMAIN gs : gs[n] = Group(s, n - 1)
    BY GroupsAre
  <1>. HIDE DEF gs, N
  <1>3. v \in Seq(Seq(Message)) /\ \E k : PickedFrom(v, k, gs, at, Len(gs))
    <2>. HIDE DEF at
    <2>. QED  BY <1>2, PickedIs
  <1>. HIDE DEF v
  <1>4. PICK k : PickedFrom(v, k, gs, at, Len(gs))
    BY <1>3
  <1>5. DOMAIN v = 1..Len(v) /\ DOMAIN gs = 1..Len(gs)
    BY <1>2, <1>3
  <1>6. /\ \A i \in DOMAIN v : k[i] \in DOMAIN gs /\ k[i] \in at /\ v[i] = gs[k[i]]
        /\ \A i, j \in DOMAIN v : k[i] = k[j] => i = j
        /\ \A n \in DOMAIN gs : n \in at => \E i \in DOMAIN v : k[i] = n
    <2>. HIDE DEF at
    <2>. QED  BY <1>4, <1>5 DEF PickedFrom
  <1>7. ASSUME NEW i \in DOMAIN v, NEW j \in DOMAIN v, NEW id \in IdsOf(v[i]), id \in IdsOf(v[j])
        PROVE  i = j
    <2>1. v[i] = Group(s, k[i] - 1) /\ v[j] = Group(s, k[j] - 1) /\ k[i] \in 1..(N + 1) /\ k[j] \in 1..(N + 1)
      BY <1>2, <1>6
    <2>2. id \in IdsOf(s)
      BY <1>7, <2>1, GroupIs
    <2>3. PICK l \in DOMAIN s : s[l].id = id
      BY <2>2 DEF IdsOf
    <2>4. Segment(s, l) = k[i] - 1 /\ Segment(s, l) = k[j] - 1
      BY <1>7, <2>1, <2>3, GroupIs
    <2>5. k[i] = k[j]
      BY <1>2, <2>1, <2>4
    <2>. QED  BY <1>6, <2>5
  <1>8. ASSUME NEW id \in IdsOf(s) PROVE \E i \in DOMAIN v : id \in IdsOf(v[i])
    <2>1. PICK l \in DOMAIN s : s[l].id = id
      BY DEF IdsOf
    <2>. DEFINE n == Segment(s, l) + 1
    <2>2. n \in DOMAIN gs /\ n - 1 = Segment(s, l)
      <3>1. Segment(s, l) \in 0..N
        BY SegmentIs DEF N
      <3>. QED  BY <1>2, <3>1
    <2>. HIDE DEF n
    <2>3. gs[n] = Group(s, n - 1) /\ id \in IdsOf(gs[n])
      BY <1>2, <2>1, <2>2, GroupIs
    <2>4. gs[n] # <<>>
      BY <2>3 DEF IdsOf
    <2>5. PICK i \in DOMAIN v : k[i] = n
      BY <1>6, <2>2, <2>4
    <2>. QED  BY <1>6, <2>3, <2>5
  <1>9. Parts(s, v)
    <2>1. \A i \in DOMAIN v : \E n : v[i] = Group(s, n)
      BY <1>2, <1>6
    <2>. QED  BY <1>3, <1>7, <2>1 DEF Parts
  <1>. QED  BY <1>1, <1>8, <1>9

\* All messages in the same segment are one topic.
LEMMA OneSegment ==
    ASSUME NEW s, Forest(s), NEW c, \A i \in DOMAIN s : Segment(s, i) = c
    PROVE  Topics(s) <= 1
  <1>. DEFINE gs == Groups(s)
              at == {n \in DOMAIN gs : gs[n] # <<>>}
              v == Picked(gs, at)
              N == Len(Boundaries(s))
  <1>1. Topics(s) = Len(v)
    BY DEF Topics, NonEmptyGroups
  <1>2. /\ gs \in Seq(Seq(Message)) /\ DOMAIN gs = 1..(N + 1) /\ N \in Nat
        /\ \A n \in DOMAIN gs : gs[n] = Group(s, n - 1)
    BY GroupsAre
  <1>. HIDE DEF gs, N
  <1>3. v \in Seq(Seq(Message)) /\ \E k : PickedFrom(v, k, gs, at, Len(gs))
    <2>. HIDE DEF at
    <2>. QED  BY <1>2, PickedIs
  <1>4. ASSUME NEW n \in at PROVE n - 1 = c
    <2>1. n \in 1..(N + 1) /\ gs[n] = Group(s, n - 1) /\ gs[n] # <<>>
      BY <1>2
    <2>2. Group(s, n - 1) \in Seq(Message) /\ 1 \in DOMAIN Group(s, n - 1)
      BY <2>1, GroupIs
    <2>3. \E l \in DOMAIN s : Segment(s, l) = n - 1
      BY <2>2, GroupIs
    <2>. QED  BY <2>3
  <1>5. \A n \in at : n \in Nat
    BY <1>2
  <1>. HIDE DEF v, at
  <1>6. PICK k : PickedFrom(v, k, gs, at, Len(gs))
    BY <1>3
  <1>7. ASSUME Len(v) >= 2 PROVE FALSE
    <2>1. 1 \in 1..Len(v) /\ 2 \in 1..Len(v)
      BY <1>3, <1>7
    <2>2. k[1] \in at /\ k[2] \in at /\ (k[1] = k[2] => 1 = 2)
      BY <1>6, <2>1 DEF PickedFrom
    <2>3. k[1] - 1 = c /\ k[2] - 1 = c /\ k[1] \in Nat /\ k[2] \in Nat
      BY <1>4, <1>5, <2>2
    <2>. QED  BY <2>2, <2>3
  <1>8. Len(v) \in Nat
    BY <1>3
  <1>. QED  BY <1>1, <1>7, <1>8

\* What is written of a part is a forest of its own.
LEMMA DetachedIs ==
    ASSUME NEW g \in Seq(Message)
    PROVE  /\ Detached(g) \in Seq(Message) /\ DOMAIN Detached(g) = DOMAIN g
           /\ IdsOf(Detached(g)) = IdsOf(g)
           /\ \A i \in DOMAIN g : /\ Detached(g)[i].id = g[i].id /\ Detached(g)[i].kind = g[i].kind
                                  /\ g[i].parent \in IdsOf(g) => Detached(g)[i].parent = g[i].parent
                                  /\ g[i].parent \notin IdsOf(g) => Detached(g)[i].parent = None
  <1>. DEFINE One(m) == IF m.parent \in IdsOf(g) THEN m ELSE [m EXCEPT !.parent = None]
  <1>1. ASSUME NEW m \in Message
        PROVE  /\ One(m) \in Message /\ One(m).id = m.id /\ One(m).kind = m.kind
               /\ m.parent \in IdsOf(g) => One(m).parent = m.parent
               /\ m.parent \notin IdsOf(g) => One(m).parent = None
    BY DEF Message, None
  <1>2. Len(g) \in Nat /\ DOMAIN g = 1..Len(g) /\ \A i \in DOMAIN g : g[i] \in Message
    OBVIOUS
  <1>3. Detached(g) = [i \in 1..Len(g) |-> One(g[i])]
    BY <1>2, Zenon DEF Detached
  <1>. HIDE DEF One
  <1>4. DOMAIN Detached(g) = DOMAIN g /\ \A i \in DOMAIN g : Detached(g)[i] = One(g[i])
    BY <1>2, <1>3
  <1>5. Detached(g) \in Seq(Message)
    BY <1>1, <1>2, <1>3
  <1>6. \A i \in DOMAIN g : Detached(g)[i].id = g[i].id
    BY <1>1, <1>2, <1>4
  <1>7. IdsOf(Detached(g)) = IdsOf(g)
    BY <1>4, <1>6 DEF IdsOf
  <1>. QED  BY <1>1, <1>2, <1>4, <1>5, <1>7

LEMMA PartIsForest ==
    ASSUME NEW s, Forest(s), NEW n
    PROVE  Forest(Detached(Group(s, n)))
  <1>. DEFINE g == Group(s, n)
              d == Detached(g)
  <1>1. /\ g \in Seq(Message) /\ Once(g) /\ IdsOf(g) \subseteq IdsOf(s)
        /\ \A i \in DOMAIN g : \E k \in DOMAIN s : Segment(s, k) = n /\ g[i] = s[k]
    BY GroupIs
  <1>. HIDE DEF g
  <1>2. /\ d \in Seq(Message) /\ DOMAIN d = DOMAIN g /\ IdsOf(d) = IdsOf(g)
        /\ \A i \in DOMAIN g : /\ d[i].id = g[i].id /\ d[i].kind = g[i].kind
                               /\ g[i].parent \in IdsOf(g) => d[i].parent = g[i].parent
                               /\ g[i].parent \notin IdsOf(g) => d[i].parent = None
    BY <1>1, DetachedIs
  <1>. HIDE DEF d
  <1>3. Once(d)
    BY <1>1, <1>2 DEF Once
  <1>4. Inside(d)
    BY <1>2 DEF Inside
  <1>5. None \notin IdsOf(s) /\ None \notin IdsOf(d)
    BY <1>1, <1>2 DEF Forest
  <1>6. PICK rank \in [IdsOf(s) -> Nat] : Above(s, rank)
    BY DEF Forest
  <1>. DEFINE kept == [id \in IdsOf(d) |-> rank[id]]
  <1>7. kept \in [IdsOf(d) -> Nat]
    BY <1>1, <1>2
  <1>8. ASSUME NEW i \in DOMAIN d, d[i].parent \in IdsOf(d)
        PROVE  kept[d[i].parent] < kept[d[i].id]
    <2>1. PICK k \in DOMAIN s : g[i] = s[k]
      BY <1>1, <1>2
    <2>2. d[i].parent = s[k].parent /\ d[i].id = s[k].id
      BY <1>2, <1>5, <1>8, <2>1
    <2>3. s[k].parent \in IdsOf(s)
      BY <1>1, <1>2, <1>8, <2>2
    <2>4. rank[s[k].parent] < rank[s[k].id]
      BY <1>6, <2>3 DEF Above
    <2>5. d[i].id \in IdsOf(d)
      BY DEF IdsOf
    <2>. QED  BY <1>8, <2>2, <2>4, <2>5
  <1>9. Above(d, kept)
    <2>. HIDE DEF kept
    <2>. QED  BY <1>8 DEF Above
  <1>. HIDE DEF kept
  <1>. QED  BY <1>2, <1>3, <1>4, <1>5, <1>7, <1>9 DEF Forest, d, g

\* What is written of a part is one topic: in the head there is no boundary,
\* and in any other part all ways up end at the one that opens it.
LEMMA PartIsOneTopic ==
    ASSUME NEW s, Forest(s), NEW n
    PROVE  Topics(Detached(Group(s, n))) <= 1
  <1>. DEFINE g == Group(s, n)
              d == Detached(g)
  <1>1. /\ g \in Seq(Message) /\ Once(g) /\ IdsOf(g) \subseteq IdsOf(s)
        /\ \A i \in DOMAIN g : \E k \in DOMAIN s : Segment(s, k) = n /\ g[i] = s[k]
        /\ \A k \in DOMAIN s : s[k].id \in IdsOf(g) <=> Segment(s, k) = n
    BY GroupIs
  <1>2. Forest(d)
    BY PartIsForest
  <1>. HIDE DEF g
  <1>3. /\ d \in Seq(Message) /\ DOMAIN d = DOMAIN g /\ IdsOf(d) = IdsOf(g)
        /\ \A i \in DOMAIN g : /\ d[i].id = g[i].id /\ d[i].kind = g[i].kind
                               /\ g[i].parent \in IdsOf(g) => d[i].parent = g[i].parent
                               /\ g[i].parent \notin IdsOf(g) => d[i].parent = None
    BY <1>1, DetachedIs
  <1>. HIDE DEF d
  <1>4. s \in Seq(Message) /\ Once(s) /\ Inside(s)
    BY DEF Forest
  <1>5. ASSUME NEW i \in DOMAIN d
        PROVE  \E k \in DOMAIN s : /\ Segment(s, k) = n /\ g[i] = s[k]
                                   /\ IsBoundary(d[i]) <=> IsBoundary(s[k])
    <2>1. PICK k \in DOMAIN s : Segment(s, k) = n /\ g[i] = s[k]
      BY <1>1, <1>3
    <2>2. IsBoundary(d[i]) <=> IsBoundary(s[k])
      BY <1>3, <2>1 DEF IsBoundary
    <2>. QED  BY <2>1, <2>2
  <1>6. CASE n = 0
    <2>1. ASSUME NEW i \in DOMAIN d PROVE ~ IsBoundary(d[i])
      BY <1>5, <1>6, SegmentIs
    <2>2. ASSUME NEW i \in DOMAIN d PROVE Segment(d, i) = 0
      <3>1. PICK j \in DOMAIN d : Top(d, i) = d[j]
        BY <1>2, TopStops
      <3>2. ~ IsBoundary(Top(d, i))
        BY <2>1, <3>1
      <3>. QED  BY <3>2, Zenon DEF Segment
    <2>3. Topics(d) <= 1
      BY <1>2, <2>2, OneSegment
    <2>. QED  BY <2>3 DEF d, g
  <1>7. CASE n # 0
    <2>1. ASSUME NEW i \in DOMAIN d, Stops(d, d[i]) PROVE IsBoundary(d[i])
      <3>1. PICK k \in DOMAIN s : /\ Segment(s, k) = n /\ g[i] = s[k]
                                  /\ IsBoundary(d[i]) <=> IsBoundary(s[k])
        BY <1>5
      <3>2. SUFFICES ASSUME ~ IsBoundary(s[k]) PROVE FALSE
        BY <3>1
      <3>3. ~ Stops(s, s[k])
        BY <1>7, <3>1, <3>2, SegmentIs
      <3>4. /\ IndexOf(s, s[k].parent) \in DOMAIN s
            /\ Segment(s, IndexOf(s, s[k].parent)) = n
            /\ s[k].parent \in IdsOf(s)
        BY <3>1, <3>3, SegmentIs DEF Stops
      <3>5. s[IndexOf(s, s[k].parent)].id = s[k].parent
        BY <1>4, <3>4, AtHasId DEF MessageOf
      <3>6. s[k].parent \in IdsOf(g)
        BY <1>1, <3>4, <3>5
      <3>7. d[i].parent \in IdsOf(d)
        BY <1>3, <3>1, <3>6
      <3>. QED  BY <2>1, <3>1, <3>2, <3>7 DEF Stops
    <2>2. ASSUME NEW i \in DOMAIN d, NEW j \in DOMAIN d, IsBoundary(d[i]), IsBoundary(d[j])
          PROVE  d[i] = d[j]
      <3>1. PICK k \in DOMAIN s : Segment(s, k) = n /\ g[i] = s[k] /\ IsBoundary(s[k])
        BY <1>5, <2>2
      <3>2. PICK l \in DOMAIN s : Segment(s, l) = n /\ g[j] = s[l] /\ IsBoundary(s[l])
        BY <1>5, <2>2
      <3>3. s[k].id = s[l].id
        BY <3>1, <3>2, SegmentIs
      <3>4. d[i].id = d[j].id
        BY <1>3, <3>1, <3>2, <3>3
      <3>. QED  BY <1>2, <3>4 DEF Forest, Once
    <2>3. ASSUME NEW i \in DOMAIN d PROVE \E j \in DOMAIN d : Top(d, i) = d[j] /\ IsBoundary(d[j])
      BY <1>2, <2>1, TopStops
    <2>. DEFINE c == IF d = <<>> THEN 0 ELSE Segment(d, 1)
    <2>4. ASSUME NEW i \in DOMAIN d PROVE Segment(d, i) = c
      <3>1. 1 \in DOMAIN d /\ d # <<>>
        BY <1>3
      <3>2. Top(d, i) = Top(d, 1) /\ IsBoundary(Top(d, i)) /\ IsBoundary(Top(d, 1))
        BY <2>2, <2>3, <3>1
      <3>3. Segment(d, i) = Segment(d, 1)
        BY <3>2, Zenon DEF Segment
      <3>. QED  BY <3>1, <3>3
    <2>5. Topics(d) <= 1
      <3>. HIDE DEF c
      <3>. QED  BY <1>2, <2>4, OneSegment
    <2>. QED  BY <2>5 DEF d, g
  <1>. QED  BY <1>6, <1>7

------------------------------------------------------------------------------
(* SessionMigration: the invariant *)

Splits == [of : Files, segments : Seq(Seq(Message))]
SessionTypes == sessions \in [Files -> Content]
StartTypes ==
    /\ start \in [up : BOOLEAN, todo : SUBSET Files, split : {NoSplit} \cup Splits]
    /\ made \subseteq Files /\ nextId \in Nat \ {0} /\ cuts \in Nat

\* Every file holds trees of messages that have been made, and one that is
\* not there holds nothing.
ForestHolds ==
    \A f \in Files :
      /\ Forest(sessions[f].msgs)
      /\ \A id \in IdsOf(sessions[f].msgs) : id < nextId
      /\ ~ Present(f) => sessions[f] = Absent

\* A file is split while it is still to be looked at, and what is left of its
\* segments are parts of it.
Splitting == start.split # NoSplit
StartHolds ==
    /\ start.up => start.todo = {} /\ ~ Splitting
    /\ \A f \in start.todo : Present(f)
    /\ Splitting => LET s == sessions[start.split.of].msgs IN
                    start.split.of \in start.todo /\ Parts(s, start.split.segments) /\ ~ (Topics(s) <= 1)

\* What a migration wrote is one topic.
MadeHolds == \A f \in made : Present(f) /\ Topics(sessions[f].msgs) <= 1

\* A message of the file that is split is there until its segment is written;
\* from then on it is in the new file, and the old one counts no longer.
Waits(id) == \E i \in DOMAIN start.split.segments : id \in IdsOf(start.split.segments[i])
Counts(f, id) == Splitting /\ ~ Waits(id) => f # start.split.of
Holders(id) == {f \in Copies(id) : Counts(f, id)}
\* One, and one for each split that was cut short.
Few(S, n) == IsFiniteSet(S) /\ Cardinality(S) <= n + 1
CopyHolds == \A id \in 1..(nextId - 1) : Holders(id) # {} /\ Few(Holders(id), cuts)

\* The same of the active session and its path.
Claimers == {f \in Files : sessions[f].st = "active" /\ Counts(f, sessions[start.split.of].path)}
ActiveHolds == Few(Claimers, cuts)

MigrationInv ==
    SessionTypes /\ StartTypes /\ ForestHolds /\ StartHolds /\ MadeHolds /\ CopyHolds /\ ActiveHolds

LEMMA FewSmaller ==
    ASSUME NEW S, NEW T, NEW n \in Nat, Few(S, n), T \subseteq S
    PROVE  Few(T, n)
  <1>1. IsFiniteSet(T) /\ Cardinality(T) <= Cardinality(S)
    BY FS_Subset DEF Few
  <1>2. Cardinality(S) \in Nat /\ Cardinality(T) \in Nat
    BY <1>1, FS_CardinalityType DEF Few
  <1>. QED  BY <1>1, <1>2 DEF Few

LEMMA FewOne ==
    ASSUME NEW x, NEW T, NEW n \in Nat, T \subseteq {x}
    PROVE  Few(T, n)
  <1>1. Few({x}, n)
    BY FS_Singleton DEF Few
  <1>. QED  BY <1>1, FewSmaller

\* One more is allowed where one more split was cut short.
LEMMA FewMore ==
    ASSUME NEW S, NEW T, NEW x, NEW n \in Nat, Few(S, n), T \subseteq S \cup {x}
    PROVE  Few(T, n + 1)
  <1>1. IsFiniteSet(S \cup {x}) /\ Cardinality(S \cup {x}) <= Cardinality(S) + 1
    <2>1. /\ IsFiniteSet(S \cup {x})
          /\ Cardinality(S \cup {x}) = IF x \in S THEN Cardinality(S) ELSE Cardinality(S) + 1
      BY FS_AddElement DEF Few
    <2>2. Cardinality(S) \in Nat
      BY FS_CardinalityType DEF Few
    <2>. QED  BY <2>1, <2>2
  <1>2. Cardinality(S) \in Nat /\ Cardinality(S \cup {x}) \in Nat
    BY <1>1, FS_CardinalityType DEF Few
  <1>3. Few(S \cup {x}, n + 1)
    BY <1>1, <1>2 DEF Few
  <1>. QED  BY <1>3, FewSmaller

\* One takes the place of another.
LEMMA FewSwapped ==
    ASSUME NEW S, NEW x \in S, NEW y, NEW n \in Nat, Few(S, n)
    PROVE  Few((S \ {x}) \cup {y}, n)
  <1>1. IsFiniteSet(S \ {x}) /\ Cardinality(S \ {x}) = Cardinality(S) - 1
    BY FS_RemoveElement DEF Few
  <1>2. /\ IsFiniteSet((S \ {x}) \cup {y})
        /\ Cardinality((S \ {x}) \cup {y}) = IF y \in S \ {x} THEN Cardinality(S \ {x}) ELSE Cardinality(S \ {x}) + 1
    BY <1>1, FS_AddElement
  <1>3. Cardinality(S) \in Nat
    BY FS_CardinalityType DEF Few
  <1>. QED  BY <1>1, <1>2, <1>3 DEF Few

LEMMA NoSplitIsNone == \A split \in Splits : split # NoSplit
  BY FileAssumption DEF Splits, NoSplit

LEMMA SplittingIs ==
    ASSUME StartTypes, Splitting
    PROVE  /\ start.split \in Splits /\ start.split.of \in Files
           /\ start.split.segments \in Seq(Seq(Message))
  BY DEF StartTypes, Splitting, Splits

LEMMA EmptyForest == Forest(<<>>) /\ IdsOf(<<>>) = {}
  <1>1. <<>> \in Seq(Message) /\ DOMAIN <<>> = {}
    OBVIOUS
  <1>2. IdsOf(<<>>) = {}
    BY <1>1 DEF IdsOf
  <1>3. [id \in {} |-> 0] \in [{} -> Nat] /\ Above(<<>>, [id \in {} |-> 0])
    BY <1>1 DEF Above
  <1>. QED  BY <1>1, <1>2, <1>3 DEF Forest, Once, Inside

LEMMA TreesAreForests ==
    ASSUME NEW s \in Seq(Message), Trees(s)
    PROVE  Forest(s)
  <1>1. PICK rank \in [IdsOf(s) -> 0..Len(s)] : Above(s, rank)
    BY DEF Trees
  <1>2. rank \in [IdsOf(s) -> Nat]
    OBVIOUS
  <1>. QED  BY <1>1, <1>2 DEF Trees, Forest, Once, Inside

\* A new message at the end of a file, below what is there or above one of it.
LEMMA AppendIsForest ==
    ASSUME NEW t \in Seq(Message), NEW m \in Message, Once(t),
           None \notin IdsOf(t), m.id \notin IdsOf(t), m.id # None,
           m.parent \in IdsOf(t) \cup {None},
           \A i \in DOMAIN t : t[i].parent \in IdsOf(t) \cup {None, m.id},
           NEW rank \in [IdsOf(t) \cup {m.id} -> Nat],
           \A i \in DOMAIN t : t[i].parent \in IdsOf(t) \cup {m.id} => rank[t[i].parent] < rank[t[i].id],
           m.parent \in IdsOf(t) => rank[m.parent] < rank[m.id]
    PROVE  Forest(Append(t, m)) /\ IdsOf(Append(t, m)) = IdsOf(t) \cup {m.id}
  <1>. DEFINE a == Append(t, m)
              N == Len(t)
  <1>1. /\ N \in Nat /\ DOMAIN t = 1..N /\ a \in Seq(Message) /\ DOMAIN a = 1..(N + 1)
        /\ a[N + 1] = m /\ \A i \in 1..N : a[i] = t[i]
    OBVIOUS
  <1>. HIDE DEF a, N
  <1>2. \A i \in DOMAIN a : (i \in DOMAIN t /\ a[i] = t[i]) \/ (i = N + 1 /\ a[i] = m)
    BY <1>1
  <1>3. IdsOf(a) = IdsOf(t) \cup {m.id}
    <2>1. ASSUME NEW id \in IdsOf(a) PROVE id \in IdsOf(t) \cup {m.id}
      BY <1>2 DEF IdsOf
    <2>2. ASSUME NEW id \in IdsOf(t) PROVE id \in IdsOf(a)
      <3>1. PICK i \in DOMAIN t : t[i].id = id
        BY DEF IdsOf
      <3>2. i \in DOMAIN a /\ a[i].id = id
        BY <1>1, <3>1
      <3>. QED  BY <3>2 DEF IdsOf
    <2>3. m.id \in IdsOf(a)
      <3>1. N + 1 \in DOMAIN a /\ a[N + 1].id = m.id
        BY <1>1
      <3>. QED  BY <3>1 DEF IdsOf
    <2>. QED  BY <2>1, <2>2, <2>3
  <1>4. Once(a)
    <2>1. \A i \in DOMAIN t : t[i].id # m.id
      BY DEF IdsOf
    <2>2. ASSUME NEW i \in DOMAIN a, NEW j \in DOMAIN a, a[i].id = a[j].id PROVE i = j
      BY <1>2, <2>1, <2>2 DEF Once
    <2>. QED  BY <2>2 DEF Once
  <1>5. Inside(a)
    BY <1>2, <1>3 DEF Inside
  <1>6. rank \in [IdsOf(a) -> Nat]
    BY <1>3
  <1>7. ASSUME NEW i \in DOMAIN a, a[i].parent \in IdsOf(a) PROVE rank[a[i].parent] < rank[a[i].id]
    <2>1. CASE i \in DOMAIN t /\ a[i] = t[i]
      BY <1>3, <1>7, <2>1
    <2>2. CASE a[i] = m
      <3>1. m.parent \in IdsOf(t)
        BY <1>3, <1>7, <2>2
      <3>. QED  BY <2>2, <3>1
    <2>. QED  BY <1>2, <2>1, <2>2
  <1>. QED  BY <1>1, <1>3, <1>4, <1>5, <1>6, <1>7 DEF Forest, Above, a

LEMMA BelowIsForest ==
    ASSUME NEW s, Forest(s), NEW m \in Message, m.id \notin IdsOf(s), m.id # None,
           m.parent \in IdsOf(s) \cup {None}
    PROVE  Forest(Append(s, m)) /\ IdsOf(Append(s, m)) = IdsOf(s) \cup {m.id}
  <1>1. PICK rank \in [IdsOf(s) -> Nat] : Above(s, rank)
    BY DEF Forest
  <1>. DEFINE low == IF m.parent \in IdsOf(s) THEN rank[m.parent] + 1 ELSE 0
              new == [id \in IdsOf(s) \cup {m.id} |-> IF id = m.id THEN low ELSE rank[id]]
  <1>2. low \in Nat
    OBVIOUS
  <1>3. new \in [IdsOf(s) \cup {m.id} -> Nat]
    BY <1>2
  <1>4. new[m.id] = low /\ \A id \in IdsOf(s) : new[id] = rank[id]
    OBVIOUS
  <1>5. m.parent \in IdsOf(s) => new[m.parent] < new[m.id]
    BY <1>4
  <1>6. s \in Seq(Message) /\ Once(s) /\ Inside(s) /\ None \notin IdsOf(s)
    BY DEF Forest
  <1>7. ASSUME NEW i \in DOMAIN s, s[i].parent \in IdsOf(s) \cup {m.id}
        PROVE  new[s[i].parent] < new[s[i].id]
    <2>1. s[i].parent \in IdsOf(s) /\ s[i].id \in IdsOf(s)
      BY <1>6, <1>7 DEF Inside, IdsOf
    <2>. QED  BY <1>1, <1>4, <2>1 DEF Above
  <1>8. \A i \in DOMAIN s : s[i].parent \in IdsOf(s) \cup {None, m.id}
    BY <1>6 DEF Inside
  <1>. HIDE DEF new, low
  <1>. QED  BY <1>3, <1>5, <1>6, <1>7, <1>8, AppendIsForest

Adopted(s, first, id) ==
    [i \in DOMAIN s |-> IF s[i].id = first THEN [s[i] EXCEPT !.parent = id] ELSE s[i]]
LEMMA AboveIsForest ==
    ASSUME NEW s, Forest(s), NEW first, NEW m \in Message, m.id \notin IdsOf(s), m.id # None,
           m.parent = None
    PROVE  /\ Adopted(s, first, m.id) \in Seq(Message)
           /\ Forest(Append(Adopted(s, first, m.id), m))
           /\ IdsOf(Append(Adopted(s, first, m.id), m)) = IdsOf(s) \cup {m.id}
  <1>. DEFINE t == Adopted(s, first, m.id)
  <1>1. s \in Seq(Message) /\ Once(s) /\ Inside(s) /\ None \notin IdsOf(s)
    BY DEF Forest
  <1>2. DOMAIN s = 1..Len(s) /\ Len(s) \in Nat /\ \A i \in DOMAIN s : s[i] \in Message
    BY <1>1
  <1>3. ASSUME NEW i \in DOMAIN s
        PROVE  /\ t[i] \in Message /\ t[i].id = s[i].id
               /\ t[i].parent = s[i].parent \/ t[i].parent = m.id
    BY <1>2 DEF Message, Adopted
  <1>4. t \in Seq(Message) /\ DOMAIN t = DOMAIN s
    BY <1>2, <1>3 DEF Adopted
  <1>. HIDE DEF t
  <1>5. IdsOf(t) = IdsOf(s)
    BY <1>3, <1>4 DEF IdsOf
  <1>6. Once(t)
    BY <1>1, <1>3, <1>4 DEF Once
  <1>7. PICK rank \in [IdsOf(s) -> Nat] : Above(s, rank)
    BY DEF Forest
  <1>. DEFINE new == [id \in IdsOf(t) \cup {m.id} |-> IF id = m.id THEN 0 ELSE rank[id] + 1]
  <1>8. new \in [IdsOf(t) \cup {m.id} -> Nat]
    BY <1>5
  <1>9. new[m.id] = 0 /\ \A id \in IdsOf(s) : new[id] = rank[id] + 1
    BY <1>5
  <1>. HIDE DEF new
  <1>10. ASSUME NEW i \in DOMAIN t, t[i].parent \in IdsOf(t) \cup {m.id}
         PROVE  new[t[i].parent] < new[t[i].id]
    <2>1. t[i].id = s[i].id /\ s[i].id \in IdsOf(s) /\ rank[s[i].id] \in Nat
      BY <1>3, <1>4 DEF IdsOf
    <2>2. CASE t[i].parent = m.id
      BY <1>9, <2>1, <2>2
    <2>3. CASE t[i].parent # m.id
      <3>1. t[i].parent = s[i].parent /\ s[i].parent \in IdsOf(s)
        BY <1>3, <1>4, <1>5, <1>10, <2>3
      <3>2. rank[s[i].parent] < rank[s[i].id] /\ rank[s[i].parent] \in Nat
        BY <1>4, <1>7, <3>1 DEF Above
      <3>. QED  BY <1>9, <2>1, <3>1, <3>2
    <2>. QED  BY <2>2, <2>3
  <1>11. \A i \in DOMAIN t : t[i].parent \in IdsOf(t) \cup {None, m.id}
    BY <1>1, <1>3, <1>4, <1>5 DEF Inside
  <1>12. None \notin IdsOf(t) /\ m.parent \in IdsOf(t) \cup {None} /\ m.parent \notin IdsOf(t)
    BY <1>1, <1>5
  <1>13. m.id \notin IdsOf(t)
    BY <1>5
  <1>14. Forest(Append(t, m)) /\ IdsOf(Append(t, m)) = IdsOf(t) \cup {m.id}
    BY <1>4, <1>6, <1>8, <1>10, <1>11, <1>12, <1>13, AppendIsForest
  <1>. QED  BY <1>4, <1>5, <1>14 DEF t

------------------------------------------------------------------------------
(* SessionMigration: the steps of the kernel *)

\* A file of an active session has one message more.
Grown(f) ==
    /\ start.up /\ Present(f) /\ start' = start /\ cuts' = cuts
    /\ sessions' \in [Files -> Content] /\ sessions'[f].st = sessions[f].st
    /\ \A g \in Files : g # f => sessions'[g] = sessions[g]
    /\ Forest(sessions'[f].msgs)
    /\ IdsOf(sessions'[f].msgs) = IdsOf(sessions[f].msgs) \cup {nextId}
    /\ nextId' = nextId + 1 /\ made' = made \ {f}

LEMMA NewMsg ==
    ASSUME MigrationInv, NEW f \in Files, NEW parent \in Nat,
           NEW kind \in {"user", "assistant", "boundary", "system"}
    PROVE  /\ Msg(parent, kind) \in Message /\ Msg(parent, kind).id = nextId
           /\ Msg(parent, kind).parent = parent
           /\ nextId \notin IdsOf(sessions[f].msgs) /\ nextId # None /\ nextId \in Nat
  <1>1. nextId \in Nat \ {0} /\ ~ (nextId < nextId)
    BY DEF MigrationInv, StartTypes
  <1>2. nextId \notin IdsOf(sessions[f].msgs)
    BY <1>1 DEF MigrationInv, ForestHolds
  <1>. QED  BY <1>1, <1>2 DEF Msg, Message, None

LEMMA ContentGrows ==
    ASSUME SessionTypes, NEW f \in Files, NEW s \in Seq(Message), NEW p \in Nat,
           sessions' = [sessions EXCEPT ![f].msgs = s, ![f].path = p]
                \/ sessions' = [sessions EXCEPT ![f].msgs = s]
    PROVE  /\ sessions' \in [Files -> Content] /\ sessions'[f].st = sessions[f].st
           /\ sessions'[f].msgs = s
           /\ \A g \in Files : g # f => sessions'[g] = sessions[g]
  <1>1. sessions[f] \in Content /\ sessions \in [Files -> Content]
    BY DEF SessionTypes
  <1>2. \A was \in Content :
          /\ [was EXCEPT !.msgs = s, !.path = p] \in Content /\ [was EXCEPT !.msgs = s] \in Content
          /\ [was EXCEPT !.msgs = s, !.path = p].st = was.st /\ [was EXCEPT !.msgs = s].st = was.st
          /\ [was EXCEPT !.msgs = s, !.path = p].msgs = s /\ [was EXCEPT !.msgs = s].msgs = s
    BY DEF Content
  <1>3. \/ sessions'[f] = [sessions[f] EXCEPT !.msgs = s, !.path = p]
        \/ sessions'[f] = [sessions[f] EXCEPT !.msgs = s]
    BY <1>1
  <1>4. sessions' = [sessions EXCEPT ![f] = sessions'[f]]
    BY <1>1
  <1>. QED  BY <1>1, <1>2, <1>3, <1>4

LEMMA SayGrows ==
    ASSUME MigrationInv, NEW f \in Files, NEW kind \in {"user", "assistant"}, Say(f, kind)
    PROVE  Grown(f)
  <1>. DEFINE s == sessions[f].msgs
              path == Chain(s, sessions[f].path)
              p == LastId(path)
              m == Msg(p, kind)
  <1>1. Forest(s) /\ s \in Seq(Message)
    BY DEF MigrationInv, ForestHolds, Forest
  <1>2. p \in IdsOf(s) \cup {None}
    <2>1. path \in Seq(Message) /\ \A i \in DOMAIN path : \E j \in DOMAIN s : path[i] = s[j]
      <3>. HIDE DEF s
      <3>. QED  BY <1>1, ChainWithin
    <2>. HIDE DEF path, s
    <2>2. CASE path = <<>>
      BY <2>2 DEF LastId
    <2>3. CASE path # <<>>
      <3>1. Len(path) \in DOMAIN path
        BY <2>1, <2>3
      <3>. QED  BY <2>1, <2>3, <3>1 DEF LastId, IdsOf
    <2>. QED  BY <2>2, <2>3
  <1>3. p \in Nat
    BY <1>1, <1>2, AtHasId DEF Message, None
  <1>. HIDE DEF p
  <1>4. m \in Message /\ m.id = nextId /\ m.parent = p /\ nextId \notin IdsOf(s) /\ nextId # None /\ nextId \in Nat
    BY <1>3, NewMsg
  <1>5. sessions' = [sessions EXCEPT ![f].msgs = Append(s, m), ![f].path = nextId]
    BY Zenon DEF Say, p
  <1>. HIDE DEF m, s
  <1>6. Forest(Append(s, m)) /\ IdsOf(Append(s, m)) = IdsOf(s) \cup {nextId} /\ Append(s, m) \in Seq(Message)
    BY <1>1, <1>2, <1>4, BelowIsForest
  <1>7. /\ sessions' \in [Files -> Content] /\ sessions'[f].st = sessions[f].st
        /\ sessions'[f].msgs = Append(s, m)
        /\ \A g \in Files : g # f => sessions'[g] = sessions[g]
    BY <1>4, <1>5, <1>6, ContentGrows DEF MigrationInv
  <1>8. start.up /\ Present(f) /\ start' = start /\ cuts' = cuts /\ nextId' = nextId + 1 /\ made' = made \ {f}
    BY DEF Say, Present, NewMessage, Touched
  <1>. QED  BY <1>6, <1>7, <1>8 DEF Grown, s

LEMMA EditGrows ==
    ASSUME MigrationInv, NEW f \in Files, Edit(f)
    PROVE  Grown(f)
  <1>. DEFINE s == sessions[f].msgs
              path == Chain(s, sessions[f].path)
  <1>1. Forest(s) /\ s \in Seq(Message) /\ Inside(s)
    BY DEF MigrationInv, ForestHolds, Forest
  <1>2. PICK i \in DOMAIN path :
          sessions' = [sessions EXCEPT ![f].msgs = Append(@, Msg(path[i].parent, "user")), ![f].path = nextId]
    BY Zenon DEF Edit
  <1>. DEFINE p == path[i].parent
              m == Msg(p, "user")
  <1>3. p \in IdsOf(s) \cup {None} /\ p \in Nat
    <2>1. \E j \in DOMAIN s : path[i] = s[j]
      <3>. HIDE DEF s
      <3>. QED  BY <1>1, ChainWithin
    <2>. HIDE DEF path, s
    <2>2. \A j \in DOMAIN s : s[j].parent \in Nat
      <3>1. \A j \in DOMAIN s : s[j] \in Message
        BY <1>1
      <3>. QED  BY <3>1 DEF Message
    <2>. QED  BY <1>1, <2>1, <2>2 DEF Inside
  <1>. HIDE DEF p
  <1>4. m \in Message /\ m.id = nextId /\ m.parent = p /\ nextId \notin IdsOf(s) /\ nextId # None /\ nextId \in Nat
    BY <1>3, NewMsg
  <1>5. sessions' = [sessions EXCEPT ![f].msgs = Append(s, m), ![f].path = nextId]
    BY <1>2, Zenon DEF p
  <1>. HIDE DEF m, s
  <1>6. Forest(Append(s, m)) /\ IdsOf(Append(s, m)) = IdsOf(s) \cup {nextId} /\ Append(s, m) \in Seq(Message)
    BY <1>1, <1>3, <1>4, BelowIsForest
  <1>7. /\ sessions' \in [Files -> Content] /\ sessions'[f].st = sessions[f].st
        /\ sessions'[f].msgs = Append(s, m)
        /\ \A g \in Files : g # f => sessions'[g] = sessions[g]
    BY <1>4, <1>5, <1>6, ContentGrows DEF MigrationInv
  <1>8. start.up /\ Present(f) /\ start' = start /\ cuts' = cuts /\ nextId' = nextId + 1 /\ made' = made \ {f}
    BY DEF Edit, Present, NewMessage, Touched
  <1>. QED  BY <1>6, <1>7, <1>8 DEF Grown, s

LEMMA CompactGrows ==
    ASSUME MigrationInv, NEW f \in Files, Compact(f)
    PROVE  Grown(f)
  <1>. DEFINE s == sessions[f].msgs
              path == Chain(s, sessions[f].path)
              first == path[Len(path) - KeepLast + 1].id
              m == Msg(None, "system")
              t == Adopted(s, first, m.id)
              old == [i \in DOMAIN s |-> IF s[i].id = first THEN [s[i] EXCEPT !.parent = nextId] ELSE s[i]]
  <1>1. Forest(s) /\ s \in Seq(Message)
    BY DEF MigrationInv, ForestHolds, Forest
  <1>2. None \in Nat
    BY DEF None
  <1>3. m \in Message /\ m.id = nextId /\ m.parent = None /\ nextId \notin IdsOf(s) /\ nextId # None /\ nextId \in Nat
    BY <1>2, NewMsg
  <1>4. sessions' = [sessions EXCEPT ![f].msgs = Append(old, m)]
    BY Zenon DEF Compact
  <1>. HIDE DEF m, s, first
  <1>5. t = old
    BY <1>3, Zenon DEF Adopted
  <1>6. Forest(Append(t, m)) /\ IdsOf(Append(t, m)) = IdsOf(s) \cup {m.id} /\ t \in Seq(Message)
    BY <1>1, <1>3, AboveIsForest
  <1>. HIDE DEF t, old
  <1>7. Append(t, m) \in Seq(Message) /\ sessions' = [sessions EXCEPT ![f].msgs = Append(t, m)]
    BY <1>3, <1>4, <1>5, <1>6
  <1>8. /\ sessions' \in [Files -> Content] /\ sessions'[f].st = sessions[f].st
        /\ sessions'[f].msgs = Append(t, m)
        /\ \A g \in Files : g # f => sessions'[g] = sessions[g]
    BY <1>2, <1>7, ContentGrows DEF MigrationInv
  <1>9. start.up /\ Present(f) /\ start' = start /\ cuts' = cuts /\ nextId' = nextId + 1 /\ made' = made \ {f}
    BY DEF Compact, Present, NewMessage, Touched
  <1>. QED  BY <1>3, <1>6, <1>8, <1>9 DEF Grown, s

LEMMA GrownKeeps ==
    ASSUME MigrationInv, NEW f \in Files, Grown(f)
    PROVE  MigrationInv'
  <1>. USE DEF MigrationInv
  <1>1. nextId \in Nat \ {0} /\ nextId' = nextId + 1 /\ cuts \in Nat /\ cuts' = cuts /\ start' = start
    BY DEF StartTypes, Grown
  <1>2. SessionTypes' /\ StartTypes'
    BY <1>1 DEF Grown, SessionTypes, StartTypes
  <1>3. ForestHolds'
    <2>1. ASSUME NEW g \in Files
          PROVE  /\ Forest(sessions'[g].msgs)
                 /\ \A id \in IdsOf(sessions'[g].msgs) : id < nextId'
                 /\ sessions'[g].st = "absent" => sessions'[g] = Absent
      <3>1. \A id \in IdsOf(sessions[g].msgs) : id \in Nat /\ id < nextId
        <4>1. sessions[g].msgs \in Seq(Message)
          BY DEF ForestHolds, Forest
        <4>. QED  BY <4>1, AtHasId DEF ForestHolds, Message
      <3>2. CASE g # f
        BY <1>1, <3>1, <3>2 DEF Grown, ForestHolds, Present
      <3>3. CASE g = f
        BY <1>1, <3>1, <3>3 DEF Grown, ForestHolds, Present
      <3>. QED  BY <3>2, <3>3
    <2>. QED  BY <2>1 DEF ForestHolds, Present
  <1>4. ~ Splitting /\ ~ Splitting' /\ start.todo = {}
    BY <1>1 DEF StartHolds, Splitting, Grown
  <1>5. StartHolds'
    BY <1>1, <1>4 DEF StartHolds, Splitting, Grown
  <1>6. MadeHolds'
    BY DEF MadeHolds, Grown, StartTypes, Present
  <1>7. CopyHolds'
    <2>1. ASSUME NEW id \in 1..(nextId' - 1)
          PROVE  Holders(id)' # {} /\ Few(Holders(id)', cuts)
      <3>1. CASE id = nextId
        <4>1. \A g \in Files : id \in IdsOf(sessions'[g].msgs) <=> g = f
          <5>1. ~ (nextId < nextId)
            BY <1>1
          <5>2. \A g \in Files : nextId \notin IdsOf(sessions[g].msgs)
            BY <5>1 DEF ForestHolds
          <5>. QED  BY <3>1, <5>2 DEF Grown
        <4>2. Holders(id)' = {f}
          BY <4>1, <1>4 DEF Holders, Counts, Copies
        <4>. QED  BY <1>1, <4>2, FewOne
      <3>2. CASE id # nextId
        <4>1. id \in 1..(nextId - 1)
          BY <1>1, <3>2
        <4>2. \A g \in Files : id \in IdsOf(sessions'[g].msgs) <=> id \in IdsOf(sessions[g].msgs)
          BY <3>2 DEF Grown
        <4>3. Holders(id)' = Holders(id)
          BY <4>2, <1>4 DEF Holders, Counts, Copies
        <4>. QED  BY <4>1, <4>3 DEF CopyHolds
      <3>. QED  BY <3>1, <3>2
    <2>. QED  BY <1>1, <2>1 DEF CopyHolds
  <1>8. ActiveHolds'
    <2>1. \A g \in Files : sessions'[g].st = sessions[g].st
      BY DEF Grown
    <2>2. Claimers' = Claimers
      BY <1>4, <2>1 DEF Claimers, Counts
    <2>. QED  BY <1>1, <2>2 DEF ActiveHolds
  <1>. QED  BY <1>2, <1>3, <1>5, <1>6, <1>7, <1>8

\* A new session, with the summary of the old one or without; the others are
\* archived.
Opened(f, s) ==
    /\ start.up /\ ~ Present(f) /\ start' = start /\ cuts' = cuts /\ made' = made
    /\ sessions' \in [Files -> Content] /\ sessions'[f].st = "active" /\ sessions'[f].msgs = s
    /\ \A g \in Files : g # f =>
         /\ sessions'[g].msgs = sessions[g].msgs /\ sessions'[g].st # "active"
         /\ Present(g) <=> sessions'[g].st # "absent"
         /\ ~ Present(g) => sessions'[g] = sessions[g]

LEMMA ArchivedIs ==
    ASSUME SessionTypes
    PROVE  /\ Archived \in [Files -> Content]
           /\ \A g \in Files : /\ Archived[g].msgs = sessions[g].msgs /\ Archived[g].st # "active"
                               /\ Present(g) <=> Archived[g].st # "absent"
                               /\ ~ Present(g) => Archived[g] = sessions[g]
  <1>. DEFINE Aside(was) == IF was.st = "active" THEN [was EXCEPT !.st = "archived"] ELSE was
  <1>1. ASSUME NEW was \in Content
        PROVE  /\ Aside(was) \in Content /\ Aside(was).msgs = was.msgs /\ Aside(was).st # "active"
               /\ was.st # "absent" <=> Aside(was).st # "absent"
               /\ was.st = "absent" => Aside(was) = was
    BY DEF Content
  <1>2. Archived = [g \in Files |-> Aside(sessions[g])]
    BY Zenon DEF Archived
  <1>3. \A g \in Files : sessions[g] \in Content
    BY DEF SessionTypes
  <1>. HIDE DEF Aside
  <1>. QED  BY <1>1, <1>2, <1>3 DEF Present

LEMMA CreateOpens ==
    ASSUME MigrationInv, NEW f \in Files, NEW carry \in BOOLEAN, Create(f, carry)
    PROVE  \/ Opened(f, <<>>) /\ nextId' = nextId
           \/ Opened(f, <<Msg(None, "boundary")>>) /\ nextId' = nextId + 1
  <1>1. /\ Archived \in [Files -> Content]
        /\ \A g \in Files : /\ Archived[g].msgs = sessions[g].msgs /\ Archived[g].st # "active"
                            /\ Present(g) <=> Archived[g].st # "absent"
                            /\ ~ Present(g) => Archived[g] = sessions[g]
    BY ArchivedIs DEF MigrationInv
  <1>2. start.up /\ ~ Present(f) /\ start' = start /\ cuts' = cuts /\ made' = made
    BY DEF Create, Fresh
  <1>3. None \in Nat /\ nextId \in Nat
    BY DEF None, MigrationInv, StartTypes
  <1>4. ASSUME NEW was \in Content, was.st = "active", sessions' = [Archived EXCEPT ![f] = was]
        PROVE  Opened(f, was.msgs)
    <2>1. /\ sessions' \in [Files -> Content] /\ sessions'[f] = was
          /\ \A g \in Files : g # f => sessions'[g] = Archived[g]
      BY <1>1, <1>4
    <2>. QED  BY <1>1, <1>2, <1>4, <2>1 DEF Opened
  <1>5. CASE carry
    <2>. DEFINE was == [st |-> "active", path |-> nextId, msgs |-> <<Msg(None, "boundary")>>]
    <2>1. sessions' = [Archived EXCEPT ![f] = was] /\ nextId' = nextId + 1
      BY <1>5 DEF Create, NewMessage
    <2>2. Msg(None, "boundary") \in Message
      BY <1>3, NewMsg
    <2>3. was \in Content /\ was.st = "active" /\ was.msgs = <<Msg(None, "boundary")>>
      BY <1>3, <2>2 DEF Content
    <2>4. Opened(f, was.msgs)
      <3>. HIDE DEF was
      <3>. QED  BY <1>4, <2>1, <2>3
    <2>. QED  BY <2>1, <2>3, <2>4
  <1>6. CASE ~ carry
    <2>. DEFINE was == [Absent EXCEPT !.st = "active"]
    <2>1. sessions' = [Archived EXCEPT ![f] = was] /\ nextId' = nextId
      BY <1>6 DEF Create
    <2>2. was \in Content /\ was.st = "active" /\ was.msgs = <<>>
      <3>1. was = [st |-> "active", path |-> None, msgs |-> <<>>]
        BY DEF Absent
      <3>. HIDE DEF was
      <3>2. <<>> \in Seq(Message)
        OBVIOUS
      <3>. QED  BY <1>3, <3>1, <3>2 DEF Content
    <2>3. Opened(f, was.msgs)
      <3>. HIDE DEF was
      <3>. QED  BY <1>4, <2>1, <2>2
    <2>. QED  BY <2>1, <2>2, <2>3
  <1>. QED  BY <1>5, <1>6

LEMMA OneIsForest ==
    ASSUME MigrationInv, NEW f \in Files
    PROVE  LET s == <<Msg(None, "boundary")>> IN Forest(s) /\ IdsOf(s) = {nextId}
  <1>. DEFINE m == Msg(None, "boundary")
  <1>1. m \in Message /\ m.id = nextId /\ m.parent = None /\ nextId # None
    BY NewMsg DEF None
  <1>. HIDE DEF m
  <1>. DEFINE e == <<>>
  <1>2. Forest(Append(e, m)) /\ IdsOf(Append(e, m)) = {m.id}
    <2>1. Forest(e) /\ IdsOf(e) = {}
      BY EmptyForest
    <2>. HIDE DEF e
    <2>2. m.id \notin IdsOf(e) /\ m.parent \in IdsOf(e) \cup {None} /\ IdsOf(e) \cup {m.id} = {m.id}
      BY <1>1, <2>1
    <2>. QED  BY <1>1, <2>1, <2>2, BelowIsForest
  <1>3. Append(<<>>, m) = <<m>>
    OBVIOUS
  <1>. QED  BY <1>1, <1>2, <1>3 DEF m

LEMMA CreateKeeps ==
    ASSUME MigrationInv, NEW f \in Files, NEW carry \in BOOLEAN, Create(f, carry)
    PROVE  MigrationInv'
  <1>. USE DEF MigrationInv
  <1>1. PICK s : /\ Opened(f, s)
                 /\ \/ s = <<>> /\ nextId' = nextId
                    \/ s = <<Msg(None, "boundary")>> /\ nextId' = nextId + 1
    BY CreateOpens
  <1>2. /\ Forest(s)
        /\ \/ IdsOf(s) = {} /\ nextId' = nextId
           \/ IdsOf(s) = {nextId} /\ nextId' = nextId + 1
    BY <1>1, EmptyForest, OneIsForest
  <1>3. /\ nextId \in Nat \ {0} /\ nextId' \in Nat \ {0} /\ nextId <= nextId'
        /\ cuts \in Nat /\ cuts' = cuts /\ start' = start
    BY <1>1 DEF StartTypes, Opened
  <1>4. SessionTypes' /\ StartTypes'
    BY <1>1, <1>3 DEF Opened, SessionTypes, StartTypes
  <1>5. ~ Splitting /\ ~ Splitting' /\ start.todo = {}
    BY <1>1, <1>3 DEF StartHolds, Splitting, Opened
  <1>6. IdsOf(sessions[f].msgs) = {}
    BY <1>1, EmptyForest DEF Opened, ForestHolds, Absent
  <1>7. ForestHolds'
    <2>1. ASSUME NEW g \in Files
          PROVE  /\ Forest(sessions'[g].msgs)
                 /\ \A id \in IdsOf(sessions'[g].msgs) : id < nextId'
                 /\ sessions'[g].st = "absent" => sessions'[g] = Absent
      <3>1. \A id \in IdsOf(sessions[g].msgs) : id \in Nat /\ id < nextId
        <4>1. sessions[g].msgs \in Seq(Message)
          BY DEF ForestHolds, Forest
        <4>. QED  BY <4>1, AtHasId DEF ForestHolds, Message
      <3>2. CASE g # f
        BY <1>1, <1>3, <3>1, <3>2 DEF Opened, ForestHolds, Present
      <3>3. CASE g = f
        BY <1>1, <1>2, <1>3, <3>3 DEF Opened
      <3>. QED  BY <3>2, <3>3
    <2>. QED  BY <2>1 DEF ForestHolds, Present
  <1>8. StartHolds'
    BY <1>3, <1>5, <1>1 DEF StartHolds, Splitting, Opened
  <1>9. MadeHolds'
    BY <1>1 DEF MadeHolds, Opened, StartTypes, Present
  <1>10. CopyHolds'
    <2>1. ASSUME NEW id \in 1..(nextId' - 1)
          PROVE  Holders(id)' # {} /\ Few(Holders(id)', cuts)
      <3>0. id \in Nat /\ 1 <= id /\ id < nextId'
        <4>1. \A n \in Nat \ {0} : \A k \in 1..(n - 1) : k \in Nat /\ 1 <= k /\ k < n
          OBVIOUS
        <4>. QED  BY <1>3, <4>1
      <3>1. CASE id = nextId
        <4>1. IdsOf(s) = {nextId}
          BY <1>2, <1>3, <3>0, <3>1
        <4>2. \A g \in Files : id \in IdsOf(sessions'[g].msgs) <=> g = f
          <5>1. ~ (nextId < nextId)
            BY <1>3
          <5>2. \A g \in Files : nextId \notin IdsOf(sessions[g].msgs)
            BY <5>1 DEF ForestHolds
          <5>. QED  BY <1>1, <3>1, <4>1, <5>2 DEF Opened
        <4>3. Holders(id)' = {f}
          BY <4>2, <1>5 DEF Holders, Counts, Copies
        <4>. QED  BY <1>3, <4>3, FewOne
      <3>2. CASE id # nextId
        <4>1. id \in 1..(nextId - 1)
          BY <1>2, <1>3, <3>0, <3>2
        <4>2. \A g \in Files : id \in IdsOf(sessions'[g].msgs) <=> id \in IdsOf(sessions[g].msgs)
          BY <1>1, <1>2, <1>6, <3>2 DEF Opened
        <4>3. Holders(id)' = Holders(id)
          BY <4>2, <1>5 DEF Holders, Counts, Copies
        <4>. QED  BY <4>1, <4>3 DEF CopyHolds
      <3>. QED  BY <3>1, <3>2
    <2>. QED  BY <1>3, <2>1 DEF CopyHolds
  <1>11. ActiveHolds'
    <2>1. Claimers' \subseteq {f}
      BY <1>1 DEF Claimers, Opened
    <2>. QED  BY <1>3, <2>1, FewOne DEF ActiveHolds
  <1>. QED  BY <1>4, <1>7, <1>8, <1>9, <1>10, <1>11

------------------------------------------------------------------------------
(* SessionMigration: the steps of a start *)

\* Where no file changes, what the files hold stays true.
LEMMA FilesStay ==
    ASSUME MigrationInv, sessions' = sessions, made' = made, nextId' = nextId
    PROVE  SessionTypes' /\ ForestHolds' /\ MadeHolds'
  BY DEF MigrationInv, SessionTypes, ForestHolds, MadeHolds, Present

\* Where a split is cut short, what it was of counts again.
LEMMA CutKeeps ==
    ASSUME MigrationInv, CutShort, sessions' = sessions, nextId' = nextId, ~ Splitting'
    PROVE  CopyHolds' /\ ActiveHolds' /\ cuts' \in Nat
  <1>. USE DEF MigrationInv
  <1>1. cuts \in Nat /\ cuts' = IF ~ Splitting THEN cuts ELSE cuts + 1
    BY DEF CutShort, StartTypes, Splitting
  <1>2. \A id : Holders(id)' = Copies(id)
    BY DEF Holders, Counts, Copies
  <1>3. Claimers' = {f \in Files : sessions[f].st = "active"}
    BY DEF Claimers, Counts
  <1>4. CASE ~ Splitting
    <2>1. \A id : Holders(id) = Copies(id)
      BY <1>4 DEF Holders, Counts
    <2>2. Claimers = {f \in Files : sessions[f].st = "active"}
      BY <1>4 DEF Claimers, Counts
    <2>. QED  BY <1>1, <1>2, <1>3, <1>4, <2>1, <2>2 DEF CopyHolds, ActiveHolds
  <1>5. CASE Splitting
    <2>1. cuts' = cuts + 1 /\ cuts' \in Nat
      BY <1>1, <1>5
    <2>2. ASSUME NEW id \in 1..(nextId - 1) PROVE Holders(id)' # {} /\ Few(Holders(id)', cuts')
      <3>1. Holders(id) # {} /\ Few(Holders(id), cuts)
        BY DEF CopyHolds
      <3>2. Holders(id) \subseteq Copies(id) /\ Copies(id) \subseteq Holders(id) \cup {start.split.of}
        BY DEF Holders, Counts
      <3>3. Few(Copies(id), cuts + 1)
        BY <1>1, <3>1, <3>2, FewMore
      <3>. QED  BY <1>2, <2>1, <3>1, <3>2, <3>3
    <2>3. Claimers' \subseteq Claimers \cup {start.split.of}
      BY <1>3 DEF Claimers, Counts
    <2>4. Few(Claimers', cuts + 1)
      BY <1>1, <2>3, FewMore DEF ActiveHolds
    <2>. QED  BY <2>1, <2>2, <2>4 DEF CopyHolds, ActiveHolds
  <1>. QED  BY <1>4, <1>5

LEMMA StartOverKeeps ==
    ASSUME MigrationInv, StartOver
    PROVE  MigrationInv'
  <1>. USE DEF MigrationInv
  <1>1. /\ sessions' = sessions /\ made' = made /\ nextId' = nextId /\ CutShort
        /\ start' = [up |-> FALSE, todo |-> {f \in Files : Present(f)}, split |-> NoSplit]
    BY DEF StartOver
  <1>2. SessionTypes' /\ ForestHolds' /\ MadeHolds'
    BY <1>1, FilesStay
  <1>3. ~ Splitting'
    BY <1>1 DEF Splitting
  <1>4. CopyHolds' /\ ActiveHolds' /\ cuts' \in Nat
    BY <1>1, <1>3, CutKeeps
  <1>5. StartTypes'
    BY <1>1, <1>4 DEF StartTypes
  <1>6. StartHolds'
    <2>1. start'.up = FALSE /\ start'.todo = {f \in Files : Present(f)}
      BY <1>1
    <2>. QED  BY <1>1, <1>3, <2>1 DEF StartHolds, Present
  <1>. QED  BY <1>2, <1>4, <1>5, <1>6

LEMMA SkipKeeps ==
    ASSUME MigrationInv, NEW f \in Files, Skip(f)
    PROVE  MigrationInv'
  <1>. USE DEF MigrationInv
  <1>1. /\ sessions' = sessions /\ made' = made /\ nextId' = nextId /\ CutShort
        /\ start' = [start EXCEPT !.todo = @ \ {f}, !.split = NoSplit] /\ f \in start.todo
    BY DEF Skip
  <1>2. SessionTypes' /\ ForestHolds' /\ MadeHolds'
    BY <1>1, FilesStay
  <1>3. /\ start'.up = start.up /\ start'.todo = start.todo \ {f} /\ start'.split = NoSplit
        /\ start' \in [up : BOOLEAN, todo : SUBSET Files, split : {NoSplit} \cup Splits]
    BY <1>1 DEF StartTypes
  <1>4. ~ Splitting' /\ ~ start.up
    BY <1>1, <1>3 DEF Splitting, StartHolds
  <1>5. CopyHolds' /\ ActiveHolds' /\ cuts' \in Nat
    BY <1>1, <1>4, CutKeeps
  <1>6. StartTypes'
    BY <1>1, <1>3, <1>5 DEF StartTypes
  <1>7. StartHolds'
    BY <1>1, <1>3, <1>4 DEF StartHolds, Present
  <1>. QED  BY <1>2, <1>5, <1>6, <1>7

LEMMA LoadedKeeps ==
    ASSUME MigrationInv, Loaded
    PROVE  MigrationInv'
  <1>. USE DEF MigrationInv
  <1>1. /\ sessions' = sessions /\ made' = made /\ nextId' = nextId /\ cuts' = cuts
        /\ start' = Running /\ start.todo = {}
    BY DEF Loaded
  <1>2. SessionTypes' /\ ForestHolds' /\ MadeHolds'
    BY <1>1, FilesStay
  <1>3. StartTypes'
    BY <1>1 DEF StartTypes, Running
  <1>4. ~ Splitting /\ ~ Splitting'
    BY <1>1 DEF Splitting, StartHolds, Running
  <1>5. StartHolds'
    BY <1>1, <1>4 DEF StartHolds, Running
  <1>6. CopyHolds'
    <2>1. \A id : Holders(id)' = Holders(id)
      BY <1>1, <1>4 DEF Holders, Counts, Copies
    <2>. QED  BY <1>1, <2>1 DEF CopyHolds
  <1>7. ActiveHolds'
    <2>1. Claimers' = Claimers
      BY <1>1, <1>4 DEF Claimers, Counts
    <2>. QED  BY <1>1, <2>1 DEF ActiveHolds
  <1>. QED  BY <1>2, <1>3, <1>5, <1>6, <1>7

LEMMA LookAtKeeps ==
    ASSUME MigrationInv, NEW f \in Files, LookAt(f)
    PROVE  MigrationInv'
  <1>. USE DEF MigrationInv
  <1>. DEFINE s == sessions[f].msgs
              segs == NonEmptyGroups(s)
  <1>1. /\ sessions' = sessions /\ made' = made /\ nextId' = nextId /\ cuts' = cuts
        /\ f \in start.todo /\ ~ Splitting /\ ~ start.up
    BY DEF LookAt, Splitting, StartHolds
  <1>2. SessionTypes' /\ ForestHolds' /\ MadeHolds'
    BY <1>1, FilesStay
  <1>3. start \in [up : BOOLEAN, todo : SUBSET Files, split : {NoSplit} \cup Splits]
    BY DEF StartTypes
  <1>4. CASE Topics(s) <= 1
    <2>1. start' = [start EXCEPT !.todo = @ \ {f}]
      BY <1>4, Zenon DEF LookAt
    <2>2. start'.up = start.up /\ start'.split = start.split /\ start'.todo = start.todo \ {f}
      BY <1>3, <2>1
    <2>3. StartTypes'
      BY <1>1, <1>3, <2>1 DEF StartTypes
    <2>4. ~ Splitting'
      BY <1>1, <2>2 DEF Splitting
    <2>5. StartHolds'
      BY <1>1, <2>2, <2>4 DEF StartHolds, Present
    <2>6. CopyHolds'
      <3>1. \A id : Holders(id)' = Holders(id)
        BY <1>1, <2>4 DEF Holders, Counts, Copies
      <3>. QED  BY <1>1, <3>1 DEF CopyHolds
    <2>7. ActiveHolds'
      <3>1. Claimers' = Claimers
        BY <1>1, <2>4 DEF Claimers, Counts
      <3>. QED  BY <1>1, <3>1 DEF ActiveHolds
    <2>. QED  BY <1>2, <2>3, <2>5, <2>6, <2>7
  <1>5. CASE ~ (Topics(s) <= 1)
    <2>1. start' = [start EXCEPT !.split = [of |-> f, segments |-> segs]]
      BY <1>5, Zenon DEF LookAt
    <2>2. /\ Forest(s) /\ Parts(s, segs)
          /\ \A id \in IdsOf(s) : \E i \in DOMAIN segs : id \in IdsOf(segs[i])
      BY NonEmptyGroupsPart DEF ForestHolds
    <2>. HIDE DEF segs
    <2>3. [of |-> f, segments |-> segs] \in Splits
      BY <2>2 DEF Parts, Splits
    <2>4. /\ start'.up = start.up /\ start'.todo = start.todo
          /\ start'.split = [of |-> f, segments |-> segs]
      BY <1>3, <2>1
    <2>5. StartTypes'
      BY <1>1, <1>3, <2>1, <2>3 DEF StartTypes
    <2>6. start'.split.of = f /\ start'.split.segments = segs
      BY <2>4
    <2>7. StartHolds'
      BY <1>1, <1>5, <2>2, <2>4, <2>6 DEF StartHolds, Present
    <2>8. \A id \in IdsOf(s) : Waits(id)'
      BY <2>2, <2>6 DEF Waits
    <2>9. ASSUME NEW id PROVE Holders(id)' = Holders(id)
      <3>1. \A g \in Copies(id) : Counts(g, id)
        BY <1>1 DEF Counts
      <3>2. \A g \in Copies(id) : Counts(g, id)'
        BY <2>6, <2>8 DEF Counts, Copies
      <3>3. Copies(id)' = Copies(id)
        BY <1>1 DEF Copies
      <3>. QED  BY <3>1, <3>2, <3>3 DEF Holders
    <2>10. CopyHolds'
      BY <1>1, <2>9 DEF CopyHolds
    <2>11. Claimers' \subseteq Claimers
      BY <1>1 DEF Claimers, Counts
    <2>12. ActiveHolds'
      BY <1>1, <2>11, FewSmaller DEF ActiveHolds, StartTypes
    <2>. QED  BY <1>2, <2>5, <2>7, <2>10, <2>12
  <1>. QED  BY <1>4, <1>5

\* What a segment becomes: content of its own, one topic, with its messages.
LEMMA SegmentBuilt ==
    ASSUME NEW was \in Content, Forest(was.msgs), NEW n
    PROVE  LET g == Group(was.msgs, n)
               b == BuildSegment(was, g)
           IN  /\ b \in Content /\ Forest(b.msgs) /\ IdsOf(b.msgs) = IdsOf(g)
               /\ Topics(b.msgs) <= 1 /\ b.msgs = Detached(g)
               /\ b.st = IF was.path \in IdsOf(g) THEN was.st ELSE "archived"
  <1>. DEFINE g == Group(was.msgs, n)
  <1>1. g \in Seq(Message)
    BY GroupIs
  <1>2. Forest(Detached(g)) /\ Topics(Detached(g)) <= 1
    BY PartIsForest, PartIsOneTopic
  <1>. HIDE DEF g
  <1>3. Detached(g) \in Seq(Message) /\ IdsOf(Detached(g)) = IdsOf(g)
    BY <1>1, DetachedIs
  <1>4. was.path \in Nat /\ was.st \in {"absent", "active", "archived"}
    BY DEF Content
  <1>. DEFINE b == BuildSegment(was, g)
  <1>5. /\ b \in Content /\ b.msgs = Detached(g)
        /\ b.st = IF was.path \in IdsOf(g) THEN was.st ELSE "archived"
    BY <1>3, <1>4 DEF BuildSegment, SegmentStatus, Content, None
  <1>. HIDE DEF b
  <1>. QED  BY <1>2, <1>3, <1>5 DEF b, g

\* With its first segment written a split has the others left.
LEMMA TailParts ==
    ASSUME NEW s, NEW segs, Parts(s, segs), segs # <<>>
    PROVE  /\ Parts(s, Tail(segs)) /\ \E n : Head(segs) = Group(s, n)
           /\ \A id : (\E i \in DOMAIN Tail(segs) : id \in IdsOf(Tail(segs)[i]))
                        <=> (id \notin IdsOf(Head(segs)) /\ \E i \in DOMAIN segs : id \in IdsOf(segs[i]))
           /\ \A id \in IdsOf(Head(segs)) : \E i \in DOMAIN segs : id \in IdsOf(segs[i])
  <1>. DEFINE t == Tail(segs)
  <1>1. /\ segs \in Seq(Seq(Message)) /\ \A i \in DOMAIN segs : \E n : segs[i] = Group(s, n)
        /\ \A i, j \in DOMAIN segs : i # j => IdsOf(segs[i]) \cap IdsOf(segs[j]) = {}
    BY DEF Parts
  <1>2. /\ t \in Seq(Seq(Message)) /\ Len(segs) \in Nat /\ DOMAIN segs = 1..Len(segs) /\ Len(segs) >= 1
        /\ DOMAIN t = 1..(Len(segs) - 1) /\ Head(segs) = segs[1]
        /\ \A i \in 1..(Len(segs) - 1) : t[i] = segs[i + 1]
    BY <1>1
  <1>. HIDE DEF t
  <1>3. \A i \in DOMAIN t : i + 1 \in DOMAIN segs /\ i + 1 # 1 /\ t[i] = segs[i + 1]
    BY <1>2
  <1>4. Parts(s, t)
    <2>1. ASSUME NEW i \in DOMAIN t, NEW j \in DOMAIN t, i # j
          PROVE  IdsOf(t[i]) \cap IdsOf(t[j]) = {}
      <3>1. i + 1 # j + 1
        BY <1>2, <2>1
      <3>. QED  BY <1>1, <1>3, <3>1
    <2>. QED  BY <1>1, <1>2, <1>3, <2>1 DEF Parts
  <1>5. 1 \in DOMAIN segs /\ \A i \in DOMAIN segs : i = 1 \/ (i - 1 \in DOMAIN t /\ t[i - 1] = segs[i])
    BY <1>2
  <1>6. ASSUME NEW id
        PROVE  (\E i \in DOMAIN t : id \in IdsOf(t[i]))
                 <=> (id \notin IdsOf(segs[1]) /\ \E i \in DOMAIN segs : id \in IdsOf(segs[i]))
    <2>1. ASSUME NEW i \in DOMAIN t, id \in IdsOf(t[i])
          PROVE  id \notin IdsOf(segs[1]) /\ \E j \in DOMAIN segs : id \in IdsOf(segs[j])
      <3>1. i + 1 \in DOMAIN segs /\ i + 1 # 1 /\ id \in IdsOf(segs[i + 1])
        BY <1>3, <2>1
      <3>2. IdsOf(segs[i + 1]) \cap IdsOf(segs[1]) = {}
        BY <1>1, <1>5, <3>1
      <3>. QED  BY <3>1, <3>2
    <2>2. ASSUME id \notin IdsOf(segs[1]), NEW j \in DOMAIN segs, id \in IdsOf(segs[j])
          PROVE  \E i \in DOMAIN t : id \in IdsOf(t[i])
      BY <1>5, <2>2
    <2>. QED  BY <2>1, <2>2
  <1>. QED  BY <1>1, <1>2, <1>4, <1>5, <1>6 DEF t

LEMMA SplitGoesOn ==
    ASSUME NEW split \in Splits, NEW t \in Seq(Seq(Message))
    PROVE  LET left == [split EXCEPT !.segments = t]
           IN  left \in Splits /\ left.of = split.of /\ left.segments = t
  <1>. DEFINE S == Seq(Seq(Message))
  <1>1. split \in [of : Files, segments : S] /\ t \in S
    BY DEF Splits
  <1>2. [of : Files, segments : S] = Splits
    BY DEF Splits
  <1>. HIDE DEF S
  <1>. QED  BY <1>1, <1>2

LEMMA WriteSegmentKeeps ==
    ASSUME MigrationInv, NEW f \in Files, WriteSegment(f)
    PROVE  MigrationInv'
  <1>. USE DEF MigrationInv
  <1>. DEFINE of == start.split.of
              was == sessions[of]
              segs == start.split.segments
              g == Head(segs)
              b == BuildSegment(was, g)
  <1>1. /\ Splitting /\ segs # <<>> /\ ~ Present(f) /\ nextId' = nextId /\ cuts' = cuts
        /\ sessions' = [sessions EXCEPT ![f] = b] /\ made' = made \cup {f}
        /\ start' = [start EXCEPT !.split.segments = Tail(@)]
    BY Zenon DEF WriteSegment, Splitting, Fresh
  <1>2. start.split \in Splits /\ of \in Files /\ segs \in Seq(Seq(Message))
    BY <1>1, SplittingIs
  <1>3. ~ start.up /\ of \in start.todo /\ Present(of) /\ Parts(was.msgs, segs) /\ ~ (Topics(was.msgs) <= 1)
    BY <1>1 DEF StartHolds
  <1>4. was \in Content /\ Forest(was.msgs)
    BY <1>2 DEF SessionTypes, ForestHolds
  <1>5. f # of /\ sessions[f] = Absent /\ IdsOf(sessions[f].msgs) = {} /\ sessions[f].st = "absent"
    <2>1. sessions[f] = Absent
      BY <1>1 DEF ForestHolds
    <2>. QED  BY <1>1, <1>3, <2>1, EmptyForest DEF Absent
  <1>6. /\ Parts(was.msgs, Tail(segs)) /\ \E n : g = Group(was.msgs, n)
        /\ \A id : (\E i \in DOMAIN Tail(segs) : id \in IdsOf(Tail(segs)[i]))
                     <=> (id \notin IdsOf(g) /\ Waits(id))
        /\ \A id \in IdsOf(g) : Waits(id)
    <2>. HIDE DEF was
    <2>. QED  BY <1>1, <1>3, TailParts DEF Waits
  <1>7. /\ b \in Content /\ Forest(b.msgs) /\ IdsOf(b.msgs) = IdsOf(g) /\ Topics(b.msgs) <= 1
        /\ b.st = IF was.path \in IdsOf(g) THEN was.st ELSE "archived"
    <2>1. PICK n : g = Group(was.msgs, n)
      BY <1>6
    <2>. HIDE DEF was, g
    <2>. QED  BY <1>4, <2>1, SegmentBuilt
  <1>8. IdsOf(g) \subseteq IdsOf(was.msgs)
    <2>1. PICK n : g = Group(was.msgs, n)
      BY <1>6
    <2>. HIDE DEF g, was
    <2>. QED  BY <1>4, <2>1, GroupIs
  <1>9. /\ start'.up = start.up /\ start'.todo = start.todo
        /\ start'.split \in Splits /\ start'.split.of = of /\ start'.split.segments = Tail(segs)
        /\ start' \in [up : BOOLEAN, todo : SUBSET Files, split : {NoSplit} \cup Splits]
    <2>. DEFINE left == [start.split EXCEPT !.segments = Tail(segs)]
    <2>1. Tail(segs) \in Seq(Seq(Message))
      BY <1>1, <1>2
    <2>2. left \in Splits /\ left.of = of /\ left.segments = Tail(segs)
      BY <1>2, <2>1, SplitGoesOn
    <2>3. start' = [start EXCEPT !.split = left]
      BY <1>1
    <2>4. start \in [up : BOOLEAN, todo : SUBSET Files, split : {NoSplit} \cup Splits]
      BY DEF StartTypes
    <2>. HIDE DEF of, segs, left
    <2>. QED  BY <2>2, <2>3, <2>4
  <1>10. /\ start'.split.of = of /\ start'.split.segments = Tail(segs) /\ Splitting'
    BY <1>9, NoSplitIsNone DEF Splitting
  <1>11. sessions \in [Files -> Content] /\ sessions'[f] = b /\ \A h \in Files : h # f => sessions'[h] = sessions[h]
    <2>1. sessions \in [Files -> Content]
      BY DEF SessionTypes
    <2>. HIDE DEF b
    <2>. QED  BY <1>1, <2>1
  <1>12. b.st # "absent"
    BY <1>3, <1>7 DEF Present
  <1>. HIDE DEF b, g, segs, was, of
  <1>13. SessionTypes'
    BY <1>1, <1>7, <1>11 DEF SessionTypes
  <1>14. StartTypes'
    BY <1>1, <1>9 DEF StartTypes
  <1>15. ForestHolds'
    <2>1. ASSUME NEW h \in Files
          PROVE  /\ Forest(sessions'[h].msgs)
                 /\ \A id \in IdsOf(sessions'[h].msgs) : id < nextId
                 /\ sessions'[h].st = "absent" => sessions'[h] = Absent
      <3>1. CASE h = f
        <4>1. \A id \in IdsOf(was.msgs) : id < nextId
          BY <1>2 DEF ForestHolds, was
        <4>. QED  BY <1>7, <1>8, <1>11, <1>12, <3>1, <4>1
      <3>2. CASE h # f
        BY <1>11, <3>2 DEF ForestHolds, Present
      <3>. QED  BY <3>1, <3>2
    <2>. QED  BY <1>1, <2>1 DEF ForestHolds, Present
  <1>16. sessions'[of] = was
    BY <1>2, <1>5, <1>11 DEF was
  <1>17. StartHolds'
    <2>1. \A h \in start.todo : sessions'[h].st # "absent"
      BY <1>11, <1>12 DEF StartHolds, StartTypes, Present
    <2>. QED  BY <1>3, <1>6, <1>9, <1>10, <1>16, <2>1 DEF StartHolds, Present
  <1>18. MadeHolds'
    <2>1. ASSUME NEW h \in made' PROVE sessions'[h].st # "absent" /\ Topics(sessions'[h].msgs) <= 1
      <3>1. CASE h = f
        BY <1>7, <1>11, <1>12, <3>1
      <3>2. CASE h # f
        BY <1>1, <1>11, <3>2 DEF MadeHolds, StartTypes, Present
      <3>. QED  BY <3>1, <3>2
    <2>. QED  BY <2>1 DEF MadeHolds, Present
  <1>19. \A id : Waits(id)' <=> id \notin IdsOf(g) /\ Waits(id)
    BY <1>6, <1>10 DEF Waits
  <1>20. CopyHolds'
    <2>1. ASSUME NEW id \in 1..(nextId - 1)
          PROVE  Holders(id)' # {} /\ Few(Holders(id)', cuts)
      <3>1. Holders(id) # {} /\ Few(Holders(id), cuts) /\ cuts \in Nat
        BY DEF CopyHolds, StartTypes
      <3>2. CASE id \in IdsOf(g)
        <4>1. ~ Waits(id)' /\ Waits(id)
          BY <1>6, <1>19, <3>2
        <4>2. Holders(id) = Copies(id)
          BY <4>1 DEF Holders, Counts
        <4>3. of \in Copies(id)
          BY <1>2, <1>8, <3>2 DEF Copies, was
        <4>4. Copies(id)' = Copies(id) \cup {f}
          BY <1>7, <1>11, <3>2 DEF Copies
        <4>5. Holders(id)' = (Copies(id) \cup {f}) \ {of}
          BY <1>10, <4>1, <4>4 DEF Holders, Counts
        <4>6. of \in Holders(id) /\ Holders(id)' \subseteq (Holders(id) \ {of}) \cup {f}
          BY <4>2, <4>3, <4>5
        <4>7. Few(Holders(id)', cuts)
          <5>. DEFINE S == Holders(id)
                      T == Holders(id)'
          <5>1. Few(S, cuts) /\ cuts \in Nat /\ of \in S /\ T \subseteq (S \ {of}) \cup {f}
            BY <3>1, <4>6
          <5>. HIDE DEF S, T
          <5>2. Few((S \ {of}) \cup {f}, cuts)
            BY <5>1, FewSwapped
          <5>3. Few(T, cuts)
            BY <5>1, <5>2, FewSmaller
          <5>. QED  BY <5>3 DEF T
        <4>. QED  BY <1>5, <4>5, <4>7
      <3>3. CASE id \notin IdsOf(g)
        <4>1. Copies(id)' = Copies(id)
          BY <1>5, <1>7, <1>11, <3>3 DEF Copies
        <4>2. Waits(id)' <=> Waits(id)
          BY <1>19, <3>3
        <4>3. Holders(id)' = Holders(id)
          BY <1>1, <1>10, <4>1, <4>2 DEF Holders, Counts, of
        <4>. QED  BY <3>1, <4>3
      <3>. QED  BY <3>2, <3>3
    <2>. QED  BY <1>1, <2>1 DEF CopyHolds
  <1>21. ActiveHolds'
    <2>0. PICK path : path = was.path
      OBVIOUS
    <2>. DEFINE Active(h) == sessions[h].st = "active"
    <2>1. Claimers' = {h \in Files : sessions'[h].st = "active" /\ (~ Waits(path)' => h # of)}
      BY <2>0, <1>10, <1>16 DEF Claimers, Counts, Waits
    <2>2. Claimers = {h \in Files : Active(h) /\ (~ Waits(path) => h # of)}
      BY <2>0, <1>1 DEF Claimers, Counts, of, was
    <2>3. CASE path \in IdsOf(g)
      <3>1. ~ Waits(path)' /\ Waits(path)
        BY <1>6, <1>19, <2>3
      <3>2. sessions'[f].st = was.st
        BY <2>0, <1>7, <1>11, <2>3
      <3>3. CASE Active(of)
        <4>1. of \in Claimers
          BY <1>2, <2>2, <3>1, <3>3
        <4>2. Claimers' \subseteq (Claimers \ {of}) \cup {f}
          BY <1>11, <2>1, <2>2, <3>1
        <4>. DEFINE S == Claimers
                    T == Claimers'
        <4>3. Few(S, cuts) /\ cuts \in Nat /\ of \in S /\ T \subseteq (S \ {of}) \cup {f}
          BY <4>1, <4>2 DEF ActiveHolds, StartTypes
        <4>. HIDE DEF S, T
        <4>4. Few((S \ {of}) \cup {f}, cuts)
          BY <4>3, FewSwapped
        <4>5. Few(T, cuts)
          BY <4>3, <4>4, FewSmaller
        <4>. QED  BY <1>1, <4>5 DEF T, ActiveHolds
      <3>4. CASE ~ Active(of)
        <4>1. sessions'[f].st # "active"
          BY <3>2, <3>4 DEF was
        <4>2. Claimers' \subseteq Claimers
          BY <1>11, <2>1, <2>2, <3>1, <4>1
        <4>. QED  BY <1>1, <4>2, FewSmaller DEF ActiveHolds, StartTypes
      <3>. QED  BY <3>3, <3>4
    <2>4. CASE path \notin IdsOf(g)
      <3>1. Waits(path)' <=> Waits(path)
        BY <1>19, <2>4
      <3>2. sessions'[f].st = "archived"
        BY <2>0, <1>7, <1>11, <2>4
      <3>3. Claimers' \subseteq Claimers
        BY <1>11, <2>1, <2>2, <3>1, <3>2
      <3>. QED  BY <1>1, <3>3, FewSmaller DEF ActiveHolds, StartTypes
    <2>. QED  BY <2>3, <2>4
  <1>. QED  BY <1>13, <1>14, <1>15, <1>17, <1>18, <1>20, <1>21

LEMMA BackUpKeeps ==
    ASSUME MigrationInv, BackUp
    PROVE  MigrationInv'
  <1>. USE DEF MigrationInv
  <1>. DEFINE of == start.split.of
  <1>1. /\ Splitting /\ start.split.segments = <<>> /\ nextId' = nextId /\ cuts' = cuts /\ made' = made
        /\ sessions' = [sessions EXCEPT ![of] = Absent]
        /\ start' = [start EXCEPT !.todo = @ \ {of}, !.split = NoSplit]
    BY Zenon DEF BackUp, Splitting
  <1>2. of \in Files
    BY <1>1, SplittingIs
  <1>3. ~ start.up /\ ~ (Topics(sessions[of].msgs) <= 1)
    BY <1>1 DEF StartHolds
  <1>. HIDE DEF of
  <1>4. start \in [up : BOOLEAN, todo : SUBSET Files, split : {NoSplit} \cup Splits] /\ sessions \in [Files -> Content]
    BY DEF StartTypes, SessionTypes
  <1>5. /\ start'.up = start.up /\ start'.todo = start.todo \ {of} /\ start'.split = NoSplit
        /\ start' \in [up : BOOLEAN, todo : SUBSET Files, split : {NoSplit} \cup Splits]
    BY <1>1, <1>4
  <1>6. sessions'[of] = Absent /\ \A h \in Files : h # of => sessions'[h] = sessions[h]
    BY <1>1, <1>2, <1>4
  <1>7. Absent \in Content /\ Absent.st = "absent" /\ Forest(Absent.msgs) /\ IdsOf(Absent.msgs) = {}
    <2>1. Absent.msgs = <<>> /\ Absent.st = "absent" /\ <<>> \in Seq(Message)
      BY DEF Absent
    <2>2. Absent \in Content
      BY <2>1 DEF Absent, Content, None
    <2>. QED  BY <2>1, <2>2, EmptyForest
  <1>8. SessionTypes' /\ StartTypes'
    BY <1>1, <1>4, <1>5, <1>7 DEF SessionTypes, StartTypes
  <1>9. ~ Splitting'
    BY <1>5 DEF Splitting
  <1>10. ForestHolds'
    <2>1. ASSUME NEW h \in Files
          PROVE  /\ Forest(sessions'[h].msgs)
                 /\ \A id \in IdsOf(sessions'[h].msgs) : id < nextId
                 /\ sessions'[h].st = "absent" => sessions'[h] = Absent
      BY <1>6, <1>7 DEF ForestHolds, Present
    <2>. QED  BY <1>1, <2>1 DEF ForestHolds, Present
  <1>11. StartHolds'
    <2>1. \A h \in start.todo \ {of} : sessions'[h].st # "absent"
      BY <1>6 DEF StartHolds, StartTypes, Present
    <2>. QED  BY <1>3, <1>5, <1>9, <2>1 DEF StartHolds, Present
  <1>12. MadeHolds'
    <2>1. of \notin made
      BY <1>3 DEF MadeHolds
    <2>. QED  BY <1>1, <1>6, <2>1 DEF MadeHolds, StartTypes, Present
  <1>13. \A id : ~ Waits(id)
    BY <1>1 DEF Waits
  <1>14. CopyHolds'
    <2>1. ASSUME NEW id PROVE Holders(id)' = Holders(id)
      <3>1. Holders(id) = Copies(id) \ {of}
        BY <1>1, <1>13 DEF Holders, Counts, of
      <3>2. Copies(id)' = Copies(id) \ {of}
        BY <1>6, <1>7 DEF Copies
      <3>3. Holders(id)' = Copies(id)'
        BY <1>9 DEF Holders, Counts
      <3>. QED  BY <3>1, <3>2, <3>3
    <2>. QED  BY <1>1, <2>1 DEF CopyHolds
  <1>15. ActiveHolds'
    <2>1. Claimers' \subseteq Claimers
      <3>1. Claimers' = {h \in Files : sessions'[h].st = "active"}
        BY <1>9 DEF Claimers, Counts
      <3>2. Claimers = {h \in Files : sessions[h].st = "active" /\ h # of}
        BY <1>1, <1>13 DEF Claimers, Counts, of
      <3>. QED  BY <1>6, <1>7, <3>1, <3>2
    <2>. QED  BY <1>1, <2>1, FewSmaller DEF ActiveHolds, StartTypes
  <1>. QED  BY <1>8, <1>10, <1>11, <1>12, <1>14, <1>15

LEMMA InitHolds == MigrationInit => MigrationInv
  <1>. SUFFICES ASSUME MigrationInit PROVE MigrationInv
    OBVIOUS
  <1>1. PICK f \in Files, was \in Legacy \cup {Absent} :
          /\ sessions = [g \in Files |-> IF g = f THEN was ELSE Absent]
          /\ nextId = Len(was.msgs) + 1
    BY DEF MigrationInit
  <1>2. start = Running /\ made = {} /\ cuts = 0
    BY DEF MigrationInit
  <1>3. Absent \in Content /\ Absent.st = "absent" /\ Absent.msgs = <<>> /\ Forest(Absent.msgs) /\ IdsOf(Absent.msgs) = {}
    <2>1. Absent.msgs = <<>> /\ Absent.st = "absent" /\ <<>> \in Seq(Message)
      BY DEF Absent
    <2>2. Absent \in Content
      BY <2>1 DEF Absent, Content, None
    <2>. QED  BY <2>1, <2>2, EmptyForest
  <1>4. /\ was \in Content /\ Forest(was.msgs) /\ Len(was.msgs) \in Nat
        /\ IdsOf(was.msgs) = 1..Len(was.msgs)
        /\ was.st = "absent" => was = Absent
    <2>1. CASE was \in Legacy
      <3>1. was \in Content /\ Trees(was.msgs) /\ IdsOf(was.msgs) = 1..Len(was.msgs) /\ was.st # "absent"
        BY <2>1, LegacyAssumption
      <3>2. was.msgs \in Seq(Message)
        BY <3>1 DEF Content
      <3>3. Forest(was.msgs)
        BY <3>1, <3>2, TreesAreForests
      <3>. QED  BY <3>1, <3>2, <3>3
    <2>2. CASE was = Absent
      BY <1>3, <2>2
    <2>. QED  BY <2>1, <2>2
  <1>5. sessions[f] = was /\ \A g \in Files : g # f => sessions[g] = Absent
    BY <1>1
  <1>6. start.up /\ start.todo = {} /\ ~ Splitting
    BY <1>2 DEF Running, Splitting
  <1>7. SessionTypes
    BY <1>1, <1>3, <1>4 DEF SessionTypes
  <1>8. StartTypes
    BY <1>1, <1>2, <1>4 DEF StartTypes, Running
  <1>9. ForestHolds
    BY <1>1, <1>3, <1>4, <1>5 DEF ForestHolds, Present
  <1>10. StartHolds
    BY <1>6 DEF StartHolds
  <1>11. MadeHolds
    BY <1>2 DEF MadeHolds
  <1>12. CopyHolds
    <2>1. ASSUME NEW id \in 1..(nextId - 1) PROVE Holders(id) = {f}
      <3>1. id \in IdsOf(was.msgs)
        BY <1>1, <1>4
      <3>. QED  BY <1>3, <1>5, <1>6, <3>1 DEF Holders, Counts, Copies
    <2>. QED  BY <1>2, <2>1, FewOne DEF CopyHolds
  <1>13. ActiveHolds
    <2>1. Claimers \subseteq {f}
      BY <1>3, <1>5 DEF Claimers
    <2>. QED  BY <1>2, <2>1, FewOne DEF ActiveHolds
  <1>. QED  BY <1>7, <1>8, <1>9, <1>10, <1>11, <1>12, <1>13 DEF MigrationInv

LEMMA MigrationStep == MigrationInv /\ [MigrationNext]_migrationVars => MigrationInv'
  <1>. SUFFICES ASSUME MigrationInv, [MigrationNext]_migrationVars PROVE MigrationInv'
    OBVIOUS
  <1>1. CASE StartOver
    BY <1>1, StartOverKeeps
  <1>2. CASE BackUp
    BY <1>2, BackUpKeeps
  <1>3. CASE Loaded
    BY <1>3, LoadedKeeps
  <1>4. ASSUME NEW f \in Files, LookAt(f) PROVE MigrationInv'
    BY <1>4, LookAtKeeps
  <1>5. ASSUME NEW f \in Files, WriteSegment(f) PROVE MigrationInv'
    BY <1>5, WriteSegmentKeeps
  <1>6. ASSUME NEW f \in Files, NEW carry \in BOOLEAN, Create(f, carry) PROVE MigrationInv'
    BY <1>6, CreateKeeps
  <1>7. ASSUME NEW f \in Files, NEW kind \in {"user", "assistant"}, Say(f, kind) PROVE MigrationInv'
    BY <1>7, SayGrows, GrownKeeps
  <1>8. ASSUME NEW f \in Files, Edit(f) PROVE MigrationInv'
    BY <1>8, EditGrows, GrownKeeps
  <1>9. ASSUME NEW f \in Files, Compact(f) PROVE MigrationInv'
    BY <1>9, CompactGrows, GrownKeeps
  <1>10. CASE UNCHANGED migrationVars
    <2>1. sessions' = sessions /\ start' = start /\ made' = made /\ nextId' = nextId /\ cuts' = cuts
      BY <1>10 DEF migrationVars
    <2>. QED  BY <2>1 DEF MigrationInv, SessionTypes, StartTypes, ForestHolds, StartHolds, MadeHolds, CopyHolds,
              ActiveHolds, Claimers, Holders, Copies, Counts, Waits, Splitting, Present
  <1>11. ASSUME NEW f \in Files, Skip(f) PROVE MigrationInv'
    BY <1>11, SkipKeeps
  <1>. QED  BY <1>1, <1>2, <1>3, <1>4, <1>5, <1>6, <1>7, <1>8, <1>9, <1>10, <1>11 DEF MigrationNext

\* A split, however often it is repeated, cut short or skipped, and whatever the
\* kernel does in between, loses no message, cuts none off from its parent's
\* file and puts each in the topic of its parent; one that is cut short leaves
\* one copy of a message and one active session more at most (migrate.rs
\* migrate_file, split_segments, build_segment).
THEOREM SplitsAreSound == MigrationSpec => []SplitIsSound
  <1>1. ASSUME MigrationInv PROVE TopicsFollowParents
    <2>1. ASSUME NEW f \in start.todo, NEW i \in DOMAIN sessions[f].msgs, ~ IsBoundary(sessions[f].msgs[i])
          PROVE  LET s == sessions[f].msgs IN
                 Segment(s, i) = IF s[i].parent \in IdsOf(s) THEN Segment(s, IndexOf(s, s[i].parent)) ELSE 0
      <3>. DEFINE s == sessions[f].msgs
      <3>1. Forest(s)
        BY <1>1 DEF MigrationInv, ForestHolds, StartTypes
      <3>. HIDE DEF s
      <3>2. Segment(s, i) = IF s[i].parent \in IdsOf(s) THEN Segment(s, IndexOf(s, s[i].parent)) ELSE 0
        <4>1. i \in DOMAIN s /\ ~ IsBoundary(s[i])
          BY <2>1 DEF s
        <4>2. CASE s[i].parent \in IdsOf(s)
          BY <3>1, <4>1, <4>2, SegmentIs DEF Stops
        <4>3. CASE s[i].parent \notin IdsOf(s)
          BY <3>1, <4>1, <4>3, SegmentIs DEF Stops
        <4>. QED  BY <4>2, <4>3
      <3>. QED  BY <3>2 DEF s
    <2>. QED  BY <2>1 DEF TopicsFollowParents
  <1>2. ASSUME MigrationInv PROVE NothingLost
    <2>1. ASSUME NEW id \in 1..(nextId - 1)
          PROVE  Copies(id) # {} /\ (start.split = NoSplit => Cardinality(Copies(id)) <= cuts + 1)
      <3>1. Holders(id) # {} /\ Few(Holders(id), cuts)
        BY <1>2 DEF MigrationInv, CopyHolds
      <3>2. Holders(id) \subseteq Copies(id)
        BY DEF Holders
      <3>3. start.split = NoSplit => Holders(id) = Copies(id)
        BY DEF Holders, Counts, Splitting
      <3>. QED  BY <3>1, <3>2, <3>3 DEF Few
    <2>. QED  BY <2>1 DEF NothingLost
  <1>3. ASSUME MigrationInv PROVE LinksStayInside
    BY <1>3 DEF MigrationInv, ForestHolds, Forest, Inside, LinksStayInside
  <1>4. ASSUME MigrationInv PROVE NoNewActive
    <2>1. start.split = NoSplit => Claimers = {f \in Files : sessions[f].st = "active"}
      BY DEF Claimers, Counts, Splitting
    <2>. QED  BY <1>4, <2>1 DEF NoNewActive, MigrationInv, ActiveHolds, Few
  <1>5. MigrationInv => SplitIsSound
    BY <1>1, <1>2, <1>3, <1>4 DEF SplitIsSound
  <1>. QED  BY <1>5, InitHolds, MigrationStep, PTL DEF MigrationSpec

\* What a migration wrote is one topic and is never split again (migrate.rs:9).
THEOREM NothingIsSplitTwice == MigrationSpec => []SplitOnce
  <1>1. MigrationInv => SplitOnce
    BY DEF MigrationInv, StartHolds, MadeHolds, SplitOnce, Splitting
  <1>. QED  BY <1>1, InitHolds, MigrationStep, PTL DEF MigrationSpec
===============================================================================
