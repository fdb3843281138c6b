------------------------------ MODULE MemoryFiles ----------------------------
(***************************************************************************)
(* The cross-session memory on disk (kernel/plugin/memory/store.rs over    *)
(* the memory domain of storage/file/io.rs): one file per entry, its name  *)
(* the path with every segment in base64url.  A write goes to a temporary  *)
(* file that is renamed, a removal takes the entry's file and then its     *)
(* directory, one file after another.  At each start what is not in this   *)
(* layout is taken for an entry of the old one, which named files by the   *)
(* plain path, and moved over.                                             *)
(*                                                                         *)
(* The file system calls of one operation are synchronous, so a call that  *)
(* is given up is not cut short by that; another thread or the end of the  *)
(* process comes between two of them, and each may fail.                   *)
(***************************************************************************)
EXTENDS Naturals, Sequences, FiniteSets

CONSTANTS
    Clients,      \* who calls the memory: the turn's tools, the user's commands
    Paths,        \* the paths of entries: sequences of segments, a segment its UTF-8 bytes
    Contents,
    NoContent,    \* the content of a file that is not there
    NoPath,
    OldEntries,   \* the paths that have a file in the old layout when this version first starts
    Misread,      \* the entries some of its files are taken for: a plain name may be base64url too
    OldContent,   \* what is in those files
    TmpIds,       \* the identities temporary files get
    MaxCrashes, MaxFaults

ASSUME OldAssumption == OldEntries \subseteq Paths /\ OldContent \in Contents
ASSUME ContentAssumption == NoContent \notin Contents
\* MemoryPath::parse takes no empty path and no empty segment.
ASSUME PathAssumption == NoPath \notin Paths /\ Paths \subseteq Seq(Seq(Nat) \ {<<>>}) \ {<<>>}

VARIABLES
    files,        \* the content of each file of the domain
    boot,         \* the start-up, which migrates the old layout
    client,       \* what each client is in the middle of
    crashes,
    faults,       \* calls that have failed
    failed        \* whether a start has given its migration up

vars == <<files, boot, client, crashes, faults, failed>>

------------------------------------------------------------------------------
(* Names *)

New(p) == <<"new", p>>
\* A plain name that does not decode.  One that does, as HTML.md, is New(q) of
\* the path q it decodes to.
Old(p) == <<"old", p>>
\* The temporary file of a write to p, in p's directory.
Tmp(p, k) == <<"tmp", p, k>>
\* The entry its name becomes when it is taken for a name of the old layout.
Residue(p, k) == <<"residue", p, k>>

Names == {New(p) : p \in Paths} \cup {Old(p) : p \in Paths}
         \cup {Tmp(p, k) : p \in Paths, k \in TmpIds} \cup {Residue(p, k) : p \in Paths, k \in TmpIds}

\* The last six bits base64url writes for a segment.
LastSextet(s) ==
    LET last == s[Len(s)] IN
    CASE Len(s) % 3 = 0 -> last % 64
      [] Len(s) % 3 = 1 -> (last % 4) * 16
      [] Len(s) % 3 = 2 -> (last % 16) * 4
\* RelPath takes a segment that ends in a letter or a digit; 62 is "-", 63 "_".
\* The last segment of an entry's name ends in ".md", that of its directory does not.
FitSegment(s) == LastSextet(s) < 62
EntryFits(p) == \A i \in 1..(Len(p) - 1) : FitSegment(p[i])
TreeFits(p) == EntryFits(p) /\ FitSegment(p[Len(p)])
ASSUME MisreadAssumption == Misread \subseteq Paths \ OldEntries /\ \A q \in Misread : EntryFits(q)

Exists(n) == files[n] # NoContent
IsUnder(p, q) == Len(q) > Len(p) /\ SubSeq(q, 1, Len(p)) = p
Taken(k) == \E p \in Paths : Exists(Tmp(p, k)) \/ Exists(Residue(p, k))
\* A fresh uuid.
Unused == CHOOSE k \in TmpIds : ~Taken(k)
MayWrite == \E k \in TmpIds : ~Taken(k)

------------------------------------------------------------------------------
(* Operations of the running kernel *)

Idle == [op |-> "none", path |-> NoPath, tmp |-> 0]
Up == boot.st \in {"up", "degraded"}
Done(c) == client' = [client EXCEPT ![c] = Idle]
Fails == faults < MaxFaults /\ faults' = faults + 1

\* memory::save and every plugin's save: the directory is made and the
\* temporary file written.  A path the file name does not take is refused.
Save(c, p, v) ==
    /\ Up /\ client[c] = Idle
    /\ EntryFits(p) /\ MayWrite
    /\ files' = [files EXCEPT ![Tmp(p, Unused)] = v]
    /\ client' = [client EXCEPT ![c] = [op |-> "save", path |-> p, tmp |-> Unused]]
    /\ UNCHANGED <<boot, crashes, faults, failed>>

\* The rename, which finds nothing if somebody has removed the directory.
Renamed(p, k) ==
    IF Exists(Tmp(p, k))
    THEN [files EXCEPT ![New(p)] = files[Tmp(p, k)], ![Tmp(p, k)] = NoContent]
    ELSE files
SaveRename(c) ==
    /\ Up /\ client[c].op = "save"
    /\ files' = Renamed(client[c].path, client[c].tmp)
    /\ Done(c)
    /\ UNCHANGED <<boot, crashes, faults, failed>>

\* memory::remove: the entry's own file, whether there is one or not, and
\* whether it can be removed or not ...
Remove(c, p) ==
    /\ Up /\ client[c] = Idle
    /\ EntryFits(p)
    /\ \/ files' = [files EXCEPT ![New(p)] = NoContent] /\ UNCHANGED faults
       \/ Exists(New(p)) /\ UNCHANGED files /\ Fails
    /\ client' = [client EXCEPT ![c] = [op |-> "remove", path |-> p, tmp |-> 0]]
    /\ UNCHANGED <<boot, crashes, failed>>

\* ... and then its directory, with whatever others are writing in it.
UnderRemoved(p, n) == TreeFits(p) /\ n[1] \in {"new", "tmp"} /\ IsUnder(p, n[2])
RemoveUnder(c, n) ==
    /\ Up /\ client[c].op = "remove"
    /\ Exists(n) /\ UnderRemoved(client[c].path, n)
    /\ files' = [files EXCEPT ![n] = NoContent]
    /\ UNCHANGED <<boot, client, crashes, faults, failed>>
RemoveTree(c) ==
    /\ Up /\ client[c].op = "remove"
    /\ \A n \in Names : Exists(n) => ~UnderRemoved(client[c].path, n)
    /\ Done(c)
    /\ UNCHANGED <<files, boot, crashes, faults, failed>>

\* The write or the rename fails, which leaves the temporary file, or a file
\* of the directory cannot be removed, or comes to be meanwhile.
GivesUp(c) ==
    /\ Up /\ client[c] # Idle
    /\ Fails /\ Done(c)
    /\ UNCHANGED <<files, boot, crashes, failed>>

------------------------------------------------------------------------------
(* Start-up: migrate_legacy_layout *)

\* The names that do not decode as the new layout.
Undecodable == {n \in Names : Exists(n) /\ n[1] \in {"old", "tmp"}}
Target(n) == IF n[1] = "old" THEN New(n[2]) ELSE Residue(n[2], n[3])
TargetFits(n) == n[1] = "old" => EntryFits(n[2])
At(st, todo, name, tmp) == [st |-> st, todo |-> todo, name |-> name, tmp |-> tmp]
NoName == <<"none", NoPath>>
\* The kernel starts with the rest of the old layout in place.
Degraded == boot' = At("degraded", {}, NoName, 0) /\ failed' = TRUE

List ==
    /\ boot.st = "down"
    /\ boot' = At("moving", Undecodable, NoName, 0)
    /\ UNCHANGED <<files, client, crashes, faults, failed>>

\* One that takes the old file away as it reads it.
ReadAway(n) ==
    /\ boot.st = "moving" /\ n \in boot.todo
    /\ IF TargetFits(n)
       THEN /\ MayWrite
            /\ files' = [files EXCEPT ![Tmp(n[2], Unused)] = files[n], ![n] = NoContent]
            /\ boot' = At("written", boot.todo \ {n}, n, Unused)
            /\ UNCHANGED failed
       ELSE UNCHANGED files /\ Degraded
    /\ UNCHANGED <<client, crashes, faults>>

\* An old entry is read and written to a temporary file; if its new name is
\* none the migration is given up.
Read(n) ==
    /\ boot.st = "moving" /\ n \in boot.todo
    /\ IF TargetFits(n)
       THEN /\ MayWrite
            /\ files' = [files EXCEPT ![Tmp(n[2], Unused)] = files[n]]
            /\ boot' = At("written", boot.todo \ {n}, n, Unused)
            /\ UNCHANGED failed
       ELSE UNCHANGED files /\ Degraded
    /\ UNCHANGED <<client, crashes, faults>>

\* The copy gets its name ...
Write ==
    /\ boot.st = "written"
    /\ files' = [files EXCEPT ![Target(boot.name)] = files[Tmp(boot.name[2], boot.tmp)],
                              ![Tmp(boot.name[2], boot.tmp)] = NoContent]
    /\ boot' = [boot EXCEPT !.st = "named"]
    /\ UNCHANGED <<client, crashes, faults, failed>>

\* ... and the old file goes.
KeepOld ==
    /\ boot.st = "named"
    /\ boot' = At("moving", boot.todo, NoName, 0)
    /\ UNCHANGED <<files, client, crashes, faults, failed>>
RemoveOld ==
    /\ boot.st = "named"
    /\ files' = [files EXCEPT ![boot.name] = NoContent]
    /\ boot' = At("moving", boot.todo, NoName, 0)
    /\ UNCHANGED <<client, crashes, faults, failed>>

\* list, read_legacy, write or remove_legacy fails: what is done stays.
StartFails ==
    /\ ~Up
    /\ Fails /\ Degraded
    /\ UNCHANGED <<files, client, crashes>>

Started ==
    /\ boot.st = "moving" /\ boot.todo = {}
    /\ boot' = At("up", {}, NoName, 0)
    /\ UNCHANGED <<files, client, crashes, faults, failed>>

Crash ==
    /\ crashes < MaxCrashes
    /\ crashes' = crashes + 1
    /\ boot' = At("down", {}, NoName, 0)
    /\ client' = [c \in Clients |-> Idle]
    /\ UNCHANGED <<files, faults, failed>>

------------------------------------------------------------------------------
AtFirst == {Old(p) : p \in OldEntries} \cup {New(q) : q \in Misread}
Init ==
    /\ files = [n \in Names |-> IF n \in AtFirst THEN OldContent ELSE NoContent]
    /\ boot = At("down", {}, NoName, 0)
    /\ client = [c \in Clients |-> Idle]
    /\ crashes = 0 /\ faults = 0 /\ failed = FALSE

Boot == List \/ (\E n \in boot.todo : Read(n)) \/ Write \/ RemoveOld \/ Started
Goes(c) == SaveRename(c) \/ (\E n \in Names : RemoveUnder(c, n)) \/ RemoveTree(c)
Next ==
    \/ Boot \/ StartFails
    \/ Crash
    \/ \E c \in Clients :
          \/ Goes(c) \/ GivesUp(c)
          \/ \E p \in Paths : Remove(c, p) \/ \E v \in Contents : Save(c, p, v)

Spec == Init /\ [][Next]_vars
FairSpec == Spec /\ WF_vars(Boot)

------------------------------------------------------------------------------
(* Properties *)

BootStates == {"down", "moving", "written", "named", "up", "degraded"}

\* The values of the variables.
TypeOK ==
    /\ files \in [Names -> Contents \cup {NoContent}]
    /\ boot.st \in BootStates /\ boot.todo \subseteq Names
    /\ boot.name \in Names \cup {NoName} /\ boot.tmp \in TmpIds \cup {0}
    /\ client \in [Clients -> [op : {"none", "save", "remove"}, path : Paths \cup {NoPath}, tmp : TmpIds \cup {0}]]
    /\ crashes \in 0..MaxCrashes /\ faults \in 0..MaxFaults /\ failed \in BOOLEAN

Entries == [p \in Paths |-> files[New(p)]]
OldCopies == [p \in Paths |-> files[Old(p)]]
Removing == [c \in Clients |-> IF client[c].op = "remove" THEN client[c].path ELSE NoPath]
Tree == INSTANCE MemoryTree WITH
            entries <- Entries, old <- OldCopies, removing <- Removing, serving <- Up

\* Through crashes, failing calls, repeated migrations and clients that save
\* under a path while another removes it, the files are the map of
\* MemoryService: an entry changes only by a save or a removal of it, no start
\* loses one, and none puts an old content over a newer one before a start has
\* failed (store.rs migrate_legacy_layout, save, remove).
IsATree == Tree!TreeSpec

\* Temporary files that nobody is going to rename, or the entries a later start
\* made of them.  A call that fails leaves one at most, a crash one per writer,
\* although every start copies those it finds.
InUse == {<<client[c].path, client[c].tmp>> : c \in {d \in Clients : client[d].op = "save"}}
         \cup (IF boot.st = "written" THEN {<<boot.name[2], boot.tmp>>} ELSE {})
         \cup (IF boot.st = "named" /\ boot.name[1] = "tmp" THEN {<<boot.name[2], boot.name[3]>>} ELSE {})
Leftovers == {pk \in (Paths \X TmpIds) : Exists(Tmp(pk[1], pk[2])) \/ Exists(Residue(pk[1], pk[2]))} \ InUse
LeftoversHaveACause == Cardinality(Leftovers) <= faults + crashes * Cardinality(Clients)

\* A start that has not failed has moved every old entry (migrate_legacy_layout).
NothingOldIsLeft == boot.st = "up" => \A p \in Paths : ~Exists(Old(p))

\* However often a start is cut short, in the end the kernel runs; a start
\* that was not given up has finished what the ones before it left, and no
\* more files are left behind than calls failed and writers died.
StartsTidyUp == <>[]Up /\ [](TypeOK /\ NothingOldIsLeft /\ LeftoversHaveACause)
==============================================================================
