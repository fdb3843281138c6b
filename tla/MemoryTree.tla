------------------------------ MODULE MemoryTree -----------------------------
(***************************************************************************)
(* What the cross-session memory promises its callers (MemoryService, and  *)
(* InMemoryMemory, which keeps it in one map): a content for each path,    *)
(* and the removal of an entry with all that lies under it, which may be   *)
(* seen half done and stays so if a call fails.                            *)
(*                                                                         *)
(* An entry may have a copy in the old layout, which starts move before    *)
(* anybody calls.  No such copy comes to be, and none goes before its      *)
(* content is the entry's.  Callers are served once there are none, or     *)
(* once a start has failed to move them; only then can a later start put   *)
(* an old content over what the callers have made of the entry.            *)
(***************************************************************************)
EXTENDS Naturals, Sequences

CONSTANTS
    Clients,      \* who calls it: the turn's tools, the user's commands
    Paths,        \* the paths of entries, sequences of segments
    Contents,
    NoContent,    \* the content of an entry that is not there
    NoPath

VARIABLES
    entries,      \* the map
    old,          \* the copies in the old layout
    removing,     \* the path a client has half removed
    serving,      \* whether callers are served: a start is over
    faults,       \* calls that have failed
    failed        \* whether a start has failed to move the old layout

treeVars == <<entries, old, removing, serving, faults, failed>>

IsUnder(p, q) == Len(q) > Len(p) /\ SubSeq(q, 1, Len(p)) = p

TreeInit ==
    /\ entries \in [Paths -> Contents \cup {NoContent}]
    /\ old \in [Paths -> Contents \cup {NoContent}]
    /\ removing = [c \in Clients |-> NoPath]
    /\ serving = FALSE /\ faults = 0 /\ failed = FALSE

TreeSave(p, v) ==
    /\ serving
    /\ entries' = [entries EXCEPT ![p] = v]
    /\ UNCHANGED <<old, removing, serving, faults, failed>>

\* The entry stays only if its removal fails.
TreeRemoveEntry(c, p) ==
    /\ serving /\ removing[c] = NoPath
    /\ \/ entries' = [entries EXCEPT ![p] = NoContent] /\ UNCHANGED faults
       \/ UNCHANGED entries /\ faults' = faults + 1
    /\ removing' = [removing EXCEPT ![c] = p]
    /\ UNCHANGED <<old, serving, failed>>

TreeRemoveUnder(c, q) ==
    /\ removing[c] # NoPath /\ IsUnder(removing[c], q)
    /\ entries' = [entries EXCEPT ![q] = NoContent]
    /\ UNCHANGED <<old, removing, serving, faults, failed>>

TreeRemoved(c) ==
    /\ removing[c] # NoPath
    /\ \A q \in Paths : IsUnder(removing[c], q) => entries[q] = NoContent
    /\ removing' = [removing EXCEPT ![c] = NoPath]
    /\ UNCHANGED <<entries, old, serving, faults, failed>>

\* A save that fails has saved nothing, a removal leaves the rest.
TreeFails(c) ==
    /\ serving
    /\ faults' = faults + 1
    /\ removing' = [removing EXCEPT ![c] = NoPath]
    /\ UNCHANGED <<entries, old, serving, failed>>

\* The process dies: what is removed is removed, nobody removes the rest.
TreeRestart ==
    /\ serving' = FALSE
    /\ removing' = [c \in Clients |-> NoPath]
    /\ UNCHANGED <<entries, old, faults, failed>>

\* A start: the entry gets its old content, which differs from what it has only
\* after a start that failed ...
TreeMove(p) ==
    /\ ~serving
    /\ old[p] # NoContent
    /\ failed \/ entries[p] \in {NoContent, old[p]}
    /\ entries' = [entries EXCEPT ![p] = old[p]]
    /\ UNCHANGED <<old, removing, serving, faults, failed>>
\* ... the copy goes ...
TreeForget(p) ==
    /\ ~serving
    /\ old[p] # NoContent /\ entries[p] = old[p]
    /\ old' = [old EXCEPT ![p] = NoContent]
    /\ UNCHANGED <<entries, removing, serving, faults, failed>>
\* ... and when there is none left, callers come.
TreeStarted ==
    /\ ~serving
    /\ \A p \in Paths : old[p] = NoContent
    /\ serving' = TRUE
    /\ UNCHANGED <<entries, old, removing, faults, failed>>
\* They also come when a copy cannot be moved or removed.
TreeStartFails ==
    /\ ~serving
    /\ serving' = TRUE /\ failed' = TRUE
    /\ faults' \in {faults, faults + 1}
    /\ UNCHANGED <<entries, old, removing>>

TreeNext ==
    \/ \E p \in Paths, v \in Contents : TreeSave(p, v)
    \/ \E c \in Clients :
          \/ TreeRemoved(c) \/ TreeFails(c)
          \/ \E p \in Paths : TreeRemoveEntry(c, p) \/ TreeRemoveUnder(c, p)
    \/ TreeRestart \/ TreeStarted \/ TreeStartFails
    \/ \E p \in Paths : TreeMove(p) \/ TreeForget(p)

TreeSpec == TreeInit /\ [][TreeNext]_treeVars
==============================================================================
