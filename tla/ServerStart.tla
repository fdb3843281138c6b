----------------------------- MODULE ServerStart -----------------------------
(***************************************************************************)
(* The relay server's start: the environment is read and checked           *)
(* (server/src/config.rs), the administrator's account is seeded           *)
(* (auth/store.rs ensure_seed_admin), and the limits are handed to what    *)
(* enforces them (main.rs).  Between two starts the operator may write     *)
(* anything; while it runs people register.                                *)
(***************************************************************************)
EXTENDS Integers, Sequences

CONSTANTS
    Numbers,       \* variables that hold a number
    Signed,        \* those read as a signed number
    Default,       \* of each, what it is when not written
    Written,       \* texts an operator may write for one
    NumberOf,      \* the number a text is, or NoNumber
    NoNumber, Absent,
    Ladders,       \* what may be written for the ladder: lists of texts
    DefaultLadder,
    Mailboxes,     \* the e-mails an account may have
    Passwords,     \* long enough
    Short          \* a password that is not

VARIABLES
    env,           \* what is written
    server,        \* down, refused, or up with the limits it was given
    users,         \* accounts by their email
    promoted       \* who an administrator was made of by the operator

startVars == <<env, server, users, promoted>>

Down == [state |-> "down", limits |-> <<>>, ladder |-> <<>>]
Account(role, password) == [role |-> role, password |-> password]

------------------------------------------------------------------------------
(* The environment *)

\* A number as the type of its variable has it.
Parses(k, text) ==
    /\ text # Absent => NumberOf[text] # NoNumber
    /\ text # Absent /\ k \notin Signed => NumberOf[text] >= 0
Value(k, text) == IF text = Absent THEN Default[k] ELSE NumberOf[text]
\* positive_u32, positive_u64, positive_i32 and the checks that precede them.
Positive(k, text) == Parses(k, text) /\ Value(k, text) > 0

\* Parts that are blank do not count.
LadderParts(texts) == SelectSeq(texts, LAMBDA t : t # "")
LadderOf(l) ==
    IF l = Absent THEN DefaultLadder
    ELSE [i \in DOMAIN LadderParts(l) |-> NumberOf[LadderParts(l)[i]]]
Ascends(ladder) == \A i \in 1..(Len(ladder) - 1) : ladder[i] < ladder[i + 1]
LadderParses(l) ==
    l # Absent => \A i \in DOMAIN LadderParts(l) :
                     NumberOf[LadderParts(l)[i]] # NoNumber /\ NumberOf[LadderParts(l)[i]] >= 0

\* The seed is an email and a password, or neither.
SeedIsWhole == (env.email = Absent) = (env.password = Absent)
SeedIsValid == env.email # Absent => env.password # Short

FromLookup ==
    /\ \A k \in Numbers : Positive(k, env.number[k])
    /\ SeedIsWhole
    /\ LadderParses(env.ladder) /\ Ascends(LadderOf(env.ladder))

------------------------------------------------------------------------------
(* The start *)

\* A seed that takes the account it finds.
SeedTakesOver ==
    IF env.email = Absent THEN UNCHANGED users
    ELSE users' = [users EXCEPT ![env.email] = Account("admin", env.password)]
EnsureSeedAdmin ==
    IF env.email = Absent \/ users[env.email] # Account("none", Absent) THEN UNCHANGED users
    ELSE users' = [users EXCEPT ![env.email] = Account("admin", env.password)]

Starts ==
    /\ server.state # "up"
    /\ IF FromLookup /\ SeedIsValid
       THEN /\ EnsureSeedAdmin
            /\ server' = [state |-> "up", limits |-> [k \in Numbers |-> Value(k, env.number[k])],
                          ladder |-> LadderOf(env.ladder)]
       ELSE server' = [Down EXCEPT !.state = "refused"] /\ UNCHANGED users
    /\ UNCHANGED <<env, promoted>>
Stops == server.state = "up" /\ server' = Down /\ UNCHANGED <<env, users, promoted>>

\* The operator's hand, between two starts: it is the next one that reads it.
WritesNumber(k, text) == server.state # "up" /\ env' = [env EXCEPT !.number[k] = text] /\ UNCHANGED <<server, users, promoted>>
WritesLadder(l) == server.state # "up" /\ env' = [env EXCEPT !.ladder = l] /\ UNCHANGED <<server, users, promoted>>
WritesSeed(email, password) ==
    /\ server.state # "up"
    /\ env' = [env EXCEPT !.email = email, !.password = password]
    /\ UNCHANGED <<server, users, promoted>>

\* register: an email that is taken is refused.
Registers(email, password) ==
    /\ server.state = "up" /\ users[email].role = "none"
    /\ users' = [users EXCEPT ![email] = Account("user", password)]
    /\ UNCHANGED <<env, server, promoted>>
\* External: the operator's own hand on the database.
Promotes(email) ==
    /\ users[email].role = "user"
    /\ users' = [users EXCEPT ![email].role = "admin"]
    /\ promoted' = promoted \cup {email}
    /\ UNCHANGED <<env, server>>

StartInit ==
    /\ env = [number |-> [k \in Numbers |-> Absent], ladder |-> Absent, email |-> Absent, password |-> Absent]
    /\ server = Down
    /\ users = [e \in Mailboxes |-> Account("none", Absent)]
    /\ promoted = {}
StartNext ==
    \/ Starts \/ Stops
    \/ \E k \in Numbers, text \in Written \cup {Absent} : WritesNumber(k, text)
    \/ \E l \in Ladders \cup {Absent} : WritesLadder(l)
    \/ \E e \in Mailboxes \cup {Absent}, p \in Passwords \cup {Short, Absent} : WritesSeed(e, p)
    \/ \E e \in Mailboxes : Promotes(e) \/ \E p \in Passwords : Registers(e, p)

------------------------------------------------------------------------------
(* Properties *)

\* Nobody who registered becomes an administrator, or gets another password, by
\* a start with his email in the seed, however often the server starts
\* (ensure_seed_admin).
NoOneIsTakenOver ==
    [][\A e \in Mailboxes : users[e].role # "none" =>
          /\ users'[e].password = users[e].password
          /\ users'[e].role = "admin" => users[e].role = "admin" \/ e \in promoted']_<<users, promoted>>
==============================================================================
