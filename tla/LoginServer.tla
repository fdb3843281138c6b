------------------------------ MODULE LoginServer ----------------------------
(***************************************************************************)
(* How the server keeps logins and registrations in check: a token bucket  *)
(* for each address (server/src/security/ratelimit.rs) and a guard that    *)
(* blocks an address or an e-mail after repeated failures (lockout.rs),    *)
(* called by the handlers of server/src/auth/handlers.rs.                  *)
(*                                                                         *)
(* Each call of a bucket or of the guard is one step, under its lock; the  *)
(* handlers of several requests interleave between them.  Time is counted  *)
(* in ticks and a token in parts, Cost to a token.                         *)
(***************************************************************************)
EXTENDS Naturals, Sequences, FiniteSets, Functions

CONSTANTS
    Handlers,                   \* requests that are handled at once
    Ips, Emails,
    Burst, Cost, Refill,        \* capacity, price and refill per tick, in parts
    Threshold, Window, Block,   \* the guard: failures, ticks, ticks
    BucketsCap, GuardCap,       \* how many keys each map keeps
    MaxTime                     \* bound: ticks

Keys == Ips \cup Emails

ASSUME BucketAssumption == Cost \in Nat \ {0} /\ Burst \in Nat /\ Burst >= Cost /\ Refill \in Nat \ {0}
ASSUME GuardAssumption == Threshold \in Nat \ {0} /\ Window \in Nat \ {0} /\ Block \in Nat \ {0}

VARIABLES
    now,
    buckets,    \* address -> [tokens, at]
    states,     \* key -> [count, first, until], the guard's; until 0: not blocked
    request,    \* the handlers
    accounts,   \* registered e-mails
    admitted,   \* ghost: when an address was let through, since the map was emptied
    failed,     \* ghost: when a key failed, since it was cleared
    blocked     \* ghost: until when a key was said to be blocked
loginVars == <<now, buckets, states, request, accounts, admitted, failed, blocked>>

NoRequest == [st |-> "idle", ip |-> "none", email |-> "none"]
Least(a, b) == IF a < b THEN a ELSE b
Without(f, k) == Restrict(f, DOMAIN f \ {k})
With(f, k, v) == [x \in DOMAIN f \cup {k} |-> IF x = k THEN v ELSE f[x]]

------------------------------------------------------------------------------
(* TokenBucket *)

Refilled(b) == Least(b.tokens + (now - b.at) * Refill, Burst)
Full == [tokens |-> Burst, at |-> now]

\* Buckets without a token.
Spent(bs) == {k \in DOMAIN bs : bs[k].tokens + (now - bs[k].at) * Refill < Cost}
\* Only full buckets say nothing.
NotFull(bs) == {k \in DOMAIN bs : bs[k].tokens + (now - bs[k].at) * Refill < Burst}
Evicted(bs) ==
    LET kept == Restrict(bs, NotFull(bs)) IN
    IF Cardinality(DOMAIN kept) >= BucketsCap THEN <<>> ELSE kept

\* At the cap, full buckets are forgotten, or all of them.
Crowded(bs) == Cardinality(DOMAIN bs) >= BucketsCap
Kept(bs) == IF Crowded(bs) THEN Evicted(bs) ELSE bs
Reset(bs) == Crowded(bs) /\ Cardinality(NotFull(bs)) >= BucketsCap

Check(k) ==
    LET kept == Kept(buckets)
        parts == IF k \in DOMAIN kept THEN Refilled(kept[k]) ELSE Burst
        ok == parts >= Cost
        log == IF Reset(buckets) THEN [i \in Ips |-> <<>>] ELSE admitted
    IN  [ok |-> ok,
         buckets |-> With(kept, k, [tokens |-> IF ok THEN parts - Cost ELSE parts, at |-> now]),
         admitted |-> IF ok THEN [log EXCEPT ![k] = Append(log[k], now)] ELSE log]

------------------------------------------------------------------------------
(* FailureGuard *)

IsBlocked(s) == s.until > now
Fresh == [count |-> 0, first |-> now, until |-> 0]

\* A block that has ended and a window that has passed are forgotten.
Lapsed(s) == IF s.until > 0 THEN ~IsBlocked(s) ELSE now - s.first >= Window
GuardCheck(k) ==
    [ok |-> k \notin DOMAIN states \/ ~IsBlocked(states[k]),
     states |-> IF k \in DOMAIN states /\ Lapsed(states[k]) THEN Without(states, k) ELSE states]

\* At the cap, all but the blocked keys are forgotten.
Retained == {k \in DOMAIN states : IsBlocked(states[k])}
IsCrowded == Cardinality(DOMAIN states) >= GuardCap
Known == IF IsCrowded THEN Restrict(states, Retained) ELSE states

\* A window that begins anew with each later failure never fills.
Sliding(s) ==
    IF s.first < now THEN [s EXCEPT !.count = 1, !.first = now] ELSE [s EXCEPT !.count = s.count + 1]
Counted(s) ==
    IF now - s.first >= Window THEN [s EXCEPT !.count = 1, !.first = now] ELSE [s EXCEPT !.count = s.count + 1]
Punished(s) ==
    LET c == Counted(s) IN
    IF c.count >= Threshold THEN [count |-> 0, first |-> now, until |-> now + Block] ELSE c

\* record_failure; the ghosts say what a guard without a cap would have seen.
RecordFailure(k) ==
    LET s == Punished(IF k \in DOMAIN Known THEN Known[k] ELSE Fresh)
        block == s.first = now /\ s.count = 0
        log == [x \in Keys |-> IF x \in DOMAIN states \ DOMAIN Known THEN <<>> ELSE failed[x]]
    IN  /\ states' = With(Known, k, s)
        /\ failed' = [log EXCEPT ![k] = IF block THEN <<>> ELSE Append(@, now)]
        /\ blocked' = IF block THEN [blocked EXCEPT ![k] = now + Block] ELSE blocked

RecordSuccess(k) ==
    /\ states' = Without(states, k)
    /\ failed' = [failed EXCEPT ![k] = <<>>]
    /\ blocked' = [blocked EXCEPT ![k] = 0]

------------------------------------------------------------------------------
(* The handlers *)

At(h, st) == request[h].st = st
Proceeds(h, st) == request' = [request EXCEPT ![h].st = st]
Leaves(h) == request' = [request EXCEPT ![h] = NoRequest]
GuardStays == UNCHANGED <<states, failed, blocked>>
BucketStays == UNCHANGED <<buckets, admitted>>

\* check_auth_rate, the first thing both handlers do.
Passes(ip) == LET c == Check(ip) IN buckets' = c.buckets /\ admitted' = c.admitted

Login(h, ip, email) ==
    /\ At(h, "idle")
    /\ Passes(ip)
    /\ IF Check(ip).ok THEN request' = [request EXCEPT ![h] = [st |-> "admitted", ip |-> ip, email |-> email]]
       ELSE UNCHANGED request
    /\ GuardStays /\ UNCHANGED <<now, accounts>>

\* After the check, an INSERT under the unique index on the e-mail, which may
\* fail; the two share nothing with other handlers and are one step here.
Register(h, ip, email) ==
    /\ At(h, "idle")
    /\ Passes(ip)
    /\ accounts' \in {accounts} \cup IF Check(ip).ok THEN {accounts \cup {email}} ELSE {}
    /\ GuardStays /\ UNCHANGED <<now, request>>

\* login_allowed asks for the address, then for the e-mail.
AllowIp(h) ==
    /\ At(h, "admitted")
    /\ LET c == GuardCheck(request[h].ip) IN
       /\ states' = c.states
       /\ Proceeds(h, IF c.ok THEN "allowed" ELSE "refused")
    /\ BucketStays /\ UNCHANGED <<now, accounts, failed, blocked>>
AllowEmail(h) ==
    /\ request[h].st \in {"allowed", "refused"}
    /\ LET c == GuardCheck(request[h].email) IN
       /\ states' = c.states
       /\ IF c.ok /\ At(h, "allowed") THEN Proceeds(h, "verify") ELSE Leaves(h)
    /\ BucketStays /\ UNCHANGED <<now, accounts, failed, blocked>>

\* The account is looked up, the password verified; an unknown e-mail, a wrong
\* password and a disabled account all count as failures.
Verify(h) ==
    /\ At(h, "verify")
    /\ \/ Proceeds(h, "failed")
       \/ request[h].email \in accounts /\ Proceeds(h, "succeeded")
    /\ GuardStays /\ BucketStays /\ UNCHANGED <<now, accounts>>

FailIp(h) == At(h, "failed") /\ RecordFailure(request[h].ip) /\ Proceeds(h, "failedEmail")
FailEmail(h) == At(h, "failedEmail") /\ RecordFailure(request[h].email) /\ Leaves(h)
SucceedIp(h) == At(h, "succeeded") /\ RecordSuccess(request[h].ip) /\ Proceeds(h, "succeededEmail")
\* Then a token is issued.
SucceedEmail(h) == At(h, "succeededEmail") /\ RecordSuccess(request[h].email) /\ Leaves(h)
Record(h) ==
    /\ FailIp(h) \/ FailEmail(h) \/ SucceedIp(h) \/ SucceedEmail(h)
    /\ BucketStays /\ UNCHANGED <<now, accounts>>

Tick ==
    /\ now < MaxTime
    /\ now' = now + 1
    /\ UNCHANGED <<buckets, states, request, accounts, admitted, failed, blocked>>

------------------------------------------------------------------------------
LoginInit ==
    /\ now = 0
    /\ buckets = <<>> /\ states = <<>>
    /\ request = [h \in Handlers |-> NoRequest]
    /\ accounts = {}
    /\ admitted = [i \in Ips |-> <<>>]
    /\ failed = [k \in Keys |-> <<>>]
    /\ blocked = [k \in Keys |-> 0]

Serve(h) == AllowIp(h) \/ AllowEmail(h) \/ Verify(h) \/ Record(h)
LoginNext ==
    \/ \E h \in Handlers : Serve(h)
    \/ \E h \in Handlers, ip \in Ips, email \in Emails : Login(h, ip, email) \/ Register(h, ip, email)
    \/ Tick

LoginSpec == LoginInit /\ [][LoginNext]_loginVars

------------------------------------------------------------------------------
(* Properties *)

\* The values of the variables.
LoginTypeOK ==
    /\ now \in Nat
    /\ DOMAIN buckets \subseteq Ips /\ \A i \in DOMAIN buckets : buckets[i].tokens \in 0..Burst /\ buckets[i].at <= now
    /\ DOMAIN states \subseteq Keys
    /\ \A k \in DOMAIN states : states[k].count \in 0..(Threshold - 1) /\ states[k].first <= now
    /\ accounts \subseteq Emails

\* An address is let through no oftener in any span of time than its capacity
\* and the rate allow, though its bucket may have been forgotten in between
\* (TokenBucket::check, evict); emptying the whole map alone starts anew.
RateHolds ==
    \A i \in Ips : \A a, b \in DOMAIN admitted[i] :
        a <= b => (b - a + 1) * Cost <= Burst + (admitted[i][b] - admitted[i][a]) * Refill

\* A key fails fewer than twice the threshold within a window before it is
\* blocked: windows that start with a failure and the parallel logins of two
\* addresses included.  Once blocked it may fail fewer than three times the
\* threshold: the logins that had passed the check go on counting, and the end
\* of the block forgets that count (FailureGuard::check, record_failure).
MostFailures(k) == (IF blocked[k] = 0 THEN 2 ELSE 3) * (Threshold - 1)
FailuresEndInABlock ==
    \A k \in Keys : \A a, b \in DOMAIN failed[k] :
        b = a + MostFailures(k) => failed[k][b] >= failed[k][a] + Window

\* From the failure that blocks an address or an e-mail until the block ends,
\* or a login that had been allowed before succeeds, no login passes the check
\* with it (login_allowed).
BlockHolds ==
    [][\A h \in Handlers :
        /\ At(h, "allowed") /\ request'[h].st = "verify" => blocked[request[h].email] <= now
        /\ At(h, "admitted") /\ request'[h].st \in {"allowed", "verify"} => blocked[request[h].ip] <= now
        /\ request'[h].st = "verify" /\ ~At(h, "verify") => blocked[request[h].email] <= now]_loginVars

\* The lockout: enough failures lead to a block, and a block is one.
LockoutHolds == [](LoginTypeOK /\ FailuresEndInABlock) /\ BlockHolds
==============================================================================
