---------------------------- MODULE LoginLimiter ----------------------------
(***************************************************************************)
(* The limiter of failed logins (src/internal/admin/login_limiter.go): for *)
(* each address the failures counted since the first one of the running    *)
(* window, and the end of the lock they led to.  Time is counted in whole  *)
(* ticks; the zero time of the code is 0, so the clock starts at 1.        *)
(***************************************************************************)
EXTENDS Integers

CONSTANTS MaxFailures,   \* failures that lock an address
          Window,        \* how long a failure counts
          Lockout        \* how long a lock lasts

ASSUME LimiterAssumption ==
    /\ MaxFailures \in Nat \ {0}
    /\ Window \in Nat \ {0}
    /\ Lockout \in Nat \ {0}

Entry == [failures : Nat, firstFail : Nat, lockedTill : Nat]

NoEntry == [failures |-> 0, firstFail |-> 0, lockedTill |-> 0]

Without(entries, gone) == [ip \in DOMAIN entries \ gone |-> entries[ip]]

Known(entries, ip) == IF ip \in DOMAIN entries THEN entries[ip] ELSE NoEntry

Locked(entry, now) == entry.lockedTill > now

WindowOver(entry, now) == now - entry.firstFail > Window

\* What allow leaves of the entry of an address that is not locked.
AfterAllow(entries, ip, now) ==
    IF /\ ip \in DOMAIN entries
       /\ entries[ip].firstFail # 0
       /\ WindowOver(entries[ip], now)
    THEN [entries EXCEPT ![ip].failures = 0, ![ip].firstFail = 0]
    ELSE entries

\* Mutated form: the lock falls one failure too late.
FailedLate(entry, now) ==
    LET opens == entry.firstFail = 0 \/ WindowOver(entry, now)
        count == IF opens THEN 1 ELSE entry.failures + 1
    IN  [failures   |-> count,
         firstFail  |-> IF opens THEN now ELSE entry.firstFail,
         lockedTill |-> IF count > MaxFailures THEN now + Lockout
                                               ELSE entry.lockedTill]

\* One more failure: it opens a window when none is running, and the one that
\* reaches the limit locks the address, again and again while it stays there.
Failed(entry, now) ==
    LET opens == entry.firstFail = 0 \/ WindowOver(entry, now)
        count == IF opens THEN 1 ELSE entry.failures + 1
    IN  [failures   |-> count,
         firstFail  |-> IF opens THEN now ELSE entry.firstFail,
         lockedTill |-> IF count >= MaxFailures THEN now + Lockout
                                                ELSE entry.lockedTill]

\* Entries whose window and lock are both long past.
Stale(entries, now) ==
    {ip \in DOMAIN entries :
        /\ entries[ip].lockedTill < now - Lockout \/ entries[ip].lockedTill = 0
        /\ entries[ip].firstFail < now - Window \/ entries[ip].firstFail = 0}

AfterFailure(entries, ip, now) ==
    LET counted ==
            [x \in DOMAIN entries \cup {ip} |->
                IF x = ip THEN Failed(Known(entries, ip), now) ELSE entries[x]]
    IN  Without(counted, Stale(counted, now))

AfterSuccess(entries, ip) == Without(entries, {ip})

=============================================================================
