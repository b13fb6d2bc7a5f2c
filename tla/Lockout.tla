------------------------------ MODULE Lockout ------------------------------
(***************************************************************************)
(* The lock of an account after failed logins (core/ratelimit.py 96-131,   *)
(* routers/auth.py login): a counter and a lock in Redis, both with an     *)
(* expiry, read and written by login requests in single Redis calls.  Any  *)
(* call may be lost, by an outage or because the process died with it; the *)
(* code goes on as if it had not been needed.                              *)
(*                                                                         *)
(* One account, whose password some requests know and others do not.       *)
(***************************************************************************)
EXTENDS Integers

CONSTANTS
    Attempt,    \* login requests that may be in progress at a time
    Threshold,  \* FAILED_LOGIN_THRESHOLD
    Lockout,    \* LOCKOUT_SECONDS, in ticks of the clock
    MaxLost     \* bound: Redis calls that are lost

ASSUME LockoutAssumption ==
    /\ Threshold \in Nat \ {0, 1}
    /\ Lockout \in Nat \ {0}
    /\ MaxLost \in Nat

VARIABLES
    failed,     \* the counter auth:failed:email, 0 when there is none, cut at
                \* Threshold + 1: more failures make no difference
    failedTtl,  \* ticks until it expires, 0 when no expiry is set
    lockTtl,    \* ticks until auth:lock:email expires, 0 when there is none
    attempt,    \* [Attempt -> the call a request is about to make]
    lost        \* history: calls lost

lockoutVars == <<failed, failedTtl, lockTtl, attempt, lost>>

Calls == {"ttl", "verify", "incr", "expire", "set", "delete"}

LockoutTypeOK ==
    /\ failed \in 0 .. Threshold + 1
    /\ failedTtl \in 0 .. Lockout
    /\ lockTtl \in 0 .. Lockout
    /\ attempt \in [Attempt -> Calls]
    /\ lost \in 0 .. MaxLost

LockoutInit ==
    /\ failed = 0
    /\ failedTtl = 0
    /\ lockTtl = 0
    /\ attempt = [r \in Attempt |-> "ttl"]
    /\ lost = 0

CallNext(r, call) == attempt' = [attempt EXCEPT ![r] = call]

\* Faulty: being refused locks the account anew.
IsAccountLockedAnew(r) ==
    /\ attempt[r] = "ttl"
    /\ IF lockTtl > 0
       THEN lockTtl' = Lockout /\ UNCHANGED attempt
       ELSE CallNext(r, "verify") /\ UNCHANGED lockTtl
    /\ UNCHANGED <<failed, failedTtl, lost>>
\* is_account_locked: a request that meets a lock is refused.
IsAccountLocked(r) ==
    /\ attempt[r] = "ttl"
    /\ lockTtl = 0
    /\ CallNext(r, "verify")
    /\ UNCHANGED <<failed, failedTtl, lockTtl, lost>>

\* The password is compared; a blocked user is refused after it was right.
Verify(r) ==
    /\ attempt[r] = "verify"
    /\ \E next \in {"incr", "delete", "ttl"} : CallNext(r, next)
    /\ UNCHANGED <<failed, failedTtl, lockTtl, lost>>

Cut(n) == IF n > Threshold THEN Threshold + 1 ELSE n

\* What record_failed_login does after its counter is known to be n.
AfterIncr(n) == IF n = 1 THEN "expire" ELSE IF n >= Threshold THEN "set" ELSE "ttl"

\* Faulty: every failure but the first starts the window again.
IncrExpires(r) ==
    /\ attempt[r] = "incr"
    /\ failed' = Cut(failed + 1)
    /\ CallNext(r, IF failed + 1 >= Threshold THEN "set"
               ELSE IF failed > 0 THEN "expire" ELSE "ttl")
    /\ UNCHANGED <<failedTtl, lockTtl, lost>>
\* record_failed_login counts,
Incr(r) ==
    /\ attempt[r] = "incr"
    /\ failed' = Cut(failed + 1)
    /\ CallNext(r, AfterIncr(failed + 1))
    /\ UNCHANGED <<failedTtl, lockTtl, lost>>

\* gives a fresh counter its expiry, unless it is gone by now,
Expire(r) ==
    /\ attempt[r] = "expire"
    /\ failedTtl' = IF failed > 0 THEN Lockout ELSE failedTtl
    /\ CallNext(r, "ttl")
    /\ UNCHANGED <<failed, lockTtl, lost>>

\* and locks the account on threshold.
SetLock(r) ==
    /\ attempt[r] = "set"
    /\ lockTtl' = Lockout
    /\ CallNext(r, "ttl")
    /\ UNCHANGED <<failed, failedTtl, lost>>

\* reset_failed_logins
Reset(r) ==
    /\ attempt[r] = "delete"
    /\ failed' = 0
    /\ failedTtl' = 0
    /\ lockTtl' = 0
    /\ CallNext(r, "ttl")
    /\ UNCHANGED lost

\* A lost call: is_account_locked lets the request pass, the others are given
\* up, with all that would have followed.
Lose(r) ==
    /\ attempt[r] # "verify"
    /\ lost < MaxLost
    /\ lost' = lost + 1
    /\ CallNext(r, IF attempt[r] = "ttl" THEN "verify" ELSE "ttl")
    /\ UNCHANGED <<failed, failedTtl, lockTtl>>

\* Time passes.  The expiries are minutes, and requests take less than a tick
\* from the answer of Redis to their next call.
ClockTick ==
    /\ \A r \in Attempt : attempt[r] \in {"ttl", "verify"}
    /\ failedTtl + lockTtl > 0
    /\ failedTtl' = IF failedTtl = 0 THEN 0 ELSE failedTtl - 1
    /\ failed' = IF failedTtl = 1 THEN 0 ELSE failed
    /\ lockTtl' = IF lockTtl = 0 THEN 0 ELSE lockTtl - 1
    /\ UNCHANGED <<attempt, lost>>

AttemptStep(r) ==
    Verify(r) \/ Incr(r) \/ Expire(r) \/ SetLock(r) \/ Reset(r)

LockoutNext ==
    \/ \E r \in Attempt : IsAccountLocked(r) \/ AttemptStep(r) \/ Lose(r)
    \/ ClockTick

\* The clock runs, and a login that has begun goes on.
LockoutFairness ==
    /\ WF_lockoutVars(ClockTick)
    /\ \A r \in Attempt : WF_lockoutVars(AttemptStep(r))

LockoutSpec == LockoutInit /\ [][LockoutNext]_lockoutVars /\ LockoutFairness

-----------------------------------------------------------------------------
\* While no call was lost, failures are counted for a limited time and with an
\* effect: a counter is given its expiry by the request that made it, whatever
\* a success deletes meanwhile, and an account that can be tried, whose lock may
\* have just ended, has fewer failures to its name than lock it.
FailuresCount ==
    lost = 0 =>
        /\ failed > 0 /\ failedTtl = 0 => \E r \in Attempt : attempt[r] = "expire"
        /\ failed >= Threshold /\ lockTtl = 0 => \E r \in Attempt : attempt[r] = "set"

\* The owner is not shut out for good: however many wrong passwords are tried,
\* and whichever calls were lost, the account can be tried again and again.
LockEnds == []<>(lockTtl = 0)
=============================================================================
