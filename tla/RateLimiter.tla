----------------------------- MODULE RateLimiter -----------------------------
(***************************************************************************)
(* The login rate limiter of MessageRouter: the entry of login_attempts_    *)
(* for one client address, used by the LOGIN handlers of several workers.   *)
(* Entries of different addresses never meet, so one stands for all.  Time  *)
(* is a steady clock in minutes; it starts above 0, the epoch to which a    *)
(* fresh entry's blocked_until is default-constructed.                      *)
(***************************************************************************)
EXTENDS Naturals, FiniteSets

CONSTANTS
    Worker,        \* threads that may run handle_login at the same time
    MaxAttempts,   \* MAX_LOGIN_ATTEMPTS (5 in the code)
    Window,        \* failures older than this start a new count (1 minute)
    BlockTime,     \* BLOCK_DURATION_SEC (5 minutes)
    MaxTime        \* bound: the clock stops here

ASSUME LimiterAssumption ==
    /\ IsFiniteSet(Worker)
    /\ MaxAttempts \in Nat \ {0}
    /\ Window \in Nat
    /\ BlockTime \in Nat
    /\ MaxTime \in Nat

VARIABLES
    now,            \* steady_clock::now()
    present,        \* the address has an entry in login_attempts_
    count,          \* LoginAttempt::count, 0 when there is no entry
    first,          \* LoginAttempt::first_attempt, 0 when not set
    blockedUntil,   \* LoginAttempt::blocked_until, 0 when not set
    wpc,            \* wpc[w]: "idle", or "checked": w passed the limiter
    peak            \* history: the most attempts ever under way together

vars == <<now, present, count, first, blockedUntil, wpc, peak>>
entry == <<present, count, first, blockedUntil>>

TypeOK ==
    /\ now \in Nat \ {0}
    /\ present \in BOOLEAN
    /\ count \in Nat
    /\ present <=> count > 0
    /\ first \in Nat
    /\ blockedUntil \in Nat
    /\ wpc \in [Worker -> {"idle", "checked"}]
    /\ peak \in Nat

Init ==
    /\ now = 1
    /\ present = FALSE
    /\ count = 0
    /\ first = 0
    /\ blockedUntil = 0
    /\ wpc = [w \in Worker |-> "idle"]
    /\ peak = 0

\* The attempts under way: those that passed the limiter and are not recorded.
Checked == {w \in Worker : wpc[w] = "checked"}
UnderWay == Cardinality(Checked)

Erase ==
    /\ present' = FALSE
    /\ count' = 0
    /\ first' = 0
    /\ blockedUntil' = 0

\* Mutant of BlockOver: only a block that was set can be over.
BlockOverIfSet == blockedUntil > 0 /\ now > blockedUntil

\* The first test of is_rate_limited: a block that was never set is over too.
BlockOver == now > blockedUntil

\* Mutant of Limited: one attempt too many.
LimitedOffByOne == count > MaxAttempts

\* The last test of is_rate_limited, reached while blocked_until lies ahead.
Limited == count >= MaxAttempts

-----------------------------------------------------------------------------

Tick ==
    /\ now < MaxTime
    /\ now' = now + 1
    /\ UNCHANGED <<entry, wpc, peak>>

\* is_rate_limited, for an attempt it lets through: there is no entry, or
\* the entry's block is over and the entry goes, or the count is low.  An
\* attempt it refuses is answered RATE_LIMITED and changes nothing.
CheckPasses(w) ==
    /\ wpc[w] = "idle"
    /\ IF present /\ BlockOver
       THEN Erase
       ELSE /\ ~(present /\ Limited)
            /\ UNCHANGED entry
    /\ wpc' = [wpc EXCEPT ![w] = "checked"]
    /\ peak' = IF UnderWay + 1 > peak THEN UnderWay + 1 ELSE peak
    /\ UNCHANGED now

\* record_failed_login: the password was wrong.
RecordFailure(w) ==
    /\ wpc[w] = "checked"
    /\ LET expired == count > 0 /\ now - first > Window
           before == IF expired THEN 0 ELSE count
       IN  /\ count' = before + 1
           /\ first' = IF before = 0 THEN now ELSE first
           /\ blockedUntil' = IF before + 1 >= MaxAttempts
                              THEN now + BlockTime ELSE blockedUntil
    /\ present' = TRUE
    /\ wpc' = [wpc EXCEPT ![w] = "idle"]
    /\ UNCHANGED <<now, peak>>

\* clear_login_attempts: the password was right.
Clear(w) ==
    /\ wpc[w] = "checked"
    /\ Erase
    /\ wpc' = [wpc EXCEPT ![w] = "idle"]
    /\ UNCHANGED <<now, peak>>

\* The reservation was refused: the handler returns without a record.
Refuse(w) ==
    /\ wpc[w] = "checked"
    /\ wpc' = [wpc EXCEPT ![w] = "idle"]
    /\ UNCHANGED <<now, entry, peak>>

Next ==
    \/ Tick
    \/ \E w \in Worker :
           CheckPasses(w) \/ RecordFailure(w) \/ Clear(w) \/ Refuse(w)

Spec == Init /\ [][Next]_vars

-----------------------------------------------------------------------------
(* Properties.                                                             *)

\* What the limiter counts is failures in flight together, never failures in
\* a row: until a block is set, the count and the attempts under way never
\* exceed the attempts that once were under way together, because every check
\* of an entry that is not blocked erases it; so an address is blocked only if
\* MAX_LOGIN_ATTEMPTS of its attempts were in the handlers at the same time,
\* however often it failed before (is_rate_limited, record_failed_login).
CountsOnlyOverlap ==
    /\ blockedUntil = 0 => count + UnderWay <= peak
    /\ blockedUntil > 0 => peak >= MaxAttempts

\* With fewer workers than MAX_LOGIN_ATTEMPTS (the default is 4 workers and 5
\* attempts) no address is ever blocked.
NeverBlocks == Cardinality(Worker) < MaxAttempts => blockedUntil = 0

\* A block that is set holds until its time: only an attempt that had passed
\* the limiter before can end it early (by its success) or move it, and nobody
\* new passes (is_rate_limited), unless a late failure restarted the count.
BlockHolds ==
    [][\A w \in Worker :
         blockedUntil > now /\ count >= MaxAttempts
             => /\ wpc'[w] = "checked" => wpc[w] = "checked"
                /\ blockedUntil' < blockedUntil => count' = 0 /\ Checked' # Checked
      ]_vars
=============================================================================
