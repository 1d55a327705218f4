---------------------------- MODULE RateLimiter ----------------------------
(***************************************************************************)
(* mcp/security.py: the sliding window that admits or refuses a tool call  *)
(* of the MCP server.  allow reads the clock before it takes the lock, so  *)
(* the stamps enter the deque out of order, by at most the time a thread   *)
(* may spend between the two: Delay.                                       *)
(*                                                                         *)
(* Time is counted in ticks of 0.1 s, the least wait a refusal announces.  *)
(***************************************************************************)
EXTENDS Naturals, Sequences

CONSTANTS
  Callers,   \* threads that serve tool calls
  Limits,    \* values of K8S_MCP_RATE_LIMIT_MAX_CALLS
  Window,    \* K8S_MCP_RATE_LIMIT_WINDOW_S
  Delay,     \* most ticks between a thread's reading of the clock and its lock
  MaxClock   \* bound on time

ASSUME LimiterAssumption ==
  /\ Limits \subseteq Nat
  /\ Window \in Nat \ {0} /\ Delay \in Nat /\ MaxClock \in Nat

VARIABLES
  clock,     \* time.monotonic()
  limit,     \* max_calls
  calls,     \* the deque _calls
  waiting,   \* callers between their reading of the clock and the lock
  now,       \* what a caller read
  outcome,   \* what a caller's last check came to
  admitted   \* history: the stamps of the admitted calls, as they took the lock

vars == <<clock, limit, calls, waiting, now, outcome, admitted>>

NoOutcome == [answer |-> "none", at |-> 0, retry |-> 0, taken |-> 0]

Init ==
  /\ clock = 0
  /\ limit \in Limits
  /\ calls = << >> /\ admitted = << >>
  /\ waiting = {}
  /\ now = [c \in Callers |-> 0]
  /\ outcome = [c \in Callers |-> NoOutcome]

-----------------------------------------------------------------------------
(* Time.                                                                   *)

Tick ==
  /\ clock < MaxClock
  /\ \A c \in waiting : clock < now[c] + Delay
  /\ clock' = clock + 1
  /\ UNCHANGED <<limit, calls, waiting, now, outcome, admitted>>

ReadClock(c) ==
  /\ c \notin waiting
  /\ waiting' = waiting \cup {c}
  /\ now' = [now EXCEPT ![c] = clock]
  /\ UNCHANGED <<clock, limit, calls, outcome, admitted>>

-----------------------------------------------------------------------------
(* Under the lock.                                                         *)

\* Defect: a call leaves the window on its last tick.
Expired_Early(t, stamp) == t >= stamp + Window

Expired(t, stamp) == t > stamp + Window

\* Defect: the deque is never emptied.
Pops_ButOne(t, k) ==
  /\ k \in 0 .. Len(calls)
  /\ \A i \in 1 .. k : Expired(t, calls[i])
  /\ k + 1 < Len(calls) => ~ Expired(t, calls[k + 1])
  /\ calls # << >> => k < Len(calls)

\* Only the head is looked at: k calls are popped at time t.
Pops(t, k) ==
  /\ k \in 0 .. Len(calls)
  /\ \A i \in 1 .. k : Expired(t, calls[i])
  /\ k < Len(calls) => ~ Expired(t, calls[k + 1])

Left(k) == SubSeq(calls, k + 1, Len(calls))

\* Defect: the time the oldest call has been there, not what is left of it.
RetryAfter_Elapsed(t, oldest) == IF t > oldest THEN t - oldest ELSE 1

\* max(retry_after, 0.1)
RetryAfter(t, oldest) ==
  LET rest == (Window + oldest) - t IN IF rest > 1 THEN rest ELSE 1

Answer(c, answer, retry) ==
  /\ waiting' = waiting \ {c}
  /\ outcome' = [outcome EXCEPT ![c] =
       [answer |-> answer, at |-> now[c], retry |-> retry, taken |-> Len(admitted)]]
  /\ UNCHANGED <<clock, limit, now>>

Admit(c) ==
  /\ c \in waiting
  /\ \E k \in 0 .. Len(calls) :
       /\ Pops(now[c], k) /\ Len(calls) - k < limit
       /\ calls' = Append(Left(k), now[c])
  /\ admitted' = Append(admitted, now[c])
  /\ Answer(c, "admitted", 0)

Refuse(c) ==
  /\ c \in waiting
  /\ \E k \in 0 .. Len(calls) :
       /\ Pops(now[c], k) /\ k < Len(calls) /\ Len(calls) - k >= limit
       /\ calls' = Left(k)
       /\ Answer(c, "refused", RetryAfter(now[c], calls[k + 1]))
  /\ UNCHANGED admitted

\* With a limit of 0 the oldest of no calls is asked for: an IndexError, which
\* guarded answers like any other error.
Raise(c) ==
  /\ c \in waiting
  /\ Pops(now[c], Len(calls)) /\ limit = 0
  /\ calls' = << >>
  /\ Answer(c, "raised", 0)
  /\ UNCHANGED admitted

Allow(c) == Admit(c) \/ Refuse(c) \/ Raise(c)

Next == Tick \/ \E c \in Callers : ReadClock(c) \/ Allow(c)

Spec == Init /\ [][Next]_vars

-----------------------------------------------------------------------------
(* Properties.                                                             *)

TypeOK ==
  /\ clock \in Nat /\ limit \in Limits
  /\ calls \in Seq(Nat) /\ admitted \in Seq(Nat)
  /\ waiting \subseteq Callers
  /\ now \in [Callers -> Nat]
  /\ outcome \in [Callers ->
       [answer : {"none", "admitted", "raised"}, at : Nat, retry : {0}, taken : Nat]
       \cup [answer : {"refused"}, at : Nat, retry : Nat \ {0}, taken : Nat]]

\* A call that took the lock limit places later is stamped more than a window,
\* less the delay, later: no window that much shorter has more calls than the
\* limit, although a thread with a late clock empties the deque under one with
\* an early clock, which then finds room.
LimitHolds ==
  \A i, j \in DOMAIN admitted :
    j >= i + limit => admitted[j] + Delay > admitted[i] + Window

\* A refused call follows a full limit of admitted calls, none of them older
\* than the window by more than the delay, although an expired call behind a
\* younger head is not popped; and it is told to wait no longer than that.
RefusalsEarned ==
  \A c \in Callers : outcome[c].answer = "refused" =>
    LET taken == outcome[c].taken IN
    /\ taken >= limit /\ taken <= Len(admitted)
    /\ \A i \in 1 .. taken :
         i + limit > taken => admitted[i] + Window + Delay >= outcome[c].at
    /\ outcome[c].retry <= Window + Delay

\* c is not refused twice for the same calls.
WaitSuffices(c) ==
  /\ Refuse(c)
  /\ outcome[c].answer = "refused"
  /\ now[c] > outcome[c].at + outcome[c].retry
  => Len(admitted) > outcome[c].taken

\* Who waited as told, and a tick more, is refused again only if another call
\* was admitted meanwhile.  (A call leaves the window after its last tick, and
\* the wait is rounded, so that to return exactly in time may be too early.)
RetryHonest == [][\A c \in Callers : WaitSuffices(c)]_vars
=============================================================================
