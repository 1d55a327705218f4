------------------------- MODULE RateLimiterProofs -------------------------
(***************************************************************************)
(* Proofs about RateLimiter, for any number of threads, any limit, window  *)
(* and delay.                                                              *)
(*                                                                         *)
(* The argument relates the deque to the history: it is the history's      *)
(* tail, and what came before the tail has expired by the clock.           *)
(***************************************************************************)
EXTENDS RateLimiter, SequenceTheorems, TLAPS

\* The deque holds the last admitted calls, never more than the limit.
DequeIsTail ==
  /\ Len(calls) <= limit /\ Len(calls) <= Len(admitted)
  /\ \A i \in 1 .. Len(calls) :
       calls[i] = admitted[Len(admitted) - Len(calls) + i]

\* Nobody has read the future, nor waits for longer than the delay.
Clocked ==
  /\ \A c \in Callers : now[c] <= clock
  /\ \A c \in waiting : clock <= now[c] + Delay
  /\ \A i \in 1 .. Len(admitted) : admitted[i] <= clock

Gone ==
  \A i \in 1 .. Len(admitted) :
    i + Len(calls) <= Len(admitted) => Expired(clock, admitted[i])

\* A stamp is behind an earlier one by the delay at most.
NearlyOrdered ==
  \A i, j \in 1 .. Len(admitted) : i <= j => admitted[i] <= admitted[j] + Delay

Spaced ==
  \A i, j \in 1 .. Len(admitted) :
    j >= i + limit => Expired(admitted[j] + Delay, admitted[i])

Earned(c) ==
  outcome[c].answer = "refused" =>
    /\ outcome[c].taken >= limit /\ outcome[c].taken <= Len(admitted)
    /\ \A i \in 1 .. Len(admitted) :
         /\ i <= outcome[c].taken
         /\ i + limit > outcome[c].taken
         => admitted[i] + Window + Delay >= outcome[c].at
    /\ outcome[c].retry <= Window + Delay

\* As long as no other call is admitted, the announced wait lasts until the
\* oldest call has reached its last tick.
Told(c) ==
  /\ outcome[c].answer = "refused" /\ outcome[c].taken = Len(admitted)
  /\ limit > 0 /\ Len(calls) = limit
  => outcome[c].at + outcome[c].retry >= calls[1] + Window

IInv ==
  /\ TypeOK /\ DequeIsTail /\ Clocked /\ Gone /\ NearlyOrdered /\ Spaced
  /\ \A c \in Callers : Earned(c) /\ Told(c)

LEMMA InvInit == Init => IInv
<1> SUFFICES ASSUME Init PROVE IInv
  OBVIOUS
<1> USE LimiterAssumption DEF Init
<1>1. TypeOK
  BY DEF TypeOK, NoOutcome
<1>2. DequeIsTail /\ Clocked /\ Gone /\ NearlyOrdered /\ Spaced
  BY DEF DequeIsTail, Clocked, Gone, NearlyOrdered, Spaced
<1>3. \A c \in Callers : Earned(c) /\ Told(c)
  BY DEF Earned, Told, NoOutcome
<1>4. QED
  BY <1>1, <1>2, <1>3 DEF IInv

-----------------------------------------------------------------------------
(* The deque after the pops of one call.                                   *)

\* What is left is still the tail of the history, its head has not expired at
\* t, and what was popped has.
LEMMA LeftIsTail ==
  ASSUME IInv, NEW t \in Nat, t <= clock, NEW k \in 0 .. Len(calls), Pops(t, k)
  PROVE  /\ Left(k) \in Seq(Nat) /\ Len(Left(k)) = Len(calls) - k
         /\ \A i \in 1 .. Len(Left(k)) :
              /\ Left(k)[i] = calls[k + i]
              /\ Left(k)[i] = admitted[Len(admitted) - Len(Left(k)) + i]
         /\ k < Len(calls) => t <= calls[k + 1] + Window
         /\ \A i \in 1 .. Len(admitted) :
              i + Len(Left(k)) <= Len(admitted) =>
                Expired(clock, admitted[i]) \/ Expired(t, admitted[i])
<1>t. calls \in Seq(Nat) /\ admitted \in Seq(Nat) /\ clock \in Nat
  BY DEF IInv, TypeOK
<1>1. /\ Left(k) \in Seq(Nat) /\ Len(Left(k)) = Len(calls) - k
      /\ \A i \in 1 .. Len(Left(k)) : Left(k)[i] = calls[k + i]
  <2>1. /\ \A i \in k + 1 .. Len(calls) : calls[i] \in Nat
        /\ k + 1 \in Int /\ Len(calls) \in Int
    BY <1>t
  <2>2. /\ Left(k) \in Seq(Nat)
        /\ Len(Left(k)) = IF k + 1 <= Len(calls) THEN Len(calls) - (k + 1) + 1 ELSE 0
        /\ \A i \in 1 .. Len(calls) - (k + 1) + 1 : Left(k)[i] = calls[(k + 1) + i - 1]
    BY <2>1, SubSeqProperties DEF Left
  <2>3. QED
    BY <1>t, <2>2
<1>2. \A i \in 1 .. Len(Left(k)) :
        Left(k)[i] = admitted[Len(admitted) - Len(Left(k)) + i]
  BY <1>t, <1>1 DEF IInv, DequeIsTail
<1>3. k < Len(calls) => t <= calls[k + 1] + Window
  BY <1>t, LimiterAssumption DEF Pops, Expired
<1>4. ASSUME NEW i \in 1 .. Len(admitted), i + Len(Left(k)) <= Len(admitted)
      PROVE  Expired(clock, admitted[i]) \/ Expired(t, admitted[i])
  <2>1. CASE i + Len(calls) <= Len(admitted)
    BY <2>1 DEF IInv, Gone
  <2>2. CASE i + Len(calls) > Len(admitted)
    <3> DEFINE p == i + Len(calls) - Len(admitted)
    <3>1. p \in 1 .. k /\ p \in 1 .. Len(calls) /\ Len(admitted) - Len(calls) + p = i
      BY <1>t, <1>1, <1>4, <2>2 DEF IInv, DequeIsTail
    <3>2. calls[p] = admitted[i]
      BY <3>1 DEF IInv, DequeIsTail
    <3>3. QED
      BY <3>1, <3>2 DEF Pops
  <2>3. QED
    BY <1>t, <1>1, <2>1, <2>2
<1>5. QED
  BY <1>1, <1>2, <1>3, <1>4

-----------------------------------------------------------------------------
(* The steps.                                                              *)

LEMMA TypeStep == IInv /\ [Next]_vars => TypeOK'
<1> SUFFICES ASSUME IInv, [Next]_vars PROVE TypeOK'
  OBVIOUS
<1>t. TypeOK /\ Clocked
  BY DEF IInv
<1> USE LimiterAssumption DEF TypeOK
<1>1. CASE Tick
  BY <1>t, <1>1 DEF Tick
<1>2. ASSUME NEW c \in Callers, ReadClock(c) PROVE TypeOK'
  BY <1>t, <1>2 DEF ReadClock
<1>3. ASSUME NEW c \in Callers, Admit(c) PROVE TypeOK'
  <2>1. PICK k \in 0 .. Len(calls) :
          Pops(now[c], k) /\ calls' = Append(Left(k), now[c])
    BY <1>3 DEF Admit
  <2>2. Left(k) \in Seq(Nat)
    BY <1>t, <2>1, LeftIsTail DEF Clocked
  <2>3. calls' \in Seq(Nat) /\ admitted' \in Seq(Nat)
    BY <1>t, <1>3, <2>1, <2>2 DEF Admit
  <2>4. QED
    BY <1>t, <1>3, <2>3 DEF Admit, Answer
<1>4. ASSUME NEW c \in Callers, Refuse(c) PROVE TypeOK'
  <2>1. PICK k \in 0 .. Len(calls) :
          /\ Pops(now[c], k) /\ calls' = Left(k) /\ k < Len(calls)
          /\ Answer(c, "refused", RetryAfter(now[c], calls[k + 1]))
    BY <1>4 DEF Refuse
  <2>2. Left(k) \in Seq(Nat)
    BY <1>t, <2>1, LeftIsTail DEF Clocked
  <2>3. now[c] <= calls[k + 1] + Window
    BY <1>t, <2>1 DEF Pops, Expired
  <2>4. RetryAfter(now[c], calls[k + 1]) \in Nat \ {0}
    BY <1>t, <2>1, <2>3 DEF RetryAfter
  <2>5. QED
    BY <1>t, <1>4, <2>1, <2>2, <2>4 DEF Refuse, Answer
<1>5. ASSUME NEW c \in Callers, Raise(c) PROVE TypeOK'
  BY <1>t, <1>5 DEF Raise, Answer
<1>6. CASE UNCHANGED vars
  BY <1>t, <1>6 DEF vars
<1>7. QED
  BY <1>1, <1>2, <1>3, <1>4, <1>5, <1>6 DEF Next, Allow

LEMMA AdmitStep ==
  ASSUME IInv, TypeOK', NEW c \in Callers, Admit(c)
  PROVE  IInv'
<1>t. TypeOK /\ DequeIsTail /\ Clocked /\ Gone /\ NearlyOrdered /\ Spaced
  BY DEF IInv
<1>w. Window \in Nat /\ Window > 0 /\ Delay \in Nat /\ limit \in Nat
  BY LimiterAssumption DEF IInv, TypeOK
<1>1. PICK k \in 0 .. Len(calls) :
        /\ Pops(now[c], k) /\ Len(calls) - k < limit
        /\ calls' = Append(Left(k), now[c])
  BY DEF Admit
<1>2. /\ admitted' = Append(admitted, now[c])
      /\ UNCHANGED <<clock, limit, now>> /\ waiting' = waiting \ {c}
      /\ c \in waiting
  BY DEF Admit, Answer
<1>3. /\ now[c] \in Nat /\ clock \in Nat
      /\ now[c] <= clock /\ clock <= now[c] + Delay
  BY <1>t, <1>2 DEF TypeOK, Clocked
<1>4. /\ Left(k) \in Seq(Nat) /\ Len(Left(k)) = Len(calls) - k
      /\ \A i \in 1 .. Len(Left(k)) :
            Left(k)[i] = admitted[Len(admitted) - Len(Left(k)) + i]
      /\ \A i \in 1 .. Len(admitted) :
            i + Len(Left(k)) <= Len(admitted) =>
              Expired(clock, admitted[i]) \/ Expired(now[c], admitted[i])
  BY <1>1, <1>3, LeftIsTail
<1>l. /\ Len(admitted) \in Nat /\ Len(Left(k)) \in Nat /\ Len(Left(k)) < limit
      /\ Len(Left(k)) <= Len(admitted)
      /\ Len(admitted') = Len(admitted) + 1 /\ Len(calls') = Len(Left(k)) + 1
  <2>1. /\ calls \in Seq(Nat) /\ admitted \in Seq(Nat)
        /\ Len(calls) <= limit /\ Len(calls) <= Len(admitted)
    BY <1>t DEF TypeOK, DequeIsTail
  <2>2. Len(admitted') = Len(admitted) + 1
    BY <1>2, <1>3, <2>1
  <2>3. Len(calls') = Len(Left(k)) + 1
    <3>1. Left(k) \in Seq(Nat)
      BY <1>4
    <3>2. QED
      BY <1>1, <1>3, <3>1
  <2>4. QED
    BY <1>w, <1>1, <1>4, <2>1, <2>2, <2>3
<1>5. /\ \A i \in 1 .. Len(admitted) : admitted[i] \in Nat
      /\ admitted'[Len(admitted) + 1] = now[c]
      /\ \A i \in 1 .. Len(admitted) : admitted'[i] = admitted[i]
      /\ calls'[Len(calls')] = now[c]
      /\ \A i \in 1 .. Len(Left(k)) : calls'[i] = Left(k)[i]
  <2>1. admitted \in Seq(Nat)
    BY <1>t DEF TypeOK
  <2>2. /\ \A i \in 1 .. Len(admitted) : admitted[i] \in Nat
        /\ admitted'[Len(admitted) + 1] = now[c]
        /\ \A i \in 1 .. Len(admitted) : admitted'[i] = admitted[i]
    BY <1>2, <1>3, <2>1
  <2>3. /\ calls'[Len(Left(k)) + 1] = now[c]
        /\ \A i \in 1 .. Len(Left(k)) : calls'[i] = Left(k)[i]
    BY <1>1, <1>3, <1>4
  <2>4. QED
    BY <1>l, <2>2, <2>3
<1>6. DequeIsTail'
  <2>1. ASSUME NEW i \in 1 .. Len(calls')
        PROVE  calls'[i] = admitted'[Len(admitted') - Len(calls') + i]
    <3>1. CASE i <= Len(Left(k))
      <4> DEFINE p == Len(admitted) - Len(Left(k)) + i
      <4>1. /\ p \in 1 .. Len(admitted) /\ i \in 1 .. Len(Left(k))
            /\ p = Len(admitted') - Len(calls') + i
        BY <1>l, <3>1
      <4>2. QED
        BY <1>4, <1>5, <4>1
    <3>2. CASE i = Len(calls')
      <4>1. Len(admitted') - Len(calls') + i = Len(admitted) + 1
        BY <1>l, <3>2
      <4>2. QED
        BY <1>5, <3>2, <4>1
    <3>3. QED
      BY <1>l, <3>1, <3>2
  <2>2. Len(calls') <= limit' /\ Len(calls') <= Len(admitted')
    BY <1>w, <1>l, <1>2
  <2>3. QED
    BY <2>1, <2>2 DEF DequeIsTail
<1>7. Clocked'
  BY <1>w, <1>l, <1>t, <1>2, <1>3, <1>5 DEF Clocked
<1>8. Gone'
  <2> SUFFICES ASSUME NEW i \in 1 .. Len(admitted'), i + Len(calls') <= Len(admitted')
               PROVE  Expired(clock, admitted'[i])
    BY <1>2 DEF Gone, Expired
  <2>1. i \in 1 .. Len(admitted) /\ i + Len(Left(k)) <= Len(admitted)
    BY <1>l
  <2>2. Expired(clock, admitted[i]) \/ Expired(now[c], admitted[i])
    BY <1>4, <2>1
  <2>3. Expired(clock, admitted[i])
    BY <1>w, <1>3, <1>5, <2>1, <2>2 DEF Expired
  <2>4. QED
    BY <1>5, <2>1, <2>3
<1>9. NearlyOrdered'
  BY <1>w, <1>l, <1>t, <1>2, <1>3, <1>5 DEF NearlyOrdered, Clocked
<1>10. Spaced'
  <2> SUFFICES ASSUME NEW i \in 1 .. Len(admitted'), NEW j \in 1 .. Len(admitted'),
                      j >= i + limit
               PROVE  Expired(admitted'[j] + Delay, admitted'[i])
    BY <1>2 DEF Spaced
  <2>1. CASE j <= Len(admitted)
    <3>1. i \in 1 .. Len(admitted) /\ j \in 1 .. Len(admitted)
      BY <1>w, <1>l, <2>1
    <3>2. Expired(admitted[j] + Delay, admitted[i])
      BY <1>t, <3>1 DEF Spaced
    <3>3. QED
      BY <1>5, <3>1, <3>2
  <2>2. CASE j = Len(admitted) + 1
    <3>1. i \in 1 .. Len(admitted) /\ i + Len(Left(k)) <= Len(admitted)
      BY <1>w, <1>l, <2>2
    <3>2. Expired(clock, admitted[i]) \/ Expired(now[c], admitted[i])
      BY <1>4, <3>1
    <3>3. admitted[i] \in Nat
      BY <1>5, <3>1
    <3>4. Expired(now[c] + Delay, admitted[i])
      BY <1>w, <1>3, <3>2, <3>3 DEF Expired
    <3>5. QED
      BY <1>5, <2>2, <3>1, <3>4
  <2>3. QED
    BY <1>l, <2>1, <2>2
<1>11. ASSUME NEW x \in Callers PROVE (Earned(x) /\ Told(x))'
  <2>1. outcome'[x].answer = "refused" => x # c /\ outcome'[x] = outcome[x]
    BY <1>t DEF Admit, Answer, TypeOK
  <2>2. CASE outcome[x].answer = "refused" /\ outcome'[x] = outcome[x]
    <3>1. outcome[x].taken \in Nat /\ outcome[x].taken <= Len(admitted)
      BY <1>t, <2>2 DEF IInv, Earned, TypeOK
    <3>2. Told(x)'
      BY <1>l, <2>2, <3>1 DEF Told
    <3>3. Earned(x)'
      BY <1>l, <1>2, <1>5, <2>2, <3>1 DEF IInv, Earned
    <3>4. QED
      BY <3>2, <3>3
  <2>3. CASE outcome'[x].answer # "refused"
    BY <2>3 DEF Earned, Told
  <2>4. QED
    BY <2>1, <2>2, <2>3
<1>12. QED
  BY <1>6, <1>7, <1>8, <1>9, <1>10, <1>11 DEF IInv

LEMMA RetryAfterRange ==
  ASSUME NEW t \in Nat, NEW oldest \in Nat,
         t <= oldest + Window, oldest <= t + Delay
  PROVE  /\ RetryAfter(t, oldest) \in Nat
         /\ RetryAfter(t, oldest) <= Window + Delay
         /\ t + RetryAfter(t, oldest) >= oldest + Window
BY LimiterAssumption DEF RetryAfter

LEMMA RefuseStep ==
  ASSUME IInv, TypeOK', NEW c \in Callers, Refuse(c)
  PROVE  IInv'
<1>t. TypeOK /\ DequeIsTail /\ Clocked /\ Gone /\ NearlyOrdered /\ Spaced
  BY DEF IInv
<1>w. Window \in Nat /\ Window > 0 /\ Delay \in Nat /\ limit \in Nat
  BY LimiterAssumption DEF IInv, TypeOK
<1>1. PICK k \in 0 .. Len(calls) :
        /\ Pops(now[c], k) /\ k < Len(calls) /\ Len(calls) - k >= limit
        /\ calls' = Left(k)
        /\ Answer(c, "refused", RetryAfter(now[c], calls[k + 1]))
  BY DEF Refuse
<1>2. /\ UNCHANGED <<admitted, clock, limit, now>> /\ waiting' = waiting \ {c}
      /\ c \in waiting
      /\ \A x \in Callers \ {c} : outcome'[x] = outcome[x]
      /\ outcome'[c] = [answer |-> "refused", at |-> now[c], taken |-> Len(admitted),
                        retry |-> RetryAfter(now[c], calls[k + 1])]
  BY <1>t, <1>1 DEF Refuse, Answer, TypeOK
<1>3. /\ now[c] \in Nat /\ clock \in Nat
      /\ now[c] <= clock /\ clock <= now[c] + Delay
  BY <1>t, <1>2 DEF TypeOK, Clocked
<1>4. /\ Left(k) \in Seq(Nat) /\ Len(Left(k)) = Len(calls) - k
      /\ \A i \in 1 .. Len(Left(k)) :
           /\ Left(k)[i] = calls[k + i]
           /\ Left(k)[i] = admitted[Len(admitted) - Len(Left(k)) + i]
      /\ now[c] <= calls[k + 1] + Window
      /\ \A i \in 1 .. Len(admitted) :
            i + Len(Left(k)) <= Len(admitted) =>
              Expired(clock, admitted[i]) \/ Expired(now[c], admitted[i])
  BY <1>1, <1>3, LeftIsTail
<1>5. /\ admitted \in Seq(Nat) /\ calls \in Seq(Nat) /\ clock \in Nat
      /\ k = 0 /\ Len(Left(k)) = limit /\ Len(calls) = limit /\ limit > 0
  BY <1>w, <1>t, <1>1, <1>4 DEF TypeOK, DequeIsTail
<1>6. DequeIsTail'
  BY <1>w, <1>t, <1>1, <1>2, <1>4, <1>5 DEF DequeIsTail
<1>7. Clocked'
  BY <1>t, <1>2 DEF Clocked
<1>8. Gone'
  <2>1. Len(calls') = Len(calls)
    BY <1>1, <1>5
  <2>2. QED
    BY <1>t, <1>2, <2>1 DEF Gone, Expired
<1>9. NearlyOrdered' /\ Spaced'
  BY <1>t, <1>2 DEF NearlyOrdered, Spaced
<1>10. Earned(c)' /\ Told(c)'
  <2> DEFINE oldest == calls[k + 1]
             first  == Len(admitted) - limit + 1
  <2>1. /\ first \in 1 .. Len(admitted) /\ oldest = admitted[first]
        /\ oldest \in Nat /\ oldest <= clock /\ now[c] <= oldest + Window
    BY <1>t, <1>4, <1>5 DEF DequeIsTail, Clocked
  <2>2. \A i \in first .. Len(admitted) : admitted[i] + Window + Delay >= now[c]
    <3> SUFFICES ASSUME NEW i \in first .. Len(admitted)
                 PROVE  admitted[i] + Window + Delay >= now[c]
      OBVIOUS
    <3>1. i \in 1 .. Len(admitted) /\ first <= i
      BY <1>w, <1>5, <2>1
    <3>2. admitted[first] <= admitted[i] + Delay
      BY <1>t, <2>1, <3>1 DEF NearlyOrdered
    <3>3. admitted[i] \in Nat
      BY <1>5, <3>1
    <3> HIDE DEF oldest, first
    <3>4. QED
      BY <1>w, <1>3, <2>1, <3>2, <3>3
  <2>3. /\ RetryAfter(now[c], oldest) <= Window + Delay
        /\ now[c] + RetryAfter(now[c], oldest) >= oldest + Window
        /\ RetryAfter(now[c], oldest) \in Nat
    <3>1. oldest <= now[c] + Delay
      <4> HIDE DEF oldest, first
      <4>1. QED
        BY <1>w, <1>3, <2>1
    <3> HIDE DEF oldest, first
    <3>2. QED
      BY <1>3, <2>1, <3>1, RetryAfterRange
  <2>4. Earned(c)'
    <3>1. /\ Len(admitted) >= limit /\ Len(admitted) \in Nat
          /\ \A i \in 1 .. Len(admitted) : i + limit > Len(admitted) => i \in first .. Len(admitted)
      BY <1>w, <1>5, <2>1
    <3>2. /\ outcome'[c].answer = "refused" /\ outcome'[c].at = now[c]
          /\ outcome'[c].taken = Len(admitted)
          /\ outcome'[c].retry = RetryAfter(now[c], oldest)
      BY <1>2 DEF oldest
    <3> HIDE DEF oldest, first
    <3>3. QED
      BY <1>2, <2>2, <2>3, <3>1, <3>2 DEF Earned
  <2>5. calls'[1] = oldest
    BY <1>1, <1>4, <1>5 DEF oldest
  <2>6. Told(c)'
    BY <1>2, <2>3, <2>5 DEF Told, oldest
  <2>7. QED
    BY <2>4, <2>6
<1>11. ASSUME NEW x \in Callers \ {c} PROVE (Earned(x) /\ Told(x))'
  <2>1. Earned(x) /\ Told(x)
    BY DEF IInv
  <2>2. Len(calls') = Len(calls) /\ calls'[1] = calls[1]
    BY <1>1, <1>4, <1>5
  <2>3. QED
    BY <1>2, <2>1, <2>2 DEF Earned, Told
<1>12. QED
  BY <1>6, <1>7, <1>8, <1>9, <1>10, <1>11 DEF IInv

LEMMA RaiseStep ==
  ASSUME IInv, TypeOK', NEW c \in Callers, Raise(c)
  PROVE  IInv'
<1>t. TypeOK /\ DequeIsTail /\ Clocked /\ Gone /\ NearlyOrdered /\ Spaced
  BY DEF IInv
<1>1. /\ limit = 0 /\ Len(calls) = 0 /\ calls' = << >>
      /\ UNCHANGED <<admitted, clock, limit, now>> /\ waiting' = waiting \ {c}
      /\ outcome'[c].answer = "raised"
      /\ \A x \in Callers \ {c} : outcome'[x] = outcome[x]
  BY <1>t DEF Raise, Answer, TypeOK, DequeIsTail
<1>2. DequeIsTail' /\ Clocked' /\ Gone' /\ NearlyOrdered' /\ Spaced'
  BY <1>t, <1>1 DEF TypeOK, DequeIsTail, Clocked, Gone, NearlyOrdered, Spaced
<1>3. ASSUME NEW x \in Callers PROVE (Earned(x) /\ Told(x))'
  <2>1. Earned(x) /\ Told(x)
    BY DEF IInv
  <2>2. QED
    BY <1>1, <2>1 DEF Earned, Told
<1>4. QED
  BY <1>2, <1>3 DEF IInv

LEMMA InvStep == IInv /\ [Next]_vars => IInv'
<1> SUFFICES ASSUME IInv, [Next]_vars PROVE IInv'
  OBVIOUS
<1>t. TypeOK' /\ TypeOK /\ Clocked
  BY TypeStep DEF IInv
<1>1. CASE Tick
  <2>1. clock' = clock + 1 /\ UNCHANGED <<limit, calls, waiting, now, outcome, admitted>>
    BY <1>1 DEF Tick
  <2>2. Clocked'
    BY <1>t, <1>1, <2>1, LimiterAssumption DEF Clocked, Tick, TypeOK
  <2>3. Gone'
    <3> SUFFICES ASSUME NEW i \in 1 .. Len(admitted), i + Len(calls) <= Len(admitted)
                 PROVE  Expired(clock + 1, admitted[i])
      BY <2>1 DEF Gone, Expired
    <3>1. Expired(clock, admitted[i])
      BY DEF IInv, Gone
    <3>2. admitted[i] \in Nat /\ clock \in Nat
      BY <1>t DEF TypeOK
    <3>3. QED
      BY <3>1, <3>2, LimiterAssumption DEF Expired
  <2>4. QED
    BY <1>t, <2>1, <2>2, <2>3
    DEF IInv, DequeIsTail, NearlyOrdered, Spaced, Earned, Told
<1>2. ASSUME NEW c \in Callers, ReadClock(c) PROVE IInv'
  <2>1. Clocked'
    BY <1>t, <1>2, LimiterAssumption DEF Clocked, ReadClock, TypeOK
  <2>2. QED
    BY <1>t, <1>2, <2>1
    DEF ReadClock, IInv, DequeIsTail, Gone, NearlyOrdered, Spaced, Earned, Told, Expired
<1>3. ASSUME NEW c \in Callers, Allow(c) PROVE IInv'
  BY <1>t, <1>3, AdmitStep, RefuseStep, RaiseStep DEF Allow
<1>4. CASE UNCHANGED vars
  BY <1>t, <1>4
  DEF vars, IInv, DequeIsTail, Clocked, Gone, NearlyOrdered, Spaced, Earned, Told, Expired
<1>5. QED
  BY <1>1, <1>2, <1>3, <1>4 DEF Next

-----------------------------------------------------------------------------
(* The properties.                                                         *)

\* Every variable keeps its type; a refusal announces a wait of a tick at least.
THEOREM LimiterTypes == Spec => []TypeOK
<1>1. IInv => TypeOK
  BY DEF IInv
<1>2. QED
  BY <1>1, InvInit, InvStep, PTL DEF Spec

\* No window that is shorter by the delay has more admitted calls than the
\* limit; without a delay, no window at all.
THEOREM WindowKept == Spec => []LimitHolds
<1>1. IInv => LimitHolds
  BY DEF IInv, TypeOK, Spaced, LimitHolds, Expired
<1>2. QED
  BY <1>1, InvInit, InvStep, PTL DEF Spec

\* A refused call follows a full limit of calls, of a window and a delay at most.
THEOREM RefusedForCause == Spec => []RefusalsEarned
<1>1. IInv => RefusalsEarned
  <2> SUFFICES ASSUME IInv, NEW c \in Callers, outcome[c].answer = "refused"
               PROVE  LET taken == outcome[c].taken IN
                      /\ taken >= limit /\ taken <= Len(admitted)
                      /\ \A i \in 1 .. taken :
                           i + limit > taken =>
                             admitted[i] + Window + Delay >= outcome[c].at
                      /\ outcome[c].retry <= Window + Delay
    BY DEF RefusalsEarned
  <2>1. admitted \in Seq(Nat) /\ outcome[c].taken \in Nat
    BY DEF IInv, TypeOK
  <2>2. Earned(c)
    BY DEF IInv
  <2>3. QED
    BY <2>1, <2>2 DEF Earned
<1>2. QED
  BY <1>1, InvInit, InvStep, PTL DEF Spec

\* Who waited as told, and a tick more, finds room unless another call took it.
THEOREM WaitIsEnough == Spec => RetryHonest
<1>1. IInv /\ [Next]_vars =>
        [\A c \in Callers : WaitSuffices(c)]_vars
  <2> SUFFICES ASSUME IInv, NEW c \in Callers, Refuse(c),
                      outcome[c].answer = "refused",
                      now[c] > outcome[c].at + outcome[c].retry
               PROVE  Len(admitted) > outcome[c].taken
    BY DEF WaitSuffices
  <2>1. /\ Len(admitted) \in Nat /\ outcome[c].taken \in Nat
        /\ outcome[c].taken <= Len(admitted)
    BY DEF IInv, TypeOK, Earned
  <2>2. ASSUME outcome[c].taken = Len(admitted) PROVE FALSE
    <3>1. PICK k \in 0 .. Len(calls) :
            Pops(now[c], k) /\ k < Len(calls) /\ Len(calls) - k >= limit
      BY DEF Refuse
    <3>2. k = 0 /\ Len(calls) = limit /\ limit > 0
      BY <3>1, LimiterAssumption DEF IInv, TypeOK, DequeIsTail
    <3>3. outcome[c].at + outcome[c].retry >= calls[1] + Window
      BY <2>2, <3>2 DEF IInv, Told
    <3>4. ~ (now[c] > calls[1] + Window)
      BY <3>1, <3>2 DEF Pops, Expired
    <3>5. /\ now[c] \in Nat /\ outcome[c].at \in Nat /\ outcome[c].retry \in Nat
          /\ calls[1] \in Nat
      BY <3>2 DEF IInv, TypeOK
    <3>6. QED
      BY <3>3, <3>4, <3>5, LimiterAssumption
  <2>3. QED
    BY <2>1, <2>2
<1>2. Spec => []IInv
  BY InvInit, InvStep, PTL DEF Spec
<1>3. Spec => [][\A c \in Callers : WaitSuffices(c)]_vars
  BY <1>1, <1>2, PTL DEF Spec
<1>4. QED
  BY <1>3 DEF RetryHonest
=============================================================================
