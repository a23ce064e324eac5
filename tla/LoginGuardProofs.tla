---------------------------- MODULE LoginGuardProofs ----------------------------
(***************************************************************************)
(* Proofs about LoginGuard: what is counted against an IP, for any number  *)
(* of requests, IPs and captchas and any limit, window and durations.      *)
(***************************************************************************)
EXTENDS LoginGuard, FiniteSetTheorems, TLAPS

\* Clocks that were read lie in the past.
ClockSound == /\ now <= MaxTime
              /\ \A r \in Requests : at[r] <= now
              /\ \A i \in IPs : failures[i].first <= now

\* Of the requests that are deciding on an IP, one is there.
SomeoneActs ==
    \A i \in IPs : failures[i].count >= FailLimit =>
        \E r \in Requests : ip[r] = i /\ pc[r] \in {"checking", "banning", "forgetting"}

CountInv == TypeOK /\ ClockSound /\ CountedFailuresAreRecent
-------------------------------------------------------------------------------
\* Every variable keeps its type in every behaviour: a request that removes a
\* captcha has named one, and the counts and expiries are numbers.
THEOREM TypeCorrect == Spec => []TypeOK
<1> USE GuardAssumption DEF Places, NoFailures
<1>1. Init => TypeOK
      BY DEF Init, TypeOK
<1>2. TypeOK /\ [Next]_vars => TypeOK'
  <2> SUFFICES ASSUME TypeOK, [Next]_vars PROVE TypeOK'
      OBVIOUS
  <2> USE DEF TypeOK, Goto, guardVars, requestVars, historyVars
  <2>1. ASSUME NEW r \in Requests, Unban(r) PROVE TypeOK'
        BY <2>1 DEF Unban
  <2>2. ASSUME NEW r \in Requests, BurnCaptcha(r) PROVE TypeOK'
    <3>1. captchas' \in [Captchas -> Nat]
          BY <2>2 DEF BurnCaptcha
    <3>2. tries' \in [Captchas -> Nat]
      <4>1. tries' = [c \in Captchas |-> IF c = captcha[r] THEN tries[c] + (IF valid[r] THEN 1 ELSE 0)
                                                          ELSE tries[c]]
            BY <2>2 DEF BurnCaptcha
      <4>2. ASSUME NEW c \in Captchas PROVE tries[c] \in Nat /\ tries[c] + 1 \in Nat /\ tries[c] + 0 \in Nat
            OBVIOUS
      <4> HIDE DEF TypeOK
      <4>. QED BY <4>1, <4>2
    <3>3. pc' \in [Requests -> Places]
          BY <2>2 DEF BurnCaptcha
    <3>. QED BY <2>2, <3>1, <3>2, <3>3 DEF BurnCaptcha
  <2>3. ASSUME NEW r \in Requests, Succeed(r) PROVE TypeOK'
        BY <2>3 DEF Succeed
  <2>4. ASSUME NEW r \in Requests, Fail(r) PROVE TypeOK'
        BY <2>4 DEF Fail
  <2>5. ASSUME NEW r \in Requests, CountFailure(r) PROVE TypeOK'
    <3>1. failures' \in [IPs -> [count : Nat, first : Nat]]
      <4> DEFINE entry == IF failures[ip[r]].count = 0 THEN [count |-> 0, first |-> at[r]]
                                                      ELSE failures[ip[r]]
                 counted == IF Minus(at[r], entry.first) > FailWindow THEN [count |-> 1, first |-> at[r]]
                            ELSE [entry EXCEPT !.count = @ + 1]
      <4>1. entry \in [count : Nat, first : Nat]
            OBVIOUS
      <4>3. failures' = [failures EXCEPT ![ip[r]] = counted]
            BY <2>5 DEF CountFailure
      <4> HIDE DEF entry
      <4>4. entry.count + 1 \in Nat /\ at[r] \in Nat
            BY <4>1
      <4>2. counted \in [count : Nat, first : Nat]
            BY <4>1, <4>4
      <4> HIDE DEF counted
      <4>. QED BY <4>2, <4>3
    <3>2. wrong' \in [IPs -> Seq(Nat)]
          BY <2>5 DEF CountFailure
    <3>3. pc' \in [Requests -> Places]
          BY <2>5 DEF CountFailure
    <3>. QED BY <2>5, <3>1, <3>2, <3>3 DEF CountFailure
  <2>6. ASSUME NEW r \in Requests, CheckCount(r) PROVE TypeOK'
        BY <2>6 DEF CheckCount
  <2>7. ASSUME NEW r \in Requests, Ban(r) PROVE TypeOK'
    <3>1. at[r] + BlockDuration \in Nat
          OBVIOUS
    <3>2. blocked' \in [IPs -> Nat] /\ banned' \in [IPs -> Nat]
          BY <2>7, <3>1 DEF Ban
    <3>. QED BY <2>7, <3>2 DEF Ban
  <2>8. ASSUME NEW r \in Requests, Forget(r) PROVE TypeOK'
        BY <2>8 DEF Forget
  <2>9. ASSUME NEW r \in Requests, NEW i \in IPs, Accept(r, i) PROVE TypeOK'
        BY <2>9 DEF Accept
  <2>10. ASSUME NEW r \in Requests, NEW c \in Captchas, NewCaptcha(r, c) PROVE TypeOK'
    <3>1. now + CaptchaTTL \in Nat
          OBVIOUS
    <3>2. captchas' \in [Captchas -> Nat]
          BY <2>10, <3>1 DEF NewCaptcha
    <3>3. pc' \in [Requests -> Places] /\ fresh' \subseteq Captchas
          BY <2>10 DEF NewCaptcha
    <3>. QED BY <2>10, <3>2, <3>3 DEF NewCaptcha
  <2>11. ASSUME NEW r \in Requests, NEW c \in Captchas, NEW right \in BOOLEAN, LookUpCaptcha(r, c, right) PROVE TypeOK'
        BY <2>11 DEF LookUpCaptcha
  <2>12. ASSUME Tick PROVE TypeOK'
        BY <2>12 DEF Tick
  <2>13. ASSUME UNCHANGED vars PROVE TypeOK'
        BY <2>13 DEF vars
  <2> HIDE DEF TypeOK, Goto, guardVars, requestVars, historyVars
  <2>. QED
       BY <2>1, <2>2, <2>3, <2>4, <2>5, <2>6, <2>7, <2>8, <2>9, <2>10, <2>11, <2>12, <2>13
       DEF Next, Step
<1>. QED BY <1>1, <1>2, PTL DEF Spec
-------------------------------------------------------------------------------
\* admin.rs:630: reaching the limit blocks the IP.  For any number of requests of
\* an IP that count, look at the count, ban and forget in any order, a count at
\* the limit has a request that is about to act on it.
THEOREM LimitActedOn == Spec => []LimitIsActedOn
<1> USE GuardAssumption
<1>1. Init => SomeoneActs
      BY DEF Init, SomeoneActs, NoFailures
<1>2. SomeoneActs /\ TypeOK /\ [Next]_vars => SomeoneActs'
  <2> SUFFICES ASSUME SomeoneActs, TypeOK, [Next]_vars PROVE SomeoneActs'
      OBVIOUS
  <2> USE DEF TypeOK, SomeoneActs, Goto, NoFailures, guardVars, requestVars, historyVars
  <2>1. ASSUME NEW r \in Requests, Unban(r) PROVE SomeoneActs'
        BY <2>1 DEF Unban
  <2>2. ASSUME NEW r \in Requests, BurnCaptcha(r) PROVE SomeoneActs'
        BY <2>2 DEF BurnCaptcha
  <2>3. ASSUME NEW r \in Requests, Succeed(r) PROVE SomeoneActs'
        BY <2>3 DEF Succeed
  <2>4. ASSUME NEW r \in Requests, Fail(r) PROVE SomeoneActs'
        BY <2>4 DEF Fail
  <2>5. ASSUME NEW r \in Requests, CountFailure(r) PROVE SomeoneActs'
        BY <2>5 DEF CountFailure
  <2>6. ASSUME NEW r \in Requests, CheckCount(r) PROVE SomeoneActs'
        BY <2>6 DEF CheckCount
  <2>7. ASSUME NEW r \in Requests, Ban(r) PROVE SomeoneActs'
        BY <2>7 DEF Ban
  <2>8. ASSUME NEW r \in Requests, Forget(r) PROVE SomeoneActs'
        BY <2>8 DEF Forget
  <2>9. ASSUME NEW r \in Requests, NEW i \in IPs, Accept(r, i) PROVE SomeoneActs'
        BY <2>9 DEF Accept
  <2>10. ASSUME NEW r \in Requests, NEW c \in Captchas, NewCaptcha(r, c) PROVE SomeoneActs'
        BY <2>10 DEF NewCaptcha
  <2>11. ASSUME NEW r \in Requests, NEW c \in Captchas, NEW right \in BOOLEAN, LookUpCaptcha(r, c, right) PROVE SomeoneActs'
        BY <2>11 DEF LookUpCaptcha
  <2>12. ASSUME Tick PROVE SomeoneActs'
        BY <2>12 DEF Tick
  <2>13. ASSUME UNCHANGED vars PROVE SomeoneActs'
        BY <2>13 DEF vars
  <2> HIDE DEF TypeOK, SomeoneActs, Goto, NoFailures, guardVars, requestVars, historyVars
  <2>. QED
       BY <2>1, <2>2, <2>3, <2>4, <2>5, <2>6, <2>7, <2>8, <2>9, <2>10, <2>11, <2>12, <2>13
       DEF Next, Step
<1>3. SomeoneActs => LimitIsActedOn
      BY DEF SomeoneActs, LimitIsActedOn, Deciding
<1>. QED BY <1>1, <1>2, <1>3, TypeCorrect, PTL DEF Spec
-------------------------------------------------------------------------------
\* A difference that wraps is beyond the window: only a clock that was read
\* within the window after the first failure adds to the count.
LEMMA MinusInWindow ==
    ASSUME NEW a \in 0..MaxTime, NEW b \in 0..MaxTime, ~(Minus(a, b) > FailWindow)
    PROVE  b <= a /\ a <= b + FailWindow
<1> USE GuardAssumption DEF Minus
<1>1. CASE a < b
  <2>1. a - b = -1 * U64 + (U64 + a - b) /\ U64 + a - b \in 0..(U64 - 1)
        BY <1>1
  <2>2. (a - b) % U64 = U64 + a - b
        BY <2>1
  <2>. QED BY <2>1, <2>2
<1>2. CASE b <= a
  <2>1. (a - b) % U64 = a - b
        BY <1>2
  <2>. QED BY <1>2, <2>1
<1>. QED BY <1>1, <1>2

\* The failures in a window are finitely many, and counting one more inside it
\* adds one.
Inside(s, t) == {k \in DOMAIN s : s[k] \in t..(t + FailWindow)}

LEMMA OneMoreFailure ==
    ASSUME NEW s \in Seq(Nat), NEW t \in Nat, NEW a \in t..(t + FailWindow)
    PROVE  /\ Cardinality(Inside(s, t)) \in Nat
           /\ Cardinality(Inside(Append(s, a), t)) = Cardinality(Inside(s, t)) + 1
<1> USE GuardAssumption DEF Inside
<1> DEFINE W == Inside(s, t)
           V == Inside(Append(s, a), t)
<1>1. IsFiniteSet(W)
  <2>1. W \subseteq 1..Len(s) /\ Len(s) \in Nat
        OBVIOUS
  <2>. QED BY <2>1, FS_Interval, FS_Subset
<1>2. V = W \cup {Len(s) + 1} /\ Len(s) + 1 \notin W
  <2>1. /\ Len(s) \in Nat /\ DOMAIN s = 1..Len(s) /\ DOMAIN Append(s, a) = 1..(Len(s) + 1)
        /\ \A k \in 1..Len(s) : Append(s, a)[k] = s[k]
        /\ Append(s, a)[Len(s) + 1] = a
        OBVIOUS
  <2>. QED BY <2>1
<1>3. Cardinality(V) = Cardinality(W) + 1 /\ Cardinality(W) \in Nat
      BY <1>1, <1>2, FS_AddElement, FS_CardinalityType
<1>. QED BY <1>3

\* No step leaves the invariant of the counts.
LEMMA StepKeepsCountInv == CountInv /\ TypeOK' /\ [Next]_vars => CountInv'
<1> SUFFICES ASSUME CountInv, TypeOK', [Next]_vars PROVE CountInv'
    OBVIOUS
<1> USE GuardAssumption DEF CountInv, TypeOK, Goto, NoFailures, guardVars, requestVars, historyVars
<1>0. ASSUME NEW i \in IPs, NEW t PROVE Cardinality(InWindow(i, t)) \in Nat
  <2>1. wrong[i] \in Seq(Nat)
        OBVIOUS
  <2>2. InWindow(i, t) \subseteq 1..Len(wrong[i]) /\ Len(wrong[i]) \in Nat
        BY <2>1 DEF InWindow
  <2>3. IsFiniteSet(1..Len(wrong[i]))
        BY <2>2, FS_Interval
  <2>4. IsFiniteSet(InWindow(i, t))
        BY <2>2, <2>3, FS_Subset
  <2>. QED BY <2>4, FS_CardinalityType
<1>a. ASSUME UNCHANGED <<wrong, failures>>, ClockSound' PROVE CountInv'
  <2>1. ASSUME NEW i \in IPs PROVE InWindow(i, failures[i].first)' = InWindow(i, failures[i].first)
        BY <1>a DEF InWindow
  <2>2. CountedFailuresAreRecent'
        BY <1>a, <2>1 DEF CountedFailuresAreRecent
  <2>. QED BY <1>a, <2>2
<1>b. ASSUME UNCHANGED <<now, failures, at, wrong>> PROVE CountInv'
      BY <1>a, <1>b DEF ClockSound
<1>1. ASSUME NEW r \in Requests, Fail(r) PROVE CountInv'
  <2>1. UNCHANGED <<now, wrong, failures>> /\ at' = [at EXCEPT ![r] = now]
        BY <1>1 DEF Fail
  <2>2. ClockSound'
        BY <2>1 DEF ClockSound
  <2>. QED BY <1>a, <2>1, <2>2
<1>2. ASSUME Tick PROVE CountInv'
  <2>1. UNCHANGED <<at, wrong, failures>> /\ now < MaxTime /\ now' = now + 1
        BY <1>2 DEF Tick
  <2>2. ClockSound'
        BY <2>1 DEF ClockSound
  <2>. QED BY <1>a, <2>1, <2>2
<1>3. ASSUME NEW r \in Requests, Unban(r) \/ BurnCaptcha(r) \/ CheckCount(r) \/ Ban(r) PROVE CountInv'
  <2>1. UNCHANGED <<now, failures, at, wrong>>
        BY <1>3 DEF Unban, BurnCaptcha, CheckCount, Ban
  <2>. QED BY <1>b, <2>1
<1>4. ASSUME NEW r \in Requests, NEW i \in IPs, Accept(r, i) PROVE CountInv'
  <2>1. UNCHANGED <<now, failures, at, wrong>>
        BY <1>4 DEF Accept
  <2>. QED BY <1>b, <2>1
<1>5. ASSUME NEW r \in Requests, NEW c \in Captchas, NewCaptcha(r, c) PROVE CountInv'
  <2>1. UNCHANGED <<now, failures, at, wrong>>
        BY <1>5 DEF NewCaptcha
  <2>. QED BY <1>b, <2>1
<1>6. ASSUME NEW r \in Requests, NEW c \in Captchas, NEW right \in BOOLEAN, LookUpCaptcha(r, c, right)
      PROVE  CountInv'
  <2>1. UNCHANGED <<now, failures, at, wrong>>
        BY <1>6 DEF LookUpCaptcha
  <2>. QED BY <1>b, <2>1
<1>7. ASSUME UNCHANGED vars PROVE CountInv'
  <2>1. UNCHANGED <<now, failures, at, wrong>>
        BY <1>7 DEF vars
  <2>. QED BY <1>b, <2>1
<1>8. ASSUME NEW r \in Requests, Succeed(r) PROVE CountInv'
  <2>1. ClockSound'
        BY <1>8 DEF Succeed, ClockSound
  <2>2. ASSUME NEW i \in IPs PROVE failures'[i].count <= Cardinality(InWindow(i, failures[i].first)')
    <3>1. CASE i = ip[r]
      <4>1. failures'[i].count = 0
            BY <1>8, <3>1 DEF Succeed
      <4>2. InWindow(i, failures[i].first)' = {}
            BY <1>8, <3>1 DEF Succeed, InWindow
      <4>. QED BY <4>1, <4>2, FS_EmptySet
    <3>2. CASE i # ip[r]
          BY <1>8, <3>2 DEF Succeed, InWindow, CountedFailuresAreRecent
    <3>. QED BY <3>1, <3>2
  <2>. QED BY <2>1, <2>2 DEF CountedFailuresAreRecent
<1>9. ASSUME NEW r \in Requests, Forget(r) PROVE CountInv'
  <2>1. ClockSound'
        BY <1>9 DEF Forget, ClockSound
  <2>2. ASSUME NEW i \in IPs PROVE failures'[i].count <= Cardinality(InWindow(i, failures[i].first)')
    <3>1. CASE i = ip[r]
      <4>1. failures'[i].count = 0
            BY <1>9, <3>1 DEF Forget
      <4>2. InWindow(i, failures[i].first)' = {}
            BY <1>9, <3>1 DEF Forget, InWindow
      <4>. QED BY <4>1, <4>2, FS_EmptySet
    <3>2. CASE i # ip[r]
          BY <1>9, <3>2 DEF Forget, InWindow, CountedFailuresAreRecent
    <3>. QED BY <3>1, <3>2
  <2>. QED BY <2>1, <2>2 DEF CountedFailuresAreRecent
<1>10. ASSUME NEW r \in Requests, CountFailure(r) PROVE CountInv'
  <2>0. PICK i \in IPs : i = ip[r]
        OBVIOUS
  <2> DEFINE entry == IF failures[i].count = 0 THEN [count |-> 0, first |-> at[r]] ELSE failures[i]
  <2>1. /\ at[r] \in 0..MaxTime /\ wrong[i] \in Seq(Nat)
        /\ entry.count \in Nat /\ entry.first \in 0..MaxTime
        /\ entry \in [count : Nat, first : Nat]
        /\ wrong' = [wrong EXCEPT ![i] = Append(@, at[r])]
        BY <2>0, <1>10 DEF CountFailure, ClockSound
  <2>2. entry.count <= Cardinality(InWindow(i, entry.first))
    <3>1. Cardinality(InWindow(i, at[r])) \in Nat
          BY <1>0, <2>1
    <3>2. failures[i].count <= Cardinality(InWindow(i, failures[i].first))
          BY <2>1 DEF CountedFailuresAreRecent
    <3>3. CASE failures[i].count = 0
      <4>1. entry.count = 0 /\ entry.first = at[r]
            BY <3>3
      <4> HIDE DEF entry
      <4>. QED BY <3>1, <4>1
    <3>4. CASE failures[i].count # 0
      <4>1. entry = failures[i]
            BY <3>4
      <4>. QED BY <3>2, <4>1
    <3>. QED BY <3>3, <3>4
  <2>3. ClockSound'
        BY <2>0, <1>10, <2>1 DEF CountFailure, ClockSound
  <2>4. ASSUME NEW j \in IPs, j # i
        PROVE  failures'[j].count <= Cardinality(InWindow(j, failures[j].first)')
        BY <2>0, <1>10, <2>4 DEF CountFailure, InWindow, CountedFailuresAreRecent
  <2>5. failures'[i] = IF Minus(at[r], entry.first) > FailWindow THEN [count |-> 1, first |-> at[r]]
                       ELSE [entry EXCEPT !.count = @ + 1]
        BY <2>0, <1>10, <2>1 DEF CountFailure
  <2>6. wrong'[i] = Append(wrong[i], at[r])
        BY <2>1
  <2>7. at[r] \in Nat /\ entry.first \in Nat
        BY <2>1
  <2>8. failures'[i].count <= Cardinality(InWindow(i, failures[i].first)')
    <3> HIDE DEF entry, TypeOK, CountInv
    <3>1. ASSUME NEW t \in Nat, at[r] \in t..(t + FailWindow), failures'[i].first = t
          PROVE  /\ Cardinality(InWindow(i, t)) \in Nat
                 /\ Cardinality(InWindow(i, failures[i].first)') = Cardinality(InWindow(i, t)) + 1
      <4>1. InWindow(i, failures[i].first)' = Inside(Append(wrong[i], at[r]), t)
            BY <2>6, <3>1 DEF InWindow, Inside
      <4>2. InWindow(i, t) = Inside(wrong[i], t)
            BY DEF InWindow, Inside
      <4>3. wrong[i] \in Seq(Nat) /\ t \in Nat /\ at[r] \in t..(t + FailWindow)
            BY <2>1, <3>1
      <4>4. /\ Cardinality(Inside(wrong[i], t)) \in Nat
            /\ Cardinality(Inside(Append(wrong[i], at[r]), t)) = Cardinality(Inside(wrong[i], t)) + 1
            BY <4>3, OneMoreFailure
      <4>. QED BY <4>1, <4>2, <4>4
    <3>2. CASE Minus(at[r], entry.first) > FailWindow
      <4>1. failures'[i].count = 1 /\ failures'[i].first = at[r]
            BY <2>5, <3>2
      <4>2. at[r] \in at[r]..(at[r] + FailWindow)
            BY <2>7
      <4>3. /\ Cardinality(InWindow(i, at[r])) \in Nat
            /\ Cardinality(InWindow(i, failures[i].first)') = Cardinality(InWindow(i, at[r])) + 1
            BY <2>7, <3>1, <4>1, <4>2
      <4>. QED BY <4>1, <4>3
    <3>3. CASE ~(Minus(at[r], entry.first) > FailWindow)
      <4>1. failures'[i].count = entry.count + 1 /\ failures'[i].first = entry.first
            BY <2>1, <2>5, <3>3
      <4>2. at[r] \in entry.first..(entry.first + FailWindow)
        <5>1. entry.first <= at[r] /\ at[r] <= entry.first + FailWindow
              BY <2>1, <3>3, MinusInWindow
        <5>. QED BY <2>7, <5>1
      <4>3. /\ Cardinality(InWindow(i, entry.first)) \in Nat
            /\ Cardinality(InWindow(i, failures[i].first)')
                  = Cardinality(InWindow(i, entry.first)) + 1
            BY <2>7, <3>1, <4>1, <4>2
      <4>. QED BY <2>1, <2>2, <4>1, <4>3
    <3>. QED BY <3>2, <3>3
  <2> HIDE DEF TypeOK
  <2>. QED BY <2>3, <2>4, <2>8 DEF CountedFailuresAreRecent
<1> HIDE DEF CountInv, TypeOK, Goto, NoFailures, guardVars, requestVars, historyVars
<1>. QED
     BY <1>1, <1>2, <1>3, <1>4, <1>5, <1>6, <1>7, <1>8, <1>9, <1>10
     DEF Next, Step

\* admin.rs:630: for any race of the requests of an IP, what is counted against it
\* are failures since its last login or ban that lie in one window: no count
\* comes from an older failure, a clock that goes back or another IP.
THEOREM CountsAreRecent == Spec => []CountedFailuresAreRecent
<1>1. Init => CountInv
  <2> SUFFICES ASSUME Init PROVE CountInv
      OBVIOUS
  <2>1. TypeOK
        BY GuardAssumption DEF Init, TypeOK, NoFailures, Places
  <2>3. ClockSound
        BY GuardAssumption DEF Init, ClockSound, NoFailures
  <2>2. ASSUME NEW i \in IPs PROVE failures[i].count = 0 /\ InWindow(i, failures[i].first) = {}
        BY DEF Init, NoFailures, InWindow
  <2>. QED BY <2>1, <2>2, <2>3, FS_EmptySet DEF CountInv, CountedFailuresAreRecent
<1>2. CountInv => CountedFailuresAreRecent
      BY DEF CountInv
<1>. QED BY <1>1, <1>2, TypeCorrect, StepKeepsCountInv, PTL DEF Spec
===============================================================================
