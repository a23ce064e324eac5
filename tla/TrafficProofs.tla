------------------------------ MODULE TrafficProofs ------------------------------
(***************************************************************************)
(* Proofs about Traffic: types, what the figures of the console, the file  *)
(* and the history are worth, and that the saved totals survive, for any   *)
(* numbers of clients, sessions, readers and restarts.                     *)
(*                                                                         *)
(* The figures of a client are sums over its sessions.  The first part     *)
(* shows what such a sum is and how it changes with its set and its terms, *)
(* by the smallest set that would be a counterexample.                     *)
(***************************************************************************)
EXTENDS Traffic, FiniteSetTheorems, WellFoundedInduction, SequenceTheorems, TLAPS

-------------------------------------------------------------------------------
(* Sums over finite sets *)

\* The sum of f over S, and the recursive function that computes it.
SumOf(f, S) == MapThenSumSet(LAMBDA c : f[c], S)
First(s) == CHOOSE c \in s : TRUE
SumStep(f, g, s) == IF s = {} THEN 0 ELSE f[First(s)] + g[s \ {First(s)}]
SumsOver(f, g, S) == g = [s \in SUBSET S |-> SumStep(f, g, s)]

\* What MapThenSumSet computes is a function over the subsets.
LEMMA SumIs == \A f, S : SumOf(f, S) = (CHOOSE g : SumsOver(f, g, S))[S]
BY DEF SumOf, MapThenSumSet, MapThenFoldSet, SumsOver, SumStep, First

\* The bytes of a set of sessions are such a sum.
LEMMA BytesAreSums == \A S : BytesOf(S) = SumOf(bytes, S)
BY DEF BytesOf, SumOf, MapThenSumSet, MapThenFoldSet

\* Of any sets within a finite one some have none of the others inside: what
\* stands for induction over finite sets.
LEMMA LeastSet ==
    ASSUME NEW S, IsFiniteSet(S), NEW T, T \subseteq SUBSET S, T # {}
    PROVE  \E s \in T : \A t \in T : t \subseteq s => t = s
<1>1. IsWellFoundedOn(StrictSubsetOrdering(S), SUBSET S)
      BY FS_StrictSubsetOrderingWellFounded, FS_FiniteSubsetsOfFinite
<1>2. PICK s \in T : \A t \in T : ~ (<<t, s>> \in StrictSubsetOrdering(S))
      BY <1>1, WFMin
<1>3. ASSUME NEW t \in T, t \subseteq s, t # s PROVE <<t, s>> \in StrictSubsetOrdering(S)
      BY <1>3 DEF StrictSubsetOrdering
<1>4. ASSUME NEW t \in T, t \subseteq s PROVE t = s
      BY <1>2, <1>3, <1>4
<1>. QED BY <1>4

\* A set that is not empty gives one term and the sum of its rest.
LEMMA StepIs ==
    \A f, g, s : s # {} => First(s) \in s /\ SumStep(f, g, s) = f[First(s)] + g[s \ {First(s)}]
BY DEF SumStep, First

\* A step looks at its function only one element below.
LEMMA StepsAgree ==
    ASSUME NEW f, NEW g, NEW h, NEW s, \A c \in s : g[s \ {c}] = h[s \ {c}]
    PROVE  SumStep(f, g, s) = SumStep(f, h, s)
<1>1. CASE s = {}
      BY <1>1 DEF SumStep
<1>2. CASE s # {}
  <2>1. g[s \ {First(s)}] = h[s \ {First(s)}]
        BY <1>2, StepIs
  <2>. QED BY <1>2, <2>1 DEF SumStep
<1>. QED BY <1>1, <1>2

\* The function is unique.
LEMMA SumsAgree ==
    ASSUME NEW f, NEW A, NEW B, IsFiniteSet(A), NEW g, NEW h, SumsOver(f, g, A), SumsOver(f, h, B),
           NEW s, s \subseteq A, s \subseteq B
    PROVE  g[s] = h[s]
<1> DEFINE T == {t \in SUBSET A : t \subseteq B /\ g[t] # h[t]}
<1>1. SUFFICES ASSUME T # {} PROVE FALSE
  <2>1. T = {} => g[s] = h[s]
        OBVIOUS
  <2>. QED BY <2>1
<1>2. T \subseteq SUBSET A
      OBVIOUS
<1> HIDE DEF T
<1>3. PICK t \in T : \A u \in T : u \subseteq t => u = t
      BY <1>1, <1>2, LeastSet
<1> USE DEF T
<1>4. g[t] = SumStep(f, g, t) /\ h[t] = SumStep(f, h, t)
      BY DEF SumsOver
<1>5. \A c \in t : g[t \ {c}] = h[t \ {c}]
      BY <1>3
<1>. QED BY <1>4, <1>5, StepsAgree

\* The function exists.
LEMMA SumsExist ==
    ASSUME NEW f, NEW S, IsFiniteSet(S)
    PROVE  \E g : SumsOver(f, g, S)
<1> DEFINE T == {t \in SUBSET S : ~ \E g : SumsOver(f, g, t)}
<1>1. SUFFICES ASSUME T # {} PROVE FALSE
      OBVIOUS
<1>2. T \subseteq SUBSET S
      OBVIOUS
<1> HIDE DEF T
<1>3. PICK t \in T : \A u \in T : u \subseteq t => u = t
      BY <1>1, <1>2, LeastSet
<1> USE DEF T
<1> DEFINE sums(u) == CHOOSE g : SumsOver(f, g, u)
           below == [u \in SUBSET t |-> sums(u)[u]]
           g == [u \in SUBSET t |-> SumStep(f, below, u)]
<1>4. ASSUME NEW u \in SUBSET t, u # t PROVE SumsOver(f, sums(u), u) /\ IsFiniteSet(u)
  <2>1. \E k : SumsOver(f, k, u)
        BY <1>3, <1>4
  <2>. QED BY <2>1, FS_Subset
<1>5. ASSUME NEW u \in SUBSET t, u # t PROVE g[u] = below[u]
  <2>1. SumsOver(f, sums(u), u) /\ below[u] = sums(u)[u] /\ g[u] = SumStep(f, below, u)
        BY <1>4, <1>5
  <2>2. sums(u)[u] = SumStep(f, sums(u), u)
        BY <2>1 DEF SumsOver
  <2>3. ASSUME NEW c \in u PROVE sums(u)[u \ {c}] = below[u \ {c}]
    <3>1. u \ {c} \in SUBSET t /\ u \ {c} # t
          OBVIOUS
    <3>2. SumsOver(f, sums(u \ {c}), u \ {c}) /\ IsFiniteSet(u \ {c}) /\ below[u \ {c}] = sums(u \ {c})[u \ {c}]
          BY <1>4, <3>1
    <3> HIDE DEF sums, below
    <3>. QED BY <2>1, <3>2, SumsAgree
  <2> HIDE DEF sums, below, g
  <2>4. SumStep(f, sums(u), u) = SumStep(f, below, u)
        BY <2>3, StepsAgree
  <2>. QED BY <2>1, <2>2, <2>4
<1>6. ASSUME NEW u \in SUBSET t PROVE SumStep(f, below, u) = SumStep(f, g, u)
  <2> HIDE DEF below, g
  <2>1. ASSUME NEW c \in u PROVE below[u \ {c}] = g[u \ {c}]
    <3>1. u \ {c} \in SUBSET t /\ u \ {c} # t
          OBVIOUS
    <3>. QED BY <1>5, <3>1
  <2>. QED BY <2>1, StepsAgree
<1>7. SumsOver(f, g, t)
  <2>1. g = [u \in SUBSET t |-> SumStep(f, g, u)]
        BY <1>6
  <2>. QED BY <2>1 DEF SumsOver
<1>. QED BY <1>3, <1>7

\* The sum of a finite set is a term and the sum of the others.
LEMMA SumUnfolds ==
    ASSUME NEW f, NEW S, IsFiniteSet(S)
    PROVE  /\ SumOf(f, {}) = 0
           /\ S # {} => \E c \in S : SumOf(f, S) = f[c] + SumOf(f, S \ {c})
<1> DEFINE sums(u) == CHOOSE g : SumsOver(f, g, u)
<1>1. \A u : IsFiniteSet(u) => SumsOver(f, sums(u), u)
      BY SumsExist
<1>2. \A u : SumOf(f, u) = sums(u)[u]
      BY SumIs
<1> HIDE DEF sums
<1>3. \A u : IsFiniteSet(u) => SumOf(f, u) = SumStep(f, sums(u), u)
      BY <1>1, <1>2 DEF SumsOver
<1>4. SumOf(f, {}) = 0
      BY <1>3, FS_EmptySet DEF SumStep
<1>5. ASSUME S # {}
      PROVE  \E c \in S : SumOf(f, S) = f[c] + SumOf(f, S \ {c})
  <2>1. PICK c \in S : SumStep(f, sums(S), S) = f[c] + sums(S)[S \ {c}]
        BY <1>5, StepIs
  <2>2. IsFiniteSet(S \ {c})
        BY FS_RemoveElement
  <2>3. sums(S)[S \ {c}] = sums(S \ {c})[S \ {c}]
        BY <1>1, <2>2, SumsAgree
  <2>. QED BY <1>2, <1>3, <2>1, <2>3
<1>. QED BY <1>4, <1>5

\* It does not matter which element is taken out first.
LEMMA SumSplits ==
    ASSUME NEW S, IsFiniteSet(S), NEW f, \A c \in S : f[c] \in Nat
    PROVE  /\ SumOf(f, {}) = 0 /\ SumOf(f, S) \in Nat
           /\ \A c \in S : SumOf(f, S \ {c}) \in Nat /\ SumOf(f, S) = f[c] + SumOf(f, S \ {c})
<1>1. \A s \in SUBSET S : IsFiniteSet(s)
      BY FS_Subset
<1>2. \A s \in SUBSET S : SumOf(f, s) \in Nat
  <2> DEFINE T == {s \in SUBSET S : SumOf(f, s) \notin Nat}
  <2>1. SUFFICES ASSUME T # {} PROVE FALSE
        OBVIOUS
  <2>a. T \subseteq SUBSET S
        OBVIOUS
  <2> HIDE DEF T
  <2>2. PICK s \in T : \A t \in T : t \subseteq s => t = s
        BY <2>1, <2>a, LeastSet
  <2> USE DEF T
  <2>3. CASE s = {}
        BY <2>2, <2>3, FS_EmptySet, SumUnfolds
  <2>4. CASE s # {}
    <3>1. PICK c \in s : SumOf(f, s) = f[c] + SumOf(f, s \ {c})
          BY <1>1, <2>4, SumUnfolds
    <3>2. SumOf(f, s \ {c}) \in Nat /\ f[c] \in Nat
          BY <2>2
    <3>. QED BY <2>2, <3>1, <3>2
  <2>. QED BY <2>3, <2>4
<1>3. \A s \in SUBSET S : \A c \in s : SumOf(f, s) = f[c] + SumOf(f, s \ {c})
  <2> DEFINE T == {s \in SUBSET S : \E c \in s : SumOf(f, s) # f[c] + SumOf(f, s \ {c})}
  <2>1. SUFFICES ASSUME T # {} PROVE FALSE
        OBVIOUS
  <2>a. T \subseteq SUBSET S
        OBVIOUS
  <2> HIDE DEF T
  <2>2. PICK s \in T : \A t \in T : t \subseteq s => t = s
        BY <2>1, <2>a, LeastSet
  <2> USE DEF T
  <2>3. PICK c \in s : SumOf(f, s) # f[c] + SumOf(f, s \ {c})
        BY <2>2
  <2>4. PICK d \in s : SumOf(f, s) = f[d] + SumOf(f, s \ {d})
        BY <1>1, <2>2, SumUnfolds
  <2>5. c # d
        BY <2>3, <2>4
  <2>6. c \in s \ {d} /\ d \in s \ {c} /\ (s \ {d}) \ {c} = (s \ {c}) \ {d}
        BY <2>5
  <2>7. s \ {d} \notin T /\ s \ {c} \notin T /\ s \ {c} \in SUBSET S /\ s \ {d} \in SUBSET S
        BY <2>2
  <2>8. /\ SumOf(f, s \ {d}) = f[c] + SumOf(f, (s \ {d}) \ {c})
        /\ SumOf(f, s \ {c}) = f[d] + SumOf(f, (s \ {c}) \ {d})
        BY <2>6, <2>7
  <2>9. f[c] \in Nat /\ f[d] \in Nat
        BY <2>2
  <2>10. (s \ {c}) \ {d} \in SUBSET S
        BY <2>2
  <2>11. PICK r \in Nat : r = SumOf(f, (s \ {c}) \ {d})
        BY <1>2, <2>10
  <2>12. PICK m \in Nat, n \in Nat : m = f[c] /\ n = f[d]
        BY <2>9
  <2>13. SumOf(f, s \ {d}) = m + r /\ SumOf(f, s \ {c}) = n + r
        BY <2>6, <2>8, <2>11, <2>12
  <2>14. SumOf(f, s) = n + (m + r) /\ f[c] + SumOf(f, s \ {c}) = m + (n + r)
        BY <2>4, <2>12, <2>13
  <2>15. n + (m + r) = m + (n + r)
        BY <2>12, <2>11
  <2>. QED BY <2>3, <2>14, <2>15
<1>4. SumOf(f, {}) = 0
      BY SumUnfolds, FS_EmptySet
<1>. QED BY <1>2, <1>3, <1>4

\* Over more elements, and of values that are not less, the sum is not less.
LEMMA SumGrows ==
    ASSUME NEW S, IsFiniteSet(S), NEW R \in SUBSET S, NEW f, NEW g,
           \A c \in S : f[c] \in Nat /\ g[c] \in Nat /\ f[c] <= g[c]
    PROVE  SumOf(f, R) <= SumOf(g, S)
<1> DEFINE T == {t \in SUBSET S : \E s \in SUBSET t : ~ (SumOf(f, s) <= SumOf(g, t))}
<1>1. SUFFICES ASSUME T # {} PROVE FALSE
      OBVIOUS
<1>a. T \subseteq SUBSET S
      OBVIOUS
<1> HIDE DEF T
<1>2. PICK t \in T : \A u \in T : u \subseteq t => u = t
      BY <1>1, <1>a, LeastSet
<1> USE DEF T
<1>3. PICK s \in SUBSET t : ~ (SumOf(f, s) <= SumOf(g, t))
      BY <1>2
<1>4. IsFiniteSet(t) /\ IsFiniteSet(s) /\ t \subseteq S /\ s \subseteq S
      BY <1>2, <1>3, FS_Subset
<1>5. SumOf(f, s) \in Nat /\ SumOf(g, t) \in Nat
      BY <1>4, SumSplits
<1>6. t # {}
  <2>1. SUFFICES ASSUME t = {} PROVE FALSE
        OBVIOUS
  <2>2. s = {}
        BY <2>1
  <2>3. SumOf(f, {}) = 0 /\ SumOf(g, {}) = 0
        BY FS_EmptySet, SumUnfolds
  <2>. QED BY <1>3, <2>1, <2>2, <2>3
<1>7. PICK c \in t : TRUE
      BY <1>6
<1>8. t \ {c} \notin T /\ t \ {c} \in SUBSET S
      BY <1>2
<1>9. SumOf(g, t) = g[c] + SumOf(g, t \ {c}) /\ SumOf(g, t \ {c}) \in Nat
      BY <1>4, SumSplits
<1>10. f[c] \in Nat /\ g[c] \in Nat /\ f[c] <= g[c]
      BY <1>4
<1>11. CASE c \in s
  <2>1. SumOf(f, s) = f[c] + SumOf(f, s \ {c}) /\ SumOf(f, s \ {c}) \in Nat
        BY <1>4, <1>11, SumSplits
  <2>2. s \ {c} \in SUBSET (t \ {c})
        OBVIOUS
  <2>3. SumOf(f, s \ {c}) <= SumOf(g, t \ {c})
        BY <1>8, <2>2
  <2>. QED BY <1>3, <1>9, <1>10, <2>1, <2>3
<1>12. CASE c \notin s
  <2>1. s \in SUBSET (t \ {c})
        BY <1>12
  <2>2. SumOf(f, s) <= SumOf(g, t \ {c})
        BY <1>8, <2>1
  <2>. QED BY <1>3, <1>5, <1>9, <1>10, <2>2
<1>. QED BY <1>11, <1>12

\* One element more.
LEMMA SumAdds ==
    ASSUME NEW S, IsFiniteSet(S), NEW f, NEW x, x \notin S, \A c \in S \cup {x} : f[c] \in Nat
    PROVE  SumOf(f, S) \in Nat /\ f[x] \in Nat /\ SumOf(f, S \cup {x}) = f[x] + SumOf(f, S)
<1> DEFINE R == S \cup {x}
<1>1. IsFiniteSet(R) /\ x \in R /\ R \ {x} = S
      BY FS_AddElement
<1>2. SumOf(f, R) = f[x] + SumOf(f, R \ {x}) /\ SumOf(f, R \ {x}) \in Nat
      BY <1>1, SumSplits
<1>. QED BY <1>1, <1>2

\* One more for one element.
LEMMA SumCounts ==
    ASSUME NEW S, IsFiniteSet(S), NEW f, NEW g, NEW x, \A c \in S : f[c] \in Nat,
           \A c \in S : g[c] = IF c = x THEN f[c] + 1 ELSE f[c]
    PROVE  /\ SumOf(f, S) \in Nat
           /\ SumOf(g, S) = SumOf(f, S) + (IF x \in S THEN 1 ELSE 0)
<1>1. \A c \in S : g[c] \in Nat
      OBVIOUS
<1>2. SumOf(f, S) \in Nat /\ SumOf(g, S) \in Nat
      BY <1>1, SumSplits
<1>3. ASSUME NEW R \in SUBSET S, x \notin R PROVE SumOf(f, R) = SumOf(g, R)
  <2>1. IsFiniteSet(R) /\ R \in SUBSET R /\ \A c \in R : f[c] \in Nat /\ g[c] \in Nat /\ f[c] <= g[c] /\ g[c] <= f[c]
        BY <1>1, <1>3, FS_Subset
  <2>2. SumOf(f, R) \in Nat /\ SumOf(g, R) \in Nat
        BY <2>1, SumSplits
  <2>3. SumOf(f, R) <= SumOf(g, R) /\ SumOf(g, R) <= SumOf(f, R)
        BY <2>1, SumGrows
  <2>. QED BY <2>2, <2>3
<1>4. CASE x \in S
  <2>1. SumOf(f, S) = f[x] + SumOf(f, S \ {x}) /\ SumOf(f, S \ {x}) \in Nat
        BY <1>4, SumSplits
  <2>2. SumOf(g, S) = g[x] + SumOf(g, S \ {x})
        BY <1>1, <1>4, SumSplits
  <2>3. S \ {x} \in SUBSET S /\ x \notin S \ {x}
        OBVIOUS
  <2>4. SumOf(f, S \ {x}) = SumOf(g, S \ {x})
        BY <1>3, <2>3
  <2>5. g[x] = f[x] + 1 /\ f[x] \in Nat
        BY <1>4
  <2>. QED BY <1>4, <2>1, <2>2, <2>4, <2>5
<1>5. CASE x \notin S
      BY <1>2, <1>3, <1>5
<1>. QED BY <1>4, <1>5
-------------------------------------------------------------------------------
(* The invariant *)

\* A session belongs to a client from the moment it is registered, the table has
\* running ones under their own client, and there are never infinitely many.
SessionsHeld ==
    /\ \A c \in Conns : phase[c] = "new" <=> client[c] = NoClient
    /\ \A k \in Clients : online[k] # NoConn => client[online[k]] = k /\ phase[online[k]] = "running"
    /\ IsFiniteSet({c \in Conns : client[c] # NoClient})

TypesInv == TypeOK /\ SessionsHeld

\* The file has no more than was counted; it is ahead of the table after a start
\* that could not read it.
FileBehind == file # Torn => \A k \in Clients : file[k] <= Counted(k)

\* What was merged, and what is running or on its way to the totals, was
\* counted by sessions of the client, and by none of them twice.
KnownCounted == \A k \in Clients : Known(k) <= Counted(k)

\* A reader has yet to get the session of a client, and finds one that counted
\* nothing of what the answer has.
Awaits(q, k) == rpc[q] = "listing" \/ (rpc[q] = "adding" /\ k \in todo[q])
AnswersCounted ==
    \A q \in Reads, k \in Clients :
        /\ answer[q][k] <= Counted(k)
        /\ Awaits(q, k) => answer[q][k] + Live(k) <= Counted(k)

\* As long as no session of the client moved, the answer has what was known when
\* the reader began, or will have it with the session that is online.
AnswersComplete ==
    \A q \in Reads : \A k \in Clients \ moved[q] :
        /\ Awaits(q, k) => noted[q][k] <= answer[q][k] + Live(k)
        /\ rpc[q] \in {"adding", "done"} /\ ~ Awaits(q, k) => noted[q][k] <= answer[q][k]

\* So does the sampler between its two reads, and so do the points it wrote.
SampleComplete ==
    sampler = "sampling" => \A k \in Clients \ moved[Task] :
        /\ noted[Task][k] = totals[k] + live[k]
        /\ totals[k] + live[k] <= Counted(k)
PointsComplete ==
    \A i \in DOMAIN history : \A k \in history[i].quiet :
        history[i].known[k] <= history[i].totals[k] /\ history[i].totals[k] <= Counted(k)

IInv == /\ TypesInv /\ FileBehind /\ SavedTotalsSurvive /\ KnownCounted /\ AnswersCounted
        /\ AnswersComplete /\ SampleComplete /\ PointsComplete
-------------------------------------------------------------------------------
(* What the figures of a client are *)

Figures(k) ==
    /\ IsFiniteSet(SessionsOf(k)) /\ IsFiniteSet(Pending(k))
    /\ Counted(k) \in Nat /\ BytesOf(Pending(k)) \in Nat /\ Known(k) \in Nat
    /\ Live(k) \in 0..MaxBytes /\ Live(k) \in Nat
    /\ totals[k] + Live(k) <= Known(k)
    /\ Pending(k) \ {online[k]} = {} => Known(k) = totals[k] + Live(k)

\* The figures are numbers; what is online is part of what is known, and all
\* that is pending when nothing else is.
LEMMA FiguresHold ==
    ASSUME TypesInv, NEW k \in Clients
    PROVE  Figures(k)
<1>1. /\ bytes \in [Conns -> 0..MaxBytes] /\ totals[k] \in Nat /\ MaxBytes \in Nat
      /\ online[k] \in Conns \cup {NoConn} /\ NoConn \notin Conns /\ NoClient \notin Clients
      BY TrafficAssumption DEF TypesInv, TypeOK
<1> DEFINE S == SessionsOf(k)
           P == Pending(k)
<1>2. IsFiniteSet(S) /\ IsFiniteSet(P) /\ P \subseteq S /\ S \subseteq Conns
  <2>1. S \in SUBSET {c \in Conns : client[c] # NoClient} /\ P \in SUBSET S
        BY <1>1 DEF SessionsOf, Pending
  <2>2. IsFiniteSet({c \in Conns : client[c] # NoClient})
        BY DEF TypesInv, SessionsHeld
  <2> HIDE DEF S, P
  <2>3. IsFiniteSet(S)
        BY <2>1, <2>2, FS_Subset
  <2>. QED BY <2>1, <2>3, FS_Subset DEF S, SessionsOf
<1>3. online[k] # NoConn => online[k] \in P
      BY <1>1 DEF TypesInv, SessionsHeld, Pending, SessionsOf
<1>4. \A c \in Conns : bytes[c] \in Nat /\ bytes[c] \in 0..MaxBytes
      BY <1>1
<1>5. Counted(k) = SumOf(bytes, S) /\ BytesOf(P) = SumOf(bytes, P)
      BY BytesAreSums DEF Counted
<1> HIDE DEF S, P
<1>6. SumOf(bytes, S) \in Nat /\ SumOf(bytes, P) \in Nat
      BY <1>2, <1>4, SumSplits
<1>7. Live(k) \in 0..MaxBytes /\ Live(k) \in Nat
      BY <1>1, <1>4 DEF Live
<1>8. CASE online[k] = NoConn
  <2>1. Live(k) = 0
        BY <1>8 DEF Live
  <2>2. P \ {online[k]} = {} => P = {}
        BY <1>1, <1>2, <1>8
  <2>3. SumOf(bytes, {}) = 0
        BY <1>2, <1>4, SumSplits
  <2>. QED BY <1>1, <1>2, <1>5, <1>6, <1>7, <2>1, <2>2, <2>3 DEF Figures, Known, S, P
<1>9. CASE online[k] # NoConn
  <2>1. PICK c \in P : c = online[k]
        BY <1>3, <1>9
  <2>2. Live(k) = bytes[c]
        BY <1>9, <2>1 DEF Live
  <2>3. SumOf(bytes, P) = bytes[c] + SumOf(bytes, P \ {c}) /\ SumOf(bytes, P \ {c}) \in Nat
        BY <1>2, <1>4, <2>1, SumSplits
  <2>4. SumOf(bytes, {}) = 0
        BY <1>2, <1>4, SumSplits
  <2>5. Live(k) <= SumOf(bytes, P) /\ (P \ {c} = {} => SumOf(bytes, P) = Live(k))
        BY <1>7, <2>2, <2>3, <2>4
  <2>. QED BY <1>1, <1>2, <1>5, <1>6, <1>7, <2>1, <2>5 DEF Figures, Known, S, P
<1>. QED BY <1>8, <1>9
-------------------------------------------------------------------------------
(* Types *)

\* The steps of the sessions.
SessionMoves == \/ \E c \in Conns : Count(c) \/ TunnelEnds(c) \/ Merge(c)
                \/ \E k \in Clients : Kick(k) \/ \E c \in Conns : TunnelUp(c, k)

\* A session that comes up, counts, is kicked, ends or is merged keeps the types.
LEMMA SessionTypes == TypesInv /\ SessionMoves => TypesInv'
<1> SUFFICES ASSUME TypesInv, SessionMoves PROVE TypesInv'
    OBVIOUS
<1>0. /\ NoConn \notin Conns /\ NoClient \notin Clients
      /\ phase \in [Conns -> Phases] /\ client \in [Conns -> Clients \cup {NoClient}]
      /\ online \in [Clients -> Conns \cup {NoConn}] /\ bytes \in [Conns -> 0..MaxBytes]
      /\ totals \in [Clients -> Nat] /\ moved \in [Readers -> SUBSET Clients] /\ MaxBytes \in Nat
      BY TrafficAssumption DEF TypesInv, TypeOK
<1>1. /\ \A c \in Conns : phase[c] = "new" <=> client[c] = NoClient
      /\ \A k \in Clients : online[k] # NoConn => client[online[k]] = k /\ phase[online[k]] = "running"
      /\ IsFiniteSet({c \in Conns : client[c] # NoClient})
      BY DEF TypesInv, SessionsHeld
<1> DEFINE Others == UNCHANGED <<file, saved, history, crashes, sampler, live, readVars, noted>>
           Kept == /\ phase' \in [Conns -> Phases] /\ client' \in [Conns -> Clients \cup {NoClient}]
                   /\ online' \in [Clients -> Conns \cup {NoConn}] /\ bytes' \in [Conns -> 0..MaxBytes]
                   /\ totals' \in [Clients -> Nat] /\ moved' \in [Readers -> SUBSET Clients]
<1>2. ASSUME Others, Kept PROVE TypeOK'
      BY <1>2 DEF TypesInv, TypeOK, readVars
<1>3. ASSUME NEW c \in Conns, Count(c) PROVE TypesInv'
  <2>1. /\ phase[c] # "new" /\ bytes[c] < MaxBytes /\ bytes' = [bytes EXCEPT ![c] = @ + 1]
        /\ UNCHANGED <<phase, client, online, totals, moved>> /\ Others
        BY <1>3 DEF Count, trackerVars
  <2>2. bytes[c] \in 0..MaxBytes
        BY <1>0
  <2>3. bytes[c] + 1 \in 0..MaxBytes
        BY <1>0, <2>1, <2>2
  <2>4. bytes' \in [Conns -> 0..MaxBytes]
        BY <1>0, <2>1, <2>3
  <2>5. Kept
        BY <1>0, <2>1, <2>4
  <2>. QED BY <1>1, <1>2, <2>1, <2>5 DEF TypesInv, SessionsHeld
<1>4. ASSUME NEW c \in Conns, TunnelEnds(c) PROVE TypesInv'
  <2>1. /\ phase[c] = "running" /\ phase' = [phase EXCEPT ![c] = "merging"]
        /\ online' = [online EXCEPT ![client[c]] = IF @ = c THEN NoConn ELSE @]
        /\ moved' = [r \in Readers |-> moved[r] \cup {client[c]}]
        /\ UNCHANGED <<client, bytes, totals>> /\ Others
        BY <1>4 DEF TunnelEnds, trackerVars, Moves
  <2>2. client[c] \in Clients
        BY <1>0, <1>1, <2>1
  <2>3. Kept
        BY <1>0, <2>1, <2>2 DEF Phases
  <2>4. \A d \in Conns : phase'[d] = "new" <=> client'[d] = NoClient
        BY <1>0, <1>1, <2>1
  <2>5. ASSUME NEW k \in Clients, online'[k] # NoConn
        PROVE  client'[online'[k]] = k /\ phase'[online'[k]] = "running"
    <3>1. online'[k] = online[k] /\ online[k] # NoConn /\ online[k] # c
          BY <1>0, <1>1, <2>1, <2>2, <2>5
    <3>. QED BY <1>0, <1>1, <2>1, <3>1
  <2>. QED BY <1>1, <1>2, <2>1, <2>3, <2>4, <2>5 DEF TypesInv, SessionsHeld
<1>5. ASSUME NEW c \in Conns, Merge(c) PROVE TypesInv'
  <2>1. /\ phase[c] = "merging" /\ phase' = [phase EXCEPT ![c] = "merged"]
        /\ totals' = [totals EXCEPT ![client[c]] = @ + bytes[c]]
        /\ moved' = [r \in Readers |-> moved[r] \cup {client[c]}]
        /\ UNCHANGED <<client, online, bytes>> /\ Others
        BY <1>5 DEF Merge, Moves
  <2>2. client[c] \in Clients /\ bytes[c] \in Nat
        BY <1>0, <1>1, <2>1
  <2>3. totals' \in [Clients -> Nat]
        BY <1>0, <2>1, <2>2
  <2>4. Kept
        BY <1>0, <2>1, <2>2, <2>3 DEF Phases
  <2>5. \A d \in Conns : phase'[d] = "new" <=> client'[d] = NoClient
        BY <1>0, <1>1, <2>1
  <2>6. ASSUME NEW k \in Clients, online'[k] # NoConn
        PROVE  client'[online'[k]] = k /\ phase'[online'[k]] = "running"
        BY <1>0, <1>1, <2>1, <2>6
  <2>. QED BY <1>1, <1>2, <2>1, <2>4, <2>5, <2>6 DEF TypesInv, SessionsHeld
<1>6. ASSUME NEW k \in Clients, Kick(k) PROVE TypesInv'
  <2>1. /\ online' = [online EXCEPT ![k] = NoConn]
        /\ moved' = [r \in Readers |-> moved[r] \cup {k}]
        /\ UNCHANGED <<phase, client, bytes, totals>> /\ Others
        BY <1>6 DEF Kick, Moves, trackerVars
  <2>2. Kept
        BY <1>0, <2>1
  <2>3. ASSUME NEW j \in Clients, online'[j] # NoConn
        PROVE  client'[online'[j]] = j /\ phase'[online'[j]] = "running"
        BY <1>0, <1>1, <2>1, <2>3
  <2>. QED BY <1>1, <1>2, <2>1, <2>2, <2>3 DEF TypesInv, SessionsHeld
<1>7. ASSUME NEW k \in Clients, NEW c \in Conns, TunnelUp(c, k) PROVE TypesInv'
  <2>1. /\ phase[c] = "new" /\ online[k] = NoConn
        /\ phase' = [phase EXCEPT ![c] = "running"]
        /\ client' = [client EXCEPT ![c] = k]
        /\ online' = [online EXCEPT ![k] = c]
        /\ UNCHANGED <<bytes, totals, moved>> /\ Others
        BY <1>7 DEF TunnelUp, trackerVars
  <2>2. Kept
        BY <1>0, <2>1 DEF Phases
  <2>3. \A d \in Conns : phase'[d] = "new" <=> client'[d] = NoClient
        BY <1>0, <1>1, <2>1
  <2>4. ASSUME NEW j \in Clients, online'[j] # NoConn
        PROVE  client'[online'[j]] = j /\ phase'[online'[j]] = "running"
    <3>1. CASE j = k
          BY <1>0, <2>1, <3>1
    <3>2. CASE j # k
      <4>1. online'[j] = online[j] /\ online[j] # c /\ online[j] \in Conns
            BY <1>0, <1>1, <2>1, <2>4, <3>2
      <4>. QED BY <1>0, <1>1, <2>1, <2>4, <4>1
    <3>. QED BY <3>1, <3>2
  <2>5. {d \in Conns : client'[d] # NoClient} = {d \in Conns : client[d] # NoClient} \cup {c}
        BY <1>0, <2>1
  <2>6. IsFiniteSet({d \in Conns : client'[d] # NoClient})
        BY <1>1, <2>5, FS_AddElement
  <2>. QED BY <1>2, <2>1, <2>2, <2>3, <2>4, <2>6 DEF TypesInv, SessionsHeld
<1>. QED BY <1>3, <1>4, <1>5, <1>6, <1>7 DEF SessionMoves

\* The steps of the readers and of the task leave the sessions alone.
LEMMA ReaderTypes ==
    /\ TypesInv
    /\ \/ SampleOnline \/ Sample \/ Save
       \/ \E q \in Reads : Snapshot(q) \/ ListOnline(q) \/ Answer(q)
       \/ \E q \in Reads, k \in Clients : AddLive(q, k)
    => TypesInv' /\ UNCHANGED sessionVars /\ totals' = totals
<1> SUFFICES ASSUME TypesInv
             PROVE  \/ SampleOnline \/ Sample \/ Save
                    \/ \E q \in Reads : Snapshot(q) \/ ListOnline(q) \/ Answer(q)
                    \/ \E q \in Reads, k \in Clients : AddLive(q, k)
                    => TypesInv' /\ UNCHANGED sessionVars /\ totals' = totals
    OBVIOUS
<1> DEFINE Points == Seq([totals : [Clients -> Nat], quiet : SUBSET Clients, known : [Clients -> Nat]])
<1>0. /\ totals \in [Clients -> Nat] /\ (file = Torn \/ file \in [Clients -> Nat])
      /\ saved \in [Clients -> Nat]
      /\ history \in Points /\ Len(history) <= HistoryPoints
      /\ sampler \in {"waiting", "sampling", "saving"} /\ live \in [Clients -> 0..MaxBytes]
      /\ rpc \in [Reads -> {"idle", "listing", "adding", "done", "broken"}]
      /\ todo \in [Reads -> SUBSET Clients] /\ answer \in [Reads -> [Clients -> Nat]]
      /\ noted \in [Readers -> [Clients -> Nat]] /\ moved \in [Readers -> SUBSET Clients]
      /\ HistoryPoints \in Nat \ {0} /\ MaxBytes \in Nat
      BY TrafficAssumption DEF TypesInv, TypeOK
<1>f. \A k \in Clients : Known(k) \in Nat /\ Live(k) \in 0..MaxBytes /\ Live(k) \in Nat
      BY FiguresHold DEF Figures
<1>r. Task \in Readers /\ Reads \subseteq Readers
      BY DEF Readers
<1>1. ASSUME UNCHANGED sessionVars, totals' = totals,
             /\ file' = Torn \/ file' \in [Clients -> Nat]
             /\ saved' \in [Clients -> Nat]
             /\ history' \in Points /\ Len(history') <= HistoryPoints
             /\ sampler' \in {"waiting", "sampling", "saving"} /\ live' \in [Clients -> 0..MaxBytes]
             /\ rpc' \in [Reads -> {"idle", "listing", "adding", "done", "broken"}]
             /\ todo' \in [Reads -> SUBSET Clients] /\ answer' \in [Reads -> [Clients -> Nat]]
             /\ noted' \in [Readers -> [Clients -> Nat]] /\ moved' \in [Readers -> SUBSET Clients]
             /\ crashes' = crashes
      PROVE  TypesInv'
      BY <1>1 DEF TypesInv, TypeOK, SessionsHeld, sessionVars
<1>2. ASSUME NEW r \in Readers, Begin(r)
      PROVE  noted' \in [Readers -> [Clients -> Nat]] /\ moved' \in [Readers -> SUBSET Clients]
  <2> DEFINE K == [k \in Clients |-> Known(k)]
             M == {k \in Clients : Pending(k) \ {online[k]} # {}}
  <2>1. K \in [Clients -> Nat] /\ M \in SUBSET Clients
        BY <1>f
  <2>2. noted' = [noted EXCEPT ![r] = K] /\ moved' = [moved EXCEPT ![r] = M]
        BY <1>2 DEF Begin
  <2> HIDE DEF K, M
  <2>. QED BY <1>0, <2>1, <2>2
<1>3. ASSUME SampleOnline PROVE TypesInv' /\ UNCHANGED sessionVars /\ totals' = totals
  <2>1. [k \in Clients |-> Live(k)] \in [Clients -> 0..MaxBytes]
        BY <1>f
  <2>2. /\ sampler' = "sampling" /\ live' \in [Clients -> 0..MaxBytes] /\ Begin(Task)
        /\ UNCHANGED <<sessionVars, totals, history, file, saved, crashes, rpc, todo, answer>>
        BY <1>3, <2>1 DEF SampleOnline, readVars
  <2>. QED BY <1>0, <1>1, <1>2, <1>r, <2>2
<1>4. ASSUME Sample PROVE TypesInv' /\ UNCHANGED sessionVars /\ totals' = totals
  <2> DEFINE kept == IF Len(history) >= HistoryPoints THEN Tail(history) ELSE history
             sums == [k \in Clients |-> totals[k] + live[k]]
             R == [totals : [Clients -> Nat], quiet : SUBSET Clients, known : [Clients -> Nat]]
             p == Point(sums)
  <2>1. /\ sampler' = "saving" /\ history' = Append(kept, p)
        /\ UNCHANGED <<sessionVars, totals, file, saved, crashes, live, rpc, todo, answer, noted, moved>>
        BY <1>4 DEF Sample, readVars
  <2>2. sums \in [Clients -> Nat]
        BY <1>0
  <2> HIDE DEF sums
  <2>3. noted[Task] \in [Clients -> Nat]
        BY <1>0, <1>r
  <2>4. p \in R
        BY <2>2, <2>3 DEF Point
  <2>5. Len(history) \in Nat /\ history \in Seq(R)
        BY <1>0, LenProperties
  <2> HIDE DEF p, R
  <2>6. kept \in Seq(R) /\ Len(kept) \in Nat /\ Len(kept) < HistoryPoints
    <3>1. CASE Len(history) >= HistoryPoints
      <4>1. history # <<>>
            BY <1>0, <3>1, EmptySeq
      <4>2. Tail(history) \in Seq(R) /\ Len(Tail(history)) = Len(history) - 1
            BY <2>5, <4>1, HeadTailProperties
      <4>. QED BY <1>0, <2>5, <3>1, <4>2
    <3>2. CASE Len(history) < HistoryPoints
          BY <1>0, <2>5, <3>2
    <3>. QED BY <1>0, <2>5, <3>1, <3>2
  <2> HIDE DEF kept
  <2>7. Append(kept, p) \in Seq(R) /\ Len(Append(kept, p)) = Len(kept) + 1
        BY <2>4, <2>6, AppendProperties
  <2>8. history' \in Points /\ Len(history') <= HistoryPoints
        BY <1>0, <2>1, <2>6, <2>7 DEF R
  <2>. QED BY <1>0, <1>1, <2>1, <2>8
<1>5. ASSUME Save PROVE TypesInv' /\ UNCHANGED sessionVars /\ totals' = totals
  <2>1. /\ sampler' = "waiting"
        /\ UNCHANGED <<sessionVars, totals, history, crashes, live, rpc, todo, answer, noted, moved>>
        /\ (file' = totals /\ saved' = totals) \/ (file' \in {file, Torn} /\ saved' = saved)
        BY <1>5 DEF Save, readVars
  <2>2. (file' = Torn \/ file' \in [Clients -> Nat]) /\ saved' \in [Clients -> Nat]
        BY <1>0, <2>1
  <2>. QED BY <1>0, <1>1, <2>1, <2>2
<1>6. ASSUME NEW q \in Reads, Snapshot(q) PROVE TypesInv' /\ UNCHANGED sessionVars /\ totals' = totals
  <2>1. /\ rpc' = [rpc EXCEPT ![q] = "listing"] /\ answer' = [answer EXCEPT ![q] = totals]
        /\ Begin(q) /\ UNCHANGED <<sessionVars, totals, history, file, saved, crashes, sampler, live, todo>>
        BY <1>6 DEF Snapshot, trackerVars
  <2>2. noted' \in [Readers -> [Clients -> Nat]] /\ moved' \in [Readers -> SUBSET Clients]
        BY <1>2, <1>r, <2>1
  <2>. QED BY <1>0, <1>1, <2>1, <2>2
<1>7. ASSUME NEW q \in Reads, ListOnline(q) PROVE TypesInv' /\ UNCHANGED sessionVars /\ totals' = totals
  <2>1. /\ rpc' = [rpc EXCEPT ![q] = "adding"]
        /\ todo' = [todo EXCEPT ![q] = {k \in Clients : online[k] # NoConn}]
        /\ UNCHANGED <<sessionVars, totals, history, file, saved, crashes, sampler, live, answer, noted, moved>>
        BY <1>7 DEF ListOnline, trackerVars
  <2>. QED BY <1>0, <1>1, <2>1
<1>8. ASSUME NEW q \in Reads, Answer(q) PROVE TypesInv' /\ UNCHANGED sessionVars /\ totals' = totals
  <2>1. /\ rpc' = [rpc EXCEPT ![q] = "done"]
        /\ UNCHANGED <<sessionVars, totals, history, file, saved, crashes, sampler, live, todo, answer, noted, moved>>
        BY <1>8 DEF Answer, trackerVars
  <2>. QED BY <1>0, <1>1, <2>1
<1>9. ASSUME NEW q \in Reads, NEW k \in Clients, AddLive(q, k)
      PROVE  TypesInv' /\ UNCHANGED sessionVars /\ totals' = totals
  <2>1. /\ todo' = [todo EXCEPT ![q] = @ \ {k}] /\ answer' = [answer EXCEPT ![q][k] = @ + Live(k)]
        /\ UNCHANGED <<sessionVars, totals, history, file, saved, crashes, sampler, live, rpc, noted, moved>>
        BY <1>9 DEF AddLive, trackerVars
  <2>2. answer[q] \in [Clients -> Nat] /\ Live(k) \in Nat
        BY <1>0, <1>f
  <2>3. [answer[q] EXCEPT ![k] = @ + Live(k)] \in [Clients -> Nat]
        BY <2>2
  <2>4. answer' \in [Reads -> [Clients -> Nat]] /\ todo' \in [Reads -> SUBSET Clients]
        BY <1>0, <2>1, <2>3
  <2>. QED BY <1>0, <1>1, <2>1, <2>4
<1>. QED BY <1>3, <1>4, <1>5, <1>6, <1>7, <1>8, <1>9

\* So does a restart, whatever it finds in the file.
LEMMA RestartTypes == TypesInv /\ Restart => TypesInv'
<1> SUFFICES ASSUME TypesInv, Restart PROVE TypesInv'
    OBVIOUS
<1>1. PICK left \in {file} \cup {Torn}, readable \in BOOLEAN :
          /\ file' = left /\ totals' = load(left, readable)
          /\ saved' = IF readable /\ left # Torn THEN saved ELSE Zero
      BY DEF Restart
<1>2. /\ crashes < MaxCrashes /\ crashes' = crashes + 1
      /\ phase' = [c \in Conns |-> IF phase[c] = "new" THEN "new" ELSE "lost"]
      /\ online' = [k \in Clients |-> NoConn] /\ history' = <<>> /\ sampler' = "waiting"
      /\ live' = [k \in Clients |-> 0]
      /\ rpc' = [q \in Reads |-> IF rpc[q] \in {"idle", "done"} THEN rpc[q] ELSE "broken"]
      /\ todo' = [q \in Reads |-> {}]
      /\ UNCHANGED <<client, bytes, answer, noted, moved>>
      BY DEF Restart, Zero
<1>3. /\ file' = Torn \/ file' \in [Clients -> Nat]
      /\ totals' \in [Clients -> Nat] /\ saved' \in [Clients -> Nat]
  <2>1. file = Torn \/ file \in [Clients -> Nat]
        BY DEF TypesInv, TypeOK
  <2>2. left = Torn \/ left \in [Clients -> Nat]
        BY <2>1
  <2>3. load(left, readable) \in [Clients -> Nat]
        BY <2>2 DEF load, Zero
  <2>4. saved' \in [Clients -> Nat]
        BY <1>1 DEF TypesInv, TypeOK, Zero
  <2>. QED BY <1>1, <2>2, <2>3, <2>4
<1>4. MaxCrashes \in Nat /\ MaxBytes \in Nat /\ HistoryPoints \in Nat /\ crashes \in 0..MaxCrashes
      BY TrafficAssumption DEF TypesInv, TypeOK
<1>5. crashes' \in 0..MaxCrashes /\ live' \in [Clients -> 0..MaxBytes]
      BY <1>2, <1>4
<1>6. phase' \in [Conns -> Phases] /\ online' \in [Clients -> Conns \cup {NoConn}]
      BY <1>2 DEF Phases
<1>7. /\ rpc' \in [Reads -> {"idle", "listing", "adding", "done", "broken"}]
      /\ todo' \in [Reads -> SUBSET Clients]
      BY <1>2
<1>8. history' \in Seq([totals : [Clients -> Nat], quiet : SUBSET Clients, known : [Clients -> Nat]])
      /\ Len(history') <= HistoryPoints
      BY <1>2, <1>4
<1>9. TypeOK'
      BY <1>2, <1>3, <1>5, <1>6, <1>7, <1>8 DEF TypesInv, TypeOK
<1>10. \A c \in Conns : phase'[c] = "new" <=> client'[c] = NoClient
       BY <1>2 DEF TypesInv, SessionsHeld
<1>11. SessionsHeld'
       BY <1>2, <1>10 DEF TypesInv, SessionsHeld
<1>. QED BY <1>9, <1>11 DEF TypesInv

\* So does every step.
LEMMA TypesStep == TypesInv /\ [Next]_vars => TypesInv'
<1>1. TypesInv /\ UNCHANGED vars => TypesInv'
      BY DEF TypesInv, TypeOK, SessionsHeld, vars, sessionVars, trackerVars, readVars
<1>. QED BY <1>1, SessionTypes, ReaderTypes, RestartTypes DEF Next, SessionMoves

\* The types hold at first.
LEMMA TypesInit == Init => TypesInv
<1> SUFFICES ASSUME Init PROVE TypesInv
    OBVIOUS
<1>1. {c \in Conns : client[c] # NoClient} = {}
      BY DEF Init
<1>2. SessionsHeld
      BY <1>1, FS_EmptySet DEF Init, SessionsHeld
<1>. QED BY <1>2, TrafficAssumption DEF Init, TypesInv, TypeOK, Zero, Phases

\* Every variable keeps its type, and the history its length.
THEOREM TypeCorrect == Spec => []TypeOK
<1>1. TypesInv => TypeOK
      BY DEF TypesInv
<1>. QED BY <1>1, TypesInit, TypesStep, PTL DEF Spec
-------------------------------------------------------------------------------
(* Steps of the sessions *)

\* What a step of a session does to the figures of a client: what is known and
\* what is online grow by no more than what was counted, and nothing but a
\* session that moves takes from what is online, or changes the totals.
Grows(k) == /\ Counted(k)' \in Nat /\ Known(k)' \in Nat /\ Live(k)' \in Nat
            /\ Counted(k) <= Counted(k)'
            /\ Known(k)' + Counted(k) <= Known(k) + Counted(k)'
            /\ Live(k)' + Counted(k) <= Live(k) + Counted(k)'
            /\ totals[k] <= totals'[k]
            /\ \/ Live(k) <= Live(k)' /\ totals'[k] = totals[k]
               \/ \A r \in Readers : k \in moved'[r]

\* Figures that are known as sums.
LEMMA FiguresAre ==
    \A k \in Clients :
        /\ Counted(k) = SumOf(bytes, SessionsOf(k))
        /\ Known(k) = totals[k] + SumOf(bytes, Pending(k))
        /\ Counted(k)' = SumOf(bytes', SessionsOf(k)')
        /\ Known(k)' = totals'[k] + SumOf(bytes', Pending(k)')
        /\ Live(k)' = IF online'[k] = NoConn THEN 0 ELSE bytes'[online'[k]]
BY DEF Counted, Known, Live, BytesOf, SumOf, MapThenSumSet, MapThenFoldSet

\* Every step of a session keeps to that.
LEMMA SessionStep ==
    ASSUME TypesInv, SessionMoves, NEW k \in Clients
    PROVE  Grows(k)
<1> DEFINE S == SessionsOf(k)
           P == Pending(k)
<1>0. /\ NoConn \notin Conns /\ NoClient \notin Clients
      /\ phase \in [Conns -> Phases] /\ client \in [Conns -> Clients \cup {NoClient}]
      /\ online \in [Clients -> Conns \cup {NoConn}] /\ bytes \in [Conns -> 0..MaxBytes]
      /\ totals \in [Clients -> Nat] /\ MaxBytes \in Nat
      BY TrafficAssumption DEF TypesInv, TypeOK
<1>1. /\ \A c \in Conns : phase[c] = "new" <=> client[c] = NoClient
      /\ \A j \in Clients : online[j] # NoConn => client[online[j]] = j /\ phase[online[j]] = "running"
      BY DEF TypesInv, SessionsHeld
<1>2. IsFiniteSet(S) /\ IsFiniteSet(P) /\ Live(k) \in Nat
      BY FiguresHold DEF Figures
<1>3. S \in SUBSET Conns /\ P \in SUBSET Conns
      BY DEF SessionsOf, Pending
<1>4. \A c \in Conns : bytes[c] \in Nat
      BY <1>0
<1>5. SumOf(bytes, S) \in Nat /\ SumOf(bytes, P) \in Nat /\ totals[k] \in Nat
      BY <1>0, <1>2, <1>3, <1>4, SumSplits
<1>6. ASSUME NEW c \in Conns, Count(c) PROVE Grows(k)
  <2>1. /\ bytes' = [bytes EXCEPT ![c] = @ + 1]
        /\ UNCHANGED <<phase, client, online, totals>>
        BY <1>6 DEF Count, trackerVars
  <2>2. S' = S /\ P' = P
        BY <2>1 DEF SessionsOf, Pending
  <2>3. \A d \in Conns : bytes'[d] = IF d = c THEN bytes[d] + 1 ELSE bytes[d]
        BY <1>0, <2>1
  <2>4. ASSUME NEW R \in SUBSET Conns, IsFiniteSet(R)
        PROVE  SumOf(bytes, R) \in Nat /\ SumOf(bytes', R) = SumOf(bytes, R) + (IF c \in R THEN 1 ELSE 0)
        BY <1>4, <2>3, <2>4, SumCounts
  <2> HIDE DEF S, P
  <2>5. /\ SumOf(bytes', S) = SumOf(bytes, S) + (IF c \in S THEN 1 ELSE 0)
        /\ SumOf(bytes', P) = SumOf(bytes, P) + (IF c \in P THEN 1 ELSE 0)
        BY <1>2, <1>3, <2>4
  <2>6. c \in P => c \in S
        BY DEF S, P, Pending
  <2>7. /\ Counted(k) = SumOf(bytes, S) /\ Counted(k)' = SumOf(bytes', S)
        /\ Known(k) = totals[k] + SumOf(bytes, P) /\ Known(k)' = totals[k] + SumOf(bytes', P)
        BY <2>1, <2>2, FiguresAre DEF S, P
  <2>8. /\ Live(k)' \in Nat /\ Live(k) <= Live(k)'
        /\ Live(k)' <= Live(k) + (IF c \in S THEN 1 ELSE 0)
    <3>1. CASE online[k] = NoConn
          BY <1>2, <2>1, <3>1 DEF Live
    <3>2. CASE online[k] # NoConn
      <4>1. PICK d \in Conns : d = online[k]
            BY <1>0, <3>2
      <4>2. d \in S
            BY <1>1, <3>2, <4>1 DEF S, SessionsOf
      <4>3. Live(k) = bytes[d] /\ Live(k)' = bytes'[d] /\ bytes[d] \in Nat
            BY <1>4, <2>1, <3>2, <4>1 DEF Live
      <4>. QED BY <2>3, <4>2, <4>3
    <3>. QED BY <3>1, <3>2
  <2>. QED BY <1>2, <1>5, <2>1, <2>5, <2>6, <2>7, <2>8 DEF Grows
<1>7. ASSUME S' = S, bytes' = bytes, Live(k)' \in Nat, Live(k)' <= Live(k), totals'[k] \in Nat,
             totals[k] <= totals'[k],
             totals'[k] + SumOf(bytes, P') = totals[k] + SumOf(bytes, P),
             \/ \A r \in Readers : k \in moved'[r]
             \/ Live(k)' = Live(k) /\ totals'[k] = totals[k]
      PROVE  Grows(k)
  <2>1. Counted(k)' = Counted(k) /\ Known(k)' = Known(k) /\ Counted(k) \in Nat /\ Known(k) \in Nat
        BY <1>5, <1>7, FiguresAre
  <2>. QED BY <1>2, <1>7, <2>1 DEF Grows
<1>8. ASSUME NEW c \in Conns, TunnelEnds(c) PROVE Grows(k)
  <2>1. /\ phase[c] = "running" /\ phase' = [phase EXCEPT ![c] = "merging"]
        /\ online' = [online EXCEPT ![client[c]] = IF @ = c THEN NoConn ELSE @]
        /\ moved' = [r \in Readers |-> moved[r] \cup {client[c]}]
        /\ UNCHANGED <<client, bytes, totals>>
        BY <1>8 DEF TunnelEnds, trackerVars, Moves
  <2>2. S' = S
        BY <2>1 DEF SessionsOf
  <2>3. P' = P
        BY <1>0, <2>1 DEF SessionsOf, Pending
  <2>4. CASE client[c] = k
    <3>1. Live(k)' \in Nat /\ Live(k)' <= Live(k)
          BY <1>0, <1>2, <2>1, <2>4 DEF Live
    <3>. QED BY <1>5, <1>7, <2>1, <2>2, <2>3, <2>4, <3>1
  <2>5. CASE client[c] # k
    <3>1. online'[k] = online[k]
          BY <1>0, <2>1, <2>5
    <3>2. Live(k)' = Live(k)
          BY <2>1, <3>1 DEF Live
    <3>. QED BY <1>2, <1>5, <1>7, <2>1, <2>2, <2>3, <3>2
  <2>. QED BY <2>4, <2>5
<1>9. ASSUME NEW c \in Conns, Merge(c) PROVE Grows(k)
  <2>1. /\ phase[c] = "merging" /\ phase' = [phase EXCEPT ![c] = "merged"]
        /\ totals' = [totals EXCEPT ![client[c]] = @ + bytes[c]]
        /\ moved' = [r \in Readers |-> moved[r] \cup {client[c]}]
        /\ UNCHANGED <<client, online, bytes>>
        BY <1>9 DEF Merge, Moves
  <2>2. S' = S /\ Live(k)' = Live(k)
        BY <2>1 DEF SessionsOf, Live
  <2>3. CASE client[c] = k
    <3>1. c \in P /\ P' = P \ {c}
          BY <1>0, <2>1, <2>3 DEF SessionsOf, Pending
    <3>2. totals'[k] = totals[k] + bytes[c] /\ bytes[c] \in Nat
          BY <1>0, <1>4, <2>1, <2>3
    <3> HIDE DEF S, P
    <3>3. SumOf(bytes, P) = bytes[c] + SumOf(bytes, P \ {c}) /\ SumOf(bytes, P \ {c}) \in Nat
          BY <1>2, <1>3, <1>4, <3>1, SumSplits
    <3>4. /\ totals'[k] \in Nat /\ totals[k] <= totals'[k]
          /\ totals'[k] + SumOf(bytes, P \ {c}) = totals[k] + SumOf(bytes, P)
          BY <1>5, <3>2, <3>3
    <3>5. \A r \in Readers : k \in moved'[r]
          BY <2>1, <2>3
    <3>. QED BY <1>2, <1>7, <2>1, <2>2, <3>1, <3>4, <3>5
  <2>4. CASE client[c] # k
    <3>1. P' = P
          BY <1>0, <2>1, <2>4 DEF SessionsOf, Pending
    <3>2. totals'[k] = totals[k]
          BY <1>0, <2>1, <2>4
    <3>. QED BY <1>2, <1>5, <1>7, <2>1, <2>2, <3>1, <3>2
  <2>. QED BY <2>3, <2>4
<1>10. ASSUME NEW j \in Clients, Kick(j) PROVE Grows(k)
  <2>1. /\ online' = [online EXCEPT ![j] = NoConn]
        /\ moved' = [r \in Readers |-> moved[r] \cup {j}]
        /\ UNCHANGED <<phase, client, bytes, totals>>
        BY <1>10 DEF Kick, Moves, trackerVars
  <2>2. S' = S /\ P' = P
        BY <2>1 DEF SessionsOf, Pending
  <2>3. CASE j = k
    <3>1. Live(k)' = 0
          BY <1>0, <2>1, <2>3 DEF Live
    <3>. QED BY <1>2, <1>5, <1>7, <2>1, <2>2, <2>3, <3>1
  <2>4. CASE j # k
    <3>1. online'[k] = online[k]
          BY <1>0, <2>1, <2>4
    <3>2. Live(k)' = Live(k)
          BY <2>1, <3>1 DEF Live
    <3>. QED BY <1>2, <1>5, <1>7, <2>1, <2>2, <3>2
  <2>. QED BY <2>3, <2>4
<1>11. ASSUME NEW j \in Clients, NEW c \in Conns, TunnelUp(c, j) PROVE Grows(k)
  <2>1. /\ phase[c] = "new" /\ online[j] = NoConn
        /\ phase' = [phase EXCEPT ![c] = "running"]
        /\ client' = [client EXCEPT ![c] = j]
        /\ online' = [online EXCEPT ![j] = c]
        /\ UNCHANGED <<bytes, totals>>
        BY <1>11 DEF TunnelUp, trackerVars
  <2>2. client[c] = NoClient
        BY <1>1, <2>1
  <2>3. CASE j = k
    <3>1. c \notin S /\ c \notin P /\ S' = S \cup {c} /\ P' = P \cup {c}
          BY <1>0, <2>1, <2>2, <2>3 DEF SessionsOf, Pending
    <3>2. Live(k) = 0 /\ Live(k)' = bytes[c] /\ bytes[c] \in Nat
          BY <1>0, <1>4, <2>1, <2>3 DEF Live
    <3> HIDE DEF S, P
    <3>3. ASSUME NEW R \in SUBSET Conns, IsFiniteSet(R), c \notin R
          PROVE  SumOf(bytes, R \cup {c}) = bytes[c] + SumOf(bytes, R)
      <4>1. \A d \in R \cup {c} : bytes[d] \in Nat
            BY <1>4
      <4>. QED BY <3>3, <4>1, SumAdds
    <3>4. /\ SumOf(bytes, S \cup {c}) = bytes[c] + SumOf(bytes, S)
          /\ SumOf(bytes, P \cup {c}) = bytes[c] + SumOf(bytes, P)
          BY <1>2, <1>3, <3>1, <3>3
    <3>5. /\ Counted(k) = SumOf(bytes, S) /\ Counted(k)' = SumOf(bytes, S \cup {c})
          /\ Known(k) = totals[k] + SumOf(bytes, P) /\ Known(k)' = totals[k] + SumOf(bytes, P \cup {c})
          BY <2>1, <3>1, FiguresAre DEF S, P
    <3>. QED BY <1>5, <2>1, <3>2, <3>4, <3>5 DEF Grows
  <2>4. CASE j # k
    <3>1. S' = S /\ P' = P /\ online'[k] = online[k]
          BY <1>0, <2>1, <2>2, <2>4 DEF SessionsOf, Pending
    <3>2. Live(k)' = Live(k)
          BY <2>1, <3>1 DEF Live
    <3>. QED BY <1>2, <1>5, <1>7, <2>1, <3>1, <3>2
  <2>. QED BY <2>3, <2>4
<1>. QED BY <1>6, <1>8, <1>9, <1>10, <1>11 DEF SessionMoves

\* What a step of a session leaves alone.
LEMMA SessionFrame ==
    ASSUME TypesInv, SessionMoves
    PROVE  /\ UNCHANGED <<file, saved, history, sampler, live, rpc, todo, answer, noted>>
           /\ \A r \in Readers : moved[r] \subseteq moved'[r]
<1>1. ASSUME UNCHANGED noted, moved' = moved \/ \E k : Moves(k)
      PROVE  UNCHANGED noted /\ \A r \in Readers : moved[r] \subseteq moved'[r]
      BY <1>1 DEF Moves
<1>. QED BY <1>1 DEF SessionMoves, Count, TunnelEnds, Merge, Kick, TunnelUp, trackerVars, readVars, Moves

\* The points of the history have their fields.
LEMMA PointTypes ==
    TypesInv => \A i \in DOMAIN history : /\ history[i].quiet \subseteq Clients
                                          /\ history[i].totals \in [Clients -> Nat]
                                          /\ history[i].known \in [Clients -> Nat]
<1> DEFINE R == [totals : [Clients -> Nat], quiet : SUBSET Clients, known : [Clients -> Nat]]
<1>1. TypesInv => history \in Seq(R)
      BY DEF TypesInv, TypeOK
<1> HIDE DEF R
<1>2. ASSUME history \in Seq(R), NEW i \in DOMAIN history PROVE history[i] \in R
  <2>1. i \in 1..Len(history)
        BY <1>2, LenProperties
  <2>. QED BY <1>2, <2>1, ElementOfSeq
<1>. QED BY <1>1, <1>2 DEF R

\* No step of a session leaves the invariant.
LEMMA SessionKeeps == IInv /\ SessionMoves => IInv'
<1> SUFFICES ASSUME IInv, SessionMoves PROVE IInv'
    OBVIOUS
<1>1. TypesInv /\ TypesInv'
      BY SessionTypes DEF IInv
<1>2. /\ UNCHANGED <<file, saved, history, sampler, live, rpc, todo, answer, noted>>
      /\ \A r \in Readers : moved[r] \subseteq moved'[r]
      BY <1>1, SessionFrame
<1>3. \A k \in Clients : Grows(k) /\ Figures(k)
      BY <1>1, SessionStep, FiguresHold
<1>4. Task \in Readers /\ Reads \subseteq Readers
      BY DEF Readers
<1>5. /\ totals \in [Clients -> Nat] /\ totals' \in [Clients -> Nat] /\ live \in [Clients -> Nat]
      /\ answer \in [Reads -> [Clients -> Nat]] /\ noted \in [Readers -> [Clients -> Nat]]
      /\ (file = Torn \/ file \in [Clients -> Nat]) /\ saved \in [Clients -> Nat]
  <2>1. \A n \in 0..MaxBytes : n \in Nat
        BY TrafficAssumption
  <2>. QED BY <1>1, <2>1 DEF TypesInv, TypeOK
<1>6. FileBehind' /\ SavedTotalsSurvive'
  <2>1. ASSUME file # Torn, NEW k \in Clients PROVE file[k] <= Counted(k)'
    <3>1. file[k] <= Counted(k) /\ Counted(k) <= Counted(k)'
          BY <1>3, <2>1 DEF IInv, FileBehind, Grows
    <3>2. file[k] \in Nat /\ Counted(k) \in Nat /\ Counted(k)' \in Nat
          BY <1>3, <1>5, <2>1 DEF Figures, Grows
    <3>. QED BY <3>1, <3>2
  <2>2. ASSUME NEW k \in Clients PROVE saved[k] <= totals'[k]
    <3>1. saved[k] <= totals[k] /\ totals[k] <= totals'[k]
          BY <1>3 DEF IInv, SavedTotalsSurvive, Grows
    <3>2. saved[k] \in Nat /\ totals[k] \in Nat /\ totals'[k] \in Nat
          BY <1>5
    <3>. QED BY <3>1, <3>2
  <2>3. FileBehind'
        BY <1>2, <2>1 DEF FileBehind
  <2>. QED BY <1>2, <2>2, <2>3 DEF IInv, SavedTotalsSurvive
<1>7. KnownCounted'
  <2>1. ASSUME NEW k \in Clients PROVE Known(k)' <= Counted(k)'
        BY <1>3 DEF IInv, KnownCounted, Grows, Figures
  <2>. QED BY <2>1 DEF KnownCounted
<1>8. AnswersCounted'
  <2>1. ASSUME NEW q \in Reads, NEW k \in Clients
        PROVE  /\ answer[q][k] <= Counted(k)'
               /\ Awaits(q, k) => answer[q][k] + Live(k)' <= Counted(k)'
    <3>1. answer[q][k] \in Nat
          BY <1>5
    <3>. QED BY <1>3, <3>1 DEF IInv, AnswersCounted, Grows, Figures
  <2>2. \A q \in Reads, k \in Clients : Awaits(q, k)' <=> Awaits(q, k)
        BY <1>2 DEF Awaits
  <2>. QED BY <1>2, <2>1, <2>2 DEF AnswersCounted
<1>9. AnswersComplete'
  <2>1. ASSUME NEW q \in Reads, NEW k \in Clients \ moved'[q]
        PROVE  /\ Awaits(q, k) => noted[q][k] <= answer[q][k] + Live(k)'
               /\ rpc[q] \in {"adding", "done"} /\ ~ Awaits(q, k) => noted[q][k] <= answer[q][k]
    <3>1. answer[q][k] \in Nat /\ noted[q][k] \in Nat /\ k \notin moved[q]
          BY <1>2, <1>4, <1>5
    <3>2. Live(k) <= Live(k)' /\ Live(k) \in Nat /\ Live(k)' \in Nat
          BY <1>3, <1>4 DEF Grows, Figures
    <3>. QED BY <3>1, <3>2 DEF IInv, AnswersComplete
  <2>2. \A q \in Reads, k \in Clients : Awaits(q, k)' <=> Awaits(q, k)
        BY <1>2 DEF Awaits
  <2>. QED BY <1>2, <2>1, <2>2 DEF AnswersComplete
<1>10. SampleComplete'
  <2>1. ASSUME sampler = "sampling", NEW k \in Clients \ moved'[Task]
        PROVE  noted[Task][k] = totals'[k] + live[k] /\ totals'[k] + live[k] <= Counted(k)'
    <3>1. totals'[k] = totals[k] /\ k \notin moved[Task]
          BY <1>2, <1>3, <1>4 DEF Grows
    <3>2. totals[k] \in Nat /\ live[k] \in Nat
          BY <1>5
    <3>. QED BY <1>3, <2>1, <3>1, <3>2 DEF IInv, SampleComplete, Grows, Figures
  <2>. QED BY <1>2, <2>1 DEF SampleComplete
<1>11. PointsComplete'
  <2>1. ASSUME NEW i \in DOMAIN history, NEW k \in history[i].quiet
        PROVE  history[i].known[k] <= history[i].totals[k] /\ history[i].totals[k] <= Counted(k)'
    <3>1. k \in Clients /\ history[i].totals[k] \in Nat
          BY <1>1, PointTypes
    <3>. QED BY <1>3, <3>1 DEF IInv, PointsComplete, Grows, Figures
  <2>. QED BY <1>2, <2>1 DEF PointsComplete
<1>. QED BY <1>1, <1>6, <1>7, <1>8, <1>9, <1>10, <1>11 DEF IInv
-------------------------------------------------------------------------------
(* Steps of the task, the readers and a restart *)

\* The sessions, and so the figures, do not change.
LEMMA FiguresStay ==
    ASSUME UNCHANGED sessionVars, totals' = totals
    PROVE  \A k \in Clients : /\ Counted(k)' = Counted(k) /\ Known(k)' = Known(k) /\ Live(k)' = Live(k)
                              /\ Pending(k)' = Pending(k)
<1>1. \A k \in Clients : SessionsOf(k)' = SessionsOf(k) /\ Pending(k)' = Pending(k) /\ Live(k)' = Live(k)
      BY DEF sessionVars, SessionsOf, Pending, Live
<1>2. bytes' = bytes
      BY DEF sessionVars
<1>. QED BY <1>1, <1>2, FiguresAre

\* Nor does a step of the periodic task.
LEMMA SamplerKeeps == IInv /\ (SampleOnline \/ Sample \/ Save) => IInv'
<1> SUFFICES ASSUME IInv, SampleOnline \/ Sample \/ Save PROVE IInv'
    OBVIOUS
<1>1. TypesInv /\ TypesInv' /\ UNCHANGED sessionVars /\ totals' = totals
      BY ReaderTypes DEF IInv
<1>2. \A k \in Clients : /\ Counted(k)' = Counted(k) /\ Known(k)' = Known(k) /\ Live(k)' = Live(k)
                         /\ Figures(k) /\ totals[k] \in Nat
      BY <1>1, FiguresStay, FiguresHold DEF TypesInv, TypeOK
<1>3. UNCHANGED <<rpc, todo, answer>>
      BY DEF SampleOnline, Sample, Save, readVars
<1>4. Task \in Readers /\ Reads \subseteq Readers /\ Task \notin Reads
      BY TrafficAssumption DEF Readers
<1>5. \A q \in Reads, k \in Clients : Awaits(q, k)' <=> Awaits(q, k)
      BY <1>3 DEF Awaits
<1>6. KnownCounted' /\ AnswersCounted'
      BY <1>2, <1>3, <1>5 DEF IInv, KnownCounted, AnswersCounted
<1>7. \A q \in Reads : noted'[q] = noted[q] /\ moved'[q] = moved[q]
  <2>1. noted \in [Readers -> [Clients -> Nat]] /\ moved \in [Readers -> SUBSET Clients]
        BY <1>1 DEF TypesInv, TypeOK
  <2>2. \/ UNCHANGED <<noted, moved>>
        \/ Begin(Task)
        BY DEF SampleOnline, Sample, Save
  <2>. QED BY <1>4, <2>1, <2>2 DEF Begin
<1>8. AnswersComplete'
  <2>1. ASSUME NEW q \in Reads, NEW k \in Clients \ moved[q]
        PROVE  /\ Awaits(q, k)' => noted'[q][k] <= answer'[q][k] + Live(k)'
               /\ rpc'[q] \in {"adding", "done"} /\ ~ Awaits(q, k)' => noted'[q][k] <= answer'[q][k]
        BY <1>2, <1>3, <1>5, <1>7 DEF IInv, AnswersComplete
  <2>. QED BY <1>7, <2>1 DEF AnswersComplete
<1>9. FileBehind' /\ SavedTotalsSurvive'
  <2>1. (file' \in {file, Torn} /\ saved' = saved) \/ (file' = totals /\ saved' = totals)
        BY DEF SampleOnline, Sample, Save
  <2>2. ASSUME NEW k \in Clients PROVE totals[k] <= Counted(k) /\ totals[k] <= totals[k]
    <3>1. totals[k] + Live(k) <= Known(k) /\ Live(k) \in Nat /\ Known(k) \in Nat /\ Counted(k) \in Nat
          BY <1>2 DEF Figures
    <3>. QED BY <1>2, <3>1 DEF IInv, KnownCounted
  <2>3. ASSUME file' # Torn, NEW k \in Clients PROVE file'[k] <= Counted(k)
        BY <2>1, <2>2, <2>3 DEF IInv, FileBehind
  <2>4. ASSUME NEW k \in Clients PROVE saved'[k] <= totals[k] /\ (file' # Torn => saved'[k] <= file'[k])
        BY <2>1, <2>2 DEF IInv, SavedTotalsSurvive
  <2>5. FileBehind'
        BY <1>2, <2>3 DEF FileBehind
  <2>. QED BY <1>1, <2>4, <2>5 DEF SavedTotalsSurvive
<1>10. SampleComplete'
  <2>1. CASE SampleOnline
    <3>1. /\ noted' = [noted EXCEPT ![Task] = [k \in Clients |-> Known(k)]]
          /\ moved' = [moved EXCEPT ![Task] = {k \in Clients : Pending(k) \ {online[k]} # {}}]
          /\ live' = [k \in Clients |-> Live(k)]
          BY <2>1 DEF SampleOnline, Begin
    <3>2. noted \in [Readers -> [Clients -> Nat]] /\ moved \in [Readers -> SUBSET Clients]
          BY <1>1 DEF TypesInv, TypeOK
    <3>3. /\ noted'[Task] = [k \in Clients |-> Known(k)]
          /\ moved'[Task] = {k \in Clients : Pending(k) \ {online[k]} # {}}
          BY <1>4, <3>1, <3>2
    <3>4. ASSUME NEW k \in Clients \ moved'[Task]
          PROVE  noted'[Task][k] = totals'[k] + live'[k] /\ totals'[k] + live'[k] <= Counted(k)'
      <4>1. Pending(k) \ {online[k]} = {}
            BY <3>3, <3>4
      <4>2. noted'[Task][k] = Known(k) /\ live'[k] = Live(k) /\ Known(k) = totals[k] + Live(k)
            BY <1>2, <3>1, <3>3, <4>1 DEF Figures
      <4>. QED BY <1>1, <1>2, <4>2 DEF IInv, KnownCounted
    <3>. QED BY <3>4 DEF SampleComplete
  <2>2. CASE Sample \/ Save
        BY <2>2 DEF Sample, Save, SampleComplete
  <2>. QED BY <2>1, <2>2
<1>11. PointsComplete'
  <2>1. CASE SampleOnline \/ Save
    <3>1. history' = history
          BY <2>1 DEF SampleOnline, Save
    <3>2. ASSUME NEW i \in DOMAIN history, NEW k \in history[i].quiet
          PROVE  history[i].known[k] <= history[i].totals[k] /\ history[i].totals[k] <= Counted(k)'
          BY <1>1, <1>2, PointTypes DEF IInv, PointsComplete
    <3>. QED BY <3>1, <3>2 DEF PointsComplete
  <2>2. CASE Sample
    <3> DEFINE kept == IF Len(history) >= HistoryPoints THEN Tail(history) ELSE history
               p == Point([k \in Clients |-> totals[k] + live[k]])
               R == [totals : [Clients -> Nat], quiet : SUBSET Clients, known : [Clients -> Nat]]
               Good(r) == \A k \in r.quiet : r.known[k] <= r.totals[k] /\ r.totals[k] <= Counted(k)
    <3>1. sampler = "sampling" /\ history' = Append(kept, p)
          BY <2>2 DEF Sample
    <3>2. Good(p)
      <4>1. /\ p.quiet = Clients \ moved[Task] /\ p.known = noted[Task]
            /\ p.totals = [k \in Clients |-> totals[k] + live[k]]
            BY DEF Point
      <4>2. ASSUME NEW k \in Clients \ moved[Task]
            PROVE  noted[Task][k] <= totals[k] + live[k] /\ totals[k] + live[k] <= Counted(k)
        <5>1. live[k] \in Nat
          <6>1. live[k] \in 0..MaxBytes
                BY <1>1 DEF TypesInv, TypeOK
          <6>. QED BY <6>1, TrafficAssumption
        <5>. QED BY <1>2, <3>1, <5>1 DEF IInv, SampleComplete
      <4>. QED BY <4>1, <4>2
    <3>3. history \in Seq(R) /\ Len(history) \in Nat /\ HistoryPoints \in Nat \ {0}
          BY <1>1, TrafficAssumption, LenProperties DEF TypesInv, TypeOK
    <3>4. ASSUME NEW i \in DOMAIN history PROVE Good(history[i]) /\ history[i].quiet \subseteq Clients
          BY <1>1, PointTypes DEF IInv, PointsComplete
    <3> HIDE DEF p, R, Good
    <3>5. \E S : kept \in Seq(S) /\ \A i \in 1..Len(kept) : Good(kept[i]) /\ kept[i].quiet \subseteq Clients
      <4>1. DOMAIN history = 1..Len(history)
            BY <3>3, LenProperties
      <4>2. CASE Len(history) >= HistoryPoints
        <5>1. history # <<>>
              BY <3>3, <4>2, EmptySeq
        <5>2. /\ Tail(history) \in Seq(R) /\ Len(Tail(history)) = Len(history) - 1
              /\ \A i \in 1..Len(Tail(history)) : Tail(history)[i] = history[i + 1]
              BY <3>3, <5>1, HeadTailProperties
        <5>3. \A i \in 1..Len(Tail(history)) : i + 1 \in 1..Len(history)
              BY <3>3, <5>2
        <5>4. kept = Tail(history)
              BY <4>2
        <5> HIDE DEF kept
        <5>. QED BY <3>4, <4>1, <5>2, <5>3, <5>4
      <4>3. CASE ~(Len(history) >= HistoryPoints)
        <5>1. kept = history
              BY <4>3
        <5> HIDE DEF kept
        <5>. QED BY <3>3, <3>4, <4>1, <5>1
      <4>. QED BY <4>2, <4>3
    <3> HIDE DEF kept
    <3>6. ASSUME NEW i \in DOMAIN history' PROVE Good(history'[i]) /\ history'[i].quiet \subseteq Clients
      <4>1. PICK S : kept \in Seq(S) /\ \A j \in 1..Len(kept) : Good(kept[j]) /\ kept[j].quiet \subseteq Clients
            BY <3>5
      <4>2. kept \in Seq(S \cup {p}) /\ p \in S \cup {p} /\ Len(kept) \in Nat
            BY <4>1, SeqMonotonic, LenProperties
      <4>3. /\ Append(kept, p) \in Seq(S \cup {p}) /\ Len(Append(kept, p)) = Len(kept) + 1
            /\ \A j \in 1..Len(kept) : Append(kept, p)[j] = kept[j]
            /\ Append(kept, p)[Len(kept) + 1] = p
            BY <4>2, AppendProperties
      <4>4. i \in 1..(Len(kept) + 1)
            BY <3>1, <4>3, LenProperties
      <4>5. CASE i = Len(kept) + 1
        <5>1. history'[i] = p
              BY <3>1, <4>3, <4>5
        <5>2. p.quiet \subseteq Clients
              BY DEF p, Point
        <5>. QED BY <3>2, <5>1, <5>2
      <4>6. CASE i # Len(kept) + 1
        <5>1. i \in 1..Len(kept)
              BY <4>2, <4>4, <4>6
        <5>. QED BY <3>1, <4>1, <4>3, <5>1
      <4>. QED BY <4>5, <4>6
    <3>7. ASSUME NEW i \in DOMAIN history', NEW k \in history'[i].quiet
          PROVE  history'[i].known[k] <= history'[i].totals[k] /\ history'[i].totals[k] <= Counted(k)'
      <4>1. Counted(k)' = Counted(k)
            BY <1>2, <3>6, <3>7
      <4>. QED BY <3>6, <3>7, <4>1 DEF Good
    <3>. QED BY <3>7 DEF PointsComplete
  <2>. QED BY <2>1, <2>2
<1>. QED BY <1>1, <1>6, <1>8, <1>9, <1>10, <1>11 DEF IInv

\* The steps of a console request change its own fields.
LEMMA ReaderKeeps ==
    ASSUME IInv, NEW q \in Reads,
           Snapshot(q) \/ ListOnline(q) \/ Answer(q) \/ \E k \in Clients : AddLive(q, k)
    PROVE  IInv'
<1>1. TypesInv /\ TypesInv' /\ UNCHANGED sessionVars /\ totals' = totals
      BY ReaderTypes DEF IInv
<1>2. \A k \in Clients : /\ Counted(k)' = Counted(k) /\ Known(k)' = Known(k) /\ Live(k)' = Live(k)
                         /\ Figures(k) /\ totals[k] \in Nat
      BY <1>1, FiguresStay, FiguresHold DEF TypesInv, TypeOK
<1>3. UNCHANGED <<file, saved, history, sampler, live>> /\ UNCHANGED online
      BY DEF Snapshot, ListOnline, Answer, AddLive, trackerVars, sessionVars
<1>4. q \in Readers /\ Task \in Readers /\ q # Task /\ Reads \subseteq Readers
      BY TrafficAssumption DEF Readers
<1>5. /\ rpc \in [Reads -> {"idle", "listing", "adding", "done", "broken"}]
      /\ todo \in [Reads -> SUBSET Clients] /\ answer \in [Reads -> [Clients -> Nat]]
      /\ noted \in [Readers -> [Clients -> Nat]] /\ moved \in [Readers -> SUBSET Clients]
      BY <1>1 DEF TypesInv, TypeOK
<1>6. UNCHANGED <<noted, moved>> \/ Begin(q)
      BY DEF Snapshot, ListOnline, Answer, AddLive
<1>7. \A r \in Readers : r # q => noted'[r] = noted[r] /\ moved'[r] = moved[r]
      BY <1>5, <1>6 DEF Begin
<1>8. \A r \in Reads : r # q => answer'[r] = answer[r] /\ rpc'[r] = rpc[r] /\ todo'[r] = todo[r]
      BY <1>5 DEF Snapshot, ListOnline, Answer, AddLive
<1>9. FileBehind' /\ SavedTotalsSurvive' /\ KnownCounted'
      BY <1>1, <1>2, <1>3 DEF IInv, FileBehind, SavedTotalsSurvive, KnownCounted
<1>10. SampleComplete'
  <2>1. noted'[Task] = noted[Task] /\ moved'[Task] = moved[Task]
        BY <1>4, <1>7
  <2>2. ASSUME sampler = "sampling", NEW k \in Clients \ moved[Task]
        PROVE  noted[Task][k] = totals'[k] + live'[k] /\ totals'[k] + live'[k] <= Counted(k)'
        BY <1>1, <1>2, <1>3, <2>2 DEF IInv, SampleComplete
  <2>. QED BY <1>3, <2>1, <2>2 DEF SampleComplete
<1>11. PointsComplete'
  <2>1. ASSUME NEW i \in DOMAIN history, NEW k \in history[i].quiet
        PROVE  history[i].known[k] <= history[i].totals[k] /\ history[i].totals[k] <= Counted(k)'
        BY <1>1, <1>2, PointTypes DEF IInv, PointsComplete
  <2>. QED BY <1>3, <2>1 DEF PointsComplete
\* What is to be shown of the request itself, for a client.
<1> DEFINE Below(k) == /\ answer'[q][k] <= Counted(k)
                       /\ Awaits(q, k)' => answer'[q][k] + Live(k) <= Counted(k)
           Enough(k) == k \notin moved'[q] =>
               /\ Awaits(q, k)' => noted'[q][k] <= answer'[q][k] + Live(k)
               /\ rpc'[q] \in {"adding", "done"} /\ ~ Awaits(q, k)' => noted'[q][k] <= answer'[q][k]
<1>12. ASSUME NEW k \in Clients PROVE Below(k) /\ Enough(k)
  <2>1. /\ answer[q][k] \in Nat /\ noted[q][k] \in Nat /\ Live(k) \in Nat /\ Counted(k) \in Nat
        /\ Known(k) \in Nat /\ totals[k] \in Nat
        BY <1>2, <1>4, <1>5, <1>12 DEF Figures
  <2>2. /\ answer[q][k] <= Counted(k)
        /\ Awaits(q, k) => answer[q][k] + Live(k) <= Counted(k)
        BY <1>12 DEF IInv, AnswersCounted
  <2>3. k \notin moved[q] =>
            /\ Awaits(q, k) => noted[q][k] <= answer[q][k] + Live(k)
            /\ rpc[q] \in {"adding", "done"} /\ ~ Awaits(q, k) => noted[q][k] <= answer[q][k]
        BY <1>12 DEF IInv, AnswersComplete
  <2>4. CASE Snapshot(q)
    <3>1. /\ answer'[q] = totals /\ rpc'[q] = "listing"
          /\ noted'[q] = [j \in Clients |-> Known(j)]
          /\ moved'[q] = {j \in Clients : Pending(j) \ {online[j]} # {}}
          BY <1>4, <1>5, <2>4 DEF Snapshot, Begin
    <3>2. totals[k] + Live(k) <= Known(k) /\ (Pending(k) \ {online[k]} = {} => Known(k) = totals[k] + Live(k))
          BY <1>2, <1>12 DEF Figures
    <3>3. Known(k) <= Counted(k)
          BY <1>12 DEF IInv, KnownCounted
    <3>4. Awaits(q, k)' /\ noted'[q][k] = Known(k) /\ answer'[q][k] = totals[k]
      <4>1. Awaits(q, k)'
            BY <3>1 DEF Awaits
      <4>2. answer'[q][k] = totals[k]
            BY <3>1
      <4>3. [j \in Clients |-> Known(j)][k] = Known(k)
            BY <1>12
      <4>. QED BY <3>1, <4>1, <4>2, <4>3
    <3>5. k \notin moved'[q] => Known(k) = totals[k] + Live(k)
          BY <1>12, <3>1, <3>2
    <3>6. Below(k)
          BY <2>1, <3>2, <3>3, <3>4
    <3>7. k \notin moved'[q] => noted'[q][k] <= answer'[q][k] + Live(k)
          BY <2>1, <3>4, <3>5
    <3>. QED BY <3>4, <3>6, <3>7
  <2>5. CASE ListOnline(q)
    <3>1. /\ rpc[q] = "listing" /\ rpc'[q] = "adding" /\ todo'[q] = {j \in Clients : online[j] # NoConn}
          /\ UNCHANGED <<answer, noted, moved>>
          BY <1>5, <2>5 DEF ListOnline
    <3>2. Awaits(q, k) /\ (Awaits(q, k)' <=> online[k] # NoConn)
      <4>1. k \in todo'[q] <=> online[k] # NoConn
            BY <1>12, <3>1
      <4>. QED BY <3>1, <4>1 DEF Awaits
    <3>3. online[k] = NoConn => Live(k) = 0
          BY DEF Live
    <3>. QED BY <2>1, <2>2, <2>3, <3>1, <3>2, <3>3
  <2>6. CASE Answer(q)
    <3>1. /\ rpc[q] = "adding" /\ rpc'[q] = "done" /\ todo[q] = {}
          /\ UNCHANGED <<todo, answer, noted, moved>>
          BY <1>5, <2>6 DEF Answer
    <3>2. ~ Awaits(q, k) /\ ~ Awaits(q, k)'
          BY <3>1 DEF Awaits
    <3>. QED BY <2>2, <2>3, <3>1, <3>2
  <2>7. ASSUME NEW j \in Clients, AddLive(q, j) PROVE Below(k) /\ Enough(k)
    <3>1. /\ rpc[q] = "adding" /\ j \in todo[q] /\ todo'[q] = todo[q] \ {j}
          /\ answer'[q][k] = IF k = j THEN answer[q][k] + Live(k) ELSE answer[q][k]
          /\ UNCHANGED <<rpc, noted, moved>>
      <4>1. /\ rpc[q] = "adding" /\ j \in todo[q] /\ todo' = [todo EXCEPT ![q] = @ \ {j}]
            /\ answer' = [answer EXCEPT ![q][j] = @ + Live(j)]
            /\ UNCHANGED <<rpc, noted, moved>>
            BY <2>7 DEF AddLive
      <4>2. answer'[q] = [answer[q] EXCEPT ![j] = @ + Live(j)] /\ answer[q] \in [Clients -> Nat]
            BY <1>5, <4>1
      <4>. QED BY <1>5, <1>12, <4>1, <4>2
    <3>2. CASE k = j
      <4>1. Awaits(q, k) /\ ~ Awaits(q, k)' /\ answer'[q][k] = answer[q][k] + Live(k)
            BY <3>1, <3>2 DEF Awaits
      <4>. QED BY <2>1, <2>2, <2>3, <3>1, <4>1
    <3>3. CASE k # j
      <4>1. (Awaits(q, k)' <=> Awaits(q, k)) /\ answer'[q][k] = answer[q][k]
            BY <3>1, <3>3 DEF Awaits
      <4>. QED BY <2>2, <2>3, <3>1, <4>1
    <3>. QED BY <3>2, <3>3
  <2>. QED BY <2>4, <2>5, <2>6, <2>7
<1>13. \A r \in Reads, k \in Clients : r # q => (Awaits(r, k)' <=> Awaits(r, k))
       BY <1>8 DEF Awaits
<1>14. AnswersCounted'
  <2>1. ASSUME NEW r \in Reads, NEW k \in Clients
        PROVE  /\ answer'[r][k] <= Counted(k)'
               /\ Awaits(r, k)' => answer'[r][k] + Live(k)' <= Counted(k)'
    <3>1. CASE r = q
          BY <1>2, <1>12, <3>1
    <3>2. CASE r # q
          BY <1>2, <1>8, <1>13, <3>2 DEF IInv, AnswersCounted
    <3>. QED BY <3>1, <3>2
  <2>. QED BY <2>1 DEF AnswersCounted
<1>15. AnswersComplete'
  <2>1. ASSUME NEW r \in Reads, NEW k \in Clients \ moved'[r]
        PROVE  /\ Awaits(r, k)' => noted'[r][k] <= answer'[r][k] + Live(k)'
               /\ rpc'[r] \in {"adding", "done"} /\ ~ Awaits(r, k)' => noted'[r][k] <= answer'[r][k]
    <3>1. CASE r = q
          BY <1>2, <1>12, <2>1, <3>1
    <3>2. CASE r # q
          BY <1>2, <1>4, <1>7, <1>8, <1>13, <2>1, <3>2 DEF IInv, AnswersComplete
    <3>. QED BY <3>1, <3>2
  <2>. QED BY <2>1 DEF AnswersComplete
<1>. QED BY <1>1, <1>9, <1>10, <1>11, <1>14, <1>15 DEF IInv

\* A restart ends every session, so that nothing is pending, and reads back a
\* file that is not ahead of the totals, or nothing.
LEMMA RestartKeeps == IInv /\ Restart => IInv'
<1> SUFFICES ASSUME IInv, Restart PROVE IInv'
    OBVIOUS
<1>1. TypesInv /\ TypesInv'
      BY RestartTypes DEF IInv
<1>2. PICK left \in {file} \cup {Torn}, readable \in BOOLEAN :
          /\ file' = left /\ totals' = load(left, readable)
          /\ saved' = IF readable /\ left # Torn THEN saved ELSE Zero
      BY DEF Restart
<1>3. /\ phase' = [c \in Conns |-> IF phase[c] = "new" THEN "new" ELSE "lost"]
      /\ online' = [k \in Clients |-> NoConn] /\ history' = <<>> /\ sampler' = "waiting"
      /\ rpc' = [q \in Reads |-> IF rpc[q] \in {"idle", "done"} THEN rpc[q] ELSE "broken"]
      /\ todo' = [q \in Reads |-> {}]
      /\ UNCHANGED <<client, bytes, answer, noted, moved>>
      BY DEF Restart, Zero
<1>4. \A k \in Clients : /\ Counted(k) \in Nat /\ Known(k) \in Nat /\ BytesOf(Pending(k)) \in Nat
                         /\ totals[k] \in Nat /\ Known(k) = totals[k] + BytesOf(Pending(k))
      BY <1>1, FiguresHold DEF Figures, Known, TypesInv, TypeOK
<1>5. /\ totals \in [Clients -> Nat] /\ (file = Torn \/ file \in [Clients -> Nat])
      /\ rpc \in [Reads -> {"idle", "listing", "adding", "done", "broken"}]
      /\ saved \in [Clients -> Nat]
      BY <1>1 DEF TypesInv, TypeOK
<1>6. ASSUME NEW k \in Clients
      PROVE  /\ totals'[k] \in Nat /\ totals'[k] <= Counted(k) /\ saved'[k] <= totals'[k]
             /\ left # Torn => left[k] <= Counted(k) /\ saved'[k] <= left[k]
  <2>0. left # Torn => left = file /\ left[k] \in Nat /\ left[k] <= Counted(k) /\ saved[k] <= left[k]
        BY <1>5 DEF IInv, FileBehind, SavedTotalsSurvive
  <2>1. CASE left = Torn \/ ~ readable
    <3>1. totals'[k] = 0 /\ saved'[k] = 0
          BY <1>2, <2>1 DEF load, Zero
    <3>. QED BY <1>4, <2>0, <3>1
  <2>2. CASE left # Torn /\ readable
    <3>1. totals' = left /\ saved' = saved
          BY <1>2, <2>2 DEF load
    <3>. QED BY <2>0, <2>2, <3>1
  <2>. QED BY <2>1, <2>2
<1>7. ASSUME NEW k \in Clients
      PROVE  Counted(k)' = Counted(k) /\ Known(k)' = totals'[k] /\ Live(k)' = 0
  <2>1. SessionsOf(k)' = SessionsOf(k) /\ bytes' = bytes
        BY <1>3 DEF SessionsOf
  <2>2. Pending(k)' = {}
        BY <1>3 DEF Pending, SessionsOf
  <2>3. SumOf(bytes, {}) = 0
        BY FS_EmptySet, SumUnfolds
  <2>4. Known(k)' = totals'[k] + 0
        BY <2>1, <2>2, <2>3, FiguresAre
  <2>. QED BY <1>3, <1>6, <2>1, <2>4, FiguresAre
<1>8. FileBehind' /\ SavedTotalsSurvive'
      BY <1>2, <1>6, <1>7 DEF FileBehind, SavedTotalsSurvive
<1>9. KnownCounted'
  <2>1. ASSUME NEW k \in Clients PROVE Known(k)' <= Counted(k)'
    <3>. QED BY <1>6, <1>7
  <2>. QED BY <2>1 DEF KnownCounted
<1>10. \A q \in Reads, k \in Clients : ~ Awaits(q, k)'
       BY <1>3 DEF Awaits
<1>11. AnswersCounted'
       BY <1>3, <1>7, <1>10 DEF IInv, AnswersCounted
<1>12. AnswersComplete'
  <2>1. ASSUME NEW q \in Reads, NEW k \in Clients \ moved[q], rpc'[q] \in {"adding", "done"}
        PROVE  noted[q][k] <= answer[q][k]
    <3>1. rpc[q] = "done"
          BY <1>3, <1>5, <2>1
    <3>2. ~ Awaits(q, k)
          BY <3>1 DEF Awaits
    <3>. QED BY <3>1, <3>2 DEF IInv, AnswersComplete
  <2>. QED BY <1>3, <1>10, <2>1 DEF AnswersComplete
<1>13. SampleComplete' /\ PointsComplete'
       BY <1>3 DEF SampleComplete, PointsComplete
<1>. QED BY <1>1, <1>8, <1>9, <1>11, <1>12, <1>13 DEF IInv

\* No step leaves the invariant.
LEMMA StepKeepsIInv == IInv /\ [Next]_vars => IInv'
<1>1. ASSUME IInv, UNCHANGED vars PROVE IInv'
  <2>1. TypesInv'
        BY <1>1, TypesStep DEF IInv
  <2>2. UNCHANGED sessionVars /\ UNCHANGED <<totals, history, file, saved, sampler, live, rpc, todo, answer, noted, moved>>
        BY <1>1 DEF vars, trackerVars, readVars
  <2>3. \A k \in Clients : Counted(k)' = Counted(k) /\ Known(k)' = Known(k) /\ Live(k)' = Live(k)
        BY <2>2, FiguresStay
  <2>4. \A q \in Reads, k \in Clients : Awaits(q, k)' <=> Awaits(q, k)
        BY <2>2 DEF Awaits
  <2>5. FileBehind' /\ SavedTotalsSurvive' /\ KnownCounted' /\ AnswersCounted' /\ SampleComplete'
        BY <1>1, <2>2, <2>3, <2>4
        DEF IInv, FileBehind, SavedTotalsSurvive, KnownCounted, AnswersCounted, SampleComplete
  <2>6. AnswersComplete'
        BY <1>1, <2>2, <2>3, <2>4 DEF IInv, AnswersComplete
  <2>7. PointsComplete'
    <3>1. ASSUME NEW i \in DOMAIN history, NEW k \in history[i].quiet
          PROVE  history[i].known[k] <= history[i].totals[k] /\ history[i].totals[k] <= Counted(k)'
          BY <1>1, <2>3, PointTypes DEF IInv, PointsComplete
    <3>. QED BY <2>2, <3>1 DEF PointsComplete
  <2>. QED BY <2>1, <2>5, <2>6, <2>7 DEF IInv
<1>2. ASSUME IInv, NEW q \in Reads, NEW k \in Clients, AddLive(q, k) PROVE IInv'
      BY <1>2, ReaderKeeps
<1>. QED BY <1>1, <1>2, SessionKeeps, SamplerKeeps, ReaderKeeps, RestartKeeps DEF Next, SessionMoves

\* The invariant holds at first.
LEMMA InitHolds == Init => IInv
<1> SUFFICES ASSUME Init PROVE IInv
    OBVIOUS
<1>1. TypesInv
      BY TypesInit
<1>2. ASSUME NEW k \in Clients PROVE Counted(k) = 0 /\ Known(k) = 0 /\ Live(k) = 0
  <2>1. SessionsOf(k) = {} /\ Pending(k) = {} /\ totals[k] = 0
        BY TrafficAssumption DEF Init, SessionsOf, Pending, Zero
  <2>2. SumOf(bytes, {}) = 0
        BY FS_EmptySet, SumUnfolds
  <2>3. Counted(k) = 0 /\ Known(k) = 0
        BY <1>2, <2>1, <2>2, FiguresAre
  <2>4. Live(k) = 0
        BY <1>2 DEF Init, Live
  <2>. QED BY <2>3, <2>4
<1>3. KnownCounted /\ AnswersCounted
      BY <1>2 DEF Init, KnownCounted, AnswersCounted, Zero
<1>4. FileBehind /\ SavedTotalsSurvive
      BY <1>2 DEF Init, FileBehind, SavedTotalsSurvive, Zero
<1>5. AnswersComplete /\ SampleComplete /\ PointsComplete
      BY DEF Init, AnswersComplete, Awaits, SampleComplete, PointsComplete, Zero
<1>. QED BY <1>1, <1>3, <1>4, <1>5 DEF IInv

\* The invariant holds of every reachable state.
THEOREM Invariance == Spec => []IInv
BY InitHolds, StepKeepsIInv, PTL DEF Spec

\* admin.rs:806-818, traffic.rs: no byte is in a figure twice.  What the console,
\* the cumulative totals and the file show of a client is never more than its
\* sessions counted, whatever ends, is kicked, replaced or restarted meanwhile.
THEOREM CountedOnce == Spec => []NothingCountedTwice
<1>1. IInv => NothingCountedTwice
  <2> SUFFICES ASSUME IInv, NEW k \in Clients
               PROVE  /\ totals[k] <= Counted(k)
                      /\ file # Torn => file[k] <= Counted(k)
                      /\ \A q \in Reads : answer[q][k] <= Counted(k)
      BY DEF NothingCountedTwice
  <2>1. /\ Counted(k) \in Nat /\ BytesOf(Pending(k)) \in Nat /\ totals[k] \in Nat
        /\ (file # Torn => file[k] \in Nat)
        BY FiguresHold DEF IInv, Figures, TypesInv, TypeOK
  <2>2. totals[k] <= Counted(k)
        BY <2>1 DEF IInv, KnownCounted, Known
  <2>3. file # Torn => file[k] <= Counted(k)
        BY DEF IInv, FileBehind
  <2>. QED BY <2>1, <2>2, <2>3 DEF IInv, AnswersCounted
<1>. QED BY <1>1, Invariance, PTL

\* What a reader shows of a client none of whose sessions moved while it read is
\* all that was known when it began, and a point of the history no more than was
\* counted: only a session on its way from the table to the totals is missed, or
\* is in a point twice.
THEOREM QuietComplete == Spec => []QuietReadsAreComplete
<1>1. IInv => QuietReadsAreComplete
  <2> SUFFICES ASSUME IInv PROVE QuietReadsAreComplete
      OBVIOUS
  <2>1. ASSUME NEW q \in Reads, rpc[q] = "done", NEW k \in Clients \ moved[q]
        PROVE  noted[q][k] <= answer[q][k]
        BY <2>1 DEF IInv, AnswersComplete, Awaits
  <2>2. ASSUME NEW i \in DOMAIN history, NEW k \in history[i].quiet
        PROVE  history[i].totals[k] \in history[i].known[k]..Counted(k)
    <3>1. k \in Clients /\ history[i].totals[k] \in Nat /\ history[i].known[k] \in Nat
          BY PointTypes DEF IInv
    <3>2. Counted(k) \in Nat
          BY <3>1, FiguresHold DEF IInv, Figures
    <3>3. history[i].known[k] <= history[i].totals[k] /\ history[i].totals[k] <= Counted(k)
          BY DEF IInv, PointsComplete
    <3>. QED BY <3>1, <3>2, <3>3
  <2>. QED BY <2>1, <2>2 DEF QuietReadsAreComplete
<1>. QED BY <1>1, Invariance, PTL

\* traffic.rs:5-6: what a save that succeeded wrote for a client is in the totals,
\* and in the file while it is intact, through failed saves, crashes in the middle
\* of one and restarts, up to a start that cannot read the file.
THEOREM TotalsSurvive == Spec => []SavedTotalsSurvive
<1>1. IInv => SavedTotalsSurvive
      BY DEF IInv
<1>. QED BY <1>1, Invariance, PTL
===============================================================================
