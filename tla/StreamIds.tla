------------------------------- MODULE StreamIds -------------------------------
(***************************************************************************)
(* StreamIdAllocator (protocol/multiplex.rs): one AtomicU32 that the       *)
(* public TCP handlers and the UDP listeners of a session advance with a   *)
(* compare-and-swap loop, from any thread of the runtime.                  *)
(***************************************************************************)
EXTENDS Integers, FiniteSets

CONSTANTS
    Callers,    \* the tasks that open streams of one session
    First,      \* 1 for new_client, 2 for new_server
    MaxStreams  \* MAX_STREAMS

ASSUME AllocatorAssumption == First \in {1, 2} /\ MaxStreams \in Nat

VARIABLES
    next,   \* the AtomicU32; MaxStreams + 2 fits, so checked_add never fails
    pc,     \* "idle", "loop", "loaded" inside next(), "failed": it returned Err
    cur,    \* the value each caller loaded
    issued, \* the counter values that a compare_exchange has taken
    live,   \* the ids of the streams that are open
    returned \* history: how often next() has returned an id

allocVars == <<next, pc, cur, issued, live, returned>>

AllocInit ==
    /\ next = First
    /\ pc = [t \in Callers |-> "idle"]
    /\ cur = [t \in Callers |-> 0]
    /\ issued = {}
    /\ live = {}
    /\ returned = 0

\* A task calls next(), for a new public connection or a new UDP source.
Call(t) == /\ pc[t] \in {"idle", "failed"}
           /\ pc' = [pc EXCEPT ![t] = "loop"]
           /\ UNCHANGED <<next, cur, issued, live, returned>>

\* The bound is not checked at all.
Bug_LoadUnbounded(t) == /\ pc[t] = "loop"
                        /\ cur' = [cur EXCEPT ![t] = next]
                        /\ pc' = [pc EXCEPT ![t] = "loaded"]
                        /\ next < MaxStreams + 6
                        /\ UNCHANGED <<next, issued, live, returned>>

\* Past the bound the loop retries instead of returning Err.
Bug_LoadRetries(t) == /\ pc[t] = "loop" /\ next <= MaxStreams
                      /\ cur' = [cur EXCEPT ![t] = next]
                      /\ pc' = [pc EXCEPT ![t] = "loaded"]
                      /\ UNCHANGED <<next, issued, live, returned>>

\* load(Relaxed), and the exhaustion check on the value loaded.
Load(t) == /\ pc[t] = "loop"
           /\ cur' = [cur EXCEPT ![t] = next]
           /\ pc' = [pc EXCEPT ![t] = IF next > MaxStreams THEN "failed" ELSE "loaded"]
           /\ UNCHANGED <<next, issued, live, returned>>

\* A plain store: nobody notices that another caller got in between.
Bug_StoreBlindly(t) == /\ pc[t] = "loaded"
                       /\ next' = cur[t] + 2
                       /\ issued' = issued \cup {cur[t]}
                       /\ live' = live \cup {cur[t]}
                       /\ returned' = returned + 1
                       /\ pc' = [pc EXCEPT ![t] = "idle"]
                       /\ UNCHANGED cur

\* compare_exchange(cur, cur + 2): on success next() returns cur, on failure
\* the loop starts again.
CompareExchange(t) ==
    /\ pc[t] = "loaded"
    /\ IF next = cur[t]
         THEN /\ next' = cur[t] + 2
              /\ issued' = issued \cup {cur[t]}
              /\ live' = live \cup {cur[t]}
              /\ returned' = returned + 1
              /\ pc' = [pc EXCEPT ![t] = "idle"]
         ELSE /\ pc' = [pc EXCEPT ![t] = "loop"]
              /\ UNCHANGED <<next, issued, live, returned>>
    /\ UNCHANGED cur

\* The stream ends and leaves the tables; the allocator is not told.
CloseStream(id) == /\ live' = live \ {id}
                   /\ UNCHANGED <<next, pc, cur, issued, returned>>

Step(t) == Load(t) \/ CompareExchange(t)

AllocNext == \/ \E t \in Callers : Call(t) \/ Step(t)
             \/ \E id \in live : CloseStream(id)

AllocSpec == AllocInit /\ [][AllocNext]_allocVars

\* A caller inside next() is a running thread: it takes its next step.
FairAllocSpec == AllocSpec /\ \A t \in Callers : WF_allocVars(Step(t))
-------------------------------------------------------------------------------
\* The counter, the callers and the sets of ids keep their types.
AllocTypeOK == /\ next \in Nat
               /\ pc \in [Callers -> {"idle", "loop", "loaded", "failed"}]
               /\ cur \in [Callers -> Nat]
               /\ issued \subseteq Nat
               /\ live \subseteq issued
               /\ returned \in Nat

\* The ids of one side: its parity, from its first id, up to MAX_STREAMS.
Series == {i \in First..MaxStreams : i % 2 = First % 2}

\* However the callers interleave, exactly the ids of the series below the
\* counter have been returned: none outside the side's parity (so the two
\* sides never collide), none above MAX_STREAMS, none skipped by a lost race.
IdsDense == issued = {i \in Series : i < next}

\* next() is a source of fresh ids: every return of next() adds an id to those
\* returned before, so no id is returned twice, to anyone.
Pool == INSTANCE IdPool WITH given <- issued, count <- returned

ImplementsPool == Pool!Spec

\* The compare-and-swap loop ends for every caller: it can lose only as many
\* races as there are ids left.
NextReturns == \A t \in Callers : pc[t] = "loop" ~> pc[t] \in {"idle", "failed"}

\* README: one tunnel carries up to 65535 concurrent streams.  Refuted: ids are
\* not reused, so next() fails after half as many streams, open or not.
FailsOnlyWhenFull ==
    \A t \in Callers : pc[t] = "failed" => Cardinality(live) >= MaxStreams
===============================================================================
