-------------------------------- MODULE Traffic --------------------------------
(***************************************************************************)
(* The byte counts of the clients: the live counters of the tunnel         *)
(* sessions (server/manager.rs), the cumulative table of TrafficTracker    *)
(* with its file and its history (server/traffic.rs), the task that        *)
(* samples and saves them (server/mod.rs) and the console's readers        *)
(* traffic_totals, api_traffic and api_metrics (server/admin.rs).          *)
(*                                                                         *)
(* The four counters of a session (TCP and UDP, up and down) are treated   *)
(* alike by all of this code, so one stands for them.  How a session gets  *)
(* in and out of the table in detail is TunnelSessions; here its cleanup   *)
(* is two steps, out of the table and then into the cumulative counts.     *)
(***************************************************************************)
EXTENDS Integers, Sequences, FiniteSets, FiniteSetsExt

CONSTANTS
    Clients, Conns,     \* client_ids and tunnel sessions
    NoClient, NoConn,
    Torn,               \* a file that serde_json does not parse
    Reads,              \* GET /api/traffic and GET /metrics requests
    HistoryPoints,      \* HISTORY_POINTS
    MaxBytes,           \* bound: bytes (packets of some size) per session
    MaxCrashes          \* bound: restarts of the server

Task == "sampler"               \* the periodic task, as a reader
Readers == Reads \cup {Task}

ASSUME TrafficAssumption ==
    /\ NoClient \notin Clients /\ NoConn \notin Conns /\ Task \notin Reads
    /\ HistoryPoints \in Nat \ {0} /\ MaxBytes \in Nat /\ MaxCrashes \in Nat

VARIABLES
    phase,      \* each session: not yet up, running, out of the table, merged
    client,     \* the client_id of each session
    online,     \* TunnelManager.sessions
    bytes,      \* the live counter of each session
    totals,     \* TrafficTracker.totals
    history,    \* TrafficTracker.history, with what the properties compare
    file,       \* traffic.json, or Torn
    crashes,    \* how often the server was restarted
    sampler,    \* the 30 s task: "waiting", "sampling" or "saving"
    live,       \* what online_traffic() returned to it
    rpc,        \* where each console request is
    todo,       \* the clients of its list() whose session it has yet to get
    answer,     \* its totals
    saved,      \* history: what the last save that succeeded wrote, as long as
                \* every start since could read it
    noted,      \* history: what was known of each client when the reader began
    moved       \* history: the clients whose sessions moved while it read

sessionVars == <<phase, client, online, bytes>>
trackerVars == <<totals, history, file, saved, crashes, sampler, live>>
readVars == <<rpc, todo, answer>>
vars == <<sessionVars, trackerVars, readVars, noted, moved>>

Zero == [k \in Clients |-> 0]

\* The sessions of a client, what they counted, and what of it is not yet lost.
SessionsOf(k) == {c \in Conns : client[c] = k}
BytesOf(S) == MapThenSumSet(LAMBDA c : bytes[c], S)
Counted(k) == BytesOf(SessionsOf(k))
Pending(k) == {c \in SessionsOf(k) : phase[c] \in {"running", "merging"}}
Known(k) == totals[k] + BytesOf(Pending(k))

\* traffic_snapshot() of the session that the table has for a client.
Live(k) == IF online[k] = NoConn THEN 0 ELSE bytes[online[k]]

\* Bookkeeping of the history variables: a reader begins; a session moves.
Begin(r) == /\ noted' = [noted EXCEPT ![r] = [k \in Clients |-> Known(k)]]
            /\ moved' = [moved EXCEPT ![r] =
                            {k \in Clients : Pending(k) \ {online[k]} # {}}]
Moves(k) == /\ moved' = [r \in Readers |-> moved[r] \cup {k}]
            /\ UNCHANGED noted

Init == /\ phase = [c \in Conns |-> "new"]
        /\ client = [c \in Conns |-> NoClient]
        /\ online = [k \in Clients |-> NoConn]
        /\ bytes = [c \in Conns |-> 0]
        /\ totals = Zero /\ history = <<>> /\ file = Zero /\ saved = Zero
        /\ crashes = 0
        /\ sampler = "waiting" /\ live = Zero
        /\ rpc = [q \in Reads |-> "idle"]
        /\ todo = [q \in Reads |-> {}]
        /\ answer = [q \in Reads |-> Zero]
        /\ noted = [r \in Readers |-> Zero]
        /\ moved = [r \in Readers |-> {}]

-------------------------------------------------------------------------------
(* Sessions *)

\* A tunnel is registered.
TunnelUp(c, k) == /\ phase[c] = "new" /\ online[k] = NoConn
                  /\ phase' = [phase EXCEPT ![c] = "running"]
                  /\ client' = [client EXCEPT ![c] = k]
                  /\ online' = [online EXCEPT ![k] = c]
                  /\ UNCHANGED <<bytes, trackerVars, readVars, noted, moved>>

\* fetch_add on a counter of the session: by the reader task while the tunnel
\* runs, and by the forwarding tasks of its public connections, which count
\* what they read before they find the tunnel closed.
Count(c) == /\ phase[c] \in {"running", "merging", "merged"} /\ bytes[c] < MaxBytes
            /\ bytes' = [bytes EXCEPT ![c] = @ + 1]
            /\ UNCHANGED <<phase, client, online, trackerVars, readVars, noted, moved>>

\* The kick merges the traffic itself.
Bug_KickMerges(k) == /\ online[k] # NoConn
                     /\ online' = [online EXCEPT ![k] = NoConn]
                     /\ totals' = [totals EXCEPT ![k] = @ + Live(k)]
                     /\ Moves(k)
                     /\ UNCHANGED <<phase, client, bytes, history, file, saved, crashes,
                                    sampler, live, readVars>>

\* api_kick takes the session out of the table while its tunnel still runs.
Kick(k) == /\ online[k] # NoConn
           /\ online' = [online EXCEPT ![k] = NoConn]
           /\ Moves(k)
           /\ UNCHANGED <<phase, client, bytes, trackerVars, readVars>>

\* The tunnel's tasks ended; unregister_if_current.
TunnelEnds(c) == /\ phase[c] = "running"
                 /\ phase' = [phase EXCEPT ![c] = "merging"]
                 /\ online' = [online EXCEPT ![client[c]] = IF @ = c THEN NoConn ELSE @]
                 /\ Moves(client[c])
                 /\ UNCHANGED <<client, bytes, trackerVars, readVars>>

\* traffic.merge of the session's snapshot.
Merge(c) == /\ phase[c] = "merging"
            /\ phase' = [phase EXCEPT ![c] = "merged"]
            /\ totals' = [totals EXCEPT ![client[c]] = @ + bytes[c]]
            /\ Moves(client[c])
            /\ UNCHANGED <<client, online, bytes, history, file, saved, crashes, sampler, live, readVars>>

-------------------------------------------------------------------------------
(* The task of Server::run: sample and save *)

\* The tick of the interval; online_traffic() is evaluated first.
SampleOnline == /\ sampler = "waiting"
                /\ sampler' = "sampling"
                /\ live' = [k \in Clients |-> Live(k)]
                /\ Begin(Task)
                /\ UNCHANGED <<sessionVars, totals, history, file, saved, crashes, readVars>>

\* One point of the history; "quiet" and "known" are for the properties.
Point(amounts) == [totals |-> amounts,
                   quiet |-> Clients \ moved[Task],
                   known |-> noted[Task]]

\* The live amount replaces the cumulative one instead of adding to it.
Bug_SampleInserts ==
    /\ sampler = "sampling"
    /\ sampler' = "saving"
    /\ LET kept == IF Len(history) >= HistoryPoints THEN Tail(history) ELSE history IN
       history' = Append(kept, Point([k \in Clients |-> IF live[k] > 0 THEN live[k] ELSE totals[k]]))
    /\ UNCHANGED <<sessionVars, totals, file, saved, crashes, live, readVars, noted, moved>>

\* sample(): the cumulative totals are read now, the live ones were before.
Sample ==
    /\ sampler = "sampling"
    /\ sampler' = "saving"
    /\ LET kept == IF Len(history) >= HistoryPoints THEN Tail(history) ELSE history IN
       history' = Append(kept, Point([k \in Clients |-> totals[k] + live[k]]))
    /\ UNCHANGED <<sessionVars, totals, file, saved, crashes, live, readVars, noted, moved>>

\* save(): the totals are locked for reading while the file is written.  A
\* failure is logged: it leaves the file as it was, or cut short.
Save == /\ sampler = "saving"
        /\ sampler' = "waiting"
        /\ \/ file' = totals /\ saved' = totals
           \/ file' \in {file, Torn} /\ UNCHANGED saved
        /\ UNCHANGED <<sessionVars, totals, history, crashes, live, readVars, noted, moved>>

-------------------------------------------------------------------------------
(* The console's readers *)

\* traffic_totals: snapshot().
Snapshot(q) == /\ rpc[q] = "idle"
               /\ rpc' = [rpc EXCEPT ![q] = "listing"]
               /\ answer' = [answer EXCEPT ![q] = totals]
               /\ Begin(q)
               /\ UNCHANGED <<sessionVars, trackerVars, todo>>

\* manager.list().
ListOnline(q) == /\ rpc[q] = "listing"
                 /\ rpc' = [rpc EXCEPT ![q] = "adding"]
                 /\ todo' = [todo EXCEPT ![q] = {k \in Clients : online[k] # NoConn}]
                 /\ UNCHANGED <<sessionVars, trackerVars, answer, noted, moved>>

\* manager.get() of a listed client and the traffic_snapshot() of the session
\* it finds, if there still is one.
AddLive(q, k) == /\ rpc[q] = "adding" /\ k \in todo[q]
                 /\ todo' = [todo EXCEPT ![q] = @ \ {k}]
                 /\ answer' = [answer EXCEPT ![q][k] = @ + Live(k)]
                 /\ UNCHANGED <<sessionVars, trackerVars, rpc, noted, moved>>

\* api_traffic and api_metrics write the totals out.
Answer(q) == /\ rpc[q] = "adding" /\ todo[q] = {}
             /\ rpc' = [rpc EXCEPT ![q] = "done"]
             /\ UNCHANGED <<sessionVars, trackerVars, todo, answer, noted, moved>>

-------------------------------------------------------------------------------
(* Restart *)

\* The counts of the file are not restored.
Bug_load(f, readable) == Zero

\* TrafficTracker::load: a file that cannot be read, for whatever reason, or
\* does not parse counts as empty.
load(f, readable) == IF readable /\ f # Torn THEN f ELSE Zero

\* The server stops, by ctrl-C or a crash, and starts again.  Nothing is saved
\* on the way out; a save that was being written leaves a torn file.
Restart == /\ crashes < MaxCrashes
           /\ crashes' = crashes + 1
           /\ \E left \in {file} \cup IF sampler = "saving" THEN {Torn} ELSE {},
                 readable \in BOOLEAN :
                 /\ file' = left
                 /\ totals' = load(left, readable)
                 /\ saved' = IF readable /\ left # Torn THEN saved ELSE Zero
           /\ phase' = [c \in Conns |-> IF phase[c] = "new" THEN "new" ELSE "lost"]
           /\ online' = [k \in Clients |-> NoConn]
           /\ history' = <<>>
           /\ sampler' = "waiting" /\ live' = Zero
           /\ rpc' = [q \in Reads |-> IF rpc[q] \in {"idle", "done"} THEN rpc[q] ELSE "broken"]
           /\ todo' = [q \in Reads |-> {}]
           /\ UNCHANGED <<client, bytes, answer, noted, moved>>

Next == \/ SampleOnline \/ Sample \/ Save \/ Restart
        \/ \E c \in Conns : Count(c) \/ TunnelEnds(c) \/ Merge(c)
        \/ \E k \in Clients : Kick(k) \/ \E c \in Conns : TunnelUp(c, k)
        \/ \E q \in Reads : Snapshot(q) \/ ListOnline(q) \/ Answer(q)
        \/ \E q \in Reads, k \in Clients : AddLive(q, k)

Spec == Init /\ [][Next]_vars
-------------------------------------------------------------------------------
Phases == {"new", "running", "merging", "merged", "lost"}

\* Every variable keeps its type, and the history its length.
TypeOK == /\ phase \in [Conns -> Phases]
          /\ client \in [Conns -> Clients \cup {NoClient}]
          /\ online \in [Clients -> Conns \cup {NoConn}]
          /\ bytes \in [Conns -> 0..MaxBytes]
          /\ totals \in [Clients -> Nat]
          /\ file = Torn \/ file \in [Clients -> Nat]
          /\ saved \in [Clients -> Nat]
          /\ history \in Seq([totals : [Clients -> Nat], quiet : SUBSET Clients,
                              known : [Clients -> Nat]])
          /\ Len(history) <= HistoryPoints
          /\ crashes \in 0..MaxCrashes
          /\ sampler \in {"waiting", "sampling", "saving"}
          /\ live \in [Clients -> 0..MaxBytes]
          /\ rpc \in [Reads -> {"idle", "listing", "adding", "done", "broken"}]
          /\ todo \in [Reads -> SUBSET Clients]
          /\ answer \in [Reads -> [Clients -> Nat]]
          /\ noted \in [Readers -> [Clients -> Nat]]
          /\ moved \in [Readers -> SUBSET Clients]

\* admin.rs:806-818, traffic_totals: however its three reads interleave with
\* sessions that end, merge, are kicked and are replaced, and with restarts
\* before it, what the console and /metrics show for a client is never more
\* than its sessions ever counted; nor are the cumulative totals and the file.
NothingCountedTwice ==
    \A k \in Clients :
        /\ totals[k] <= Counted(k)
        /\ file # Torn => file[k] <= Counted(k)
        /\ \A q \in Reads : answer[q][k] <= Counted(k)

\* The three reads of traffic_totals and the two of the sampler can miss bytes
\* (and the sampler count some twice) only for a client one of whose sessions
\* was on its way from the table to the totals meanwhile: every other figure
\* is at least what was known when the reader began, and a sample is no more
\* than was ever counted.
QuietReadsAreComplete ==
    /\ \A q \in Reads : rpc[q] = "done" =>
          \A k \in Clients \ moved[q] : noted[q][k] <= answer[q][k]
    /\ \A i \in DOMAIN history : \A k \in history[i].quiet :
          history[i].totals[k] \in history[i].known[k]..Counted(k)

\* traffic.rs:5-6: cumulative data is restored after a restart.  What a save
\* wrote for a client stays in the totals, and in the file as long as it is
\* intact, through failed saves, crashes in the middle of a save and any
\* number of restarts, up to a start that cannot read the file: that one
\* begins from nothing, and the next save overwrites what it could not read.
SavedTotalsSurvive ==
    \A k \in Clients : /\ saved[k] <= totals[k]
                       /\ file # Torn => saved[k] <= file[k]

\* traffic.rs:49: a sample is the cumulative traffic of each client with the
\* live online amounts.  Refuted: a session that merges between online_traffic()
\* and the copy of the totals is in both.
SamplesCountOnce ==
    \A i \in DOMAIN history, k \in Clients : history[i].totals[k] <= Counted(k)
===============================================================================
