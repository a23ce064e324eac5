--------------------------- MODULE ProxyRulesProofs ---------------------------
(***************************************************************************)
(* However many handlers race, ProxyManager's map never holds the handle   *)
(* of a listener that has ended (HandleIsLive).  That is not inductive by  *)
(* itself: it rests on the two moments at which a listener runs and is not *)
(* in the map -- taken out by stop and not yet ended, bound by start and   *)
(* not yet inserted.  HeldSound says what such a listener is, HeldApart    *)
(* that no two handlers are at it.                                         *)
(*                                                                         *)
(* While the administrator waits for each answer, the listeners, the map,  *)
(* the list and the file agree too: the second half of the module.         *)
(***************************************************************************)
EXTENDS ProxyRules, TLAPS

USE DEF Ends

HeldSound ==
  \A r \in Requests : Holding(r) =>
    /\ bound[req[r].held] = req[r].name
    /\ \A n \in Names : tasks[n] # req[r].held

HeldApart ==
  \A r, s \in Requests : Holding(r) /\ Holding(s) /\ r # s => req[r].held # req[s].held

(* A handler that is about to bind has a port to bind: a reload starts a   *)
(* rule only when it differs from the list and is still in the file.       *)
Starts(l) ==
  \/ l.at \in {"lookup", "check", "bind"}
  \/ l.at \in {"stop", "abort"} /\ l.kind = "create"

Reloads(l) == l.at \in {"load", "setToken", "current", "pick"}

Picks(l) == l.at \in {"idle", "lookup", "stop", "abort", "check", "bind", "insert", "pick"}

LocalsSound(l) ==
  /\ Starts(l) => l.port \in Ports
  /\ Reloads(l) => l.kind # "create"
  /\ Picks(l) => \A n \in l.todo : l.cfg.rules[n] # l.seen[n]

HandlersSound == \A r \in Requests : LocalsSound(req[r])

IInv == TypeOK /\ HandleIsLive /\ HeldSound /\ HeldApart /\ HandlersSound

(* The locals of a handler that has answered have their type. *)
LEMMA RestingType ==
  ASSUME NEW step \in Steps, NEW kind \in AllKinds
  PROVE  Resting(step, kind) \in Locals
<1>1. (CHOOSE n \in Names : TRUE) \in Names /\ (CHOOSE t \in Tokens : TRUE) \in Tokens
  BY PortAssumption
<1>2. NoRules \in RuleList
  BY DEF NoRules, RuleList
<1> QED
  BY <1>1, <1>2 DEF Resting, Locals, Config

(* A step of one handler leaves the locals of the others as they are. *)
LEMMA HandlersSoundStep ==
  ASSUME req \in [Requests -> Locals], HandlersSound, NEW r \in Requests, NEW l,
         req' = [req EXCEPT ![r] = l], LocalsSound(l)
  PROVE  HandlersSound'
<1>1. \A s \in Requests : req'[s] = IF s = r THEN l ELSE req[s]
  OBVIOUS
<1> QED
  BY <1>1 DEF HandlersSound, LocalsSound, Starts, Reloads, Picks

(* A step of one handler that touches neither the map nor the sockets and  *)
(* begins and ends with no listener in hand keeps the invariant.           *)
LEMMA LocalStep ==
  ASSUME IInv, NEW r \in Requests, NEW l \in Locals,
         tasks' = tasks, bound' = bound,
         rules' \in RuleList, token' \in Tokens, disk' \in Files,
         req' = [req EXCEPT ![r] = l],
         l.at \notin {"abort", "insert"}, LocalsSound(l)
  PROVE  IInv'
<1>1. \A s \in Requests : Holding(s)' => Holding(s) /\ req'[s] = req[s]
  BY DEF IInv, TypeOK, Holding
<1>2. TypeOK'
  BY <1>1 DEF IInv, TypeOK, Holding
<1>3. HandleIsLive'
  BY DEF IInv, HandleIsLive
<1>4. HeldSound'
  BY <1>1 DEF IInv, HeldSound
<1>5. HeldApart'
  BY <1>1 DEF IInv, HeldApart
<1>6. HandlersSound'
  BY HandlersSoundStep DEF IInv, TypeOK
<1> QED
  BY <1>2, <1>3, <1>4, <1>5, <1>6 DEF IInv

(* Goto is such a step when it leads to a step without a listener. *)
LEMMA GotoStep ==
  ASSUME IInv, NEW r \in Requests, NEW step \in Steps \ {"abort", "insert"},
         Goto(r, step),
         step \in Ends \/ LocalsSound([req[r] EXCEPT !.at = step]),
         tasks' = tasks, bound' = bound,
         rules' \in RuleList, token' \in Tokens, disk' \in Files
  PROVE  IInv'
<1>1. req[r] \in Locals
  BY DEF IInv, TypeOK
<1>2. CASE step \in Ends
  <2> DEFINE l == Resting(step, req[r].kind)
  <2>1. req[r].kind \in AllKinds
    BY <1>1 DEF Locals
  <2>2. l \in Locals
    BY <2>1, RestingType
  <2>3. l.at = step
    BY DEF Resting
  <2>4. req' = [req EXCEPT ![r] = l]
    BY <1>2 DEF Goto
  <2>5. LocalsSound(l)
    BY <1>2 DEF LocalsSound, Starts, Reloads, Picks, Resting
  <2> QED
    BY <2>2, <2>3, <2>4, <2>5, LocalStep
<1>3. CASE step \notin Ends
  <2> DEFINE l == [req[r] EXCEPT !.at = step]
  <2>1. l \in Locals /\ l.at = step
    BY <1>1 DEF Locals
  <2>2. req' = [req EXCEPT ![r] = l]
    BY <1>3 DEF Goto
  <2>3. LocalsSound(l)
    BY <1>3
  <2> QED
    BY <2>1, <2>2, <2>3, LocalStep
<1> QED
  BY <1>2, <1>3

(* Where a handler goes after stop is a step without a listener. *)
LEMMA AfterStopType ==
  ASSUME NEW r \in Requests
  PROVE  AfterStop(r) \in Steps \ {"abort", "insert"}
BY DEF AfterStop, Steps

(* The locals of a handler that goes on after stop stay sound.             *)
LEMMA AfterStopSound ==
  ASSUME NEW r \in Requests, req[r] \in Locals, HandlersSound,
         req[r].at \in {"stop", "abort"}
  PROVE  /\ LocalsSound([req[r] EXCEPT !.at = AfterStop(r)])
         /\ LocalsSound([req[r] EXCEPT !.at = AfterStop(r), !.held = NoPort])
<1>1. CASE req[r].kind = "delete"
  BY <1>1 DEF AfterStop, HandlersSound, LocalsSound, Starts, Reloads, Picks, Locals
<1>2. CASE req[r].kind = "create"
  BY <1>2 DEF AfterStop, HandlersSound, LocalsSound, Starts, Reloads, Picks, Locals
<1>3. CASE req[r].kind \notin {"delete", "create"}
  BY <1>3 DEF AfterStop, HandlersSound, LocalsSound, Starts, Reloads, Picks, Locals
<1> QED
  BY <1>1, <1>2, <1>3

(* stop takes the handle: the listener it belongs to leaves the map and is *)
(* in the hands of this handler alone.                                     *)
LEMMA TakeHandleStep ==
  ASSUME IInv, NEW r \in Requests, TakeHandle(r)
  PROVE  IInv'
<1> DEFINE name == req[r].name
           found == [req[r] EXCEPT !.at = "abort", !.held = tasks[name]]
<1>1. req[r] \in Locals /\ name \in Names
  BY DEF IInv, TypeOK, Locals
<1>2. CASE tasks[name] # NoPort
  <2>1. /\ tasks' = [tasks EXCEPT ![name] = NoPort]
        /\ req' = [req EXCEPT ![r] = found]
        /\ UNCHANGED <<bound, rules, token, disk>>
    BY <1>2 DEF TakeHandle, Goto
  <2>2. tasks[name] \in Ports /\ bound[tasks[name]] = name
    BY <1>1, <1>2 DEF IInv, TypeOK, HandleIsLive, RuleList
  <2>3. /\ found \in Locals
        /\ found.at = "abort" /\ found.held = tasks[name] /\ found.name = name
    BY <1>1, <2>2 DEF Locals, Steps
  <2>4. /\ req'[r].at = "abort" /\ req'[r].held = tasks[name] /\ req'[r].name = name
        /\ \A s \in Requests \ {r} : req'[s] = req[s]
    <3>1. req'[r] = found /\ \A s \in Requests \ {r} : req'[s] = req[s]
      BY <2>1 DEF IInv, TypeOK
    <3> QED
      BY <2>3, <3>1
  <2>5. TypeOK'
    <3>1. req' \in [Requests -> Locals]
      BY <2>1, <2>3 DEF IInv, TypeOK
    <3>2. tasks' \in RuleList
      BY <2>1, <1>1 DEF IInv, TypeOK, RuleList
    <3>3. \A s \in Requests : Holding(s)' => req'[s].held \in Ports
      BY <2>2, <2>4 DEF IInv, TypeOK, Holding
    <3> QED
      BY <2>1, <3>1, <3>2, <3>3 DEF IInv, TypeOK
  <2>6. \A n \in Names : tasks'[n] = IF n = name THEN NoPort ELSE tasks[n]
    BY <2>1, <1>1 DEF IInv, TypeOK, RuleList
  <2>7. HandleIsLive'
    BY <2>1, <2>6 DEF IInv, HandleIsLive
  <2>8. HeldSound'
    <3>1. ASSUME NEW s \in Requests, Holding(s)', s # r
          PROVE  /\ bound'[req'[s].held] = req'[s].name
                 /\ \A n \in Names : tasks'[n] # req'[s].held
      <4>1. Holding(s) /\ req'[s] = req[s]
        BY <2>4, <3>1 DEF Holding
      <4>2. req[s].held \in Ports
        BY <4>1 DEF IInv, TypeOK
      <4>3. /\ bound[req[s].held] = req[s].name
            /\ \A n \in Names : tasks[n] # req[s].held
        BY <4>1 DEF IInv, HeldSound
      <4>4. req[s].held # NoPort
        BY <4>2, PortAssumption
      <4> QED
        BY <2>1, <2>6, <4>1, <4>3, <4>4
    <3>2. /\ bound'[req'[r].held] = req'[r].name
          /\ \A n \in Names : tasks'[n] # req'[r].held
      <4>1. ASSUME NEW n \in Names, n # name
            PROVE  tasks[n] # tasks[name]
        BY <1>1, <1>2, <4>1 DEF IInv, HandleIsLive
      <4> QED
        BY <1>2, <2>1, <2>2, <2>4, <2>6, <4>1
    <3> QED
      BY <3>1, <3>2 DEF HeldSound
  <2>9. HeldApart'
    <3>1. \A s \in Requests \ {r} : Holding(s) => req[s].held # tasks[name]
      BY <1>1 DEF IInv, HeldSound
    <3> QED
      BY <2>4, <3>1 DEF IInv, HeldApart, Holding
  <2>10. HandlersSound'
    <3>1. LocalsSound(found)
      BY <1>1 DEF IInv, TakeHandle, At, HandlersSound, LocalsSound, Starts, Reloads, Picks, Locals
    <3> QED
      BY <2>1, <3>1, HandlersSoundStep DEF IInv, TypeOK
  <2> QED
    BY <2>5, <2>7, <2>8, <2>9, <2>10 DEF IInv
<1>3. CASE tasks[name] = NoPort
  <2> DEFINE step == IF req[r].kind = "delete" THEN "failed" ELSE AfterStop(r)
  <2>1. step \in Steps \ {"abort", "insert"}
    BY AfterStopType DEF Steps
  <2>2. Goto(r, step) /\ UNCHANGED <<tasks, bound, rules, token, disk>>
    BY <1>3 DEF TakeHandle
  <2>3. step = "failed" \/ LocalsSound([req[r] EXCEPT !.at = step])
    BY <1>1, AfterStopSound DEF IInv, TakeHandle, At
  <2> QED
    BY <2>1, <2>2, <2>3, GotoStep DEF IInv, TypeOK
<1> QED
  BY <1>2, <1>3

(* The stopped listener ends: no handle and no other handler refers to the *)
(* port that is freed.                                                     *)
LEMMA TaskEndsStep ==
  ASSUME IInv, NEW r \in Requests, TaskEnds(r)
  PROVE  IInv'
<1> DEFINE port == req[r].held
           next == [req[r] EXCEPT !.at = AfterStop(r), !.held = NoPort]
<1>1. req[r] \in Locals /\ port \in Ports /\ Holding(r)
  BY DEF IInv, TypeOK, TaskEnds, At, Holding
<1>2. next \in Locals /\ next.at \notin {"abort", "insert"}
  <2>1. AfterStop(r) \in Steps \ {"abort", "insert"}
    BY AfterStopType
  <2> QED
    BY <1>1, <2>1 DEF Locals
<1>3. /\ bound' = [bound EXCEPT ![port] = Free]
      /\ req' = [req EXCEPT ![r] = next]
      /\ UNCHANGED <<tasks, rules, token, disk>>
  BY DEF TaskEnds
<1>4. \A s \in Requests : Holding(s)' => s # r /\ Holding(s) /\ req'[s] = req[s]
  BY <1>2, <1>3 DEF IInv, TypeOK, Holding
<1>5. TypeOK'
  <2>1. req' \in [Requests -> Locals]
    BY <1>2, <1>3 DEF IInv, TypeOK
  <2>2. bound' \in [Ports -> Names \cup {Free, Other}]
    BY <1>1, <1>3 DEF IInv, TypeOK
  <2> QED
    BY <1>3, <1>4, <2>1, <2>2 DEF IInv, TypeOK
<1>6. \A p \in Ports \ {port} : bound'[p] = bound[p]
  BY <1>1, <1>3 DEF IInv, TypeOK
<1>7. HandleIsLive'
  <2>1. \A n \in Names : tasks[n] # port
    BY <1>1 DEF IInv, HeldSound
  <2>2. \A n \in Names : tasks[n] # NoPort => tasks[n] \in Ports
    BY DEF IInv, TypeOK, RuleList
  <2> QED
    BY <1>3, <1>6, <2>1, <2>2 DEF IInv, HandleIsLive
<1>8. HeldSound'
  <2>1. \A s \in Requests : Holding(s)' => req[s].held \in Ports \ {port}
    BY <1>1, <1>4 DEF IInv, TypeOK, HeldApart
  <2> QED
    BY <1>3, <1>4, <1>6, <2>1 DEF IInv, HeldSound
<1>9. HeldApart'
  BY <1>4 DEF IInv, HeldApart
<1>10. HandlersSound'
  <2>1. LocalsSound(next)
    BY <1>1, AfterStopSound DEF IInv, TaskEnds, At
  <2> QED
    BY <1>3, <2>1, HandlersSoundStep DEF IInv, TypeOK
<1> QED
  BY <1>5, <1>7, <1>8, <1>9, <1>10 DEF IInv

(* start binds a free port: no handle and no other handler refers to it.   *)
LEMMA BindStep ==
  ASSUME IInv, NEW r \in Requests, Bind(r)
  PROVE  IInv'
<1> DEFINE port == req[r].port
           next == [req[r] EXCEPT !.at = "insert", !.held = port]
<1>1. req[r] \in Locals /\ req[r].name \in Names /\ port \in Ports
  BY DEF IInv, TypeOK, Locals, Bind, At, HandlersSound, LocalsSound, Starts
<1>2. CASE bound[port] = Free
  <2>1. /\ bound' = [bound EXCEPT ![port] = req[r].name]
        /\ req' = [req EXCEPT ![r] = next]
        /\ UNCHANGED <<tasks, rules, token, disk>>
    BY <1>2 DEF Bind, Goto
  <2>2. next \in Locals /\ next.held = port /\ next.name = req[r].name
    BY <1>1 DEF Locals, Steps
  <2>3. /\ req'[r].held = port /\ req'[r].name = req[r].name
        /\ \A s \in Requests \ {r} : req'[s] = req[s]
    <3>1. req'[r] = next /\ \A s \in Requests \ {r} : req'[s] = req[s]
      BY <2>1 DEF IInv, TypeOK
    <3> QED
      BY <2>2, <3>1
  <2>4. /\ bound'[port] = req[r].name
        /\ \A p \in Ports \ {port} : bound'[p] = bound[p]
    BY <1>1, <2>1 DEF IInv, TypeOK
  <2>5. TypeOK'
    <3>1. req' \in [Requests -> Locals]
      BY <2>1, <2>2 DEF IInv, TypeOK
    <3>2. bound' \in [Ports -> Names \cup {Free, Other}]
      BY <1>1, <2>1 DEF IInv, TypeOK
    <3>3. \A s \in Requests : Holding(s)' => req'[s].held \in Ports
      BY <1>1, <2>3 DEF IInv, TypeOK, Holding
    <3> QED
      BY <2>1, <3>1, <3>2, <3>3 DEF IInv, TypeOK
  <2>6. \A n \in Names : tasks[n] # port
    BY <1>1, <1>2, PortAssumption DEF IInv, HandleIsLive
  <2>7. HandleIsLive'
    <3>1. \A n \in Names : tasks[n] # NoPort => tasks[n] \in Ports
      BY DEF IInv, TypeOK, RuleList
    <3> QED
      BY <2>1, <2>4, <2>6, <3>1 DEF IInv, HandleIsLive
  <2>8. \A s \in Requests \ {r} : Holding(s) => req[s].held \in Ports \ {port}
    <3>1. \A s \in Requests : req[s].name \in Names
      BY DEF IInv, TypeOK, Locals
    <3> QED
      BY <1>2, <3>1, PortAssumption DEF IInv, TypeOK, HeldSound
  <2>9. HeldSound'
    <3>1. ASSUME NEW s \in Requests, Holding(s)', s # r
          PROVE  /\ bound'[req'[s].held] = req'[s].name
                 /\ \A n \in Names : tasks'[n] # req'[s].held
      BY <2>1, <2>3, <2>4, <2>8, <3>1 DEF IInv, HeldSound, Holding
    <3>2. /\ bound'[req'[r].held] = req'[r].name
          /\ \A n \in Names : tasks'[n] # req'[r].held
      BY <2>1, <2>3, <2>4, <2>6
    <3> QED
      BY <3>1, <3>2 DEF HeldSound
  <2>10. HeldApart'
    BY <2>3, <2>8 DEF IInv, HeldApart, Holding
  <2>11. HandlersSound'
    <3>1. LocalsSound(next)
      BY <1>1 DEF IInv, Bind, At, HandlersSound, LocalsSound, Starts, Reloads, Picks, Locals
    <3> QED
      BY <2>1, <3>1, HandlersSoundStep DEF IInv, TypeOK
  <2> QED
    BY <2>5, <2>7, <2>9, <2>10, <2>11 DEF IInv
<1>3. CASE bound[port] # Free
  <2>1. Goto(r, "failed") /\ UNCHANGED <<tasks, bound, rules, token, disk>>
    BY <1>3 DEF Bind
  <2> QED
    BY <2>1, GotoStep DEF IInv, TypeOK, Steps
<1> QED
  BY <1>2, <1>3

(* start registers the listener it has bound.                              *)
LEMMA InsertHandleStep ==
  ASSUME IInv, NEW r \in Requests, InsertHandle(r)
  PROVE  IInv'
<1> DEFINE name == req[r].name
           port == req[r].held
           next == [req[r] EXCEPT
                      !.at = IF req[r].kind = "create" THEN "list" ELSE "pick",
                      !.held = NoPort]
<1>1. req[r] \in Locals /\ name \in Names /\ port \in Ports /\ Holding(r)
  BY DEF IInv, TypeOK, InsertHandle, At, Holding, Locals
<1>2. next \in Locals /\ next.at \notin {"abort", "insert"}
  BY <1>1 DEF Locals, Steps
<1>3. /\ tasks' = [tasks EXCEPT ![name] = port]
      /\ req' = [req EXCEPT ![r] = next]
      /\ UNCHANGED <<bound, rules, token, disk>>
  BY DEF InsertHandle
<1>4. \A s \in Requests : Holding(s)' => s # r /\ Holding(s) /\ req'[s] = req[s]
  BY <1>2, <1>3 DEF IInv, TypeOK, Holding
<1>5. \A n \in Names : tasks'[n] = IF n = name THEN port ELSE tasks[n]
  BY <1>1, <1>3 DEF IInv, TypeOK, RuleList
<1>6. TypeOK'
  <2>1. req' \in [Requests -> Locals]
    BY <1>2, <1>3 DEF IInv, TypeOK
  <2>2. tasks' \in RuleList
    BY <1>1, <1>3 DEF IInv, TypeOK, RuleList
  <2> QED
    BY <1>3, <1>4, <2>1, <2>2 DEF IInv, TypeOK
<1>7. HandleIsLive'
  BY <1>1, <1>3, <1>5 DEF IInv, HandleIsLive, HeldSound
<1>8. HeldSound'
  <2>1. \A s \in Requests : Holding(s)' => req[s].held # port
    BY <1>1, <1>4 DEF IInv, HeldApart
  <2> QED
    BY <1>3, <1>4, <1>5, <2>1 DEF IInv, HeldSound
<1>9. HeldApart'
  BY <1>4 DEF IInv, HeldApart
<1>10. HandlersSound'
  <2>1. LocalsSound(next)
    BY <1>1 DEF IInv, InsertHandle, At, HandlersSound, LocalsSound, Starts, Reloads, Picks, Locals
  <2> QED
    BY <1>3, <2>1, HandlersSoundStep DEF IInv, TypeOK
<1> QED
  BY <1>6, <1>7, <1>8, <1>9, <1>10 DEF IInv

(* The remaining steps change only the handler itself, the list, the token *)
(* or the file.                                                            *)
LEMMA ReceiveStep ==
  ASSUME IInv, NEW r \in Requests, Receive(r) \/ EditFile(r)
  PROVE  IInv'
<1> USE DEF At
<1>1. req[r] \in Locals /\ LocalsSound(req[r])
  BY DEF IInv, TypeOK, HandlersSound
<1>2. rules \in RuleList /\ token \in Tokens /\ disk \in Files
  BY DEF IInv, TypeOK
<1>3. CASE EditFile(r)
  BY <1>2, <1>3, GotoStep DEF EditFile, Steps
<1>4. CASE Receive(r)
  <2>0. /\ req[r].at = "idle"
        /\ UNCHANGED <<tasks, bound, rules, token, disk>>
    BY <1>4 DEF Receive
  <2>1. ASSUME NEW n \in Names, NEW p \in Ports,
               req' = [req EXCEPT ![r] =
                         [@ EXCEPT !.at = "lookup", !.kind = "create", !.name = n, !.port = p]]
        PROVE  IInv'
    <3> DEFINE l == [req[r] EXCEPT !.at = "lookup", !.kind = "create",
                                   !.name = n, !.port = p]
    <3>1. l \in Locals /\ l.at = "lookup" /\ LocalsSound(l)
      BY <1>1, <2>0 DEF Locals, Steps, AllKinds, LocalsSound, Starts, Reloads, Picks
    <3>2. req' = [req EXCEPT ![r] = l]
      BY <2>1
    <3> QED
      BY <1>2, <2>0, <3>1, <3>2, LocalStep
  <2>2. ASSUME NEW n \in Names,
               req' = [req EXCEPT ![r] = [@ EXCEPT !.at = "stop", !.kind = "delete", !.name = n]]
        PROVE  IInv'
    <3> DEFINE l == [req[r] EXCEPT !.at = "stop", !.kind = "delete", !.name = n]
    <3>1. l \in Locals /\ l.at = "stop" /\ LocalsSound(l)
      BY <1>1, <2>0 DEF Locals, Steps, AllKinds, LocalsSound, Starts, Reloads, Picks
    <3>2. req' = [req EXCEPT ![r] = l]
      BY <2>2
    <3> QED
      BY <1>2, <2>0, <3>1, <3>2, LocalStep
  <2>3. ASSUME NEW t \in Tokens,
               req' = [req EXCEPT ![r] =
                         [@ EXCEPT !.at = "setToken", !.kind = "token", !.cfg.token = t]]
        PROVE  IInv'
    <3> DEFINE c == [req[r].cfg EXCEPT !.token = t]
               l == [req[r] EXCEPT !.at = "setToken", !.kind = "token", !.cfg = c]
    <3>1. c \in Config
      BY <1>1 DEF Locals, Config
    <3>2. l \in Locals /\ l.at = "setToken" /\ LocalsSound(l)
      BY <1>1, <2>0, <3>1 DEF Locals, Steps, AllKinds, LocalsSound, Starts, Reloads, Picks
    <3>3. req' = [req EXCEPT ![r] = l]
      BY <2>3
    <3> QED
      BY <1>2, <2>0, <3>2, <3>3, LocalStep
  <2>4. ASSUME req' = [req EXCEPT ![r] = [@ EXCEPT !.at = "load", !.kind = "reload"]]
        PROVE  IInv'
    <3> DEFINE l == [req[r] EXCEPT !.at = "load", !.kind = "reload"]
    <3>1. l \in Locals /\ l.at = "load" /\ LocalsSound(l)
      BY <1>1, <2>0 DEF Locals, Steps, AllKinds, LocalsSound, Starts, Reloads, Picks
    <3>2. req' = [req EXCEPT ![r] = l]
      BY <2>4
    <3> QED
      BY <1>2, <2>0, <3>1, <3>2, LocalStep
  <2> QED
    BY <1>4, <2>1, <2>2, <2>3, <2>4 DEF Receive
<1> QED
  BY <1>3, <1>4

(* api_create_proxy and api_delete_proxy look the name up and edit the list. *)
LEMMA CreateDeleteStep ==
  ASSUME IInv, NEW r \in Requests,
         LookUp(r) \/ CheckRunning(r) \/ UpdateList(r)
  PROVE  IInv'
<1> USE DEF At
<1>1. req[r] \in Locals /\ LocalsSound(req[r])
  BY DEF IInv, TypeOK, HandlersSound
<1>2. rules \in RuleList /\ token \in Tokens /\ disk \in Files
  BY DEF IInv, TypeOK
<1>3. CASE LookUp(r)
  <2> DEFINE step == IF rules[req[r].name] # NoPort THEN "stop" ELSE "check"
  <2>1. LocalsSound([req[r] EXCEPT !.at = step])
    BY <1>1, <1>3 DEF LookUp, Locals, LocalsSound, Starts, Reloads, Picks
  <2>2. step \in Steps \ {"abort", "insert"}
    BY DEF Steps
  <2> QED
    BY <1>2, <1>3, <2>1, <2>2, GotoStep DEF LookUp
<1>4. CASE CheckRunning(r)
  <2> DEFINE step == IF tasks[req[r].name] # NoPort THEN "failed" ELSE "bind"
  <2>1. LocalsSound([req[r] EXCEPT !.at = step])
    BY <1>1, <1>4 DEF CheckRunning, Locals, LocalsSound, Starts, Reloads, Picks
  <2>2. step \in Steps \ {"abort", "insert"}
    BY DEF Steps
  <2> QED
    BY <1>2, <1>4, <2>1, <2>2, GotoStep DEF CheckRunning
<1>5. CASE UpdateList(r)
  <2>1. rules' \in RuleList
    BY <1>1, <1>2, <1>5 DEF UpdateList, RuleList, Locals
  <2>2. LocalsSound([req[r] EXCEPT !.at = "readToken"])
    BY <1>1 DEF Locals, LocalsSound, Starts, Reloads, Picks
  <2> QED
    BY <1>2, <1>5, <2>1, <2>2, GotoStep DEF UpdateList, Steps
<1> QED
  BY <1>3, <1>4, <1>5

(* What is left of a file half written is a file.                          *)
LEMMA TruncatedType ==
  ASSUME NEW cfg \in Config
  PROVE  Truncated(cfg) \subseteq Files
<1> SUFFICES ASSUME NEW kept \in SUBSET Names
             PROVE  [cfg EXCEPT !.rules = [n \in Names |-> IF n \in kept THEN @[n] ELSE NoPort]]
                      \in Config
  BY DEF Truncated, Files
<1> DEFINE left == [n \in Names |-> IF n \in kept THEN cfg.rules[n] ELSE NoPort]
<1>1. left \in RuleList
  BY DEF Config, RuleList
<1> HIDE DEF left
<1>2. [cfg EXCEPT !.rules = left] \in Config
  BY <1>1 DEF Config
<1> QED
  BY <1>2 DEF left

(* The token is set, persist copies the memory and writes the file.        *)
LEMMA PersistStep ==
  ASSUME IInv, NEW r \in Requests,
         SetToken(r) \/ PersistToken(r) \/ PersistRules(r) \/ Save(r)
  PROVE  IInv'
<1> USE DEF At
<1>1. req[r] \in Locals /\ LocalsSound(req[r])
  BY DEF IInv, TypeOK, HandlersSound
<1>2. rules \in RuleList /\ token \in Tokens /\ disk \in Files
  BY DEF IInv, TypeOK
<1>3. CASE SetToken(r)
  <2> DEFINE step == IF req[r].kind = "token" THEN "readToken" ELSE "current"
  <2>1. LocalsSound([req[r] EXCEPT !.at = step])
    BY <1>1, <1>3 DEF SetToken, Locals, LocalsSound, Starts, Reloads, Picks
  <2>2. step \in Steps \ {"abort", "insert"}
    BY DEF Steps
  <2>3. token' \in Tokens
    BY <1>1, <1>3 DEF SetToken, Locals, Config
  <2> QED
    BY <1>2, <1>3, <2>1, <2>2, <2>3, GotoStep DEF SetToken
<1>4. CASE PersistToken(r)
  <2> DEFINE c == [req[r].cfg EXCEPT !.token = token]
             l == [req[r] EXCEPT !.at = "readRules", !.cfg = c]
  <2>1. c \in Config
    BY <1>1, <1>2 DEF Locals, Config
  <2>2. l \in Locals /\ l.at = "readRules" /\ LocalsSound(l)
    BY <1>1, <2>1 DEF Locals, Steps, LocalsSound, Starts, Reloads, Picks
  <2>3. req' = [req EXCEPT ![r] = l]
    BY <1>4 DEF PersistToken
  <2> QED
    BY <1>2, <1>4, <2>2, <2>3, LocalStep DEF PersistToken
<1>5. CASE PersistRules(r)
  <2> DEFINE c == [req[r].cfg EXCEPT !.rules = rules]
             l == [req[r] EXCEPT !.at = "save", !.cfg = c]
  <2>1. c \in Config
    BY <1>1, <1>2 DEF Locals, Config
  <2>2. l \in Locals /\ l.at = "save" /\ LocalsSound(l)
    BY <1>1, <2>1 DEF Locals, Steps, LocalsSound, Starts, Reloads, Picks
  <2>3. req' = [req EXCEPT ![r] = l]
    BY <1>5 DEF PersistRules
  <2> QED
    BY <1>2, <1>5, <2>2, <2>3, LocalStep DEF PersistRules
<1>6. CASE Save(r)
  <2>1. disk' \in Files
    <3>1. req[r].cfg \in Config
      BY <1>1 DEF Locals
    <3>2. disk' = req[r].cfg \/ disk' \in {disk} \cup Truncated(req[r].cfg)
      BY <1>6 DEF Save
    <3> QED
      BY <1>2, <3>1, <3>2, TruncatedType DEF Files
  <2>2. /\ UNCHANGED <<tasks, bound, rules, token>>
        /\ Goto(r, "ok") \/ Goto(r, "unsaved")
    BY <1>6 DEF Save
  <2>3. {"ok", "unsaved"} \subseteq Steps \ {"abort", "insert"}
    BY DEF Steps
  <2> QED
    BY <1>2, <2>1, <2>2, <2>3, GotoStep
<1> QED
  BY <1>3, <1>4, <1>5, <1>6

(* api_reload compares the file with the list and picks rules.             *)
LEMMA ReloadStep ==
  ASSUME IInv, NEW r \in Requests,
         LoadFile(r) \/ ReadCurrent(r) \/ PickRule(r) \/ ReplaceList(r)
  PROVE  IInv'
<1> USE DEF At
<1>1. req[r] \in Locals /\ LocalsSound(req[r])
  BY DEF IInv, TypeOK, HandlersSound
<1>2. rules \in RuleList /\ token \in Tokens /\ disk \in Files
  BY DEF IInv, TypeOK
<1>3. CASE LoadFile(r)
  <2> DEFINE l == [req[r] EXCEPT !.at = "setToken", !.cfg = disk]
  <2>1. CASE disk # Torn /\ req' = [req EXCEPT ![r] = l]
    <3>1. disk \in Config
      BY <1>2, <2>1 DEF Files
    <3>2. l \in Locals /\ l.at = "setToken" /\ LocalsSound(l)
      BY <1>1, <1>3, <3>1 DEF LoadFile, Locals, Steps, LocalsSound, Starts, Reloads, Picks
    <3> QED
      BY <1>2, <1>3, <2>1, <3>2, LocalStep DEF LoadFile
  <2>2. CASE Goto(r, "failed")
    BY <1>2, <1>3, <2>2, GotoStep DEF LoadFile, Steps
  <2> QED
    BY <1>3, <2>1, <2>2 DEF LoadFile
<1>4. CASE ReadCurrent(r)
  <2> DEFINE differ == {n \in Names : rules[n] # req[r].cfg.rules[n]}
             l == [req[r] EXCEPT !.at = "pick", !.seen = rules, !.todo = differ]
  <2>1. l \in Locals /\ l.at = "pick"
    BY <1>1, <1>2 DEF Locals, Steps
  <2>2. LocalsSound(l)
    BY <1>1, <1>4 DEF ReadCurrent, Locals, LocalsSound, Starts, Reloads, Picks
  <2>3. req' = [req EXCEPT ![r] = l]
    BY <1>4 DEF ReadCurrent
  <2> QED
    BY <1>2, <1>4, <2>1, <2>2, <2>3, LocalStep DEF ReadCurrent
<1>5. CASE PickRule(r)
  <2> DEFINE desired == req[r].cfg.rules
  <2>1. /\ req[r].at = "pick"
        /\ UNCHANGED <<tasks, bound, rules, token, disk>>
    BY <1>5 DEF PickRule
  <2>2. ASSUME NEW n \in req[r].todo,
               req' = [req EXCEPT ![r] =
                         [@ EXCEPT !.at = IF req[r].seen[n] # NoPort THEN "stop" ELSE "check",
                                   !.name = n, !.port = desired[n], !.todo = req[r].todo \ {n}]]
        PROVE  IInv'
    <3> DEFINE l == [req[r] EXCEPT
                       !.at = IF req[r].seen[n] # NoPort THEN "stop" ELSE "check",
                       !.name = n, !.port = desired[n], !.todo = req[r].todo \ {n}]
    <3>1. n \in Names /\ desired \in RuleList /\ req[r].seen \in RuleList
      BY <1>1 DEF Locals, Config
    <3>2. desired[n] \in Ports \cup {NoPort}
      BY <3>1 DEF RuleList
    <3>3. /\ l \in Locals
          /\ l.at = IF req[r].seen[n] # NoPort THEN "stop" ELSE "check"
          /\ l.port = desired[n] /\ l.todo = req[r].todo \ {n}
          /\ l.kind = req[r].kind /\ l.cfg = req[r].cfg /\ l.seen = req[r].seen
      BY <1>1, <3>1, <3>2 DEF Locals, Steps
    <3>4. req[r].seen[n] = NoPort => desired[n] \in Ports
      BY <1>1, <2>1, <3>2 DEF LocalsSound, Picks
    <3>5. req[r].kind # "create" /\ \A m \in req[r].todo : desired[m] # req[r].seen[m]
      BY <1>1, <2>1 DEF LocalsSound, Picks, Reloads
    <3>6. LocalsSound(l)
      BY <3>3, <3>4, <3>5 DEF LocalsSound, Starts, Reloads, Picks
    <3>7. l.at \notin {"abort", "insert"}
      BY <3>3
    <3>8. req' = [req EXCEPT ![r] = l]
      BY <2>2
    <3>9. l \in Locals
      BY <3>3
    <3> HIDE DEF l
    <3> QED
      BY <1>2, <2>1, <3>6, <3>7, <3>8, <3>9, LocalStep
  <2>3. ASSUME Goto(r, "replace") PROVE IInv'
    <3>1. LocalsSound([req[r] EXCEPT !.at = "replace"])
      BY <1>1 DEF Locals, LocalsSound, Starts, Reloads, Picks
    <3> QED
      BY <1>2, <2>1, <2>3, <3>1, GotoStep DEF Steps
  <2> DEFINE gone == {n \in req[r].todo : desired[n] = NoPort}
  <2>4. CASE req[r].todo = {} /\ Goto(r, "replace")
    BY <2>3, <2>4
  <2>5. ASSUME NEW n \in IF gone # {} THEN gone ELSE req[r].todo
        PROVE  n \in req[r].todo
    BY <2>5
  <2> QED
    BY <1>5, <2>2, <2>4, <2>5 DEF PickRule
<1>6. CASE ReplaceList(r)
  <2>1. rules' \in RuleList
    BY <1>1, <1>6 DEF ReplaceList, Locals, Config
  <2> QED
    BY <1>2, <1>6, <2>1, GotoStep DEF ReplaceList, Steps
<1> QED
  BY <1>3, <1>4, <1>5, <1>6

(* Two rules are never started on one port, so at startup each handle is   *)
(* the handle of the listener bound under its name.                        *)
LEMMA InitStep == Init => IInv
<1> SUFFICES ASSUME Init PROVE IInv
  OBVIOUS
<1>1. req = [r \in Requests |-> Resting("idle", "edit")]
  BY DEF Init
<1>2. Resting("idle", "edit") \in Locals
  BY RestingType DEF Steps, AllKinds
<1>3. \A r \in Requests : req[r].at = "idle" /\ req[r].todo = {}
  BY <1>1 DEF Resting
<1>4. \A r \in Requests : ~ Holding(r)
  BY <1>3 DEF Holding
<1>5. tasks \in RuleList /\ \A n \in Names : tasks[n] \in {NoPort} \cup (Ports \ Foreign)
  <2>1. tasks \in RuleList /\ Boots(tasks) /\ rules \in RuleList
    BY DEF Init, Config
  <2>2. \A n \in Names : rules[n] \in Ports \cup {NoPort}
    BY <2>1 DEF RuleList
  <2>3. \A n \in Names : tasks[n] \in {rules[n], NoPort} \ Foreign
    BY <2>1 DEF Boots
  <2> QED
    BY <2>1, <2>2, <2>3
<1>6. \A m, n \in Names : tasks[m] = tasks[n] => m = n \/ tasks[n] = NoPort
  BY DEF Init, Boots
<1>7. \A p \in Ports : bound[p] =
        IF p \in Foreign THEN Other
        ELSE IF \E n \in Names : tasks[n] = p
             THEN CHOOSE n \in Names : tasks[n] = p ELSE Free
  BY DEF Init
<1>8. TypeOK
  <2>1. req \in [Requests -> Locals]
    BY <1>1, <1>2
  <2>2. bound \in [Ports -> Names \cup {Free, Other}]
    <3>1. \A p \in Ports : bound[p] \in Names \cup {Free, Other}
      BY <1>7
    <3>2. bound = [p \in Ports |-> bound[p]]
      BY DEF Init
    <3> QED
      BY <3>1, <3>2
  <2>3. rules \in RuleList /\ token \in Tokens /\ disk \in Files
    BY DEF Init, Config, Files
  <2> QED
    BY <1>4, <1>5, <2>1, <2>2, <2>3 DEF TypeOK, Holding
<1>9. HandleIsLive
  <2> SUFFICES ASSUME NEW n \in Names, tasks[n] # NoPort PROVE bound[tasks[n]] = n
    BY DEF HandleIsLive
  <2>1. bound[tasks[n]] = CHOOSE m \in Names : tasks[m] = tasks[n]
    BY <1>5, <1>7
  <2> QED
    BY <1>6, <2>1
<1>10. HandlersSound
  BY <1>3 DEF HandlersSound, LocalsSound, Starts, Reloads, Picks
<1> QED
  BY <1>4, <1>8, <1>9, <1>10 DEF IInv, HeldSound, HeldApart

(* IInv holds of every reachable state.                                    *)
THEOREM Invariance == Spec => []IInv
<1>1. IInv /\ [Next]_vars => IInv'
  <2> SUFFICES ASSUME IInv, [Next]_vars PROVE IInv'
    OBVIOUS
  <2>1. CASE UNCHANGED vars
    BY <2>1 DEF vars, IInv, TypeOK, HandleIsLive, HeldSound, HeldApart, HandlersSound,
                Holding, LocalsSound, Starts, Reloads, Picks
  <2>2. ASSUME NEW r \in Requests, Receive(r) \/ EditFile(r) \/ Handle(r)
        PROVE  IInv'
    BY <2>2, ReceiveStep, CreateDeleteStep, TakeHandleStep, TaskEndsStep, BindStep,
       InsertHandleStep, PersistStep, ReloadStep DEF Handle
  <2> QED
    BY <2>1, <2>2 DEF Next
<1> QED
  BY InitStep, <1>1, PTL DEF Spec

(* TypeOK holds of every reachable state.                                  *)
THEOREM TypeCorrect == Spec => []TypeOK
<1>1. IInv => TypeOK
  BY DEF IInv
<1> QED
  BY Invariance, <1>1, PTL

(* However the console's handlers race, the handle ProxyManager keeps for  *)
(* a name is the handle of a listener that serves a port under that name.  *)
THEOREM HandlesLive == Spec => []HandleIsLive
<1>1. IInv => HandleIsLive
  BY DEF IInv
<1> QED
  BY Invariance, <1>1, PTL
-------------------------------------------------------------------------------
(* The administrator waits for each answer (Serial).  Then one handler is  *)
(* at work at a time, what it copied of the memory or of the file stays    *)
(* so until it has answered, and Sound says of each of its steps how far   *)
(* the listeners, the map, the list and the file agree.                    *)

AtWork(l) == l.at \notin {"idle"} \cup Ends

OneAtATime == \A r, s \in Requests : AtWork(req[r]) /\ AtWork(req[s]) => r = s

ReloadFailed == \E r \in Requests : At(r, "failed") /\ req[r].kind = "reload"

(* The file was edited by hand, or left as it was by a write that failed.  *)
FileEdited == \E r \in Requests : \/ At(r, "ok") /\ req[r].kind = "edit"
                                \/ At(r, "unsaved")

(* Which handlers come to which step.                                      *)
KindSound(l) ==
  /\ l.at = "idle" => l.kind = "edit"
  /\ l.at = "lookup" => l.kind = "create"
  /\ l.at \in {"stop", "abort"} => l.kind \in {"create", "delete", "reload"}
  /\ l.at \in {"check", "bind", "insert"} => l.kind \in {"create", "reload"}
  /\ l.at = "list" => l.kind \in {"create", "delete"}
  /\ l.at = "setToken" => l.kind \in {"token", "reload"}
  /\ l.at \in {"load", "current", "pick", "replace"} => l.kind = "reload"
  /\ l.at \in {"readToken", "readRules", "save"} => l.kind \in {"create", "delete", "token"}

(* Every listener is in the map, or in the hands of the handler at work.   *)
Owned(l) ==
  \A p \in Ports : bound[p] \in Names =>
    tasks[bound[p]] = p \/ (l.at \in {"abort", "insert"} /\ l.held = p)

(* The name has no listener from the moment stop took the handle until     *)
(* start registers the new one.                                            *)
NameSound(l) ==
  /\ l.at \in {"abort", "bind", "insert"} => tasks[l.name] = NoPort
  /\ l.at = "insert" => l.held = l.port
  /\ l.at = "list" => tasks[l.name] = IF l.kind = "create" THEN l.port ELSE NoPort

(* A reload at these steps has compared the file with the list.            *)
Compared(l) ==
  /\ l.kind = "reload"
  /\ l.at \in {"pick", "stop", "abort", "check", "bind", "insert", "replace"}

(* What the handler copied, of the file or of the memory, is still so.     *)
CopySound(l) ==
  /\ l.at \in {"readRules", "save"} => l.cfg.token = token
  /\ l.at = "save" => l.cfg.rules = rules
  /\ Compared(l) \/ l.at = "current" => l.cfg = disk /\ l.cfg.token = token
  /\ l.at = "setToken" /\ l.kind = "reload" => l.cfg = disk

(* While a reload is at work, a name is served as the list has it until    *)
(* the reload picks it, and as the file has it afterwards.                 *)
ReloadSound(l) ==
  Compared(l) =>
    /\ l.at = "replace" => l.todo = {}
    /\ l.at \in {"stop", "abort", "check", "bind", "insert"} =>
         l.name \notin l.todo /\ l.port = l.cfg.rules[l.name]
    /\ \A n \in Names : tasks[n] # NoPort =>
         IF n \in l.todo THEN rules[n] = tasks[n]
         ELSE l.cfg.rules[n] = tasks[n] \/ (l.name = n /\ l.at \in {"stop", "check"})

(* Otherwise only a name that a create has just started is not served as   *)
(* the list has it.                                                        *)
ListSound(l) ==
  \A n \in Names : \/ tasks[n] # NoPort => rules[n] = tasks[n]
                   \/ Compared(l)
                   \/ l.at = "list" /\ l.name = n

(* The file has what the memory has, or the handler is about to save it.   *)
FileSound(l) ==
  \/ l.at \in {"readToken", "readRules", "save"}
  \/ disk = [token |-> token, rules |-> rules]

Sound(l) ==
  /\ Owned(l) /\ NameSound(l) /\ CopySound(l)
  /\ ReloadFailed \/ (ReloadSound(l) /\ ListSound(l))
  /\ ReloadFailed \/ FileEdited \/ FileSound(l)

SerialInv ==
  /\ OneAtATime
  /\ \A r \in Requests : KindSound(req[r]) /\ (AtWork(req[r]) => Sound(req[r]))
  /\ Quiet => Sound(Resting("idle", "edit"))

(* A handler that goes on keeps its locals; one that answers keeps only    *)
(* the kind of its request.                                                *)
LEMMA GoesTo ==
  ASSUME TypeOK, NEW r \in Requests, NEW step, Goto(r, step)
  PROVE  /\ \A s \in Requests \ {r} : req'[s] = req[s]
         /\ req'[r].at = step /\ req'[r].kind = req[r].kind
         /\ step \in Ends \/
              /\ req'[r].name = req[r].name /\ req'[r].port = req[r].port
              /\ req'[r].held = req[r].held /\ req'[r].cfg = req[r].cfg
              /\ req'[r].seen = req[r].seen /\ req'[r].todo = req[r].todo
<1>1. req[r] \in Locals
  BY DEF TypeOK
<1>2. CASE step \in Ends
  <2>1. req' = [req EXCEPT ![r] = Resting(step, req[r].kind)]
    BY <1>2 DEF Goto
  <2>2. req'[r] = Resting(step, req[r].kind) /\ \A s \in Requests \ {r} : req'[s] = req[s]
    BY <2>1 DEF TypeOK
  <2> QED
    BY <1>2, <2>2 DEF Resting
<1>3. CASE step \notin Ends
  <2>1. req' = [req EXCEPT ![r] = [req[r] EXCEPT !.at = step]]
    BY <1>3 DEF Goto
  <2>2. /\ req'[r] = [req[r] EXCEPT !.at = step]
        /\ \A s \in Requests \ {r} : req'[s] = req[s]
    BY <2>1 DEF TypeOK
  <2> QED
    BY <1>1, <2>2 DEF Locals
<1> QED
  BY <1>2, <1>3

(* A step that moves one handler: what failed or was edited stays so.      *)
LEMMA Answers ==
  ASSUME NEW r \in Requests, ~ Answered(r), \A s \in Requests \ {r} : req'[s] = req[s]
  PROVE  /\ ReloadFailed => ReloadFailed'
         /\ FileEdited => FileEdited'
         /\ req'[r].at = "failed" /\ req'[r].kind = "reload" => ReloadFailed'
         /\ req'[r].at = "ok" /\ req'[r].kind = "edit" => FileEdited'
         /\ req'[r].at = "unsaved" => FileEdited'
BY DEF ReloadFailed, FileEdited, Answered, At

(* The step of a handler keeps what is known of it and leaves the others   *)
(* alone; only three steps answer 200.                                     *)
SoundStep(r) ==
  /\ KindSound(req[r])' /\ Sound(req[r])'
  /\ \A s \in Requests \ {r} : req'[s] = req[s]
  /\ req'[r].at = "ok" => req[r].at \in {"idle", "save", "replace"}

(* api_create_proxy looks the name up: an edit stops its listener first.   *)
LEMMA LookUpSound ==
  ASSUME TypeOK, NEW r \in Requests, KindSound(req[r]), Sound(req[r]), LookUp(r)
  PROVE  SoundStep(r)
<1> DEFINE step == IF rules[req[r].name] # NoPort THEN "stop" ELSE "check"
<1>1. /\ req[r].at = "lookup" /\ Goto(r, step)
      /\ UNCHANGED <<tasks, bound, rules, token, disk>>
  BY DEF LookUp, At
<1>2. /\ \A s \in Requests \ {r} : req'[s] = req[s]
      /\ req'[r].at = step /\ req'[r].kind = req[r].kind /\ req'[r].cfg = req[r].cfg
  BY <1>1, GoesTo
<1>3. req[r].kind = "create"
  BY <1>1 DEF KindSound
<1>4. (ReloadFailed => ReloadFailed') /\ (FileEdited => FileEdited')
  BY <1>1, <1>2, Answers DEF Answered, At
<1> QED
  BY <1>1, <1>2, <1>3, <1>4
  DEF SoundStep, KindSound, Sound, Owned, NameSound, CopySound, Compared, ReloadSound,
      ListSound, FileSound

(* stop takes the handle: the listener is this handler's now.              *)
LEMMA TakeHandleSound ==
  ASSUME TypeOK, NEW r \in Requests, KindSound(req[r]), Sound(req[r]), TakeHandle(r)
  PROVE  SoundStep(r)
<1> DEFINE name == req[r].name
<1>1. /\ req[r].at = "stop" /\ UNCHANGED <<bound, rules, token, disk>>
      /\ req[r].kind \in {"create", "delete", "reload"}
      /\ req[r] \in Locals /\ name \in Names /\ tasks \in RuleList
  BY DEF TakeHandle, At, KindSound, TypeOK, Locals
<1>2. CASE tasks[name] # NoPort
  <2>1. /\ tasks' = [tasks EXCEPT ![name] = NoPort]
        /\ req' = [req EXCEPT ![r] = [req[r] EXCEPT !.at = "abort", !.held = tasks[name]]]
    BY <1>2 DEF TakeHandle
  <2>2. /\ req'[r] = [req[r] EXCEPT !.at = "abort", !.held = tasks[name]]
        /\ \A s \in Requests \ {r} : req'[s] = req[s]
    BY <2>1 DEF TypeOK
  <2>3. /\ req'[r].at = "abort" /\ req'[r].held = tasks[name] /\ req'[r].name = name
        /\ req'[r].kind = req[r].kind /\ req'[r].cfg = req[r].cfg
        /\ req'[r].port = req[r].port /\ req'[r].todo = req[r].todo
    BY <1>1, <2>2 DEF Locals
  <2>4. \A n \in Names : tasks'[n] = IF n = name THEN NoPort ELSE tasks[n]
    BY <1>1, <2>1 DEF RuleList
  <2>5. (ReloadFailed => ReloadFailed') /\ (FileEdited => FileEdited')
    BY <1>1, <2>2, Answers DEF Answered, At
  <2>6. Owned(req[r])'
    BY <1>1, <2>3, <2>4 DEF Sound, Owned
  <2>7. NameSound(req[r])' /\ CopySound(req[r])' /\ KindSound(req[r])'
    BY <1>1, <2>3, <2>4 DEF Sound, NameSound, CopySound, Compared, KindSound
  <2>8. ReloadFailed' \/ (ReloadSound(req[r])' /\ ListSound(req[r])')
    BY <1>1, <2>3, <2>4, <2>5 DEF Sound, ReloadSound, ListSound, Compared
  <2>9. ReloadFailed' \/ FileEdited' \/ FileSound(req[r])'
    BY <1>1, <2>3, <2>5 DEF Sound, FileSound
  <2> QED
    BY <2>2, <2>3, <2>6, <2>7, <2>8, <2>9 DEF SoundStep, Sound
<1>3. CASE tasks[name] = NoPort
  <2> DEFINE step == IF req[r].kind = "delete" THEN "failed" ELSE AfterStop(r)
  <2>1. Goto(r, step) /\ tasks' = tasks
    BY <1>3 DEF TakeHandle
  <2>2. step \in {"check", "pick", "failed"} /\ (step = "failed" => req[r].kind = "delete")
    BY <1>1 DEF AfterStop
  <2>3. /\ \A s \in Requests \ {r} : req'[s] = req[s]
        /\ req'[r].at = step /\ req'[r].kind = req[r].kind
        /\ step # "failed" => /\ req'[r].name = name /\ req'[r].port = req[r].port
                              /\ req'[r].cfg = req[r].cfg /\ req'[r].todo = req[r].todo
    BY <2>1, <2>2, GoesTo
  <2>4. (ReloadFailed => ReloadFailed') /\ (FileEdited => FileEdited')
    BY <1>1, <2>3, Answers DEF Answered, At
  <2>5. KindSound(req[r])'
    BY <1>1, <2>2, <2>3 DEF KindSound, AfterStop
  <2>6. Owned(req[r])' /\ NameSound(req[r])' /\ CopySound(req[r])'
    BY <1>1, <2>1, <2>2, <2>3 DEF Sound, Owned, NameSound, CopySound, Compared
  <2>7. ReloadFailed' \/ (ReloadSound(req[r])' /\ ListSound(req[r])')
    BY <1>1, <1>3, <2>1, <2>2, <2>3, <2>4 DEF Sound, ReloadSound, ListSound, Compared
  <2>8. ReloadFailed' \/ FileEdited' \/ FileSound(req[r])'
    BY <1>1, <2>3, <2>4 DEF Sound, FileSound
  <2> QED
    BY <2>2, <2>3, <2>5, <2>6, <2>7, <2>8 DEF SoundStep, Sound
<1> QED
  BY <1>2, <1>3

(* The stopped listener has ended: its name and its port are free.         *)
LEMMA TaskEndsSound ==
  ASSUME TypeOK, NEW r \in Requests, KindSound(req[r]), Sound(req[r]), TaskEnds(r)
  PROVE  SoundStep(r)
<1> DEFINE step == AfterStop(r)
<1>1. /\ req[r].at = "abort" /\ UNCHANGED <<tasks, rules, token, disk>>
      /\ req[r].kind \in {"create", "delete", "reload"}
      /\ req[r] \in Locals /\ req[r].held \in Ports
      /\ bound' = [bound EXCEPT ![req[r].held] = Free]
      /\ req' = [req EXCEPT ![r] = [req[r] EXCEPT !.at = step, !.held = NoPort]]
  BY DEF TaskEnds, At, KindSound, TypeOK, Holding
<1>2. /\ req'[r] = [req[r] EXCEPT !.at = step, !.held = NoPort]
      /\ \A s \in Requests \ {r} : req'[s] = req[s]
  BY <1>1 DEF TypeOK
<1>3. /\ req'[r].at = step /\ req'[r].name = req[r].name
      /\ req'[r].kind = req[r].kind /\ req'[r].cfg = req[r].cfg
      /\ req'[r].port = req[r].port /\ req'[r].todo = req[r].todo
  <2>1. req[r] \in Locals /\ req'[r] = [req[r] EXCEPT !.at = step, !.held = NoPort]
    BY <1>1, <1>2
  <2> HIDE DEF step
  <2> QED
    BY <2>1 DEF Locals
<1>4. /\ step = CASE req[r].kind = "delete" -> "list" [] req[r].kind = "create" -> "check"
                  [] OTHER -> IF req[r].port = NoPort THEN "pick" ELSE "check"
      /\ step \in {"list", "check", "pick"}
      /\ req[r].kind = "create" => step = "check"
  BY <1>1 DEF AfterStop
<1>5. (ReloadFailed => ReloadFailed') /\ (FileEdited => FileEdited')
  BY <1>1, <1>2, Answers DEF Answered, At
<1>6. KindSound(req[r])'
  BY <1>1, <1>3, <1>4 DEF KindSound
<1>7. Owned(req[r])'
  <2>1. \A p \in Ports : bound'[p] = IF p = req[r].held THEN Free ELSE bound[p]
    BY <1>1 DEF TypeOK
  <2>2. Free \notin Names
    BY PortAssumption
  <2> QED
    BY <1>1, <2>1, <2>2 DEF Sound, Owned
<1>8. NameSound(req[r])' /\ CopySound(req[r])'
  BY <1>1, <1>3, <1>4 DEF Sound, NameSound, CopySound, Compared
<1>9. ReloadFailed' \/ (ReloadSound(req[r])' /\ ListSound(req[r])')
  BY <1>1, <1>3, <1>4, <1>5 DEF Sound, NameSound, ReloadSound, ListSound, Compared
<1>10. ReloadFailed' \/ FileEdited' \/ FileSound(req[r])'
  BY <1>1, <1>3, <1>5 DEF Sound, FileSound
<1> QED
  BY <1>2, <1>3, <1>4, <1>6, <1>7, <1>8, <1>9, <1>10 DEF SoundStep, Sound

(* start goes on only when the name has no listener.                       *)
LEMMA CheckRunningSound ==
  ASSUME TypeOK, NEW r \in Requests, KindSound(req[r]), Sound(req[r]), CheckRunning(r)
  PROVE  SoundStep(r)
<1> DEFINE step == IF tasks[req[r].name] # NoPort THEN "failed" ELSE "bind"
<1>1. /\ req[r].at = "check" /\ Goto(r, step) /\ req[r].kind \in {"create", "reload"}
      /\ UNCHANGED <<tasks, bound, rules, token, disk>>
  BY DEF CheckRunning, At, KindSound
<1>2. /\ \A s \in Requests \ {r} : req'[s] = req[s]
      /\ req'[r].at = step /\ req'[r].kind = req[r].kind
      /\ step # "failed" => /\ req'[r].name = req[r].name /\ req'[r].port = req[r].port
                            /\ req'[r].cfg = req[r].cfg /\ req'[r].todo = req[r].todo
  BY <1>1, GoesTo
<1>3. /\ ReloadFailed => ReloadFailed'
      /\ FileEdited => FileEdited'
      /\ req'[r].at = "failed" /\ req[r].kind = "reload" => ReloadFailed'
  BY <1>1, <1>2, Answers DEF Answered, At
<1>4. KindSound(req[r])' /\ Owned(req[r])' /\ NameSound(req[r])' /\ CopySound(req[r])'
  BY <1>1, <1>2 DEF Sound, KindSound, Owned, NameSound, CopySound, Compared
<1>5. ReloadFailed' \/ (ReloadSound(req[r])' /\ ListSound(req[r])')
  BY <1>1, <1>2, <1>3 DEF Sound, ReloadSound, ListSound, Compared
<1>6. ReloadFailed' \/ FileEdited' \/ FileSound(req[r])'
  BY <1>1, <1>2, <1>3 DEF Sound, FileSound
<1> QED
  BY <1>2, <1>4, <1>5, <1>6 DEF SoundStep, Sound

(* start binds the port: the listener is this handler's to register.       *)
LEMMA BindSound ==
  ASSUME TypeOK, NEW r \in Requests, KindSound(req[r]), Sound(req[r]), Bind(r)
  PROVE  SoundStep(r)
<1> DEFINE port == req[r].port
<1>1. /\ req[r].at = "bind" /\ req[r].kind \in {"create", "reload"}
      /\ UNCHANGED <<tasks, rules, token, disk>> /\ req[r] \in Locals
  BY DEF Bind, At, KindSound, TypeOK
<1>2. CASE bound[port] = Free
  <2>1. /\ bound' = [bound EXCEPT ![port] = req[r].name]
        /\ req' = [req EXCEPT ![r] = [req[r] EXCEPT !.at = "insert", !.held = port]]
    BY <1>2 DEF Bind, Goto
  <2>2. /\ req'[r] = [req[r] EXCEPT !.at = "insert", !.held = port]
        /\ \A s \in Requests \ {r} : req'[s] = req[s]
    BY <2>1 DEF TypeOK
  <2>3. /\ req'[r].at = "insert" /\ req'[r].held = port /\ req'[r].name = req[r].name
        /\ req'[r].kind = req[r].kind /\ req'[r].cfg = req[r].cfg
        /\ req'[r].port = port /\ req'[r].todo = req[r].todo
    BY <1>1, <2>2 DEF Locals
  <2>4. (ReloadFailed => ReloadFailed') /\ (FileEdited => FileEdited')
    BY <1>1, <2>2, Answers DEF Answered, At
  <2>5. KindSound(req[r])' /\ NameSound(req[r])' /\ CopySound(req[r])'
    BY <1>1, <2>3 DEF Sound, KindSound, NameSound, CopySound, Compared
  <2>6. Owned(req[r])'
    <3>1. \A p \in Ports : p # port => bound'[p] = bound[p]
      BY <2>1 DEF TypeOK
    <3> QED
      BY <1>1, <2>3, <3>1 DEF Sound, Owned
  <2>7. ReloadFailed' \/ (ReloadSound(req[r])' /\ ListSound(req[r])')
    BY <1>1, <2>3, <2>4 DEF Sound, ReloadSound, ListSound, Compared
  <2>8. ReloadFailed' \/ FileEdited' \/ FileSound(req[r])'
    BY <1>1, <2>3, <2>4 DEF Sound, FileSound
  <2> QED
    BY <2>2, <2>3, <2>5, <2>6, <2>7, <2>8 DEF SoundStep, Sound
<1>3. CASE bound[port] # Free
  <2>1. Goto(r, "failed") /\ bound' = bound
    BY <1>3 DEF Bind
  <2>2. /\ \A s \in Requests \ {r} : req'[s] = req[s]
        /\ req'[r].at = "failed" /\ req'[r].kind = req[r].kind
    BY <2>1, GoesTo
  <2>3. /\ ReloadFailed => ReloadFailed'
        /\ FileEdited => FileEdited'
        /\ req[r].kind = "reload" => ReloadFailed'
    BY <1>1, <2>2, Answers DEF Answered, At
  <2>4. KindSound(req[r])' /\ Owned(req[r])' /\ NameSound(req[r])' /\ CopySound(req[r])'
    BY <1>1, <2>1, <2>2 DEF Sound, KindSound, Owned, NameSound, CopySound, Compared
  <2>5. ReloadFailed' \/ (ReloadSound(req[r])' /\ ListSound(req[r])')
    BY <1>1, <2>2, <2>3 DEF Sound, ReloadSound, ListSound, Compared
  <2>6. ReloadFailed' \/ FileEdited' \/ FileSound(req[r])'
    BY <1>1, <2>2, <2>3 DEF Sound, FileSound
  <2> QED
    BY <2>2, <2>4, <2>5, <2>6 DEF SoundStep, Sound
<1> QED
  BY <1>2, <1>3

(* The handle that start registers replaces none.                          *)
LEMMA InsertHandleSound ==
  ASSUME TypeOK, NEW r \in Requests, KindSound(req[r]), Sound(req[r]), InsertHandle(r),
         bound[req[r].held] = req[r].name
  PROVE  SoundStep(r)
<1> DEFINE name == req[r].name
           step == IF req[r].kind = "create" THEN "list" ELSE "pick"
<1>1. /\ req[r].at = "insert" /\ req[r].kind \in {"create", "reload"}
      /\ UNCHANGED <<bound, rules, token, disk>> /\ req[r] \in Locals
      /\ name \in Names /\ tasks \in RuleList
      /\ tasks' = [tasks EXCEPT ![name] = req[r].held]
      /\ req' = [req EXCEPT ![r] = [req[r] EXCEPT !.at = step, !.held = NoPort]]
  BY DEF InsertHandle, At, KindSound, TypeOK, Locals
<1>2. /\ req'[r] = [req[r] EXCEPT !.at = step, !.held = NoPort]
      /\ \A s \in Requests \ {r} : req'[s] = req[s]
  BY <1>1 DEF TypeOK
<1>3. /\ req'[r].at = step /\ req'[r].name = name
      /\ req'[r].kind = req[r].kind /\ req'[r].cfg = req[r].cfg
      /\ req'[r].port = req[r].port /\ req'[r].todo = req[r].todo
  <2>1. req[r] \in Locals /\ req'[r] = [req[r] EXCEPT !.at = step, !.held = NoPort]
    BY <1>1, <1>2
  <2> HIDE DEF step
  <2> QED
    BY <2>1 DEF Locals
<1>4. \A n \in Names : tasks'[n] = IF n = name THEN req[r].port ELSE tasks[n]
  BY <1>1 DEF Sound, NameSound, RuleList
<1>5. (ReloadFailed => ReloadFailed') /\ (FileEdited => FileEdited')
  BY <1>1, <1>2, Answers DEF Answered, At
<1>6. KindSound(req[r])' /\ NameSound(req[r])' /\ CopySound(req[r])'
  BY <1>1, <1>3, <1>4 DEF Sound, KindSound, NameSound, CopySound, Compared
<1>7. Owned(req[r])'
  <2>1. tasks[name] = NoPort /\ req[r].held = req[r].port
    BY <1>1 DEF Sound, NameSound
  <2>2. NoPort \notin Ports
    BY PortAssumption
  <2>3. ASSUME NEW p \in Ports, bound'[p] \in Names PROVE tasks'[bound'[p]] = p
    <3>1. tasks[bound[p]] = p \/ req[r].held = p
      BY <1>1, <2>3 DEF Sound, Owned
    <3> QED
      BY <1>1, <1>4, <2>1, <2>2, <2>3, <3>1
  <2> QED
    BY <2>3 DEF Owned
<1>8. ReloadFailed' \/ (ReloadSound(req[r])' /\ ListSound(req[r])')
  BY <1>1, <1>3, <1>4, <1>5 DEF Sound, ReloadSound, ListSound, Compared
<1>9. ReloadFailed' \/ FileEdited' \/ FileSound(req[r])'
  BY <1>1, <1>3, <1>5 DEF Sound, FileSound
<1> QED
  BY <1>2, <1>3, <1>6, <1>7, <1>8, <1>9 DEF SoundStep, Sound

(* The list now has the name as it is served.                              *)
LEMMA UpdateListSound ==
  ASSUME TypeOK, NEW r \in Requests, KindSound(req[r]), Sound(req[r]), UpdateList(r)
  PROVE  SoundStep(r)
<1> DEFINE name == req[r].name
<1>1. /\ req[r].at = "list" /\ req[r].kind \in {"create", "delete"}
      /\ UNCHANGED <<tasks, bound, token, disk>> /\ Goto(r, "readToken")
      /\ name \in Names /\ rules \in RuleList
      /\ rules' = [rules EXCEPT ![name] =
                     IF req[r].kind = "create" THEN req[r].port ELSE NoPort]
  BY DEF UpdateList, At, KindSound, TypeOK, Locals
<1>2. /\ \A s \in Requests \ {r} : req'[s] = req[s]
      /\ req'[r].at = "readToken" /\ req'[r].kind = req[r].kind
  BY <1>1, GoesTo
<1>3. \A n \in Names : rules'[n] = IF n = name THEN tasks[name] ELSE rules[n]
  BY <1>1 DEF Sound, NameSound, RuleList
<1>4. (ReloadFailed => ReloadFailed') /\ (FileEdited => FileEdited')
  BY <1>1, <1>2, Answers DEF Answered, At
<1>5. KindSound(req[r])' /\ Owned(req[r])' /\ NameSound(req[r])' /\ CopySound(req[r])'
  BY <1>1, <1>2 DEF Sound, KindSound, Owned, NameSound, CopySound, Compared
<1>6. ReloadFailed' \/ (ReloadSound(req[r])' /\ ListSound(req[r])')
  BY <1>1, <1>2, <1>3, <1>4 DEF Sound, ReloadSound, ListSound, Compared
<1>7. FileSound(req[r])'
  BY <1>2 DEF FileSound
<1> QED
  BY <1>2, <1>5, <1>6, <1>7 DEF SoundStep, Sound

(* A request that arrives is given to its handler.                         *)
LEMMA Receives ==
  ASSUME TypeOK, NEW r \in Requests, Receive(r)
  PROVE  /\ req[r].at = "idle" /\ UNCHANGED <<tasks, bound, rules, token, disk>>
         /\ \A s \in Requests \ {r} : req'[s] = req[s]
         /\ \/ req'[r].at = "lookup" /\ req'[r].kind = "create"
            \/ req'[r].at = "stop" /\ req'[r].kind = "delete"
            \/ req'[r].at = "setToken" /\ req'[r].kind = "token"
            \/ req'[r].at = "load" /\ req'[r].kind = "reload"
<1> USE DEF At
<1> DEFINE Goal ==
  /\ \A s \in Requests \ {r} : req'[s] = req[s]
  /\ \/ req'[r].at = "lookup" /\ req'[r].kind = "create"
     \/ req'[r].at = "stop" /\ req'[r].kind = "delete"
     \/ req'[r].at = "setToken" /\ req'[r].kind = "token"
     \/ req'[r].at = "load" /\ req'[r].kind = "reload"
<1>1. req[r] \in Locals
  BY DEF TypeOK
<1>2. req[r].at = "idle" /\ UNCHANGED <<tasks, bound, rules, token, disk>>
  BY DEF Receive
<1>3. ASSUME NEW l, req' = [req EXCEPT ![r] = l]
      PROVE  req'[r] = l /\ \A s \in Requests \ {r} : req'[s] = req[s]
  BY <1>3 DEF TypeOK
<1>4. ASSUME NEW n \in Names, NEW p \in Ports,
             req' = [req EXCEPT ![r] =
                       [@ EXCEPT !.at = "lookup", !.kind = "create", !.name = n, !.port = p]]
      PROVE  Goal
  <2> DEFINE l == [req[r] EXCEPT !.at = "lookup", !.kind = "create", !.name = n, !.port = p]
  <2>1. l.at = "lookup" /\ l.kind = "create"
    BY <1>1 DEF Locals
  <2>2. req' = [req EXCEPT ![r] = l]
    BY <1>4
  <2> HIDE DEF l
  <2> QED
    BY <1>3, <2>1, <2>2
<1>5. ASSUME NEW n \in Names,
             req' = [req EXCEPT ![r] = [@ EXCEPT !.at = "stop", !.kind = "delete", !.name = n]]
      PROVE  Goal
  <2> DEFINE l == [req[r] EXCEPT !.at = "stop", !.kind = "delete", !.name = n]
  <2>1. l.at = "stop" /\ l.kind = "delete"
    BY <1>1 DEF Locals
  <2>2. req' = [req EXCEPT ![r] = l]
    BY <1>5
  <2> HIDE DEF l
  <2> QED
    BY <1>3, <2>1, <2>2
<1>6. ASSUME NEW t \in Tokens,
             req' = [req EXCEPT ![r] =
                       [@ EXCEPT !.at = "setToken", !.kind = "token", !.cfg.token = t]]
      PROVE  Goal
  <2> DEFINE c == [req[r].cfg EXCEPT !.token = t]
             l == [req[r] EXCEPT !.at = "setToken", !.kind = "token", !.cfg = c]
  <2>1. l.at = "setToken" /\ l.kind = "token"
    BY <1>1 DEF Locals
  <2>2. req' = [req EXCEPT ![r] = l]
    BY <1>6
  <2> HIDE DEF l
  <2> QED
    BY <1>3, <2>1, <2>2
<1>7. ASSUME req' = [req EXCEPT ![r] = [@ EXCEPT !.at = "load", !.kind = "reload"]]
      PROVE  Goal
  <2> DEFINE l == [req[r] EXCEPT !.at = "load", !.kind = "reload"]
  <2>1. l.at = "load" /\ l.kind = "reload"
    BY <1>1 DEF Locals
  <2>2. req' = [req EXCEPT ![r] = l]
    BY <1>7
  <2> HIDE DEF l
  <2> QED
    BY <1>3, <2>1, <2>2
<1> HIDE DEF Goal
<1>8. Goal
  BY <1>4, <1>5, <1>6, <1>7 DEF Receive
<1> QED
  BY <1>2, <1>8 DEF Goal

(* A reload that picks its next rule changes nothing but its own locals.   *)
LEMMA PickingLeaves ==
  ASSUME NEW r \in Requests, PickRule(r)
  PROVE  req[r].at = "pick" /\ UNCHANGED <<tasks, bound, rules, token, disk>>
BY DEF PickRule, At

(* The token is set, and persist copies the memory and writes the file.    *)
LEMMA PersistSound ==
  ASSUME TypeOK, NEW r \in Requests, KindSound(req[r]), Sound(req[r]),
         SetToken(r) \/ PersistToken(r) \/ PersistRules(r) \/ Save(r)
  PROVE  SoundStep(r)
<1>1. /\ req[r] \in Locals /\ rules \in RuleList /\ token \in Tokens /\ disk \in Files
      /\ UNCHANGED <<tasks, bound, rules>>
      /\ req[r].at \in {"setToken", "readToken", "readRules", "save"}
      /\ req[r].kind \in {"create", "delete", "token", "reload"}
  BY DEF TypeOK, SetToken, PersistToken, PersistRules, Save, KindSound, At
<1>2. CASE SetToken(r)
  <2> DEFINE step == IF req[r].kind = "token" THEN "readToken" ELSE "current"
  <2>1. /\ req[r].at = "setToken" /\ req[r].kind \in {"token", "reload"}
        /\ Goto(r, step) /\ token' = req[r].cfg.token /\ disk' = disk
    BY <1>2 DEF SetToken, At, KindSound
  <2>2. /\ \A s \in Requests \ {r} : req'[s] = req[s]
        /\ req'[r].at = step /\ req'[r].kind = req[r].kind /\ req'[r].cfg = req[r].cfg
    BY <2>1, GoesTo
  <2>3. (ReloadFailed => ReloadFailed') /\ (FileEdited => FileEdited')
    BY <2>1, <2>2, Answers DEF Answered, At
  <2>4. KindSound(req[r])' /\ Owned(req[r])' /\ NameSound(req[r])' /\ CopySound(req[r])'
    BY <1>1, <2>1, <2>2 DEF Sound, KindSound, Owned, NameSound, CopySound, Compared
  <2>5. ReloadFailed' \/ (ReloadSound(req[r])' /\ ListSound(req[r])')
    BY <1>1, <2>1, <2>2, <2>3 DEF Sound, ReloadSound, ListSound, Compared
  <2>6. ReloadFailed' \/ FileEdited' \/ FileSound(req[r])'
    <3>1. req[r].kind = "reload" /\ FileSound(req[r]) => token' = token
      BY <2>1 DEF Sound, FileSound, CopySound
    <3>2. req[r].kind = "token" => FileSound(req[r])'
      BY <2>1, <2>2 DEF FileSound
    <3>3. req[r].kind = "reload" /\ FileSound(req[r]) => FileSound(req[r])'
      BY <1>1, <2>1, <3>1 DEF FileSound
    <3> QED
      BY <2>1, <2>3, <3>2, <3>3 DEF Sound
  <2> QED
    BY <2>2, <2>4, <2>5, <2>6 DEF SoundStep, Sound
<1>3. CASE PersistToken(r)
  <2> DEFINE c == [req[r].cfg EXCEPT !.token = token]
             l == [req[r] EXCEPT !.at = "readRules", !.cfg = c]
  <2>1. req[r].at = "readToken" /\ req' = [req EXCEPT ![r] = l] /\ UNCHANGED <<token, disk>>
    BY <1>3 DEF PersistToken, At
  <2>2. c.token = token /\ l.at = "readRules" /\ l.kind = req[r].kind /\ l.cfg = c
    BY <1>1 DEF Locals, Config
  <2> HIDE DEF l
  <2>3. req'[r] = l /\ \A s \in Requests \ {r} : req'[s] = req[s]
    BY <2>1 DEF TypeOK
  <2>4. (ReloadFailed => ReloadFailed') /\ (FileEdited => FileEdited')
    BY <2>1, <2>3, Answers DEF Answered, At
  <2>5. /\ req'[r].at = "readRules" /\ req'[r].kind = req[r].kind
        /\ req'[r].cfg.token = token
    BY <2>2, <2>3
  <2> QED
    BY <1>1, <2>1, <2>3, <2>4, <2>5 DEF SoundStep, Sound, KindSound, Owned, NameSound,
       CopySound, Compared, ReloadSound, ListSound, FileSound
<1>4. CASE PersistRules(r)
  <2> DEFINE c == [req[r].cfg EXCEPT !.rules = rules]
             l == [req[r] EXCEPT !.at = "save", !.cfg = c]
  <2>1. req[r].at = "readRules" /\ req' = [req EXCEPT ![r] = l] /\ UNCHANGED <<token, disk>>
    BY <1>4 DEF PersistRules, At
  <2>2. /\ c.rules = rules /\ c.token = req[r].cfg.token
        /\ l.at = "save" /\ l.kind = req[r].kind /\ l.cfg = c
    BY <1>1 DEF Locals, Config
  <2> HIDE DEF l
  <2>3. req'[r] = l /\ \A s \in Requests \ {r} : req'[s] = req[s]
    BY <2>1 DEF TypeOK
  <2>4. (ReloadFailed => ReloadFailed') /\ (FileEdited => FileEdited')
    BY <2>1, <2>3, Answers DEF Answered, At
  <2>5. /\ req'[r].at = "save" /\ req'[r].kind = req[r].kind
        /\ req'[r].cfg.token = req[r].cfg.token /\ req'[r].cfg.rules = rules
    BY <2>2, <2>3
  <2>6. req[r].cfg.token = token
    BY <2>1 DEF Sound, CopySound
  <2> QED
    BY <1>1, <2>1, <2>3, <2>4, <2>5, <2>6 DEF SoundStep, Sound, KindSound, Owned, NameSound,
       CopySound, Compared, ReloadSound, ListSound, FileSound
<1>5. CASE Save(r)
  <2>1. req[r].at = "save" /\ token' = token /\ req[r].kind \in {"create", "delete", "token"}
    BY <1>5 DEF Save, At, KindSound
  <2>2. PICK step \in {"ok", "unsaved"} :
          Goto(r, step) /\ (step = "ok" => disk' = req[r].cfg)
    BY <1>5 DEF Save
  <2>3. /\ \A s \in Requests \ {r} : req'[s] = req[s]
        /\ req'[r].at = step /\ req'[r].kind = req[r].kind
    BY <2>2, GoesTo
  <2>4. /\ ReloadFailed => ReloadFailed'
        /\ step = "unsaved" => FileEdited'
    BY <2>1, <2>3, Answers DEF Answered, At
  <2>5. step = "ok" => disk' = [token |-> token, rules |-> rules]
    BY <1>1, <2>1, <2>2 DEF Sound, CopySound, Locals, Config
  <2>6. KindSound(req[r])' /\ Owned(req[r])' /\ NameSound(req[r])' /\ CopySound(req[r])'
    BY <1>1, <2>1, <2>2, <2>3 DEF Sound, KindSound, Owned, NameSound, CopySound, Compared
  <2>7. ReloadFailed' \/ (ReloadSound(req[r])' /\ ListSound(req[r])')
    BY <1>1, <2>1, <2>2, <2>3, <2>4 DEF Sound, ReloadSound, ListSound, Compared
  <2>8. FileEdited' \/ FileSound(req[r])'
    BY <1>1, <2>1, <2>2, <2>4, <2>5 DEF FileSound
  <2> QED
    BY <2>1, <2>2, <2>3, <2>6, <2>7, <2>8 DEF SoundStep, Sound
<1> QED
  BY <1>2, <1>3, <1>4, <1>5

(* A reload compares the file with the list, picks a rule and, when none   *)
(* is left, makes the file's rules the list.                               *)
LEMMA ReloadStepsSound ==
  ASSUME TypeOK, NEW r \in Requests, KindSound(req[r]), Sound(req[r]),
         LoadFile(r) \/ ReadCurrent(r) \/ PickRule(r) \/ ReplaceList(r)
  PROVE  SoundStep(r)
<1>1. /\ req[r] \in Locals /\ rules \in RuleList /\ token \in Tokens /\ disk \in Files
      /\ UNCHANGED <<tasks, bound, token, disk>>
      /\ req[r].at \in {"load", "current", "pick", "replace"} /\ req[r].kind = "reload"
  <2>1. CASE LoadFile(r)
    BY <2>1 DEF TypeOK, LoadFile, KindSound, At
  <2>2. CASE ReadCurrent(r)
    BY <2>2 DEF TypeOK, ReadCurrent, KindSound, At
  <2>3. CASE PickRule(r)
    <3>1. req[r].at = "pick" /\ UNCHANGED <<tasks, bound, token, disk>>
      BY <2>3, PickingLeaves
    <3> QED
      BY <3>1 DEF TypeOK, KindSound
  <2>4. CASE ReplaceList(r)
    BY <2>4 DEF TypeOK, ReplaceList, KindSound, At
  <2> QED
    BY <2>1, <2>2, <2>3, <2>4
<1>2. CASE LoadFile(r)
  <2> DEFINE l == [req[r] EXCEPT !.at = "setToken", !.cfg = disk]
  <2>1. req[r].at = "load" /\ rules' = rules
    BY <1>2 DEF LoadFile, At
  <2>2. CASE req' = [req EXCEPT ![r] = l]
    <3>1. l.at = "setToken" /\ l.kind = req[r].kind /\ l.cfg = disk
      BY <1>1 DEF Locals
    <3> HIDE DEF l
    <3>2. req'[r] = l /\ \A s \in Requests \ {r} : req'[s] = req[s]
      BY <2>2 DEF TypeOK
    <3>3. (ReloadFailed => ReloadFailed') /\ (FileEdited => FileEdited')
      BY <2>1, <3>2, Answers DEF Answered, At
    <3> QED
      BY <1>1, <2>1, <3>1, <3>2, <3>3 DEF SoundStep, Sound, KindSound, Owned, NameSound,
         CopySound, Compared, ReloadSound, ListSound, FileSound
  <2>3. CASE Goto(r, "failed")
    <3>1. /\ \A s \in Requests \ {r} : req'[s] = req[s]
          /\ req'[r].at = "failed" /\ req'[r].kind = "reload"
      BY <1>1, <2>3, GoesTo
    <3>2. ReloadFailed'
      BY <2>1, <3>1, Answers DEF Answered, At
    <3> QED
      BY <1>1, <2>1, <3>1, <3>2 DEF SoundStep, Sound, KindSound, Owned, NameSound,
         CopySound, Compared
  <2> QED
    BY <1>2, <2>2, <2>3 DEF LoadFile
<1>3. CASE ReadCurrent(r)
  <2> DEFINE differ == {n \in Names : rules[n] # req[r].cfg.rules[n]}
             l == [req[r] EXCEPT !.at = "pick", !.seen = rules, !.todo = differ]
  <2>1. req[r].at = "current" /\ req' = [req EXCEPT ![r] = l] /\ rules' = rules
    BY <1>3 DEF ReadCurrent, At
  <2>2. l.at = "pick" /\ l.kind = req[r].kind /\ l.cfg = req[r].cfg /\ l.todo = differ
    BY <1>1 DEF Locals
  <2> HIDE DEF l
  <2>3. req'[r] = l /\ \A s \in Requests \ {r} : req'[s] = req[s]
    BY <2>1 DEF TypeOK
  <2>4. (ReloadFailed => ReloadFailed') /\ (FileEdited => FileEdited')
    BY <2>1, <2>3, Answers DEF Answered, At
  <2>5. KindSound(req[r])' /\ Owned(req[r])' /\ NameSound(req[r])' /\ CopySound(req[r])'
    BY <1>1, <2>1, <2>2, <2>3 DEF Sound, KindSound, Owned, NameSound, CopySound, Compared
  <2>6. ReloadFailed' \/ (ReloadSound(req[r])' /\ ListSound(req[r])')
    BY <1>1, <2>1, <2>2, <2>3, <2>4 DEF Sound, ReloadSound, ListSound, Compared
  <2>7. ReloadFailed' \/ FileEdited' \/ FileSound(req[r])'
    BY <1>1, <2>1, <2>2, <2>3, <2>4 DEF Sound, FileSound
  <2> QED
    BY <2>2, <2>3, <2>5, <2>6, <2>7 DEF SoundStep, Sound
<1>4. CASE PickRule(r)
  <2> DEFINE desired == req[r].cfg.rules
             todo == req[r].todo
  <2>1. req[r].at = "pick" /\ rules' = rules /\ todo \subseteq Names
    <3>1. req[r].at = "pick" /\ rules' = rules
      BY <1>4, PickingLeaves
    <3> QED
      BY <1>1, <3>1 DEF Locals
  <2>2. ASSUME NEW n \in todo,
               req' = [req EXCEPT ![r] =
                         [@ EXCEPT !.at = IF req[r].seen[n] # NoPort THEN "stop" ELSE "check",
                                   !.name = n, !.port = desired[n], !.todo = todo \ {n}]]
        PROVE  SoundStep(r)
    <3> DEFINE step == IF req[r].seen[n] # NoPort THEN "stop" ELSE "check"
               rest == todo \ {n}
               port == desired[n]
               l == [req[r] EXCEPT !.at = step, !.name = n, !.port = port, !.todo = rest]
    <3>1. req' = [req EXCEPT ![r] = l] /\ step \in {"stop", "check"}
      BY <2>2
    <3>2. /\ l.at = step /\ l.name = n /\ l.port = port /\ l.todo = rest
          /\ l.kind = req[r].kind /\ l.cfg = req[r].cfg
      <4> HIDE DEF step, rest, port
      <4> QED
        BY <1>1 DEF Locals
    <3> HIDE DEF l
    <3>3. req'[r] = l /\ \A s \in Requests \ {r} : req'[s] = req[s]
      BY <3>1 DEF TypeOK
    <3>4. (ReloadFailed => ReloadFailed') /\ (FileEdited => FileEdited')
      BY <2>1, <3>3, Answers DEF Answered, At
    <3>5. KindSound(req[r])' /\ Owned(req[r])' /\ NameSound(req[r])' /\ CopySound(req[r])'
      BY <1>1, <2>1, <3>1, <3>2, <3>3
      DEF Sound, KindSound, Owned, NameSound, CopySound, Compared
    <3>6. ReloadFailed' \/ (ReloadSound(req[r])' /\ ListSound(req[r])')
      BY <1>1, <2>1, <3>1, <3>2, <3>3, <3>4 DEF Sound, ReloadSound, ListSound, Compared
    <3>7. ReloadFailed' \/ FileEdited' \/ FileSound(req[r])'
      BY <1>1, <2>1, <3>4 DEF Sound, FileSound
    <3> QED
      BY <3>1, <3>2, <3>3, <3>5, <3>6, <3>7 DEF SoundStep, Sound
  <2>3. ASSUME todo = {}, Goto(r, "replace") PROVE SoundStep(r)
    <3>1. /\ \A s \in Requests \ {r} : req'[s] = req[s]
          /\ req'[r].at = "replace" /\ req'[r].kind = req[r].kind
          /\ req'[r].cfg = req[r].cfg /\ req'[r].todo = {}
      BY <2>3, GoesTo
    <3>2. (ReloadFailed => ReloadFailed') /\ (FileEdited => FileEdited')
      BY <2>1, <3>1, Answers DEF Answered, At
    <3> QED
      BY <1>1, <2>1, <2>3, <3>1, <3>2 DEF SoundStep, Sound, KindSound, Owned, NameSound,
         CopySound, Compared, ReloadSound, ListSound, FileSound
  <2> DEFINE gone == {n \in todo : desired[n] = NoPort}
  <2>4. ASSUME NEW n \in IF gone # {} THEN gone ELSE todo
        PROVE  n \in todo
    BY <2>4
  <2> QED
    BY <1>4, <2>2, <2>3, <2>4 DEF PickRule
<1>5. CASE ReplaceList(r)
  <2>1. req[r].at = "replace" /\ Goto(r, "ok") /\ rules' = req[r].cfg.rules
    BY <1>5 DEF ReplaceList, At
  <2>2. /\ \A s \in Requests \ {r} : req'[s] = req[s]
        /\ req'[r].at = "ok" /\ req'[r].kind = req[r].kind
    BY <2>1, GoesTo
  <2>3. (ReloadFailed => ReloadFailed') /\ (FileEdited => FileEdited')
    BY <2>1, <2>2, Answers DEF Answered, At
  <2>4. disk = [token |-> token, rules |-> rules']
    <3>1. req[r].cfg \in Config /\ req[r].cfg = disk /\ req[r].cfg.token = token
      BY <1>1, <2>1 DEF Sound, CopySound, Compared, Locals
    <3> QED
      BY <2>1, <3>1 DEF Config
  <2>5. ReloadFailed' \/ (ReloadSound(req[r])' /\ ListSound(req[r])')
    BY <1>1, <2>1, <2>2, <2>3 DEF Sound, ReloadSound, ListSound, Compared
  <2> QED
    BY <1>1, <2>1, <2>2, <2>4, <2>5 DEF SoundStep, Sound, KindSound, Owned, NameSound,
       CopySound, Compared, FileSound
<1> QED
  BY <1>2, <1>3, <1>4, <1>5

(* A request begins only when no other is at work.                         *)
LEMMA ArrivalSound ==
  ASSUME TypeOK, NEW r \in Requests, KindSound(req[r]), Sound(req[r]),
         Receive(r) \/ EditFile(r)
  PROVE  SoundStep(r)
<1>1. /\ req[r] \in Locals /\ req[r].at = "idle" /\ req[r].kind = "edit"
      /\ UNCHANGED <<tasks, bound, rules, token>>
  <2>1. Receive(r) => req[r].at = "idle" /\ UNCHANGED <<tasks, bound, rules, token>>
    BY Receives
  <2>2. EditFile(r) => req[r].at = "idle" /\ UNCHANGED <<tasks, bound, rules, token>>
    BY DEF EditFile, At
  <2> QED
    BY <2>1, <2>2 DEF TypeOK, KindSound
<1>2. CASE EditFile(r)
  <2>1. Goto(r, "ok")
    BY <1>2 DEF EditFile
  <2>2. /\ \A s \in Requests \ {r} : req'[s] = req[s]
        /\ req'[r].at = "ok" /\ req'[r].kind = "edit"
    BY <1>1, <2>1, GoesTo
  <2>3. (ReloadFailed => ReloadFailed') /\ FileEdited'
    BY <1>1, <2>2, Answers DEF Answered, At
  <2> QED
    BY <1>1, <2>2, <2>3 DEF SoundStep, Sound, KindSound, Owned, NameSound, CopySound,
       Compared, ReloadSound, ListSound
<1>3. CASE Receive(r)
  <2>1. disk' = disk
    BY <1>3, Receives
  <2>2. /\ \A s \in Requests \ {r} : req'[s] = req[s]
        /\ \/ req'[r].at = "lookup" /\ req'[r].kind = "create"
           \/ req'[r].at = "stop" /\ req'[r].kind = "delete"
           \/ req'[r].at = "setToken" /\ req'[r].kind = "token"
           \/ req'[r].at = "load" /\ req'[r].kind = "reload"
    BY <1>3, Receives
  <2>3. (ReloadFailed => ReloadFailed') /\ (FileEdited => FileEdited')
    BY <1>1, <2>2, Answers DEF Answered, At
  <2> QED
    BY <1>1, <2>1, <2>2, <2>3 DEF SoundStep, Sound, KindSound, Owned, NameSound,
       CopySound, Compared, ReloadSound, ListSound, FileSound
<1> QED
  BY <1>2, <1>3

(* What is known of the listeners, the list and the file when no handler   *)
(* is at work does not depend on which one it is known of.                 *)
LEMMA SoundAtRest ==
  ASSUME NEW l, NEW m, ~ AtWork(l), ~ AtWork(m), Sound(l)
  PROVE  Sound(m)
BY DEF AtWork, Sound, Owned, NameSound, CopySound, Compared, ReloadSound, ListSound, FileSound

(* A handler that has not begun is not at work.                            *)
LEMMA RestingAtRest == ~ AtWork(Resting("idle", "edit"))
BY DEF AtWork, Resting

(* The handler that takes a step is the one at work, or no handler is.     *)
LEMMA OneStep ==
  ASSUME Serial, IInv, SerialInv, NEW r \in Requests, Receive(r) \/ EditFile(r) \/ Handle(r)
  PROVE  /\ \A s \in Requests \ {r} : ~ AtWork(req[s])
         /\ TypeOK /\ KindSound(req[r]) /\ Sound(req[r]) /\ SoundStep(r)
<1>1. TypeOK /\ KindSound(req[r])
  BY DEF IInv, SerialInv
<1>2. /\ \A s \in Requests \ {r} : ~ AtWork(req[s])
      /\ Sound(req[r])
  <2>1. CASE Receive(r) \/ EditFile(r)
    <3>1. Quiet /\ ~ AtWork(req[r])
      <4>1. CASE Receive(r)
        BY <4>1 DEF Receive, At, AtWork
      <4>2. CASE EditFile(r)
        BY <4>2 DEF EditFile, At, AtWork
      <4> QED
        BY <2>1, <4>1, <4>2
    <3>2. Sound(req[r])
      BY <3>1, SoundAtRest, RestingAtRest DEF SerialInv
    <3> QED
      BY <3>1, <3>2 DEF Quiet, Answered, At, AtWork
  <2>2. CASE Handle(r)
    <3>1. AtWork(req[r])
      BY <2>2 DEF Handle, LookUp, TakeHandle, TaskEnds, CheckRunning, Bind, InsertHandle,
         UpdateList, SetToken, PersistToken, PersistRules, Save, LoadFile, ReadCurrent,
         PickRule, ReplaceList, At, AtWork
    <3> QED
      BY <3>1 DEF SerialInv, OneAtATime
  <2> QED
    BY <2>1, <2>2
<1>3. ASSUME InsertHandle(r) PROVE bound[req[r].held] = req[r].name
  BY <1>3 DEF IInv, HeldSound, Holding, InsertHandle, At
<1>4. SoundStep(r)
  BY <1>1, <1>2, <1>3, ArrivalSound, LookUpSound, TakeHandleSound, TaskEndsSound,
     CheckRunningSound, BindSound, InsertHandleSound, UpdateListSound, PersistSound,
     ReloadStepsSound DEF Handle
<1> QED
  BY <1>1, <1>2, <1>4

(* SerialInv is inductive.                                                 *)
LEMMA StepKeepsSerialInv ==
  ASSUME Serial, IInv, SerialInv, [Next]_vars
  PROVE  SerialInv'
<1>1. CASE UNCHANGED vars
  BY <1>1 DEF vars, SerialInv, OneAtATime, AtWork, KindSound, Sound, Owned, NameSound,
     CopySound, Compared, ReloadSound, ListSound, FileSound, ReloadFailed, FileEdited,
     Quiet, Answered, At
<1>2. ASSUME NEW r \in Requests, Receive(r) \/ EditFile(r) \/ Handle(r)
      PROVE  SerialInv'
  <2>1. /\ \A s \in Requests \ {r} : ~ AtWork(req[s])
        /\ SoundStep(r)
    BY <1>2, OneStep
  <2>2. OneAtATime'
    BY <2>1 DEF SoundStep, OneAtATime
  <2>3. ASSUME NEW s \in Requests
        PROVE  KindSound(req[s])' /\ (AtWork(req[s])' => Sound(req[s])')
    <3>1. CASE s = r
      BY <2>1, <3>1 DEF SoundStep
    <3>2. CASE s # r
      BY <2>1, <3>2 DEF SoundStep, SerialInv, KindSound, AtWork
    <3> QED
      BY <3>1, <3>2
  <2>4. Quiet' => Sound(Resting("idle", "edit"))'
    <3> SUFFICES ASSUME Quiet' PROVE Sound(Resting("idle", "edit"))'
      OBVIOUS
    <3>1. ~ AtWork(req[r])'
      BY DEF Quiet, Answered, At, AtWork
    <3>2. Sound(req[r])'
      BY <2>1 DEF SoundStep
    <3> QED
      BY <3>1, <3>2 DEF AtWork, Resting, Sound, Owned, NameSound, CopySound, Compared,
         ReloadSound, ListSound, FileSound
  <2> QED
    BY <2>2, <2>3, <2>4 DEF SerialInv
<1> QED
  BY <1>1, <1>2 DEF Next

(* Which steps those are.                                                  *)
LEMMA AnswersOk ==
  ASSUME TypeOK, NEW r \in Requests, Receive(r) \/ EditFile(r) \/ Handle(r),
         SoundStep(r), req'[r].at = "ok"
  PROVE  Save(r) \/ ReplaceList(r) \/ EditFile(r)
<1>1. req[r].at \in {"idle", "save", "replace"}
  BY DEF SoundStep
<1>2. ~ Receive(r)
  BY Receives
<1>3. Handle(r) => Save(r) \/ ReplaceList(r)
  BY <1>1 DEF Handle, LookUp, TakeHandle, TaskEnds, CheckRunning, Bind, InsertHandle,
     UpdateList, SetToken, PersistToken, PersistRules, LoadFile, ReadCurrent, PickRule, At
<1> QED
  BY <1>2, <1>3

(* At startup no handler is at work, and a rule runs as the file has it or *)
(* not at all.                                                             *)
LEMMA SerialInit == Init => SerialInv
<1> SUFFICES ASSUME Init PROVE SerialInv
  OBVIOUS
<1>1. \A r \in Requests : req[r].at = "idle" /\ req[r].kind = "edit"
  BY DEF Init, Resting
<1>2. Owned(Resting("idle", "edit"))
  <2> SUFFICES ASSUME NEW p \in Ports, bound[p] \in Names PROVE tasks[bound[p]] = p
    BY DEF Owned
  <2>1. bound[p] = IF p \in Foreign THEN Other
                   ELSE IF \E n \in Names : tasks[n] = p
                        THEN CHOOSE n \in Names : tasks[n] = p ELSE Free
    BY DEF Init
  <2> QED
    BY <2>1, PortAssumption
<1>3. \A n \in Names : tasks[n] # NoPort => rules[n] = tasks[n]
  BY DEF Init, Boots
<1>4. disk = [token |-> token, rules |-> rules]
  BY DEF Init, Config
<1>5. Sound(Resting("idle", "edit"))
  BY <1>2, <1>3, <1>4 DEF Sound, NameSound, CopySound, Compared, ReloadSound, ListSound,
     FileSound, Resting
<1> QED
  BY <1>1, <1>5 DEF SerialInv, OneAtATime, KindSound, AtWork

(* SerialInv holds of every reachable state of a server whose              *)
(* administrator waits for each answer.                                    *)
THEOREM SerialInvariance ==
  ASSUME Serial
  PROVE  Spec => []SerialInv
<1>1. IInv /\ SerialInv /\ [Next]_vars => SerialInv'
  BY StepKeepsSerialInv
<1> QED
  BY SerialInit, Invariance, <1>1, PTL DEF Spec

(* proxy.rs, stop: no listener is left running that stop cannot find.      *)
THEOREM NoOrphans ==
  ASSUME Serial
  PROVE  Spec => []NoOrphanListener
<1>1. SerialInv => NoOrphanListener
  BY DEF SerialInv, Sound, Owned, NoOrphanListener, Resting
<1> QED
  BY SerialInvariance, <1>1, PTL

(* admin.rs, api_create_proxy, api_delete_proxy, api_reload: what is served *)
(* is in the list of the console, unless a reload failed half way.          *)
THEOREM ServedListed ==
  ASSUME Serial
  PROVE  Spec => []ServedIsListed
<1>1. SerialInv => ServedIsListed
  BY DEF SerialInv, Sound, ListSound, Compared, ServedIsListed, ReloadFailed, Resting
<1> QED
  BY SerialInvariance, <1>1, PTL

(* admin.rs, persist: an answer 200 whose write did not fail comes after   *)
(* the file has what the memory has, whatever an earlier failed write, a   *)
(* failed reload or an edit by hand had left there.                        *)
THEOREM AcknowledgedOnDisk ==
  ASSUME Serial
  PROVE  Spec => AcknowledgedIsOnDisk
<1>1. IInv /\ SerialInv /\ [Next]_vars =>
        [\A r \in Requests : ~ At(r, "ok") /\ At(r, "ok")' /\ req[r].kind # "edit"
                               => disk' = [token |-> token', rules |-> rules']]_vars
  <2> SUFFICES ASSUME IInv, SerialInv, Next,
                      NEW r \in Requests, ~ At(r, "ok"), At(r, "ok")', req[r].kind # "edit"
               PROVE  disk' = [token |-> token', rules |-> rules']
    BY DEF vars
  <2>1. PICK s \in Requests : Receive(s) \/ EditFile(s) \/ Handle(s)
    BY DEF Next
  <2>2. TypeOK /\ KindSound(req[s]) /\ Sound(req[s]) /\ SoundStep(s)
    BY <2>1, OneStep
  <2>3. s = r
    BY <2>2 DEF SoundStep, At
  <2>4. Save(r) \/ ReplaceList(r) \/ EditFile(r)
    BY <2>1, <2>2, <2>3, AnswersOk DEF At
  <2>5. req[r].cfg \in Config
    BY <2>2 DEF TypeOK, Locals
  <2>6. CASE Save(r)
    <3>1. ~ Goto(r, "unsaved")
      BY <2>2, GoesTo DEF At
    <3> QED
      BY <2>2, <2>3, <2>5, <2>6, <3>1 DEF Save, At, Sound, CopySound, Config
  <2>7. CASE ReplaceList(r)
    BY <2>2, <2>3, <2>5, <2>7 DEF ReplaceList, At, KindSound, Sound, CopySound, Compared, Config
  <2>8. CASE EditFile(r)
    BY <2>2, <2>3, <2>8 DEF EditFile, At, KindSound
  <2> QED
    BY <2>4, <2>6, <2>7, <2>8
<1> QED
  BY SerialInvariance, Invariance, <1>1, PTL DEF AcknowledgedIsOnDisk, Spec

(* admin.rs, persist: once the handlers have answered, the file has what   *)
(* the memory has, unless it was edited by hand, a write failed or a       *)
(* reload failed: beyond these it takes requests that overlap to leave the *)
(* file stale.                                                             *)
THEOREM SavedCurrent ==
  ASSUME Serial
  PROVE  Spec => []SavedIsCurrent
<1>1. SerialInv => SavedIsCurrent
  BY DEF SerialInv, Sound, FileSound, SavedIsCurrent, ReloadFailed, FileEdited, Resting
<1> QED
  BY SerialInvariance, <1>1, PTL

===============================================================================
