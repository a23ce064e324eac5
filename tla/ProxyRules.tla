------------------------------ MODULE ProxyRules ------------------------------
(***************************************************************************)
(* The proxy rules of the server and the three copies it keeps of them:    *)
(* the listeners that run (server/proxy.rs, ProxyManager.tasks and the     *)
(* sockets the tasks own), the list the console shows (AdminState.proxies) *)
(* and the configuration file.  The handlers of server/admin.rs that       *)
(* change them -- create/edit, delete, token and reload -- run as tasks of *)
(* a multi-threaded runtime; every await and every lock release is a place *)
(* where another handler may step in, so it ends an action here.           *)
(*                                                                         *)
(* A rule is abstracted to its name and its listening port; a list of      *)
(* rules is a function from names to ports.  The configuration is the      *)
(* token and the rules: persist copies its other fields from `base'.       *)
(***************************************************************************)
EXTENDS Naturals

CONSTANTS
  Requests,  \* admin requests, each handled once
  Names,     \* rule names
  Ports,     \* ports a rule may ask for
  Foreign,   \* the ports that other programs hold
  Torn,      \* a configuration file that load_server refuses
  NoPort, Free, Other,  \* no port; a free port; a port another program holds
  Tokens,    \* shared tokens
  Kinds,     \* what requests are made: subset of AllKinds
  Serial     \* TRUE: the administrator waits for each answer

AllKinds == {"create", "delete", "token", "reload", "edit"}

ASSUME PortAssumption == /\ Foreign \subseteq Ports
                         /\ NoPort \notin Ports
                         /\ {Free, Other} \cap Names = {}
                         /\ Free # Other
                         /\ Names # {} /\ Tokens # {}
ASSUME KindAssumption == Kinds \subseteq AllKinds /\ Serial \in BOOLEAN

VARIABLES
  tasks,   \* ProxyManager.tasks: name -> the port its JoinHandle's task serves
  bound,   \* the sockets of the process: port -> name of the rule served there
  rules,   \* AdminState.proxies
  token,   \* AdminState.token
  disk,    \* the configuration file
  req      \* the handlers: request -> its program counter and locals

vars == <<tasks, bound, rules, token, disk, req>>

RuleList == [Names -> Ports \cup {NoPort}]
Config == [token : Tokens, rules : RuleList]
Files == Config \cup {Torn}

Steps == {"idle", "lookup", "stop", "abort", "check", "bind", "insert", "list",
          "setToken", "load", "current", "pick", "replace",
          "readToken", "readRules", "save", "ok", "unsaved", "failed"}

(* How a handler ends: with 200, with 200 although its change could not be *)
(* written to the file, or with an error.                                  *)
Ends == {"ok", "unsaved", "failed"}

NoRules == [n \in Names |-> NoPort]

(* The locals of a handler that has not begun, and of one that has answered. *)
Resting(step, kind) ==
  [at |-> step, kind |-> kind, name |-> CHOOSE n \in Names : TRUE,
   port |-> NoPort, held |-> NoPort,
   cfg |-> [token |-> CHOOSE t \in Tokens : TRUE, rules |-> NoRules],
   seen |-> NoRules, todo |-> {}]

Locals == [at : Steps, kind : AllKinds, name : Names, port : Ports \cup {NoPort},
           held : Ports \cup {NoPort}, cfg : Config, seen : RuleList,
           todo : SUBSET Names]

(* The handler has taken a listener out of the map, or bound one that is   *)
(* not in it yet.                                                          *)
Holding(r) == req[r].at \in {"abort", "insert"}

(* Every variable keeps its type, and a handler between the two halves of  *)
(* a stop or a start holds a port.                                         *)
TypeOK ==
  /\ tasks \in RuleList
  /\ bound \in [Ports -> Names \cup {Free, Other}]
  /\ rules \in RuleList
  /\ token \in Tokens
  /\ disk \in Files
  /\ req \in [Requests -> Locals]
  /\ \A r \in Requests : Holding(r) => req[r].held \in Ports

-------------------------------------------------------------------------------
(* Startup: every rule of the file is started; one whose port is taken is  *)
(* logged and left out, and stays in the list all the same.                *)
Boots(started) ==
  /\ \A n \in Names : started[n] \in {rules[n], NoPort} \ Foreign
  /\ \A m, n \in Names : started[m] = started[n] => m = n \/ started[n] = NoPort
  /\ \A n \in Names : started[n] # rules[n] =>
       rules[n] \in Foreign \cup {started[m] : m \in Names}

Init ==
  /\ disk \in Config
  /\ token = disk.token
  /\ rules = disk.rules
  /\ tasks \in RuleList
  /\ Boots(tasks)
  /\ bound = [p \in Ports |->
       IF p \in Foreign THEN Other
       ELSE IF \E n \in Names : tasks[n] = p
            THEN CHOOSE n \in Names : tasks[n] = p ELSE Free]
  /\ req = [r \in Requests |-> Resting("idle", "edit")]

-------------------------------------------------------------------------------
(* Handlers *)

Answered(r) == req[r].at \in Ends
Quiet == \A r \in Requests : req[r].at = "idle" \/ Answered(r)

At(r, step) == req[r].at = step
Goto(r, step) ==
  req' = [req EXCEPT ![r] =
            IF step \in Ends THEN Resting(step, @.kind)
            ELSE [@ EXCEPT !.at = step]]

(* handle_conn routes a request to its handler. *)
Receive(r) ==
  /\ At(r, "idle")
  /\ Serial => Quiet
  /\ \/ \E n \in Names, p \in Ports :
          /\ "create" \in Kinds
          /\ req' = [req EXCEPT ![r] =
                       [@ EXCEPT !.at = "lookup", !.kind = "create", !.name = n, !.port = p]]
     \/ \E n \in Names :
          /\ "delete" \in Kinds
          /\ req' = [req EXCEPT ![r] = [@ EXCEPT !.at = "stop", !.kind = "delete", !.name = n]]
     \/ \E t \in Tokens :
          /\ "token" \in Kinds
          /\ req' = [req EXCEPT ![r] =
                       [@ EXCEPT !.at = "setToken", !.kind = "token", !.cfg.token = t]]
     \/ /\ "reload" \in Kinds
        /\ req' = [req EXCEPT ![r] = [@ EXCEPT !.at = "load", !.kind = "reload"]]
  /\ UNCHANGED <<tasks, bound, rules, token, disk>>

(* The administrator edits the configuration file by hand. *)
EditFile(r) ==
  /\ "edit" \in Kinds
  /\ At(r, "idle")
  /\ Serial => Quiet
  /\ disk' \in Files
  /\ Goto(r, "ok")
  /\ UNCHANGED <<tasks, bound, rules, token>>

(* api_create_proxy: a name already listed is an edit, its listener is stopped first. *)
LookUp(r) ==
  /\ At(r, "lookup")
  /\ Goto(r, IF rules[req[r].name] # NoPort THEN "stop" ELSE "check")
  /\ UNCHANGED <<tasks, bound, rules, token, disk>>

(* Where a handler goes once ProxyManager::stop has returned: a create, or *)
(* a reload of a rule that is still in the file, starts the new listener.  *)
AfterStop(r) ==
  CASE req[r].kind = "delete" -> "list"
    [] req[r].kind = "create" -> "check"
    [] OTHER -> IF req[r].port = NoPort THEN "pick" ELSE "check"

(* stop looks the handle up instead of removing it. *)
Bug_TakeHandleGet(r) ==
  LET name == req[r].name IN
  /\ At(r, "stop")
  /\ \/ /\ tasks[name] # NoPort
        /\ req' = [req EXCEPT ![r] = [@ EXCEPT !.at = "abort", !.held = tasks[name]]]
     \/ /\ tasks[name] = NoPort
        /\ Goto(r, IF req[r].kind = "delete" THEN "failed" ELSE AfterStop(r))
  /\ UNCHANGED <<tasks, bound, rules, token, disk>>

(* stop drops the handle without aborting the task. *)
Bug_TakeHandleDetach(r) ==
  LET name == req[r].name IN
  /\ At(r, "stop")
  /\ tasks' = [tasks EXCEPT ![name] = NoPort]
  /\ Goto(r, IF tasks[name] = NoPort /\ req[r].kind = "delete"
             THEN "failed" ELSE AfterStop(r))
  /\ UNCHANGED <<bound, rules, token, disk>>

(* ProxyManager::stop takes the handle out of the map ... *)
TakeHandle(r) ==
  LET name == req[r].name IN
  /\ At(r, "stop")
  /\ \/ /\ tasks[name] # NoPort
        /\ tasks' = [tasks EXCEPT ![name] = NoPort]
        /\ req' = [req EXCEPT ![r] = [@ EXCEPT !.at = "abort", !.held = tasks[name]]]
     \/ /\ tasks[name] = NoPort
        /\ Goto(r, IF req[r].kind = "delete" THEN "failed" ELSE AfterStop(r))
        /\ UNCHANGED tasks
  /\ UNCHANGED <<bound, rules, token, disk>>

(* ... aborts the task and waits until it has ended and its socket is closed. *)
TaskEnds(r) ==
  /\ At(r, "abort")
  /\ bound' = [bound EXCEPT ![req[r].held] = Free]
  /\ req' = [req EXCEPT ![r] = [@ EXCEPT !.at = AfterStop(r), !.held = NoPort]]
  /\ UNCHANGED <<tasks, rules, token, disk>>

(* ProxyManager::start refuses a name that is running ... *)
CheckRunning(r) ==
  /\ At(r, "check")
  /\ Goto(r, IF tasks[req[r].name] # NoPort THEN "failed" ELSE "bind")
  /\ UNCHANGED <<tasks, bound, rules, token, disk>>

(* ... binds the port and spawns the listener, or fails when it is taken ... *)
Bind(r) ==
  LET port == req[r].port IN
  /\ At(r, "bind")
  /\ \/ /\ bound[port] = Free
        /\ bound' = [bound EXCEPT ![port] = req[r].name]
        /\ req' = [req EXCEPT ![r] = [@ EXCEPT !.at = "insert", !.held = port]]
     \/ /\ bound[port] # Free
        /\ Goto(r, "failed")
        /\ UNCHANGED bound
  /\ UNCHANGED <<tasks, rules, token, disk>>

(* ... and registers the handle.  A handle it replaces is dropped, which   *)
(* detaches the replaced task: it goes on serving its port.                *)
InsertHandle(r) ==
  /\ At(r, "insert")
  /\ tasks' = [tasks EXCEPT ![req[r].name] = req[r].held]
  /\ req' = [req EXCEPT ![r] =
               [@ EXCEPT !.at = IF req[r].kind = "create" THEN "list" ELSE "pick",
                         !.held = NoPort]]
  /\ UNCHANGED <<bound, rules, token, disk>>

(* An edit keeps the old entry of the list. *)
Bug_UpdateListKeepsOld(r) ==
  /\ At(r, "list")
  /\ rules' = [rules EXCEPT ![req[r].name] =
                 IF req[r].kind # "create" THEN NoPort
                 ELSE IF @ = NoPort THEN req[r].port ELSE @]
  /\ Goto(r, "readToken")
  /\ UNCHANGED <<tasks, bound, token, disk>>

(* A delete answers without writing the file. *)
Bug_UpdateListUnsaved(r) ==
  /\ At(r, "list")
  /\ rules' = [rules EXCEPT ![req[r].name] =
                 IF req[r].kind = "create" THEN req[r].port ELSE NoPort]
  /\ Goto(r, IF req[r].kind = "create" THEN "readToken" ELSE "ok")
  /\ UNCHANGED <<tasks, bound, token, disk>>

(* Create replaces the rule in the list by name, delete takes it out. *)
UpdateList(r) ==
  /\ At(r, "list")
  /\ rules' = [rules EXCEPT ![req[r].name] =
                 IF req[r].kind = "create" THEN req[r].port ELSE NoPort]
  /\ Goto(r, "readToken")
  /\ UNCHANGED <<tasks, bound, token, disk>>

(* The new token takes effect: of api_update_token, or read by api_reload. *)
SetToken(r) ==
  /\ At(r, "setToken")
  /\ token' = req[r].cfg.token
  /\ Goto(r, IF req[r].kind = "token" THEN "readToken" ELSE "current")
  /\ UNCHANGED <<tasks, bound, rules, disk>>

(* persist copies the token, then the rules, and writes the file. *)
PersistToken(r) ==
  /\ At(r, "readToken")
  /\ req' = [req EXCEPT ![r] = [@ EXCEPT !.at = "readRules", !.cfg.token = token]]
  /\ UNCHANGED <<tasks, bound, rules, token, disk>>

PersistRules(r) ==
  /\ At(r, "readRules")
  /\ req' = [req EXCEPT ![r] = [@ EXCEPT !.at = "save", !.cfg.rules = rules]]
  /\ UNCHANGED <<tasks, bound, rules, token, disk>>

(* What a write that stops half way leaves: a file that load_server        *)
(* refuses, or one that has lost its last rules.                           *)
Truncated(cfg) ==
  {Torn} \cup {[cfg EXCEPT !.rules = [n \in Names |-> IF n \in kept THEN @[n] ELSE NoPort]] :
                kept \in SUBSET Names}

(* save_server overwrites the file.  When it fails, at the first byte or   *)
(* half way, persist logs it and the handler answers 200 all the same.     *)
Save(r) ==
  /\ At(r, "save")
  /\ \/ disk' = req[r].cfg /\ Goto(r, "ok")
     \/ disk' \in {disk} \cup Truncated(req[r].cfg) /\ Goto(r, "unsaved")
  /\ UNCHANGED <<tasks, bound, rules, token>>

(* api_reload reads the file, and fails with nothing changed when it       *)
(* cannot ...                                                              *)
LoadFile(r) ==
  /\ At(r, "load")
  /\ \/ /\ disk # Torn
        /\ req' = [req EXCEPT ![r] = [@ EXCEPT !.at = "setToken", !.cfg = disk]]
     \/ Goto(r, "failed")
  /\ UNCHANGED <<tasks, bound, rules, token, disk>>

(* ... and, the token set, compares its rules with the list, ... *)
ReadCurrent(r) ==
  /\ At(r, "current")
  /\ req' = [req EXCEPT ![r] =
               [@ EXCEPT !.at = "pick", !.seen = rules,
                         !.todo = {n \in Names : rules[n] # req[r].cfg.rules[n]}]]
  /\ UNCHANGED <<tasks, bound, rules, token, disk>>

(* ... stops the rules that are gone, then stops and starts the changed    *)
(* ones and starts the new ones.  A start that fails ends the handler.     *)
PickRule(r) ==
  LET desired == req[r].cfg.rules
      gone == {n \in req[r].todo : desired[n] = NoPort}
  IN
  /\ At(r, "pick")
  /\ \/ \E n \in IF gone # {} THEN gone ELSE req[r].todo :
          req' = [req EXCEPT ![r] =
                    [@ EXCEPT !.at = IF req[r].seen[n] # NoPort THEN "stop" ELSE "check",
                              !.name = n, !.port = desired[n], !.todo = req[r].todo \ {n}]]
     \/ /\ req[r].todo = {}
        /\ Goto(r, "replace")
  /\ UNCHANGED <<tasks, bound, rules, token, disk>>

ReplaceList(r) ==
  /\ At(r, "replace")
  /\ rules' = req[r].cfg.rules
  /\ Goto(r, "ok")
  /\ UNCHANGED <<tasks, bound, token, disk>>

Handle(r) ==
  \/ LookUp(r) \/ TakeHandle(r) \/ TaskEnds(r) \/ CheckRunning(r) \/ Bind(r)
  \/ InsertHandle(r) \/ UpdateList(r) \/ SetToken(r)
  \/ PersistToken(r) \/ PersistRules(r) \/ Save(r)
  \/ LoadFile(r) \/ ReadCurrent(r) \/ PickRule(r) \/ ReplaceList(r)

Next == \E r \in Requests : Receive(r) \/ EditFile(r) \/ Handle(r)

Spec == Init /\ [][Next]_vars

-------------------------------------------------------------------------------
(* Properties *)

(* A handle in the map is the handle of a listener that runs under that    *)
(* name: whatever handlers race, stop never leaves a handle whose socket   *)
(* is closed or serves another rule (proxy.rs, start and stop).            *)
HandleIsLive ==
  \A n \in Names : tasks[n] # NoPort => bound[tasks[n]] = n

(* Every listener of the process can be stopped: when no handler is at     *)
(* work, a bound port is the port of a registered handle (proxy.rs:        *)
(* "stop aborts the corresponding task and removes the registration").     *)
NoOrphanListener ==
  Quiet => \A p \in Ports : bound[p] \in Names => tasks[bound[p]] = p

(* A rule that is served is in the list, with the port it is served on,    *)
(* unless a reload failed half way: neither an edit nor a delete, failed   *)
(* or not, leaves a public port open that the console does not show.       *)
ServedIsListed ==
  /\ Quiet
  /\ \A r \in Requests : ~ (At(r, "failed") /\ req[r].kind = "reload")
  => \A n \in Names : tasks[n] # NoPort => rules[n] = tasks[n]

(* A 200 answer means that the file holds the token and the rules in       *)
(* memory, so that a restart resumes from them (admin.rs, persist writes   *)
(* "the current token, proxy rules"), unless the write of that very answer *)
(* failed: whatever an earlier failed write, failed reload or edit by hand *)
(* had left in the file, the next write that succeeds makes it good.       *)
AcknowledgedIsOnDisk ==
  [][\A r \in Requests :
       ~ At(r, "ok") /\ At(r, "ok")' /\ req[r].kind # "edit"
         => disk' = [token |-> token', rules |-> rules']]_vars

(* Once every handler has answered, and unless the file was edited by      *)
(* hand, a write failed or a reload failed half way, the file holds the    *)
(* token and the rules in memory (admin.rs, persist).                      *)
SavedIsCurrent ==
  /\ Quiet
  /\ \A r \in Requests : ~ (\/ At(r, "ok") /\ req[r].kind = "edit"
                            \/ At(r, "unsaved")
                            \/ At(r, "failed") /\ req[r].kind = "reload")
  => disk = [token |-> token, rules |-> rules]

(* A reload that answers 200 leaves every rule of the file served, with    *)
(* the port the file gives it, when the rules ask for ports that no other  *)
(* rule and no other program has (README: "edit zorvd.toml and it takes    *)
(* effect without a restart").                                             *)
Servable(list) ==
  \A m, n \in Names : /\ list[n] \notin Foreign
                      /\ list[m] = list[n] => m = n \/ list[n] = NoPort

ReloadServesFile ==
  [][\A r \in Requests :
       At(r, "replace") /\ At(r, "ok")' /\ Servable(req[r].cfg.rules)
         => \A n \in Names : tasks'[n] = req[r].cfg.rules[n]]_vars

===============================================================================
