------------------------------ MODULE ConsoleAuth ------------------------------
(***************************************************************************)
(* The password and the sessions of the admin console (server/admin.rs):   *)
(* login, authentication of a request, logout, the change of the password  *)
(* and persist, which every changing request runs.  One request is one     *)
(* task, a step for each lock it takes; the look-up of its token is one    *)
(* step with its first own.                                                *)
(*                                                                         *)
(* Whether a login gets past the captcha and the bans is LoginGuard's      *)
(* matter; here it may be refused at any point.  A password stands for its *)
(* hash too.  base.admin.password is set along with the password, and      *)
(* persist overwrites it with the password it reads: it is left out.  The  *)
(* other fields that persist writes are ProxyRules'.                       *)
(***************************************************************************)
EXTENDS Integers, FiniteSets

CONSTANTS
    Requests,       \* console requests, one task each
    Tokens,         \* bound: session tokens ever generated
    Passwords,      \* those a change accepts: 8 to 128 characters
    Empty,          \* the empty password: login disabled
    Torn,           \* a configuration file load_server does not parse
    SessionTTL,     \* SESSION_TTL_MS
    MaxTime,        \* bound: time
    MaxCrashes      \* bound: crashes

ASSUME ConsoleAssumption ==
    /\ Requests \cap Tokens = {}
    /\ Empty \notin Passwords /\ Torn \notin Passwords \cup {Empty}
    /\ SessionTTL \in Nat \ {0} /\ MaxTime \in Nat /\ MaxCrashes \in Nat

VARIABLES
    now,            \* now_millis(), in coarse units
    up,             \* the server runs
    password,       \* AdminState.password
    file,           \* [admin] password of the configuration file
    sessions,       \* expiry of each token in AdminState.sessions, 0: not there
    unused,         \* tokens gen_session_token has not produced yet
    pc,             \* where each request is
    read,           \* the password a request read
    crashes,
    issued,         \* history: the password each session was issued for
    late,           \* history: logins, then sessions, that a change overtook
    saves,          \* history: "apart", or how two saves met or one failed
    answered,       \* history: passwords a change was answered for last, or
                    \* that a crash cut off before its answer
    wanted          \* the new password of a change

userVars == <<now, up, crashes>>
sessionVars == <<sessions, unused, issued>>
vars == <<userVars, sessionVars, password, file, pc, read, late, saves, answered, wanted>>

Secrets == Passwords \cup {Empty}
Goto(r, place) == pc' = [pc EXCEPT ![r] = place]

\* Requests that have set the password, and those that have yet to clear the
\* sessions; those that hold a copy of it to write.
Unsaved == {"copying", "saving"}
Changing == {r \in Requests : pc[r] \in Unsaved \cup {"clearing"}}
Holding == {r \in Requests : pc[r] \in {"saving", "rewriting"}}

Init == /\ now = 1 /\ up = TRUE /\ crashes = 0
        /\ password \in Secrets /\ file = password
        /\ sessions = [t \in Tokens |-> 0] /\ unused = Tokens
        /\ issued = [t \in Tokens |-> Empty]
        /\ pc = [r \in Requests |-> "idle"]
        /\ read = [r \in Requests |-> Empty]
        /\ wanted = [r \in Requests |-> Empty]
        /\ late = {} /\ saves = "apart" /\ answered = {password}

Tick == /\ now < MaxTime /\ now' = now + 1
        /\ UNCHANGED <<up, crashes, sessionVars, password, file, pc, read, late, saves,
                       answered, wanted>>

-------------------------------------------------------------------------------
(* Login and logout *)

\* api_login reads the stored password; an empty one answers 403 at once.
StartLogin(r) == /\ pc[r] = "idle" /\ password # Empty
                 /\ Goto(r, "login")
                 /\ read' = [read EXCEPT ![r] = password]
                 /\ late' = late \ {r}
                 /\ UNCHANGED <<userVars, sessionVars, password, file, saves, answered, wanted>>

\* A wrong captcha, user name or password.
RefuseLogin(r) == /\ pc[r] = "login" /\ Goto(r, "idle")
                  /\ UNCHANGED <<userVars, sessionVars, password, file, read, late, saves,
                                 answered, wanted>>

\* The password given verifies against the one read: a session is inserted.
InsertSession(r, t) ==
    /\ pc[r] = "login" /\ t \in unused
    /\ Goto(r, "idle")
    /\ unused' = unused \ {t}
    /\ sessions' = [sessions EXCEPT ![t] = now + SessionTTL]
    /\ issued' = [issued EXCEPT ![t] = read[r]]
    /\ late' = IF r \in late THEN late \cup {t} ELSE late
    /\ UNCHANGED <<userVars, password, file, read, saves, answered, wanted>>

\* is_authenticated reads the password: an empty one lets everybody in.
ReadPassword(r) == /\ pc[r] = "idle"
                   /\ Goto(r, "authenticating")
                   /\ read' = [read EXCEPT ![r] = password]
                   /\ UNCHANGED <<userVars, sessionVars, password, file, late, saves,
                                  answered, wanted>>

\* ... and looks the token up.
Allowed(r, t) == read[r] = Empty \/ now < sessions[t]

\* 401, or a request that changes nothing.
Pass(r) == /\ pc[r] = "authenticating" /\ Goto(r, "idle")
           /\ UNCHANGED <<userVars, sessionVars, password, file, read, late, saves,
                          answered, wanted>>

\* api_logout.
Logout(r, t) == /\ pc[r] = "authenticating" /\ Allowed(r, t)
                /\ Goto(r, "idle")
                /\ sessions' = [sessions EXCEPT ![t] = 0]
                /\ UNCHANGED <<userVars, unused, issued, password, file, read, late, saves,
                               answered, wanted>>

-------------------------------------------------------------------------------
(* The change of the password *)

\* api_change_password: the old password is compared under the read lock, and
\* the new one hashed.
CheckOld(r, t, new) == /\ pc[r] = "authenticating" /\ Allowed(r, t)
                       /\ Goto(r, "hashing")
                       /\ read' = [read EXCEPT ![r] = password]
                       /\ wanted' = [wanted EXCEPT ![r] = new]
                       /\ UNCHANGED <<userVars, sessionVars, password, file, late, saves, answered>>

\* The write lock.  Logins and saves under way are overtaken.
SetPassword(r) ==
    /\ pc[r] = "hashing"
    /\ Goto(r, "copying")
    /\ password' = wanted[r]
    /\ late' = late \cup {q \in Requests : pc[q] = "login"}
    /\ saves' = IF Holding = {} /\ Changing = {} THEN saves ELSE "met"
    /\ UNCHANGED <<userVars, sessionVars, file, read, answered, wanted>>

\* persist reads the password last of all and then writes the file.
CopyPassword(r) ==
    /\ pc[r] = "copying"
    /\ Goto(r, "saving")
    /\ read' = [read EXCEPT ![r] = password]
    /\ saves' = IF Holding = {} THEN saves ELSE "met"
    /\ UNCHANGED <<userVars, sessionVars, password, file, late, answered, wanted>>

\* The change is not persisted.
Bug_SaveNothing(r) ==
    /\ pc[r] = "saving" /\ Goto(r, "clearing")
    /\ UNCHANGED <<userVars, sessionVars, password, file, read, late, saves, answered, wanted>>

\* save_server.
Save(r) == /\ pc[r] = "saving" /\ Goto(r, "clearing")
           /\ file' = read[r]
           /\ UNCHANGED <<userVars, sessionVars, password, read, late, saves, answered, wanted>>

\* A failed write is logged; the request goes on and answers 200.
SaveFails(r) == /\ pc[r] \in {"saving", "rewriting"}
                /\ Goto(r, IF pc[r] = "saving" THEN "clearing" ELSE "idle")
                /\ saves' = "failed"
                /\ UNCHANGED <<userVars, sessionVars, password, file, read, late, answered, wanted>>

\* Only the token of the request itself is removed.
Bug_ClearOwnSession(r) ==
    /\ pc[r] = "clearing" /\ Goto(r, "idle")
    /\ \E t \in Tokens : sessions' = [sessions EXCEPT ![t] = 0]
    /\ answered' = {wanted[r]}
    /\ UNCHANGED <<userVars, unused, issued, password, file, read, late, saves, wanted>>

\* sessions.clear(), and the answer.
ClearSessions(r) == /\ pc[r] = "clearing" /\ Goto(r, "idle")
                    /\ sessions' = [t \in Tokens |-> 0]
                    /\ answered' = {wanted[r]}
                    /\ UNCHANGED <<userVars, unused, issued, password, file, read, late, saves, wanted>>

\* The other requests that persist: a rule or the token changed.
Rewrite(r, t) == /\ pc[r] = "authenticating" /\ Allowed(r, t)
                 /\ Goto(r, "rewriting")
                 /\ read' = [read EXCEPT ![r] = password]
                 /\ saves' = IF Holding = {} THEN saves ELSE "met"
                 /\ UNCHANGED <<userVars, sessionVars, password, file, late, answered, wanted>>

SaveRewrite(r) == /\ pc[r] = "rewriting" /\ Goto(r, "idle")
                  /\ file' = read[r]
                  /\ UNCHANGED <<userVars, sessionVars, password, read, late, saves, answered, wanted>>

-------------------------------------------------------------------------------
\* The server stops at any point.  fs::write truncates before it writes.
Crash == /\ up /\ crashes < MaxCrashes
         /\ crashes' = crashes + 1 /\ up' = FALSE
         /\ file' \in {file} \cup IF Holding = {} THEN {} ELSE {Torn}
         /\ pc' = [r \in Requests |-> "idle"]
         /\ sessions' = [t \in Tokens |-> 0]
         /\ late' = {}
         /\ answered' = answered \cup {wanted[r] : r \in Changing}
         /\ UNCHANGED <<now, unused, issued, password, read, saves, wanted>>

\* load_server; a file that does not parse ends the program.
Boot == /\ ~up /\ file # Torn
        /\ up' = TRUE /\ password' = file
        /\ UNCHANGED <<now, crashes, sessionVars, file, pc, read, late, saves, answered, wanted>>

Step(r) == \/ StartLogin(r) \/ RefuseLogin(r) \/ ReadPassword(r) \/ Pass(r)
           \/ SetPassword(r) \/ CopyPassword(r) \/ Save(r) \/ SaveFails(r) \/ ClearSessions(r)
           \/ SaveRewrite(r)
           \/ \E t \in Tokens : \/ InsertSession(r, t) \/ Logout(r, t) \/ Rewrite(r, t)
                                \/ \E new \in Passwords : CheckOld(r, t, new)

Next == Tick \/ Crash \/ Boot \/ \E r \in Requests : up /\ Step(r)

Spec == Init /\ [][Next]_vars
-------------------------------------------------------------------------------
Places == {"idle", "login", "authenticating", "hashing", "copying", "saving",
           "clearing", "rewriting"}

\* Every variable keeps its type.
TypeOK == /\ now \in Nat /\ up \in BOOLEAN /\ crashes \in Nat
          /\ password \in Secrets /\ file \in Secrets \cup {Torn}
          /\ sessions \in [Tokens -> Nat] /\ unused \subseteq Tokens
          /\ issued \in [Tokens -> Secrets]
          /\ pc \in [Requests -> Places]
          /\ read \in [Requests -> Secrets] /\ wanted \in [Requests -> Secrets]
          /\ late \subseteq Requests \cup Tokens
          /\ saves \in {"apart", "met", "failed"}
          /\ answered \subseteq Secrets

\* admin.rs:1080-1081: a change of the password invalidates all existing
\* sessions.  A session in the table was issued for the password in force,
\* unless a change that has set the password is yet to clear the table, or the
\* login had read the old password before the change and inserted its session
\* after.
SessionsFollowPassword ==
    \A t \in Tokens : sessions[t] # 0 =>
        issued[t] = password \/ t \in late \/ Changing # {}

\* admin.rs:1080: the new password is written back to the file.  As long as no
\* two saves overlapped and none failed, the password in force, and the one a
\* restart would load, is the one the last change was answered for, or one
\* whose change a crash cut off before the answer.
AnsweredChangeHolds ==
    saves = "apart" /\ Changing = {} /\ file # Torn =>
        /\ file \in answered
        /\ up => password = file

\* admin.rs:1081: all existing sessions are invalidated so every client must
\* log in again.  Refuted: a login that read the old password before the change
\* inserts its session after the table was cleared.
EverySessionFollowsPassword ==
    \A t \in Tokens : sessions[t] # 0 => issued[t] = password \/ Changing # {}

\* admin.rs:1078: the old password must be verified first.  Refuted: the
\* comparison and the write are under separate locks, and another change comes
\* between them.
ChangesTheVerifiedPassword ==
    [][\A r \in Requests : pc[r] = "hashing" /\ pc'[r] = "copying" =>
          read[r] = password]_vars

\* config.rs:337-343: the file that is written is the one the next start
\* reads.  Refuted: a crash during the write leaves no configuration to start
\* from.
FileParses == file # Torn
===============================================================================
