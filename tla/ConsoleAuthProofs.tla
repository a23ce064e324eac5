--------------------------- MODULE ConsoleAuthProofs ---------------------------
(***************************************************************************)
(* Proofs about ConsoleAuth: what a change of the console's password does  *)
(* to the sessions and to the file, for any number of requests, tokens,    *)
(* passwords and crashes.                                                  *)
(***************************************************************************)
EXTENDS ConsoleAuth, TLAPS

\* While the server is down nothing of it is left but the file.
DownIsEmpty == ~up => /\ \A r \in Requests : pc[r] = "idle"
                      /\ \A t \in Tokens : sessions[t] = 0

\* A login holds the password in force, or a change has overtaken it.
LoginSound == \A r \in Requests : pc[r] = "login" => read[r] = password \/ r \in late

SessionInv == TypeOK /\ DownIsEmpty /\ LoginSound /\ SessionsFollowPassword

\* What the file may hold: a password that was answered for, or one a change is
\* about to be answered for.
FileKnown == file = Torn \/ file \in answered \/ \E r \in Changing : file = wanted[r]

\* As long as no two saves met and none failed: one change at a time, whose
\* password is in force; copies held are of it; once saved, the file has it;
\* and without a change the file has the password in force.
OneChange == \A q, r \in Changing : q = r
ChangeInForce == \A r \in Changing : wanted[r] = password
CopiesCurrent == \A r \in Holding : read[r] = password
ClearingSaved == \A r \in Requests : pc[r] = "clearing" => file = password
SettledSaved == up /\ Changing = {} => file = password

SaveInv == /\ TypeOK /\ DownIsEmpty
           /\ up => file # Torn
           /\ saves = "apart" => /\ FileKnown /\ OneChange /\ ChangeInForce
                                 /\ CopiesCurrent /\ ClearingSaved /\ SettledSaved
-------------------------------------------------------------------------------
\* Every variable keeps its type in every behaviour: an expiry of 0 stands for
\* no session, and a request only writes a password that was read or accepted.
THEOREM TypeCorrect == Spec => []TypeOK
<1> USE ConsoleAssumption DEF Secrets, Places
<1>1. Init => TypeOK
      BY DEF Init, TypeOK
<1>2. TypeOK /\ [Next]_vars => TypeOK'
  <2> SUFFICES ASSUME TypeOK, [Next]_vars PROVE TypeOK'
      OBVIOUS
  <2> USE DEF TypeOK, Goto, userVars, sessionVars
  <2>1. ASSUME NEW r \in Requests, StartLogin(r) PROVE TypeOK'
        BY <2>1 DEF StartLogin
  <2>2. ASSUME NEW r \in Requests, RefuseLogin(r) PROVE TypeOK'
        BY <2>2 DEF RefuseLogin
  <2>3. ASSUME NEW r \in Requests, ReadPassword(r) PROVE TypeOK'
        BY <2>3 DEF ReadPassword
  <2>4. ASSUME NEW r \in Requests, Pass(r) PROVE TypeOK'
        BY <2>4 DEF Pass
  <2>5. ASSUME NEW r \in Requests, SetPassword(r) PROVE TypeOK'
        BY <2>5 DEF SetPassword
  <2>6. ASSUME NEW r \in Requests, CopyPassword(r) PROVE TypeOK'
        BY <2>6 DEF CopyPassword
  <2>7. ASSUME NEW r \in Requests, Save(r) PROVE TypeOK'
        BY <2>7 DEF Save
  <2>8. ASSUME NEW r \in Requests, SaveFails(r) PROVE TypeOK'
        BY <2>8 DEF SaveFails
  <2>9. ASSUME NEW r \in Requests, ClearSessions(r) PROVE TypeOK'
        BY <2>9 DEF ClearSessions
  <2>10. ASSUME NEW r \in Requests, SaveRewrite(r) PROVE TypeOK'
        BY <2>10 DEF SaveRewrite
  <2>11. ASSUME NEW r \in Requests, NEW t \in Tokens, InsertSession(r, t) PROVE TypeOK'
        BY <2>11 DEF InsertSession
  <2>12. ASSUME NEW r \in Requests, NEW t \in Tokens, Logout(r, t) PROVE TypeOK'
        BY <2>12 DEF Logout
  <2>13. ASSUME NEW r \in Requests, NEW t \in Tokens, Rewrite(r, t) PROVE TypeOK'
        BY <2>13 DEF Rewrite
  <2>14. ASSUME NEW r \in Requests, NEW t \in Tokens, NEW new \in Passwords, CheckOld(r, t, new) PROVE TypeOK'
        BY <2>14 DEF CheckOld
  <2>15. ASSUME Tick PROVE TypeOK'
        BY <2>15 DEF Tick
  <2>16. ASSUME Crash PROVE TypeOK'
    <3>1. file' \in Secrets \cup {Torn}
          BY <2>16 DEF Crash
    <3>2. answered' \subseteq Secrets
          BY <2>16 DEF Crash, Changing
    <3>3. up' = FALSE /\ late' = {}
          BY <2>16 DEF Crash
    <3>4. crashes' \in Nat
          BY <2>16 DEF Crash
    <3>5. sessions' \in [Tokens -> Nat] /\ pc' \in [Requests -> Places]
          BY <2>16 DEF Crash
    <3>6. UNCHANGED <<now, unused, issued, password, read, saves, wanted>>
          BY <2>16 DEF Crash
    <3>. QED BY <3>1, <3>2, <3>3, <3>4, <3>5, <3>6
  <2>17. ASSUME Boot PROVE TypeOK'
        BY <2>17 DEF Boot
  <2>18. ASSUME UNCHANGED vars PROVE TypeOK'
        BY <2>18 DEF vars
  <2>. QED
       BY <2>1, <2>2, <2>3, <2>4, <2>5, <2>6, <2>7, <2>8, <2>9, <2>10, <2>11, <2>12, <2>13, <2>14, <2>15, <2>16, <2>17, <2>18
       DEF Next, Step
<1>. QED BY <1>1, <1>2, PTL DEF Spec
-------------------------------------------------------------------------------
\* No step of a request, of the clock, of a crash or of a start leaves the
\* invariant of the sessions.
LEMMA StepKeepsSessionInv == SessionInv /\ TypeOK' /\ [Next]_vars => SessionInv'
<1> SUFFICES ASSUME SessionInv, TypeOK', [Next]_vars PROVE SessionInv'
    OBVIOUS
<1> USE ConsoleAssumption DEF SessionInv, TypeOK, Goto, userVars, sessionVars, Changing, Unsaved
<1>1. ASSUME NEW r \in Requests, up, StartLogin(r) PROVE SessionInv'
      BY <1>1 DEF StartLogin, DownIsEmpty, LoginSound, SessionsFollowPassword
<1>2. ASSUME NEW r \in Requests, up, RefuseLogin(r) PROVE SessionInv'
      BY <1>2 DEF RefuseLogin, DownIsEmpty, LoginSound, SessionsFollowPassword
<1>3. ASSUME NEW r \in Requests, up, ReadPassword(r) PROVE SessionInv'
      BY <1>3 DEF ReadPassword, DownIsEmpty, LoginSound, SessionsFollowPassword
<1>4. ASSUME NEW r \in Requests, up, Pass(r) PROVE SessionInv'
      BY <1>4 DEF Pass, DownIsEmpty, LoginSound, SessionsFollowPassword
<1>5. ASSUME NEW r \in Requests, up, SetPassword(r) PROVE SessionInv'
  <2>1. DownIsEmpty'
        BY <1>5 DEF SetPassword, DownIsEmpty
  <2>2. LoginSound'
        BY <1>5 DEF SetPassword, LoginSound
  <2>3. SessionsFollowPassword'
        BY <1>5 DEF SetPassword, SessionsFollowPassword
  <2>. QED BY <2>1, <2>2, <2>3
<1>6. ASSUME NEW r \in Requests, up, CopyPassword(r) PROVE SessionInv'
      BY <1>6 DEF CopyPassword, DownIsEmpty, LoginSound, SessionsFollowPassword
<1>7. ASSUME NEW r \in Requests, up, Save(r) PROVE SessionInv'
      BY <1>7 DEF Save, DownIsEmpty, LoginSound, SessionsFollowPassword
<1>8. ASSUME NEW r \in Requests, up, SaveFails(r) PROVE SessionInv'
  <2>1. DownIsEmpty'
        BY <1>8 DEF SaveFails, DownIsEmpty
  <2>2. LoginSound'
        BY <1>8 DEF SaveFails, LoginSound
  <2>3. SessionsFollowPassword'
        BY <1>8 DEF SaveFails, SessionsFollowPassword
  <2>. QED BY <2>1, <2>2, <2>3
<1>9. ASSUME NEW r \in Requests, up, ClearSessions(r) PROVE SessionInv'
  <2>1. DownIsEmpty'
        BY <1>9 DEF ClearSessions, DownIsEmpty
  <2>2. LoginSound'
        BY <1>9 DEF ClearSessions, LoginSound
  <2>3. SessionsFollowPassword'
        BY <1>9 DEF ClearSessions, SessionsFollowPassword
  <2>. QED BY <2>1, <2>2, <2>3
<1>10. ASSUME NEW r \in Requests, up, SaveRewrite(r) PROVE SessionInv'
      BY <1>10 DEF SaveRewrite, DownIsEmpty, LoginSound, SessionsFollowPassword
<1>11. ASSUME NEW r \in Requests, NEW t \in Tokens, up, InsertSession(r, t) PROVE SessionInv'
  <2>1. DownIsEmpty'
        BY <1>11 DEF InsertSession, DownIsEmpty
  <2>2. LoginSound'
        BY <1>11 DEF InsertSession, LoginSound
  <2>3. SessionsFollowPassword'
        BY <1>11 DEF InsertSession, SessionsFollowPassword, LoginSound
  <2>. QED BY <2>1, <2>2, <2>3
<1>12. ASSUME NEW r \in Requests, NEW t \in Tokens, up, Logout(r, t) PROVE SessionInv'
      BY <1>12 DEF Logout, DownIsEmpty, LoginSound, SessionsFollowPassword
<1>13. ASSUME NEW r \in Requests, NEW t \in Tokens, up, Rewrite(r, t) PROVE SessionInv'
      BY <1>13 DEF Rewrite, DownIsEmpty, LoginSound, SessionsFollowPassword
<1>14. ASSUME NEW r \in Requests, NEW t \in Tokens, NEW new \in Passwords, up, CheckOld(r, t, new) PROVE SessionInv'
      BY <1>14 DEF CheckOld, DownIsEmpty, LoginSound, SessionsFollowPassword
<1>15. ASSUME Tick PROVE SessionInv'
      BY <1>15 DEF Tick, DownIsEmpty, LoginSound, SessionsFollowPassword
<1>16. ASSUME Crash PROVE SessionInv'
      BY <1>16 DEF Crash, DownIsEmpty, LoginSound, SessionsFollowPassword
<1>17. ASSUME Boot PROVE SessionInv'
      BY <1>17 DEF Boot, DownIsEmpty, LoginSound, SessionsFollowPassword
<1>18. ASSUME UNCHANGED vars PROVE SessionInv'
      BY <1>18 DEF vars, DownIsEmpty, LoginSound, SessionsFollowPassword
<1>. QED
     BY <1>1, <1>2, <1>3, <1>4, <1>5, <1>6, <1>7, <1>8, <1>9, <1>10, <1>11, <1>12, <1>13, <1>14, <1>15, <1>16, <1>17, <1>18
     DEF Next, Step

\* admin.rs:1080-1081: whatever logins, changes, logouts and crashes race, a
\* session that is in the table once a change has cleared it was issued for the
\* new password, or by a login that had read the old one before the change.
THEOREM SessionsRevoked == Spec => []SessionsFollowPassword
<1>1. Init => SessionInv
      BY ConsoleAssumption DEF Init, SessionInv, TypeOK, Secrets, Places, DownIsEmpty, LoginSound,
                               SessionsFollowPassword
<1>2. SessionInv => SessionsFollowPassword
      BY DEF SessionInv
<1>. QED BY <1>1, <1>2, TypeCorrect, StepKeepsSessionInv, PTL DEF Spec
-------------------------------------------------------------------------------
\* No step leaves the invariant of the saves.
LEMMA StepKeepsSaveInv == SaveInv /\ TypeOK' /\ [Next]_vars => SaveInv'
<1> SUFFICES ASSUME SaveInv, TypeOK', [Next]_vars PROVE SaveInv'
    OBVIOUS
<1> USE ConsoleAssumption DEF SaveInv, TypeOK, Goto, userVars, sessionVars, Changing, Unsaved, Holding
<1>1. ASSUME NEW r \in Requests, up, StartLogin(r) PROVE SaveInv'
      BY <1>1 DEF StartLogin, Secrets, DownIsEmpty, FileKnown, OneChange, ChangeInForce,
             CopiesCurrent, ClearingSaved, SettledSaved
<1>2. ASSUME NEW r \in Requests, up, RefuseLogin(r) PROVE SaveInv'
      BY <1>2 DEF RefuseLogin, Secrets, DownIsEmpty, FileKnown, OneChange, ChangeInForce,
             CopiesCurrent, ClearingSaved, SettledSaved
<1>3. ASSUME NEW r \in Requests, up, ReadPassword(r) PROVE SaveInv'
      BY <1>3 DEF ReadPassword, Secrets, DownIsEmpty, FileKnown, OneChange, ChangeInForce,
             CopiesCurrent, ClearingSaved, SettledSaved
<1>4. ASSUME NEW r \in Requests, up, Pass(r) PROVE SaveInv'
      BY <1>4 DEF Pass, Secrets, DownIsEmpty, FileKnown, OneChange, ChangeInForce,
             CopiesCurrent, ClearingSaved, SettledSaved
<1>5. ASSUME NEW r \in Requests, up, SetPassword(r) PROVE SaveInv'
  <2>1. DownIsEmpty' /\ up' /\ file' # Torn
        BY <1>5 DEF SetPassword, DownIsEmpty, Secrets
  <2>2. ASSUME saves' = "apart"
        PROVE  /\ FileKnown' /\ OneChange' /\ ChangeInForce'
               /\ CopiesCurrent' /\ ClearingSaved' /\ SettledSaved'
    <3>1. saves = "apart"
          BY <1>5, <2>2 DEF SetPassword
    <3>2. FileKnown'
          BY <1>5, <2>2, <3>1 DEF SetPassword, FileKnown, OneChange, ChangeInForce, CopiesCurrent, ClearingSaved, SettledSaved
    <3>3. OneChange'
          BY <1>5, <2>2, <3>1 DEF SetPassword, FileKnown, OneChange, ChangeInForce, CopiesCurrent, ClearingSaved, SettledSaved
    <3>4. ChangeInForce'
          BY <1>5, <2>2, <3>1 DEF SetPassword, FileKnown, OneChange, ChangeInForce, CopiesCurrent, ClearingSaved, SettledSaved
    <3>5. CopiesCurrent'
          BY <1>5, <2>2, <3>1 DEF SetPassword, FileKnown, OneChange, ChangeInForce, CopiesCurrent, ClearingSaved, SettledSaved
    <3>6. ClearingSaved'
          BY <1>5, <2>2, <3>1 DEF SetPassword, FileKnown, OneChange, ChangeInForce, CopiesCurrent, ClearingSaved, SettledSaved
    <3>7. SettledSaved'
          BY <1>5, <2>2, <3>1 DEF SetPassword, FileKnown, OneChange, ChangeInForce, CopiesCurrent, ClearingSaved, SettledSaved
    <3>. QED BY <3>2, <3>3, <3>4, <3>5, <3>6, <3>7
  <2>. QED BY <2>1, <2>2
<1>6. ASSUME NEW r \in Requests, up, CopyPassword(r) PROVE SaveInv'
  <2>1. DownIsEmpty' /\ up' /\ file' # Torn
        BY <1>6 DEF CopyPassword, DownIsEmpty, Secrets
  <2>2. ASSUME saves' = "apart"
        PROVE  /\ FileKnown' /\ OneChange' /\ ChangeInForce'
               /\ CopiesCurrent' /\ ClearingSaved' /\ SettledSaved'
    <3>1. saves = "apart"
          BY <1>6, <2>2 DEF CopyPassword
    <3>2. FileKnown'
          BY <1>6, <2>2, <3>1 DEF CopyPassword, FileKnown, OneChange, ChangeInForce, CopiesCurrent, ClearingSaved, SettledSaved
    <3>3. OneChange'
          BY <1>6, <2>2, <3>1 DEF CopyPassword, FileKnown, OneChange, ChangeInForce, CopiesCurrent, ClearingSaved, SettledSaved
    <3>4. ChangeInForce'
          BY <1>6, <2>2, <3>1 DEF CopyPassword, FileKnown, OneChange, ChangeInForce, CopiesCurrent, ClearingSaved, SettledSaved
    <3>5. CopiesCurrent'
          BY <1>6, <2>2, <3>1 DEF CopyPassword, FileKnown, OneChange, ChangeInForce, CopiesCurrent, ClearingSaved, SettledSaved
    <3>6. ClearingSaved'
          BY <1>6, <2>2, <3>1 DEF CopyPassword, FileKnown, OneChange, ChangeInForce, CopiesCurrent, ClearingSaved, SettledSaved
    <3>7. SettledSaved'
          BY <1>6, <2>2, <3>1 DEF CopyPassword, FileKnown, OneChange, ChangeInForce, CopiesCurrent, ClearingSaved, SettledSaved
    <3>. QED BY <3>2, <3>3, <3>4, <3>5, <3>6, <3>7
  <2>. QED BY <2>1, <2>2
<1>7. ASSUME NEW r \in Requests, up, Save(r) PROVE SaveInv'
  <2>1. DownIsEmpty' /\ up' /\ file' # Torn
        BY <1>7 DEF Save, DownIsEmpty, Secrets
  <2>2. ASSUME saves' = "apart"
        PROVE  /\ FileKnown' /\ OneChange' /\ ChangeInForce'
               /\ CopiesCurrent' /\ ClearingSaved' /\ SettledSaved'
    <3>1. saves = "apart"
          BY <1>7, <2>2 DEF Save
    <3>2. FileKnown'
          BY <1>7, <2>2, <3>1 DEF Save, FileKnown, OneChange, ChangeInForce, CopiesCurrent, ClearingSaved, SettledSaved
    <3>3. OneChange'
          BY <1>7, <2>2, <3>1 DEF Save, FileKnown, OneChange, ChangeInForce, CopiesCurrent, ClearingSaved, SettledSaved
    <3>4. ChangeInForce'
          BY <1>7, <2>2, <3>1 DEF Save, FileKnown, OneChange, ChangeInForce, CopiesCurrent, ClearingSaved, SettledSaved
    <3>5. CopiesCurrent'
          BY <1>7, <2>2, <3>1 DEF Save, FileKnown, OneChange, ChangeInForce, CopiesCurrent, ClearingSaved, SettledSaved
    <3>6. ClearingSaved'
          BY <1>7, <2>2, <3>1 DEF Save, FileKnown, OneChange, ChangeInForce, CopiesCurrent, ClearingSaved, SettledSaved
    <3>7. SettledSaved'
          BY <1>7, <2>2, <3>1 DEF Save, FileKnown, OneChange, ChangeInForce, CopiesCurrent, ClearingSaved, SettledSaved
    <3>. QED BY <3>2, <3>3, <3>4, <3>5, <3>6, <3>7
  <2>. QED BY <2>1, <2>2
<1>8. ASSUME NEW r \in Requests, up, SaveFails(r) PROVE SaveInv'
  <2>1. DownIsEmpty' /\ up' /\ file' # Torn
        BY <1>8 DEF SaveFails, DownIsEmpty, Secrets
  <2>2. saves' # "apart"
        BY <1>8 DEF SaveFails
  <2>. QED BY <2>1, <2>2
<1>9. ASSUME NEW r \in Requests, up, ClearSessions(r) PROVE SaveInv'
  <2>1. DownIsEmpty' /\ up' /\ file' # Torn
        BY <1>9 DEF ClearSessions, DownIsEmpty, Secrets
  <2>2. ASSUME saves' = "apart"
        PROVE  /\ FileKnown' /\ OneChange' /\ ChangeInForce'
               /\ CopiesCurrent' /\ ClearingSaved' /\ SettledSaved'
    <3>1. saves = "apart"
          BY <1>9, <2>2 DEF ClearSessions
    <3>2. FileKnown'
          BY <1>9, <2>2, <3>1 DEF ClearSessions, FileKnown, OneChange, ChangeInForce, CopiesCurrent, ClearingSaved, SettledSaved
    <3>3. OneChange'
          BY <1>9, <2>2, <3>1 DEF ClearSessions, FileKnown, OneChange, ChangeInForce, CopiesCurrent, ClearingSaved, SettledSaved
    <3>4. ChangeInForce'
          BY <1>9, <2>2, <3>1 DEF ClearSessions, FileKnown, OneChange, ChangeInForce, CopiesCurrent, ClearingSaved, SettledSaved
    <3>5. CopiesCurrent'
          BY <1>9, <2>2, <3>1 DEF ClearSessions, FileKnown, OneChange, ChangeInForce, CopiesCurrent, ClearingSaved, SettledSaved
    <3>6. ClearingSaved'
          BY <1>9, <2>2, <3>1 DEF ClearSessions, FileKnown, OneChange, ChangeInForce, CopiesCurrent, ClearingSaved, SettledSaved
    <3>7. SettledSaved'
          BY <1>9, <2>2, <3>1 DEF ClearSessions, FileKnown, OneChange, ChangeInForce, CopiesCurrent, ClearingSaved, SettledSaved
    <3>. QED BY <3>2, <3>3, <3>4, <3>5, <3>6, <3>7
  <2>. QED BY <2>1, <2>2
<1>10. ASSUME NEW r \in Requests, up, SaveRewrite(r) PROVE SaveInv'
      BY <1>10 DEF SaveRewrite, Secrets, DownIsEmpty, FileKnown, OneChange, ChangeInForce,
             CopiesCurrent, ClearingSaved, SettledSaved
<1>11. ASSUME NEW r \in Requests, NEW t \in Tokens, up, InsertSession(r, t) PROVE SaveInv'
      BY <1>11 DEF InsertSession, Secrets, DownIsEmpty, FileKnown, OneChange, ChangeInForce,
             CopiesCurrent, ClearingSaved, SettledSaved
<1>12. ASSUME NEW r \in Requests, NEW t \in Tokens, up, Logout(r, t) PROVE SaveInv'
      BY <1>12 DEF Logout, Secrets, DownIsEmpty, FileKnown, OneChange, ChangeInForce,
             CopiesCurrent, ClearingSaved, SettledSaved
<1>13. ASSUME NEW r \in Requests, NEW t \in Tokens, up, Rewrite(r, t) PROVE SaveInv'
      BY <1>13 DEF Rewrite, Secrets, DownIsEmpty, FileKnown, OneChange, ChangeInForce,
             CopiesCurrent, ClearingSaved, SettledSaved
<1>14. ASSUME NEW r \in Requests, NEW t \in Tokens, NEW new \in Passwords, up, CheckOld(r, t, new) PROVE SaveInv'
      BY <1>14 DEF CheckOld, Secrets, DownIsEmpty, FileKnown, OneChange, ChangeInForce,
             CopiesCurrent, ClearingSaved, SettledSaved
<1>15. ASSUME Tick PROVE SaveInv'
      BY <1>15 DEF Tick, DownIsEmpty, FileKnown, OneChange, ChangeInForce, CopiesCurrent, ClearingSaved, SettledSaved
<1>16. ASSUME Crash PROVE SaveInv'
      BY <1>16 DEF Crash, DownIsEmpty, FileKnown, OneChange, ChangeInForce, CopiesCurrent, ClearingSaved, SettledSaved
<1>17. ASSUME Boot PROVE SaveInv'
      BY <1>17 DEF Boot, DownIsEmpty, FileKnown, OneChange, ChangeInForce, CopiesCurrent, ClearingSaved, SettledSaved
<1>18. ASSUME UNCHANGED vars PROVE SaveInv'
      BY <1>18 DEF vars, DownIsEmpty, FileKnown, OneChange, ChangeInForce, CopiesCurrent, ClearingSaved, SettledSaved
<1>. QED
     BY <1>1, <1>2, <1>3, <1>4, <1>5, <1>6, <1>7, <1>8, <1>9, <1>10, <1>11, <1>12, <1>13, <1>14, <1>15, <1>16, <1>17, <1>18
     DEF Next, Step

\* admin.rs:1080: after a change was answered, and until the next, the password
\* in force and the one in the file are the new one, across crashes, provided
\* that no two saves met and no write failed.
THEOREM ChangeHolds == Spec => []AnsweredChangeHolds
<1>1. Init => SaveInv
      BY ConsoleAssumption DEF Init, SaveInv, TypeOK, Secrets, Places, DownIsEmpty, Changing, Unsaved,
                               Holding, FileKnown, OneChange, ChangeInForce, CopiesCurrent,
                               ClearingSaved, SettledSaved
<1>2. SaveInv => AnsweredChangeHolds
      BY DEF SaveInv, AnsweredChangeHolds, FileKnown, SettledSaved
<1>. QED BY <1>1, <1>2, TypeCorrect, StepKeepsSaveInv, PTL DEF Spec
===============================================================================
