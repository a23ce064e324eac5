------------------------------ MODULE LoginGuard -------------------------------
(***************************************************************************)
(* What a console login passes before its password counts (server/         *)
(* admin.rs): the ban of its IP at accept, the captcha, and the count of   *)
(* failures that leads to a ban.  The tables are DashMaps: each operation  *)
(* on one is a step, and requests of the same IP run side by side.         *)
(*                                                                         *)
(* An absent entry of login_failures is a count of 0, as the code reads    *)
(* it; an absent ban or captcha is an expiry of 0.  What a session is      *)
(* worth after the login is ConsoleAuth's matter.                          *)
(***************************************************************************)
EXTENDS Integers, Sequences, FiniteSets

CONSTANTS
    Requests,       \* connections to the console, one task each
    IPs,
    Captchas,       \* bound: captcha ids ever generated
    None,           \* no captcha
    FailLimit,      \* LOGIN_FAIL_LIMIT
    FailWindow,     \* FAIL_WINDOW_MS
    BlockDuration,  \* BLOCK_DURATION_MS
    CaptchaTTL,     \* CAPTCHA_TTL_MS
    U64,            \* 2^64, scaled: above any time
    MaxTime         \* bound: time

ASSUME GuardAssumption ==
    /\ None \notin Captchas
    /\ FailLimit \in Nat \ {0} /\ FailWindow \in Nat
    /\ BlockDuration \in Nat \ {0} /\ CaptchaTTL \in Nat \ {0}
    /\ MaxTime \in Nat \ {0} /\ U64 \in Nat /\ U64 > MaxTime + FailWindow

VARIABLES
    now,        \* now_millis(), in coarse units
    blocked,    \* blocked_ips: when the ban of each IP ends
    failures,   \* login_failures: count and start of the window
    captchas,   \* captchas: when each one expires
    fresh,      \* ids not generated yet
    pc,         \* where each request is
    ip,         \* its IP
    at,         \* the time it read last
    captcha,    \* the captcha it named
    valid,      \* whether it was the right answer in time
    wrong,      \* history: times of the failures counted since the IP's last
                \* login or ban
    tries,      \* history: logins each captcha let through
    banned      \* history: the end of each IP's last ban

guardVars == <<blocked, failures, captchas, fresh>>
requestVars == <<pc, ip, at, captcha, valid>>
historyVars == <<wrong, tries, banned>>
vars == <<now, guardVars, requestVars, historyVars>>

Goto(r, place) == pc' = [pc EXCEPT ![r] = place]
NoFailures == [count |-> 0, first |-> 0]

\* u64 subtraction, unchecked in the release build.
Minus(a, b) == (a - b) % U64

Init == /\ now = 1
        /\ blocked = [i \in IPs |-> 0]
        /\ failures = [i \in IPs |-> NoFailures]
        /\ captchas = [c \in Captchas |-> 0] /\ fresh = Captchas
        /\ pc = [r \in Requests |-> "idle"]
        /\ ip \in [Requests -> IPs]
        /\ at = [r \in Requests |-> 0]
        /\ captcha = [r \in Requests |-> None]
        /\ valid = [r \in Requests |-> FALSE]
        /\ wrong = [i \in IPs |-> <<>>]
        /\ tries = [c \in Captchas |-> 0]
        /\ banned = [i \in IPs |-> 0]

Tick == /\ now < MaxTime /\ now' = now + 1
        /\ UNCHANGED <<guardVars, requestVars, historyVars>>

-------------------------------------------------------------------------------
(* handle_conn: is_ip_blocked *)

\* No ban, or one that is over, whose guard is dropped before it is removed.
\* Under a ban the connection is closed: a stutter.
Accept(r, i) ==
    /\ pc[r] = "idle"
    /\ blocked[i] <= now
    /\ Goto(r, IF blocked[i] = 0 THEN "reading" ELSE "unbanning")
    /\ ip' = [ip EXCEPT ![r] = i]
    /\ UNCHANGED <<now, guardVars, at, captcha, valid, historyVars>>

Unban(r) == /\ pc[r] = "unbanning"
            /\ Goto(r, "reading")
            /\ blocked' = [blocked EXCEPT ![ip[r]] = 0]
            /\ UNCHANGED <<now, failures, captchas, fresh, ip, at, captcha, valid, historyVars>>

-------------------------------------------------------------------------------
(* Captchas *)

\* api_captcha: the expired ones are dropped and a new one is inserted.
NewCaptcha(r, c) ==
    /\ pc[r] = "reading" /\ c \in fresh
    /\ Goto(r, "idle")
    /\ fresh' = fresh \ {c}
    /\ captchas' = [d \in Captchas |-> IF d = c THEN now + CaptchaTTL
                                       ELSE IF now < captchas[d] THEN captchas[d] ELSE 0]
    /\ UNCHANGED <<now, blocked, failures, ip, at, captcha, valid, historyVars>>

\* check_captcha, the look-up.
LookUpCaptcha(r, c, right) ==
    /\ pc[r] = "reading" /\ c \notin fresh
    /\ Goto(r, "burning")
    /\ captcha' = [captcha EXCEPT ![r] = c]
    /\ valid' = [valid EXCEPT ![r] = right /\ now < captchas[c]]
    /\ UNCHANGED <<now, guardVars, ip, at, historyVars>>

\* check_captcha, the removal, whether the answer was right or wrong.
BurnCaptcha(r) ==
    /\ pc[r] = "burning"
    /\ Goto(r, IF valid[r] THEN "verifying" ELSE "idle")
    /\ captchas' = [captchas EXCEPT ![captcha[r]] = 0]
    /\ tries' = [tries EXCEPT ![captcha[r]] = @ + IF valid[r] THEN 1 ELSE 0]
    /\ captcha' = [captcha EXCEPT ![r] = None]
    /\ valid' = [valid EXCEPT ![r] = FALSE]
    /\ UNCHANGED <<now, blocked, failures, fresh, ip, at, wrong, banned>>

-------------------------------------------------------------------------------
(* The password *)

\* The count outlives a successful login.
Bug_SucceedKeepsCount(r) ==
    /\ pc[r] = "verifying" /\ Goto(r, "idle")
    /\ wrong' = [wrong EXCEPT ![ip[r]] = <<>>]
    /\ UNCHANGED <<now, guardVars, ip, at, captcha, valid, tries, banned>>

\* The right one: the failures of the IP are forgotten.
Succeed(r) ==
    /\ pc[r] = "verifying" /\ Goto(r, "idle")
    /\ failures' = [failures EXCEPT ![ip[r]] = NoFailures]
    /\ wrong' = [wrong EXCEPT ![ip[r]] = <<>>]
    /\ UNCHANGED <<now, blocked, captchas, fresh, ip, at, captcha, valid, tries, banned>>

\* A wrong one: record_login_failure reads the clock first.
Fail(r) == /\ pc[r] = "verifying" /\ Goto(r, "counting")
           /\ at' = [at EXCEPT ![r] = now]
           /\ UNCHANGED <<now, guardVars, ip, captcha, valid, historyVars>>

\* ... then counts under the lock of the entry.
CountFailure(r) ==
    LET i == ip[r]
        entry == IF failures[i].count = 0 THEN [count |-> 0, first |-> at[r]] ELSE failures[i] IN
    /\ pc[r] = "counting" /\ Goto(r, "checking")
    /\ failures' = [failures EXCEPT ![i] =
          IF Minus(at[r], entry.first) > FailWindow THEN [count |-> 1, first |-> at[r]]
          ELSE [entry EXCEPT !.count = @ + 1]]
    /\ wrong' = [wrong EXCEPT ![i] = Append(@, at[r])]
    /\ UNCHANGED <<now, blocked, captchas, fresh, ip, at, captcha, valid, tries, banned>>

Bug_CheckCountAbove(r) ==
    /\ pc[r] = "checking"
    /\ Goto(r, IF failures[ip[r]].count > FailLimit THEN "banning" ELSE "idle")
    /\ UNCHANGED <<now, guardVars, ip, at, captcha, valid, historyVars>>

\* ... reads the count again,
CheckCount(r) ==
    /\ pc[r] = "checking"
    /\ Goto(r, IF failures[ip[r]].count >= FailLimit THEN "banning" ELSE "idle")
    /\ UNCHANGED <<now, guardVars, ip, at, captcha, valid, historyVars>>

\* ... bans the IP from the time it read at first,
Ban(r) ==
    /\ pc[r] = "banning" /\ Goto(r, "forgetting")
    /\ blocked' = [blocked EXCEPT ![ip[r]] = at[r] + BlockDuration]
    /\ banned' = [banned EXCEPT ![ip[r]] = at[r] + BlockDuration]
    /\ UNCHANGED <<now, failures, captchas, fresh, ip, at, captcha, valid, wrong, tries>>

\* ... and forgets its failures.
Forget(r) ==
    /\ pc[r] = "forgetting" /\ Goto(r, "idle")
    /\ failures' = [failures EXCEPT ![ip[r]] = NoFailures]
    /\ wrong' = [wrong EXCEPT ![ip[r]] = <<>>]
    /\ UNCHANGED <<now, blocked, captchas, fresh, ip, at, captcha, valid, tries, banned>>

Step(r) == \/ Unban(r) \/ BurnCaptcha(r) \/ Succeed(r) \/ Fail(r) \/ CountFailure(r)
           \/ CheckCount(r) \/ Ban(r) \/ Forget(r)
           \/ \E i \in IPs : Accept(r, i)
           \/ \E c \in Captchas : NewCaptcha(r, c)
           \/ \E c \in Captchas, right \in BOOLEAN : LookUpCaptcha(r, c, right)

Next == Tick \/ \E r \in Requests : Step(r)

Spec == Init /\ [][Next]_vars
-------------------------------------------------------------------------------
Places == {"idle", "unbanning", "reading", "burning", "verifying", "counting",
           "checking", "banning", "forgetting"}

\* Every variable keeps its type.
TypeOK == /\ now \in Nat
          /\ blocked \in [IPs -> Nat] /\ banned \in [IPs -> Nat]
          /\ failures \in [IPs -> [count : Nat, first : Nat]]
          /\ captchas \in [Captchas -> Nat] /\ fresh \subseteq Captchas
          /\ pc \in [Requests -> Places] /\ ip \in [Requests -> IPs]
          /\ at \in [Requests -> Nat]
          /\ captcha \in [Requests -> Captchas \cup {None}]
          /\ valid \in [Requests -> BOOLEAN]
          /\ wrong \in [IPs -> Seq(Nat)] /\ tries \in [Captchas -> Nat]

\* Requests of an IP that are deciding on a failure they have counted.
Deciding(i) == {r \in Requests : ip[r] = i /\ pc[r] \in {"checking", "banning", "forgetting"}}

\* Failures of an IP that lie within the window that starts at t.
InWindow(i, t) == {k \in DOMAIN wrong[i] : wrong[i][k] \in t..(t + FailWindow)}

\* admin.rs:630: consecutive failures within the window count.  A ban is never
\* due to more than that: what is counted against an IP are failures since its
\* last login or ban, all in one window.
CountedFailuresAreRecent ==
    \A i \in IPs : failures[i].count <= Cardinality(InWindow(i, failures[i].first))

\* admin.rs:630: reaching the threshold blocks the IP.  However requests of an
\* IP race, one that finds the limit reached is still there to ban it: no count
\* at the limit is left behind without a ban.
LimitIsActedOn ==
    \A i \in IPs : failures[i].count >= FailLimit => Deciding(i) # {}

\* admin.rs:618 (and 45): a captcha is consumed on use.  Refuted: two requests look it
\* up before either removes it.
CaptchaSingleUse == \A c \in Captchas : tries[c] <= 1

\* admin.rs:630: the IP is blocked for 30 minutes.  Refuted: a request that
\* found an older ban expired removes the new one.
BanLasts == \A i \in IPs : now < banned[i] => blocked[i] # 0

\* README.md:35: 5 failed password attempts per IP lead to a lockout.  Refuted:
\* the window starts with the first failure and does not slide, and of two
\* requests the one that read the clock first may count last, which wraps.
RecentFailuresBan ==
    \A i \in IPs : (\A r \in Requests : ip[r] = i => pc[r] = "idle") =>
        \A t \in 1..MaxTime : Cardinality(InWindow(i, t)) < FailLimit
===============================================================================
