---------------------------- MODULE PanelAccount ----------------------------
(***************************************************************************)
(* The panel's account (src/src/auth.rs and the handlers of                *)
(* src/src/panel.rs): install, login behind a guard that locks after too   *)
(* many failures, the upgrade of an account that came from the official    *)
(* server, password change, session tokens.                                *)
(*                                                                         *)
(* Requests run at once on several worker threads.  A login holds the      *)
(* guard's mutex from the check of the lock to the record of its result;   *)
(* the other requests hold nothing.  A hash is modelled by the password it *)
(* was made from.                                                          *)
(*                                                                         *)
(* Every update, of the account or of another setting, clones the whole    *)
(* configuration, changes the clone, writes it to the disk and only then   *)
(* replaces the configuration by it, with no lock (config.rs:204-212).     *)
(* What the write consists of is ConfigStore's; here it succeeds or fails. *)
(***************************************************************************)
EXTENDS Integers, Sequences, FiniteSets

CONSTANTS
    Handlers,       \* panel requests in progress at once
    Users, Passwords,
    None,           \* an empty field; no handler
    MaxLoginFails,  \* MAX_LOGIN_FAILS, 5 in the code
    LockSecs,       \* LOGIN_LOCK_SECS, 180 in the code
    TtlSecs,        \* SESSION_TTL_SECS, seven days in the code
    MaxTime         \* bound: the clock stops there

ASSUME AccountAssumption ==
    /\ None \notin Users \cup Passwords \cup Handlers \cup Nat
    /\ MaxLoginFails \in Nat \ {0}
    /\ LockSecs \in Nat \ {0}
    /\ TtlSecs \in Nat \ {0}
    /\ MaxTime \in Nat

VARIABLES
    account,      \* AppConfig's admin_user, user, password, pass_hash
    fails,        \* LoginGuard
    lockedUntil,
    holder,       \* the login that holds the mutex around the guard
    now,
    req,          \* handler -> its request
    tokens,       \* the session tokens issued and not expired
    failedAt,     \* history: when logins failed since the last success
    saved         \* history: what the password may be, see Save

guard == <<fails, lockedUntil, holder>>
vars  == <<account, guard, now, req, tokens, failedAt, saved>>

----------------------------------------------------------------------------
(* Types and helpers *)

Account == [admin_user : Users \cup {None}, user : Users \cup {None},
            password : Passwords \cup {None}, pass_hash : Passwords \cup {None}]
Token   == [user : Users, exp : Nat]

Empty      == [admin_user |-> None, user |-> None, password |-> None, pass_hash |-> None]
\* A data.json of the official server: only its two hashes.
Official(u, p) == [Empty EXCEPT !.user = u, !.password = p]
\* What install writes.
Full(u, p) == [admin_user |-> u, user |-> u, password |-> p, pass_hash |-> p]

\* setting: any settings request that is not about the account.
Kinds == {"install", "login", "change", "setting"}
\* body: waits for the request's body.  guard: waits for the guard.  upgrading,
\* saving: writes its draft.
ReqPC == {"idle", "body", "guard", "verify", "upgrade", "upgrading", "accepted", "rejected", "saving"}
\* draft: the account in the clone that update has made.
Req   == [pc : ReqPC, kind : Kinds, user : Users \cup {None},
          password : Passwords \cup {None}, new : Passwords \cup {None}, exp : Nat,
          draft : Account]
Idle  == [pc |-> "idle", kind |-> "login", user |-> None, password |-> None,
          new |-> None, exp |-> 0, draft |-> Empty]

Become(h, r) == req' = [req EXCEPT ![h] = r]
Goto(h, pc)  == req' = [req EXCEPT ![h].pc = pc]
\* update up to its write: the clone of the configuration as it is now, with a for its account.
Draft(h, pc, a) == req' = [req EXCEPT ![h].pc = pc, ![h].draft = a]

\* AppConfig::installed.
Installed(a) ==
    \/ a.user # None /\ a.password # None
    \/ a.admin_user # None /\ a.pass_hash # None

\* The password that opens the panel.
Effective(a) == IF a.pass_hash # None THEN a.pass_hash ELSE a.password

\* What verify_login accepts.
Accepts(a, u, p) ==
    /\ Installed(a)
    /\ u = (IF a.admin_user # None THEN a.admin_user ELSE a.user)
    /\ p = Effective(a)

\* LoginGuard::lock_remaining is not zero.
Locked == lockedUntil # None /\ lockedUntil > now

Init ==
    /\ account \in {Empty} \cup {Official(u, p) : u \in Users, p \in Passwords}
    /\ fails = 0
    /\ lockedUntil = None
    /\ holder = None
    /\ now = 0
    /\ req = [h \in Handlers |-> Idle]
    /\ tokens = {}
    /\ failedAt = <<>>
    /\ saved = {account.password} \ {None}

----------------------------------------------------------------------------
(* Accounts and tokens *)

Issue(u) == tokens' = tokens \cup {[user |-> u, exp |-> now + TtlSecs]}

\* What request r, an upgrade or the update of another setting, is about to write
\* as the password: the one it has verified, or the one its clone had.
Carried(r) ==
    CASE r.pc = "upgrade" -> {r.password} \ {None}
      [] r.pc = "upgrading" \/ (r.pc = "saving" /\ r.kind = "setting") -> {Effective(r.draft)} \ {None}
      [] OTHER -> {}

\* The configuration becomes the clone of h, which was to save the password p.
Save(h, p) ==
    /\ account' = req[h].draft
    /\ saved' = {p} \cup UNION {Carried(req[g]) : g \in Handlers \ {h}}

----------------------------------------------------------------------------
(* install_submit *)

InstallSubmit(h, u, p) ==
    /\ req[h].pc = "idle"
    /\ ~Installed(account)
    /\ Become(h, [Idle EXCEPT !.pc = "body", !.kind = "install", !.user = u, !.password = p])
    /\ UNCHANGED <<account, guard, now, tokens, failedAt, saved>>

\* The body is there: the account is set, whatever it has become meanwhile.
InstallDraft(h) ==
    /\ req[h].pc = "body"
    /\ req[h].kind = "install"
    /\ Draft(h, "saving", Full(req[h].user, req[h].password))
    /\ UNCHANGED <<account, guard, now, tokens, failedAt, saved>>

InstallSave(h) ==
    /\ req[h].pc = "saving"
    /\ req[h].kind = "install"
    /\ Save(h, req[h].password)
    /\ Issue(req[h].user)
    /\ Become(h, Idle)
    /\ UNCHANGED <<guard, now, failedAt>>

\* A field is empty, hashing fails or the update does, and the page says so.
InstallFails(h) ==
    /\ req[h].pc \in {"body", "saving"}
    /\ req[h].kind = "install"
    /\ Become(h, Idle)
    /\ UNCHANGED <<account, guard, now, tokens, failedAt, saved>>

----------------------------------------------------------------------------
(* login_submit *)

LoginSubmit(h, u, p) ==
    /\ req[h].pc = "idle"
    /\ Become(h, [Idle EXCEPT !.pc = "guard", !.user = u, !.password = p])
    /\ UNCHANGED <<account, guard, now, tokens, failedAt, saved>>

\* The mutex is free and the guard is locked: come back later.
TurnAway(h) ==
    /\ req[h].pc = "guard"
    /\ holder = None
    /\ Locked
    /\ Become(h, Idle)
    /\ UNCHANGED <<account, guard, now, tokens, failedAt, saved>>

\* Mutant: the mutex is released after the check of the lock.
EnterGuard_Released(h) ==
    /\ req[h].pc = "guard"
    /\ holder = None
    /\ ~Locked
    /\ Goto(h, "verify")
    /\ UNCHANGED <<account, guard, now, tokens, failedAt, saved>>

\* The mutex is free and the guard is not locked: the login takes the mutex.
EnterGuard(h) ==
    /\ req[h].pc = "guard"
    /\ holder = None
    /\ ~Locked
    /\ holder' = h
    /\ Goto(h, "verify")
    /\ UNCHANGED <<account, fails, lockedUntil, now, tokens, failedAt, saved>>

\* Mutant: a success does not clear the count.
LoginAccepted_KeepsFails(h) ==
    /\ req[h].pc = "accepted"
    /\ req[h].kind = "login"
    /\ lockedUntil' = None
    /\ holder' = None
    /\ Issue(req[h].user)
    /\ Become(h, Idle)
    /\ failedAt' = <<>>
    /\ UNCHANGED <<account, fails, now, saved>>

\* LoginGuard::reset, and a token.
LoginAccepted(h) ==
    /\ req[h].pc = "accepted"
    /\ req[h].kind = "login"
    /\ fails' = 0
    /\ lockedUntil' = None
    /\ holder' = None
    /\ Issue(req[h].user)
    /\ Become(h, Idle)
    /\ failedAt' = <<>>
    /\ UNCHANGED <<account, now, saved>>

\* LoginGuard::record_fail: failures are counted anew once a lock has expired.
RecordFail ==
    LET expired == lockedUntil # None /\ lockedUntil <= now
        counted == (IF expired THEN 0 ELSE fails) + 1
    IN IF counted >= MaxLoginFails
       THEN fails' = 0 /\ lockedUntil' = now + LockSecs
       ELSE /\ fails' = counted
            /\ lockedUntil' = IF expired THEN None ELSE lockedUntil

LoginRejected(h) ==
    /\ req[h].pc = "rejected"
    /\ req[h].kind = "login"
    /\ RecordFail
    /\ holder' = None
    /\ Become(h, Idle)
    /\ failedAt' = Append(failedAt, now)
    /\ UNCHANGED <<account, now, tokens, saved>>

----------------------------------------------------------------------------
(* verify_login *)

\* One snapshot of the account decides; an account of the official server that
\* has not been upgraded is about to be.
Verify(h) ==
    /\ req[h].pc = "verify"
    /\ Goto(h, IF ~Accepts(account, req[h].user, req[h].password) THEN "rejected"
               ELSE IF account.pass_hash = None THEN "upgrade"
               ELSE "accepted")
    /\ UNCHANGED <<account, guard, now, tokens, failedAt, saved>>

\* The new hash is made from the password verified before, in whatever the
\* configuration is by now.
UpgradeDraft(h) ==
    /\ req[h].pc = "upgrade"
    /\ Draft(h, "upgrading", [account EXCEPT !.pass_hash = req[h].password])
    /\ UNCHANGED <<account, guard, now, tokens, failedAt, saved>>

Upgrade(h) ==
    /\ req[h].pc = "upgrading"
    /\ account' = req[h].draft
    /\ Draft(h, "accepted", Empty)
    /\ UNCHANGED <<guard, now, tokens, failedAt, saved>>

\* Hashing or the update fails; the login goes on.
UpgradeFails(h) ==
    /\ req[h].pc \in {"upgrade", "upgrading"}
    /\ Draft(h, "accepted", Empty)
    /\ UNCHANGED <<account, guard, now, tokens, failedAt, saved>>

----------------------------------------------------------------------------
(* api_setting_password *)

\* require_login: the token is good now.
ChangeSubmit(h, t, old, new) ==
    /\ req[h].pc = "idle"
    /\ Become(h, [pc |-> "body", kind |-> "change", user |-> t.user, password |-> old,
                  new |-> new, exp |-> t.exp, draft |-> Empty])
    /\ UNCHANGED <<account, guard, now, tokens, failedAt, saved>>

\* The body is there: the user name comes from the token, if it is still good.
ChangeBody(h) ==
    /\ req[h].pc = "body"
    /\ req[h].kind = "change"
    /\ Become(h, [req[h] EXCEPT !.pc = "verify",
                              !.user = IF now >= req[h].exp THEN None ELSE @])
    /\ UNCHANGED <<account, guard, now, tokens, failedAt, saved>>

\* The new password is too short, or the old one is wrong.
ChangeRejected(h) ==
    /\ req[h].pc \in {"body", "rejected"}
    /\ req[h].kind = "change"
    /\ Become(h, Idle)
    /\ UNCHANGED <<account, guard, now, tokens, failedAt, saved>>

\* Mutant: only the official server's hash is replaced.
ChangeDraft_OneHash(h) ==
    /\ req[h].pc = "accepted"
    /\ req[h].kind = "change"
    /\ Draft(h, "saving", [account EXCEPT !.password = req[h].new])
    /\ UNCHANGED <<account, guard, now, tokens, failedAt, saved>>

ChangeDraft(h) ==
    /\ req[h].pc = "accepted"
    /\ req[h].kind = "change"
    /\ Draft(h, "saving", [account EXCEPT !.pass_hash = req[h].new, !.password = req[h].new])
    /\ UNCHANGED <<account, guard, now, tokens, failedAt, saved>>

ChangeSave(h) ==
    /\ req[h].pc = "saving"
    /\ req[h].kind = "change"
    /\ Save(h, req[h].new)
    /\ Become(h, Idle)
    /\ UNCHANGED <<guard, now, tokens, failedAt>>

\* Hashing fails, or the update does, which the reply does not tell.
ChangeFails(h) ==
    /\ req[h].pc \in {"accepted", "saving"}
    /\ req[h].kind = "change"
    /\ Become(h, Idle)
    /\ UNCHANGED <<account, guard, now, tokens, failedAt, saved>>

----------------------------------------------------------------------------
(* The other settings, and the key list: update with the account as it is *)

\* require_login: a token is good now.
SettingSubmit(h) ==
    /\ req[h].pc = "idle"
    /\ tokens # {}
    /\ Become(h, [Idle EXCEPT !.pc = "body", !.kind = "setting"])
    /\ UNCHANGED <<account, guard, now, tokens, failedAt, saved>>

SettingDraft(h) ==
    /\ req[h].pc = "body"
    /\ req[h].kind = "setting"
    /\ Draft(h, "saving", account)
    /\ UNCHANGED <<account, guard, now, tokens, failedAt, saved>>

SettingSave(h) ==
    /\ req[h].pc = "saving"
    /\ req[h].kind = "setting"
    /\ account' = req[h].draft
    /\ Become(h, Idle)
    /\ UNCHANGED <<guard, now, tokens, failedAt, saved>>

\* A value is refused, or the update fails.
SettingFails(h) ==
    /\ req[h].pc \in {"body", "saving"}
    /\ req[h].kind = "setting"
    /\ Become(h, Idle)
    /\ UNCHANGED <<account, guard, now, tokens, failedAt, saved>>

----------------------------------------------------------------------------
(* Time *)

\* An expired token is refused for ever.
Tick ==
    /\ now < MaxTime
    /\ now' = now + 1
    /\ tokens' = {t \in tokens : t.exp > now + 1}
    /\ UNCHANGED <<account, guard, req, failedAt, saved>>

----------------------------------------------------------------------------
(* Specification *)

Next ==
    \/ \E h \in Handlers :
         \/ \E u \in Users, p \in Passwords : InstallSubmit(h, u, p) \/ LoginSubmit(h, u, p)
         \/ \E t \in tokens, old, new \in Passwords : ChangeSubmit(h, t, old, new)
         \/ InstallDraft(h) \/ InstallSave(h) \/ InstallFails(h)
         \/ TurnAway(h) \/ EnterGuard(h) \/ LoginAccepted(h) \/ LoginRejected(h)
         \/ Verify(h) \/ UpgradeDraft(h) \/ Upgrade(h) \/ UpgradeFails(h)
         \/ ChangeBody(h) \/ ChangeRejected(h) \/ ChangeDraft(h) \/ ChangeSave(h) \/ ChangeFails(h)
         \/ SettingSubmit(h) \/ SettingDraft(h) \/ SettingSave(h) \/ SettingFails(h)
    \/ Tick

Spec == Init /\ [][Next]_vars

----------------------------------------------------------------------------
(* Properties *)

\* The type invariant.
TypeOK ==
    /\ account \in Account
    /\ fails \in 0..(MaxLoginFails - 1)
    /\ lockedUntil \in Nat \cup {None}
    /\ holder \in Handlers \cup {None}
    /\ now \in Nat
    /\ req \in [Handlers -> Req]
    /\ tokens \subseteq Token
    /\ failedAt \in Seq(Nat)
    /\ saved \subseteq Passwords

\* "MAX_LOGIN_FAILS failures lock for LOGIN_LOCK_SECS" (auth.rs:5, 184), as a rate:
\* however requests interleave, between two successful logins any MaxLoginFails + 1
\* failures in a row span at least LockSecs.
RateLimited ==
    \A i \in DOMAIN failedAt :
        i + MaxLoginFails \in DOMAIN failedAt =>
            failedAt[i + MaxLoginFails] - failedAt[i] >= LockSecs

\* Nobody is locked out early or too long: while the guard is locked, the last
\* failure is the one that locked it, and it was at least the MaxLoginFails-th
\* since the last success.
LockEarned ==
    Locked =>
        /\ Len(failedAt) >= MaxLoginFails
        /\ lockedUntil = failedAt[Len(failedAt)] + LockSecs

\* The password that opens the panel is the last one saved by an install or a
\* password change, unless an upgrade or an update of another setting that was under
\* way at that save, with a password it had verified or cloned before, has put that
\* one back (auth.rs:95, config.rs:204-212): nothing that begins later revives an old
\* password.
PasswordIsLastSaved ==
    Installed(account) => Effective(account) \in saved

\* "The password is updated" (panel.rs:454), and stays so while other settings are
\* saved, each of which is meant to be "replaced atomically" (config.rs:203).
SettingKeepsPassword ==
    [][\A h \in Handlers : SettingSave(h) => Effective(account') = Effective(account)]_vars

\* "A password that passes is upgraded" (auth.rs:61): the hash changes, the password
\* does not.
UpgradeKeepsPassword ==
    [][\A h \in Handlers : Upgrade(h) => Effective(account') = Effective(account)]_vars

\* "Already installed" (panel.rs:194), "the first install locks" (CHANGELOG.md:49): no
\* install replaces an account.
InstalledOnce == [][\A h \in Handlers : InstallSave(h) => ~Installed(account)]_vars

=============================================================================
