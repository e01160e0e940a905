------------------------ MODULE PanelAccount_proofs ------------------------
(* Proofs about PanelAccount: type correctness, the rate the login guard     *)
(* enforces, and what becomes of a saved password, for any number of         *)
(* requests, users and passwords and any limits.                             *)
EXTENDS PanelAccount, TLAPS

\* What a request in progress carries, by its kind.
Carries(r) ==
    r.pc # "idle" =>
        /\ r.kind = "login" => r.user \in Users
        /\ r.kind = "install" => /\ r.pc \in {"body", "saving"}
                                 /\ r.user \in Users
                                 /\ r.password \in Passwords
        /\ r.kind = "change" => r.new \in Passwords
        /\ r.pc = "upgrade" => r.password \in Passwords
        /\ r.kind = "setting" => r.pc \in {"body", "saving"}

ReqInv == \A h \in Handlers : Carries(req[h])

TypeInv == TypeOK /\ ReqInv

LEMMA EmptyType == Empty \in Account
BY DEF Empty, Account

LEMMA IdleType == Idle \in Req /\ Carries(Idle)
BY EmptyType DEF Idle, Req, ReqPC, Kinds, Carries

LEMMA EffectiveType == ASSUME NEW a \in Account PROVE Effective(a) \in Passwords \cup {None}
BY DEF Effective, Account

\* What a request carries is a password.
LEMMA CarriedType == ASSUME TypeInv, NEW h \in Handlers PROVE Carried(req[h]) \subseteq Passwords
<1>1. req[h].draft \in Account /\ req[h].password \in Passwords \cup {None}
  BY DEF TypeInv, TypeOK, Req
<1>2. QED
  BY <1>1, EffectiveType DEF Carried

\* A save leaves an account and passwords.
LEMMA SaveType ==
  ASSUME TypeInv, NEW h \in Handlers, NEW p \in Passwords, Save(h, p)
  PROVE  account' \in Account /\ saved' \subseteq Passwords
<1>1. \A g \in Handlers : Carried(req[g]) \subseteq Passwords
  BY CarriedType
<1>2. req[h].draft \in Account
  BY DEF TypeInv, TypeOK, Req
<1>3. QED
  BY <1>1, <1>2 DEF Save

\* A request that becomes a well-formed record leaves all requests well-formed.
LEMMA BecomeType ==
  ASSUME TypeInv, NEW h \in Handlers, NEW r \in Req, Carries(r), Become(h, r)
  PROVE  req' \in [Handlers -> Req] /\ ReqInv'
<1>1. req' \in [Handlers -> Req]
  BY DEF Become, TypeInv, TypeOK
<1>2. ASSUME NEW g \in Handlers PROVE Carries(req'[g])
  <2>1. req'[g] = IF g = h THEN r ELSE req[g]
    BY DEF Become, TypeInv, TypeOK
  <2>2. Carries(req[g])
    BY DEF TypeInv, ReqInv
  <2>3. QED
    BY <2>1, <2>2
<1>3. QED
  BY <1>1, <1>2 DEF ReqInv

\* A request that is not an install goes on to any place of its program.
LEMMA GotoType ==
  ASSUME TypeInv, NEW h \in Handlers, NEW s \in ReqPC, Goto(h, s),
         req[h].pc \notin {"idle", "body", "saving"},
         s = "upgrade" => req[h].password \in Passwords
  PROVE  req' \in [Handlers -> Req] /\ ReqInv'
<1> DEFINE r == [req[h] EXCEPT !.pc = s]
<1>1. req[h] \in Req /\ Carries(req[h])
  BY DEF TypeInv, TypeOK, ReqInv
<1>2. r \in Req
  BY <1>1 DEF Req
<1>3. Carries(r)
  BY <1>1 DEF Carries, Req
<1>4. Become(h, r)
  BY DEF Goto, Become
<1>5. QED
  BY <1>2, <1>3, <1>4, BecomeType

\* Drafting and the end of an upgrade are steps of one request's record.
LEMMA DraftBecomes ==
  ASSUME TypeInv, NEW h \in Handlers, NEW s, NEW a, Draft(h, s, a)
  PROVE  Become(h, [req[h] EXCEPT !.pc = s, !.draft = a])
BY DEF Draft, Become, TypeInv, TypeOK

LEMMA DraftType ==
  ASSUME TypeInv, NEW h \in Handlers, NEW s \in {"upgrading", "accepted", "saving"},
         NEW a \in Account, Draft(h, s, a), req[h].pc # "idle",
         req[h].kind \in {"install", "setting"} => s = "saving"
  PROVE  req' \in [Handlers -> Req] /\ ReqInv'
<1> DEFINE r == [req[h] EXCEPT !.pc = s, !.draft = a]
<1>1. req[h] \in Req /\ Carries(req[h])
  BY DEF TypeInv, TypeOK, ReqInv
<1>2. r \in Req
  BY <1>1 DEF Req, ReqPC
<1>3. Carries(r)
  BY <1>1 DEF Carries, Req
<1>4. Become(h, r)
  BY DraftBecomes
<1>5. QED
  BY <1>2, <1>3, <1>4, BecomeType

LEMMA RecordFailType ==
  ASSUME TypeInv, RecordFail
  PROVE  fails' \in 0..(MaxLoginFails - 1) /\ lockedUntil' \in Nat \cup {None}
BY AccountAssumption DEF RecordFail, TypeInv, TypeOK

LEMMA InitTypeInv == Init => TypeInv
<1> SUFFICES ASSUME Init PROVE TypeInv
  OBVIOUS
<1>1. Empty \in Account
  BY EmptyType
<1>2. \A u \in Users, p \in Passwords : Official(u, p) \in Account
  BY DEF Empty, Official, Account
<1>3. account \in Account
  BY <1>1, <1>2 DEF Init
<1>4. saved \subseteq Passwords
  BY <1>3 DEF Init, Account
<1>5. req \in [Handlers -> Req] /\ ReqInv
  BY IdleType DEF Init, ReqInv
<1>6. QED
  BY <1>3, <1>4, <1>5, AccountAssumption DEF Init, TypeInv, TypeOK

LEMMA StepTypeInv == TypeInv /\ [Next]_vars => TypeInv'
<1> SUFFICES ASSUME TypeInv, [Next]_vars PROVE TypeInv'
  OBVIOUS
<1> USE DEF TypeInv, TypeOK, guard
<1>1. ASSUME NEW h \in Handlers, NEW u \in Users, NEW p \in Passwords, InstallSubmit(h, u, p)
      PROVE  TypeInv'
  <2> DEFINE r == [Idle EXCEPT !.pc = "body", !.kind = "install", !.user = u, !.password = p]
  <2>1. r \in Req /\ Carries(r)
    BY IdleType DEF Idle, Req, ReqPC, Kinds, Carries
  <2>2. req' \in [Handlers -> Req] /\ ReqInv'
    BY <1>1, <2>1, BecomeType DEF InstallSubmit
  <2>3. QED
    BY <1>1, <2>2 DEF InstallSubmit
<1>2. ASSUME NEW h \in Handlers, NEW u \in Users, NEW p \in Passwords, LoginSubmit(h, u, p)
      PROVE  TypeInv'
  <2> DEFINE r == [Idle EXCEPT !.pc = "guard", !.user = u, !.password = p]
  <2>1. r \in Req /\ Carries(r)
    BY IdleType DEF Idle, Req, ReqPC, Kinds, Carries
  <2>2. req' \in [Handlers -> Req] /\ ReqInv'
    BY <1>2, <2>1, BecomeType DEF LoginSubmit
  <2>3. QED
    BY <1>2, <2>2 DEF LoginSubmit
<1>3. ASSUME NEW h \in Handlers, NEW t \in tokens, NEW old \in Passwords, NEW new \in Passwords,
             ChangeSubmit(h, t, old, new)
      PROVE  TypeInv'
  <2> DEFINE r == [pc |-> "body", kind |-> "change", user |-> t.user, password |-> old,
                   new |-> new, exp |-> t.exp, draft |-> Empty]
  <2>1. r \in Req /\ Carries(r)
    BY EmptyType DEF Token, Req, ReqPC, Kinds, Carries
  <2>2. req' \in [Handlers -> Req] /\ ReqInv'
    BY <1>3, <2>1, BecomeType DEF ChangeSubmit
  <2>3. QED
    BY <1>3, <2>2 DEF ChangeSubmit
<1>4. ASSUME NEW h \in Handlers, InstallSave(h) PROVE TypeInv'
  <2>1. req[h].user \in Users /\ req[h].password \in Passwords
    BY <1>4 DEF InstallSave, ReqInv, Carries
  <2>3. account' \in Account /\ saved' \subseteq Passwords
    BY <1>4, <2>1, SaveType DEF InstallSave
  <2>4. tokens' \subseteq Token
    BY <1>4, <2>1, AccountAssumption DEF InstallSave, Issue, Token
  <2>5. req' \in [Handlers -> Req] /\ ReqInv'
    BY <1>4, IdleType, BecomeType DEF InstallSave
  <2>6. QED
    BY <1>4, <2>3, <2>4, <2>5 DEF InstallSave
<1>5. ASSUME NEW h \in Handlers,
             \/ InstallFails(h) \/ TurnAway(h) \/ ChangeRejected(h) \/ ChangeFails(h)
             \/ SettingFails(h)
      PROVE  TypeInv'
  <2>1. req' \in [Handlers -> Req] /\ ReqInv'
    BY <1>5, IdleType, BecomeType
    DEF InstallFails, TurnAway, ChangeRejected, ChangeFails, SettingFails
  <2>2. QED
    BY <1>5, <2>1 DEF InstallFails, TurnAway, ChangeRejected, ChangeFails, SettingFails
<1>6. ASSUME NEW h \in Handlers, EnterGuard(h) PROVE TypeInv'
  <2>1. req' \in [Handlers -> Req] /\ ReqInv'
    BY <1>6, GotoType DEF EnterGuard, ReqPC
  <2>2. QED
    BY <1>6, <2>1 DEF EnterGuard
<1>7. ASSUME NEW h \in Handlers, LoginAccepted(h) PROVE TypeInv'
  <2>1. req[h].user \in Users
    BY <1>7 DEF LoginAccepted, ReqInv, Carries
  <2>2. tokens' \subseteq Token
    BY <1>7, <2>1, AccountAssumption DEF LoginAccepted, Issue, Token
  <2>3. req' \in [Handlers -> Req] /\ ReqInv'
    BY <1>7, IdleType, BecomeType DEF LoginAccepted
  <2>4. QED
    BY <1>7, <2>2, <2>3, AccountAssumption DEF LoginAccepted
<1>8. ASSUME NEW h \in Handlers, LoginRejected(h) PROVE TypeInv'
  <2>1. fails' \in 0..(MaxLoginFails - 1) /\ lockedUntil' \in Nat \cup {None}
    BY <1>8, RecordFailType DEF LoginRejected
  <2>2. req' \in [Handlers -> Req] /\ ReqInv'
    BY <1>8, IdleType, BecomeType DEF LoginRejected
  <2>3. failedAt' \in Seq(Nat)
    BY <1>8 DEF LoginRejected
  <2>4. QED
    BY <1>8, <2>1, <2>2, <2>3 DEF LoginRejected
<1>9. ASSUME NEW h \in Handlers, Verify(h) PROVE TypeInv'
  <2>1. Accepts(account, req[h].user, req[h].password) => req[h].password \in Passwords
    BY DEF Accepts, Installed, Effective, Account
  <2>2. PICK s \in {"rejected", "upgrade", "accepted"} :
          /\ Goto(h, s)
          /\ s = "upgrade" => req[h].password \in Passwords
    BY <1>9, <2>1 DEF Verify
  <2>3. req' \in [Handlers -> Req] /\ ReqInv'
    BY <1>9, <2>2, GotoType DEF Verify, ReqPC
  <2>4. QED
    BY <1>9, <2>3 DEF Verify
<1>10. ASSUME NEW h \in Handlers, Upgrade(h) \/ UpgradeFails(h) PROVE TypeInv'
  <2>1. req[h].pc \in {"upgrade", "upgrading"} /\ req[h].kind \notin {"install", "setting"}
    BY <1>10 DEF Upgrade, UpgradeFails, ReqInv, Carries
  <2>2. account' \in Account
    BY <1>10 DEF Upgrade, UpgradeFails, Req
  <2>3. req' \in [Handlers -> Req] /\ ReqInv'
    BY <1>10, <2>1, EmptyType, DraftType DEF Upgrade, UpgradeFails
  <2>4. QED
    BY <1>10, <2>2, <2>3 DEF Upgrade, UpgradeFails
<1>11. ASSUME NEW h \in Handlers, ChangeBody(h) PROVE TypeInv'
  <2> DEFINE r == [req[h] EXCEPT !.pc = "verify",
                                 !.user = IF now >= req[h].exp THEN None ELSE @]
  <2>1. req[h] \in Req /\ Carries(req[h]) /\ req[h].kind = "change" /\ req[h].pc = "body"
    BY <1>11 DEF ChangeBody, ReqInv
  <2>2. r \in Req
    BY <2>1 DEF Req, ReqPC
  <2>3. Carries(r)
    BY <2>1 DEF Carries, Req
  <2>4. req' \in [Handlers -> Req] /\ ReqInv'
    BY <1>11, <2>2, <2>3, BecomeType DEF ChangeBody
  <2>5. QED
    BY <1>11, <2>4 DEF ChangeBody
<1>12. ASSUME NEW h \in Handlers, ChangeSave(h) PROVE TypeInv'
  <2>1. req[h].new \in Passwords
    BY <1>12 DEF ChangeSave, ReqInv, Carries
  <2>2. account' \in Account /\ saved' \subseteq Passwords
    BY <1>12, <2>1, SaveType DEF ChangeSave
  <2>3. req' \in [Handlers -> Req] /\ ReqInv'
    BY <1>12, IdleType, BecomeType DEF ChangeSave
  <2>4. QED
    BY <1>12, <2>2, <2>3 DEF ChangeSave
<1>16. ASSUME NEW h \in Handlers,
             InstallDraft(h) \/ UpgradeDraft(h) \/ ChangeDraft(h) \/ SettingDraft(h)
       PROVE  TypeInv'
  <2>1. req[h] \in Req /\ Carries(req[h])
    BY DEF ReqInv
  <2>2. CASE InstallDraft(h)
    <3>1. Full(req[h].user, req[h].password) \in Account
      BY <2>1, <2>2 DEF InstallDraft, Carries, Full, Account
    <3>2. QED
      BY <2>2, <3>1, DraftType DEF InstallDraft
  <2>3. CASE UpgradeDraft(h)
    <3>1. [account EXCEPT !.pass_hash = req[h].password] \in Account
      BY <2>1, <2>3 DEF UpgradeDraft, Carries, Account
    <3>2. req[h].kind \notin {"install", "setting"}
      BY <2>1, <2>3 DEF UpgradeDraft, Carries
    <3>3. req' \in [Handlers -> Req] /\ ReqInv'
      BY <2>3, <3>1, <3>2, DraftType DEF UpgradeDraft
    <3>4. QED
      BY <2>3, <3>3 DEF UpgradeDraft
  <2>4. CASE ChangeDraft(h)
    <3>1. [account EXCEPT !.pass_hash = req[h].new, !.password = req[h].new] \in Account
      BY <2>1, <2>4 DEF ChangeDraft, Carries, Account
    <3>2. QED
      BY <2>4, <3>1, DraftType DEF ChangeDraft
  <2>5. CASE SettingDraft(h)
    BY <2>5, DraftType DEF SettingDraft
  <2>6. QED
    BY <1>16, <2>2, <2>3, <2>4, <2>5
<1>17. ASSUME NEW h \in Handlers, SettingSubmit(h) PROVE TypeInv'
  <2> DEFINE r == [Idle EXCEPT !.pc = "body", !.kind = "setting"]
  <2>1. r \in Req /\ Carries(r)
    BY IdleType DEF Idle, Req, ReqPC, Kinds, Carries
  <2>2. req' \in [Handlers -> Req] /\ ReqInv'
    BY <1>17, <2>1, BecomeType DEF SettingSubmit
  <2>3. QED
    BY <1>17, <2>2 DEF SettingSubmit
<1>18. ASSUME NEW h \in Handlers, SettingSave(h) PROVE TypeInv'
  <2>1. req' \in [Handlers -> Req] /\ ReqInv'
    BY <1>18, IdleType, BecomeType DEF SettingSave
  <2>2. QED
    BY <1>18, <2>1 DEF SettingSave, Req
<1>13. CASE Tick
  BY <1>13 DEF Tick, ReqInv
<1>14. CASE UNCHANGED vars
  BY <1>14 DEF vars, ReqInv
<1>15. QED
  BY <1>1, <1>2, <1>3, <1>4, <1>5, <1>6, <1>7, <1>8, <1>9, <1>10, <1>11, <1>12, <1>13, <1>14,
     <1>16, <1>17, <1>18 DEF Next

\* Every reachable state has its types; the guard's count stays below the limit.
THEOREM TypeCorrect == Spec => []TypeOK
<1>1. Init => TypeInv
  BY InitTypeInv
<1>2. TypeInv /\ [Next]_vars => TypeInv'
  BY StepTypeInv
<1>3. TypeInv => TypeOK
  BY DEF TypeInv
<1>4. QED
  BY <1>1, <1>2, <1>3, PTL DEF Spec

----------------------------------------------------------------------------
(* What becomes of a saved password *)

\* What a request is about to write does no harm while S are the good passwords:
\* what it carries on is among them, and what it was to save is what it has drafted.
Harmless(r, S) ==
    /\ Carried(r) \subseteq S
    /\ r.pc = "saving" /\ r.kind = "install" => Effective(r.draft) = r.password
    /\ r.pc = "saving" /\ r.kind = "change" => Effective(r.draft) = r.new

SavedInv ==
    /\ Effective(account) \in saved \cup {None}
    /\ \A h \in Handlers : Harmless(req[h], saved)

LEMMA SavedIsGood == TypeInv /\ SavedInv => PasswordIsLastSaved
<1> SUFFICES ASSUME TypeInv, SavedInv, Installed(account) PROVE Effective(account) \in saved
  BY DEF PasswordIsLastSaved
<1>1. Effective(account) # None
  BY DEF Installed, Effective
<1>2. QED
  BY <1>1 DEF SavedInv

\* A request that becomes a harmless record leaves the invariant, when no account is
\* written.
LEMMA BecomeKeepsSavedInv ==
  ASSUME TypeInv, SavedInv, NEW h \in Handlers, NEW r, Become(h, r), Harmless(r, saved),
         UNCHANGED <<account, saved>>
  PROVE  SavedInv'
<1>1. \A g \in Handlers : req'[g] = IF g = h THEN r ELSE req[g]
  BY DEF Become, TypeInv, TypeOK
<1>2. \A g \in Handlers : Harmless(req'[g], saved)
  BY <1>1 DEF SavedInv
<1>3. \A g \in Handlers : Harmless(req[g], saved)'
  BY <1>2 DEF Harmless, Carried, Effective
<1>4. Effective(account)' = Effective(account)
  BY DEF Effective
<1>5. QED
  BY <1>3, <1>4 DEF SavedInv

\* So does one that stops writing: what waits for nothing is harmless.
LEMMA RestingHarmless ==
  ASSUME NEW r, NEW S, r.pc \notin {"upgrade", "upgrading", "saving"}
  PROVE  Harmless(r, S)
BY DEF Harmless, Carried

\* A save that writes the password it is said to write leaves good passwords, those
\* that others carry on included.
LEMMA SaveKeepsSavedInv ==
  ASSUME TypeInv, SavedInv, NEW h \in Handlers, NEW p, Save(h, p),
         Effective(req[h].draft) = p, Become(h, Idle)
  PROVE  SavedInv'
<1>1. Effective(account') \in saved'
  BY DEF Save
<1>2. ASSUME NEW g \in Handlers PROVE Harmless(req'[g], saved')
  <2>1. CASE g = h
    <3>1. req'[g] = Idle
      BY <2>1 DEF Become, TypeInv, TypeOK
    <3>2. QED
      BY <3>1, RestingHarmless DEF Idle
  <2>2. CASE g # h
    <3>1. req'[g] = req[g]
      BY <2>2 DEF Become, TypeInv, TypeOK
    <3>2. Carried(req[g]) \subseteq saved'
      BY <2>2 DEF Save
    <3>3. QED
      BY <3>1, <3>2 DEF Harmless, SavedInv
  <2>3. QED
    BY <2>1, <2>2
<1>3. \A g \in Handlers : Harmless(req[g], saved)'
  BY <1>2 DEF Harmless, Carried, Effective
<1>4. Effective(account)' \in saved'
  BY <1>1 DEF Effective
<1>5. QED
  BY <1>3, <1>4 DEF SavedInv

\* What carries a password on writes a good one: an upgrade, or another setting.
LEMMA CarriedIsGood ==
  ASSUME TypeInv, SavedInv, NEW h \in Handlers, NEW r, Become(h, r), Harmless(r, saved),
         account' = req[h].draft, saved' = saved,
         req[h].pc = "upgrading" \/ (req[h].pc = "saving" /\ req[h].kind = "setting")
  PROVE  SavedInv'
<1>1. Carried(req[h]) = {Effective(req[h].draft)} \ {None}
  BY DEF Carried
<1>2. Effective(req[h].draft) \in saved \cup {None}
  BY <1>1 DEF SavedInv, Harmless
<1>3. Effective(account)' \in saved' \cup {None}
  BY <1>2 DEF Effective
<1>4. \A g \in Handlers : req'[g] = IF g = h THEN r ELSE req[g]
  BY DEF Become, TypeInv, TypeOK
<1>5. \A g \in Handlers : Harmless(req'[g], saved)
  BY <1>4 DEF SavedInv
<1>6. \A g \in Handlers : Harmless(req[g], saved)'
  BY <1>5 DEF Harmless, Carried, Effective
<1>7. QED
  BY <1>3, <1>6 DEF SavedInv

LEMMA RestKeepsSavedInv ==
  ASSUME TypeInv, SavedInv, NEW h \in Handlers, NEW r, Become(h, r),
         r.pc \notin {"upgrade", "upgrading", "saving"}, UNCHANGED <<account, saved>>
  PROVE  SavedInv'
BY RestingHarmless, BecomeKeepsSavedInv

LEMMA InitSavedInv == Init => SavedInv
<1> SUFFICES ASSUME Init PROVE SavedInv
  OBVIOUS
<1>1. account.pass_hash = None
  <2>1. Empty.pass_hash = None
    BY DEF Empty
  <2>2. \A u \in Users, p \in Passwords : Official(u, p).pass_hash = None
    BY DEF Official, Empty
  <2>3. QED
    BY <2>1, <2>2 DEF Init
<1>2. Effective(account) \in saved \cup {None}
  BY <1>1 DEF Init, Effective
<1>3. \A h \in Handlers : Harmless(req[h], saved)
  BY RestingHarmless DEF Init, Idle
<1>4. QED
  BY <1>2, <1>3 DEF SavedInv

LEMMA StepSavedInv == TypeInv /\ SavedInv /\ [Next]_vars => SavedInv'
<1> SUFFICES ASSUME TypeInv, SavedInv, [Next]_vars PROVE SavedInv'
  OBVIOUS
<1>0. \A h \in Handlers : req[h] \in Req
  BY DEF TypeInv, TypeOK
<1>1. ASSUME NEW h \in Handlers, NEW u \in Users, NEW p \in Passwords,
             InstallSubmit(h, u, p) \/ LoginSubmit(h, u, p)
      PROVE  SavedInv'
  <2>1. CASE InstallSubmit(h, u, p)
    <3> DEFINE r == [Idle EXCEPT !.pc = "body", !.kind = "install", !.user = u, !.password = p]
    <3>1. r.pc = "body"
      BY DEF Idle
    <3>2. QED
      BY <2>1, <3>1, RestKeepsSavedInv DEF InstallSubmit
  <2>2. CASE LoginSubmit(h, u, p)
    <3> DEFINE r == [Idle EXCEPT !.pc = "guard", !.user = u, !.password = p]
    <3>1. r.pc = "guard"
      BY DEF Idle
    <3>2. QED
      BY <2>2, <3>1, RestKeepsSavedInv DEF LoginSubmit
  <2>3. QED
    BY <1>1, <2>1, <2>2
<1>2. ASSUME NEW h \in Handlers, NEW t \in tokens, NEW old \in Passwords, NEW new \in Passwords,
             ChangeSubmit(h, t, old, new)
      PROVE  SavedInv'
  <2> DEFINE r == [pc |-> "body", kind |-> "change", user |-> t.user, password |-> old,
                   new |-> new, exp |-> t.exp, draft |-> Empty]
  <2>1. r.pc = "body"
    OBVIOUS
  <2>2. QED
    BY <1>2, <2>1, RestKeepsSavedInv DEF ChangeSubmit
<1>3. ASSUME NEW h \in Handlers,
             \/ InstallFails(h) \/ TurnAway(h) \/ LoginAccepted(h) \/ LoginRejected(h)
             \/ ChangeRejected(h) \/ ChangeFails(h) \/ SettingFails(h)
      PROVE  SavedInv'
  <2>1. Become(h, Idle) /\ UNCHANGED <<account, saved>>
    BY <1>3
    DEF InstallFails, TurnAway, LoginAccepted, LoginRejected, ChangeRejected, ChangeFails, SettingFails
  <2>2. Harmless(Idle, saved)
    BY RestingHarmless DEF Idle
  <2>3. QED
    BY <2>1, <2>2, BecomeKeepsSavedInv
<1>4. ASSUME NEW h \in Handlers,
             EnterGuard(h) \/ ChangeBody(h) \/ UpgradeFails(h) \/ SettingSubmit(h)
      PROVE  SavedInv'
  <2>1. CASE EnterGuard(h)
    <3> DEFINE r == [req[h] EXCEPT !.pc = "verify"]
    <3>1. r.pc = "verify"
      BY <1>0 DEF Req
    <3>2. Become(h, r) /\ UNCHANGED <<account, saved>>
      BY <2>1 DEF EnterGuard, Goto, Become
    <3>3. QED
      BY <3>1, <3>2, RestKeepsSavedInv
  <2>2. CASE ChangeBody(h)
    <3> DEFINE r == [req[h] EXCEPT !.pc = "verify",
                                   !.user = IF now >= req[h].exp THEN None ELSE @]
    <3>1. r.pc = "verify"
      BY <1>0 DEF Req
    <3>2. QED
      BY <2>2, <3>1, RestKeepsSavedInv DEF ChangeBody
  <2>3. CASE UpgradeFails(h)
    <3> DEFINE r == [req[h] EXCEPT !.pc = "accepted", !.draft = Empty]
    <3>1. r.pc = "accepted"
      BY <1>0 DEF Req
    <3>2. Become(h, r) /\ UNCHANGED <<account, saved>>
      BY <2>3, DraftBecomes DEF UpgradeFails
    <3>3. QED
      BY <3>1, <3>2, RestKeepsSavedInv
  <2>4. CASE SettingSubmit(h)
    <3> DEFINE r == [Idle EXCEPT !.pc = "body", !.kind = "setting"]
    <3>1. r.pc = "body"
      BY DEF Idle
    <3>2. QED
      BY <2>4, <3>1, RestKeepsSavedInv DEF SettingSubmit
  <2>5. QED
    BY <1>4, <2>1, <2>2, <2>3, <2>4
<1>5. ASSUME NEW h \in Handlers, InstallSave(h) PROVE SavedInv'
  <2>1. Effective(req[h].draft) = req[h].password
    BY <1>5 DEF InstallSave, SavedInv, Harmless
  <2>2. QED
    BY <1>5, <2>1, SaveKeepsSavedInv DEF InstallSave
<1>6. ASSUME NEW h \in Handlers, ChangeSave(h) PROVE SavedInv'
  <2>1. Effective(req[h].draft) = req[h].new
    BY <1>6 DEF ChangeSave, SavedInv, Harmless
  <2>2. QED
    BY <1>6, <2>1, SaveKeepsSavedInv DEF ChangeSave
<1>7. ASSUME NEW h \in Handlers, Verify(h) PROVE SavedInv'
  <2>1. PICK s \in {"rejected", "upgrade", "accepted"} :
          /\ Goto(h, s)
          /\ s = "upgrade" => Accepts(account, req[h].user, req[h].password)
    BY <1>7 DEF Verify
  <2> DEFINE r == [req[h] EXCEPT !.pc = s]
  <2>2. Become(h, r) /\ r.pc = s /\ r.password = req[h].password
    BY <1>0, <2>1 DEF Goto, Become, Req
  <2>3. s = "upgrade" => Carried(r) \subseteq saved
    BY <2>1, <2>2 DEF Carried, Accepts, SavedInv
  <2>4. s = "upgrade" => Harmless(r, saved)
    BY <2>2, <2>3 DEF Harmless
  <2>5. s # "upgrade" => Harmless(r, saved)
    BY <2>1, <2>2, RestingHarmless
  <2> HIDE DEF r
  <2>6. QED
    BY <1>7, <2>2, <2>4, <2>5, BecomeKeepsSavedInv DEF Verify
<1>8. ASSUME NEW h \in Handlers, Upgrade(h) \/ SettingSave(h) PROVE SavedInv'
  <2>1. CASE Upgrade(h)
    <3> DEFINE r == [req[h] EXCEPT !.pc = "accepted", !.draft = Empty]
    <3>1. r.pc = "accepted"
      BY <1>0 DEF Req
    <3>2. Become(h, r)
      BY <2>1, DraftBecomes DEF Upgrade
    <3> HIDE DEF r
    <3>3. Harmless(r, saved)
      BY <3>1, RestingHarmless
    <3>4. QED
      BY <2>1, <3>2, <3>3, CarriedIsGood DEF Upgrade
  <2>2. CASE SettingSave(h)
    <3>1. Harmless(Idle, saved)
      BY RestingHarmless DEF Idle
    <3>2. QED
      BY <2>2, <3>1, CarriedIsGood DEF SettingSave
  <2>3. QED
    BY <1>8, <2>1, <2>2
\* What is drafted: the new password, the one verified, or that of the account.
<1>9. ASSUME NEW h \in Handlers, NEW s \in {"upgrading", "saving"}, NEW a \in Account,
             Draft(h, s, a), UNCHANGED <<account, saved>>,
             s = "saving" /\ req[h].kind = "install" => Effective(a) = req[h].password,
             s = "saving" /\ req[h].kind = "change" => Effective(a) = req[h].new,
             s = "upgrading" \/ req[h].kind = "setting" => Effective(a) \in saved \cup {None}
      PROVE  SavedInv'
  <2> DEFINE r == [req[h] EXCEPT !.pc = s, !.draft = a]
  <2>1. Become(h, r)
    BY <1>9, DraftBecomes
  <2>2. /\ r.pc = s /\ r.draft = a /\ r.kind = req[h].kind
        /\ r.password = req[h].password /\ r.new = req[h].new
    BY <1>0 DEF Req
  <2>3. Harmless(r, saved)
    BY <1>9, <2>2 DEF Harmless, Carried
  <2> HIDE DEF r
  <2>4. QED
    BY <1>9, <2>1, <2>3, BecomeKeepsSavedInv
<1>10. ASSUME NEW h \in Handlers,
             InstallDraft(h) \/ UpgradeDraft(h) \/ ChangeDraft(h) \/ SettingDraft(h)
       PROVE  SavedInv'
  <2>1. req[h] \in Req /\ Carries(req[h]) /\ account \in Account
    BY DEF TypeInv, TypeOK, ReqInv
  <2>2. CASE InstallDraft(h)
    <3> DEFINE a == Full(req[h].user, req[h].password)
    <3>1. req[h].user \in Users /\ req[h].password \in Passwords /\ req[h].kind = "install"
      BY <2>1, <2>2 DEF InstallDraft, Carries
    <3>2. a \in Account /\ Effective(a) = req[h].password
      BY <3>1, AccountAssumption DEF Full, Account, Effective
    <3> HIDE DEF a
    <3>3. QED
      BY <1>9, <2>2, <3>1, <3>2 DEF InstallDraft, a
  <2>3. CASE UpgradeDraft(h)
    <3> DEFINE a == [account EXCEPT !.pass_hash = req[h].password]
    <3>1. req[h].pc = "upgrade" /\ req[h].password \in Passwords
      BY <2>1, <2>3 DEF UpgradeDraft, Carries
    <3>2. a \in Account /\ a.pass_hash = req[h].password
      BY <2>1, <3>1 DEF Account
    <3>3. Effective(a) = req[h].password
      BY <3>1, <3>2, AccountAssumption DEF Effective
    <3>4. req[h].password \in saved
      BY <3>1, AccountAssumption DEF SavedInv, Harmless, Carried
    <3> HIDE DEF a
    <3>5. QED
      BY <1>9, <2>3, <3>2, <3>3, <3>4 DEF UpgradeDraft, a
  <2>4. CASE ChangeDraft(h)
    <3> DEFINE a == [account EXCEPT !.pass_hash = req[h].new, !.password = req[h].new]
    <3>1. req[h].new \in Passwords /\ req[h].kind = "change"
      BY <2>1, <2>4 DEF ChangeDraft, Carries
    <3>2. a \in Account /\ a.pass_hash = req[h].new
      BY <2>1, <3>1 DEF Account
    <3>3. Effective(a) = req[h].new
      BY <3>1, <3>2, AccountAssumption DEF Effective
    <3> HIDE DEF a
    <3>4. QED
      BY <1>9, <2>4, <3>1, <3>2, <3>3 DEF ChangeDraft, a
  <2>5. CASE SettingDraft(h)
    <3>1. Effective(account) \in saved \cup {None} /\ req[h].kind = "setting"
      BY <2>5 DEF SettingDraft, SavedInv
    <3>2. QED
      BY <1>9, <2>1, <2>5, <3>1 DEF SettingDraft
  <2>6. QED
    BY <1>10, <2>2, <2>3, <2>4, <2>5
<1>11. ASSUME UNCHANGED <<account, req, saved>> PROVE SavedInv'
  <2>1. \A h \in Handlers : Harmless(req'[h], saved')
    BY <1>11 DEF SavedInv
  <2>2. \A h \in Handlers : Harmless(req[h], saved)'
    BY <2>1 DEF Harmless, Carried, Effective
  <2>3. QED
    BY <1>11, <2>2 DEF SavedInv, Effective
<1>12. CASE Tick
  BY <1>11, <1>12 DEF Tick
<1>13. CASE UNCHANGED vars
  BY <1>11, <1>13 DEF vars
<1>14. QED
  BY <1>1, <1>2, <1>3, <1>4, <1>5, <1>6, <1>7, <1>8, <1>10, <1>12, <1>13 DEF Next

\* The password that opens the panel is the last one saved, or one that an upgrade or
\* another update, under way at that save, has put back (auth.rs:95, config.rs:204-212).
THEOREM PasswordLastSaved == Spec => []PasswordIsLastSaved
<1>1. Init => TypeInv /\ SavedInv
  BY InitTypeInv, InitSavedInv
<1>2. TypeInv /\ SavedInv /\ [Next]_vars => (TypeInv /\ SavedInv)'
  BY StepTypeInv, StepSavedInv
<1>3. TypeInv /\ SavedInv => PasswordIsLastSaved
  BY SavedIsGood
<1>4. QED
  BY <1>1, <1>2, <1>3, PTL DEF Spec

----------------------------------------------------------------------------
(* The rate of failed logins *)

\* A login between the check of the lock and the record of its result holds the
\* mutex, and the guard has not been locked meanwhile.
HolderInv ==
    \A h \in Handlers :
        req[h].kind = "login" /\ req[h].pc \in {"verify", "upgrade", "upgrading", "accepted", "rejected"}
            => holder = h /\ ~Locked

\* Failures are in the order of the clock.
OrderInv ==
    /\ \A i \in DOMAIN failedAt : failedAt[i] <= now
    /\ \A i, j \in DOMAIN failedAt : i <= j => failedAt[i] <= failedAt[j]

\* What is counted are the failures since the last lock, which ended before them;
\* while a lock is remembered, the last failure is the one that locked.
CountInv ==
    LET n == Len(failedAt)
    IN IF lockedUntil = None
       THEN /\ fails <= n
            /\ fails < n => /\ fails > 0
                            /\ failedAt[n - fails + 1] - failedAt[n - fails] >= LockSecs
       ELSE fails = 0 /\ n >= MaxLoginFails /\ lockedUntil = failedAt[n] + LockSecs

GuardInv == HolderInv /\ OrderInv /\ CountInv /\ RateLimited

LEMMA InitGuardInv == Init => GuardInv
BY DEF Init, GuardInv, HolderInv, OrderInv, CountInv, RateLimited, Idle

\* A request that goes nowhere between check and record leaves the guard's
\* invariant alone, when the guard does not change.
LEMMA OutsideGuard ==
  ASSUME TypeInv, GuardInv, NEW h \in Handlers, UNCHANGED <<guard, now, failedAt>>,
         req' \in [Handlers -> Req],
         \A g \in Handlers \ {h} : req'[g] = req[g],
         \/ req'[h].pc \in {"idle", "body", "guard", "saving"}
         \/ req'[h].kind # "login"
         \/ holder = h /\ ~Locked
  PROVE  GuardInv'
<1>1. HolderInv'
  BY DEF GuardInv, HolderInv, Locked, guard
<1>2. OrderInv' /\ CountInv' /\ RateLimited'
  BY DEF GuardInv, OrderInv, CountInv, RateLimited, guard
<1>3. QED
  BY <1>1, <1>2 DEF GuardInv

\* A pause between two moments lies between any earlier one and any later one.
LEMMA PauseBetween ==
  ASSUME NEW a \in Nat, NEW b \in Nat, NEW c \in Nat, NEW d \in Nat, NEW l \in Nat,
         a <= b, c - b >= l, c <= d
  PROVE  d - a >= l
OBVIOUS

\* The step that records a failure: the heart of the argument.
LEMMA RejectedGuardInv ==
  ASSUME TypeInv, GuardInv, NEW h \in Handlers, LoginRejected(h)
  PROVE  GuardInv'
<1> DEFINE n == Len(failedAt)
<1> USE AccountAssumption
<1>1. /\ n \in Nat
      /\ DOMAIN failedAt = 1..n
      /\ failedAt \in Seq(Nat)
      /\ now \in Nat
      /\ fails \in 0..(MaxLoginFails - 1)
      /\ lockedUntil \in Nat \cup {None}
  BY DEF TypeInv, TypeOK
<1>2. /\ Len(failedAt') = n + 1
      /\ DOMAIN failedAt' = 1..(n + 1)
      /\ failedAt'[n + 1] = now
      /\ \A i \in 1..n : failedAt'[i] = failedAt[i]
      /\ now' = now
  BY <1>1 DEF LoginRejected
<1>3. \A i \in 1..n : failedAt[i] \in Nat
  BY <1>1
<1>4. ~Locked
  BY DEF LoginRejected, GuardInv, HolderInv
<1>5. HolderInv'
  <2>1. ASSUME NEW g \in Handlers, req'[g].kind = "login",
               req'[g].pc \in {"verify", "upgrade", "upgrading", "accepted", "rejected"}
        PROVE  FALSE
    <3>1. g # h /\ req'[g] = req[g]
      BY <2>1 DEF LoginRejected, Become, Idle, TypeInv, TypeOK
    <3>2. holder = g /\ holder = h
      BY <2>1, <3>1 DEF LoginRejected, GuardInv, HolderInv
    <3>3. QED
      BY <3>1, <3>2
  <2>2. QED
    BY <2>1 DEF HolderInv
<1>6. OrderInv'
  <2>1. \A i \in 1..(n + 1) : failedAt'[i] <= now
    BY <1>1, <1>2, <1>3 DEF GuardInv, OrderInv
  <2>2. ASSUME NEW i \in 1..(n + 1), NEW j \in 1..(n + 1), i <= j
        PROVE  failedAt'[i] <= failedAt'[j]
    <3>1. CASE j = n + 1
      BY <3>1, <2>1, <1>2
    <3>2. CASE j \in 1..n
      <4>1. i \in 1..n
        BY <3>2, <2>2, <1>1
      <4>2. failedAt[i] <= failedAt[j]
        BY <4>1, <3>2, <2>2, <1>1 DEF GuardInv, OrderInv
      <4>3. failedAt'[i] = failedAt[i] /\ failedAt'[j] = failedAt[j]
        BY <4>1, <3>2, <1>2
      <4>4. QED
        BY <4>2, <4>3
    <3>3. QED
      BY <3>1, <3>2, <1>1
  <2>3. QED
    BY <2>1, <2>2, <1>2 DEF OrderInv
\* An expired lock: its failure is the last one, a whole lock ago.
<1>7. lockedUntil # None =>
        /\ fails = 0
        /\ n >= MaxLoginFails
        /\ now - failedAt[n] >= LockSecs
  BY <1>1, <1>3, <1>4 DEF GuardInv, CountInv, Locked
\* No lock: the failures counted, and a pause before them.
<1>8. lockedUntil = None =>
        /\ fails <= n
        /\ fails < n => /\ fails > 0
                        /\ failedAt[n - fails + 1] - failedAt[n - fails] >= LockSecs
  BY DEF GuardInv, CountInv
<1>9. CountInv'
  <2>1. CASE lockedUntil # None /\ 1 >= MaxLoginFails
    <3>1. fails' = 0 /\ lockedUntil' = now + LockSecs
      BY <2>1, <1>1, <1>4 DEF LoginRejected, RecordFail, Locked
    <3>2. QED
      BY <2>1, <3>1, <1>1, <1>2, <1>7 DEF CountInv
  <2>2. CASE lockedUntil # None /\ ~(1 >= MaxLoginFails)
    <3>1. fails' = 1 /\ lockedUntil' = None
      BY <2>2, <1>1, <1>4 DEF LoginRejected, RecordFail, Locked
    <3>2. failedAt'[n + 1] - failedAt'[n] >= LockSecs
      BY <2>2, <1>1, <1>2, <1>7
    <3>3. QED
      BY <3>1, <3>2, <1>1, <1>2 DEF CountInv
  <2>3. CASE lockedUntil = None /\ fails + 1 >= MaxLoginFails
    <3>1. fails' = 0 /\ lockedUntil' = now + LockSecs
      BY <2>3 DEF LoginRejected, RecordFail
    <3>2. n + 1 >= MaxLoginFails
      BY <2>3, <1>1, <1>8
    <3>3. QED
      BY <3>1, <3>2, <1>1, <1>2 DEF CountInv
  <2>4. CASE lockedUntil = None /\ ~(fails + 1 >= MaxLoginFails)
    <3>1. fails' = fails + 1 /\ lockedUntil' = None
      BY <2>4 DEF LoginRejected, RecordFail
    <3>2. fails + 1 <= n + 1
      BY <2>4, <1>1, <1>8
    <3>3. ASSUME fails < n
          PROVE  failedAt'[(n + 1) - (fails + 1) + 1] - failedAt'[(n + 1) - (fails + 1)] >= LockSecs
      <4>1. /\ (n + 1) - (fails + 1) + 1 = n - fails + 1
            /\ (n + 1) - (fails + 1) = n - fails
            /\ n - fails \in 1..n
            /\ n - fails + 1 \in 1..n
        BY <2>4, <3>3, <1>1, <1>8
      <4>2. QED
        BY <2>4, <3>3, <4>1, <1>2, <1>8
    <3>4. QED
      BY <3>1, <3>2, <3>3, <1>1, <1>2 DEF CountInv
  <2>5. QED
    BY <2>1, <2>2, <2>3, <2>4
<1>10. RateLimited'
  <2>1. ASSUME NEW i \in 1..(n + 1), i + MaxLoginFails \in 1..(n + 1)
        PROVE  failedAt'[i + MaxLoginFails] - failedAt'[i] >= LockSecs
    <3>1. CASE i + MaxLoginFails \in 1..n
      <4>1. i \in 1..n
        BY <3>1, <2>1, <1>1
      <4>2. QED
        BY <3>1, <4>1, <1>1, <1>2 DEF GuardInv, RateLimited
    <3>2. CASE i + MaxLoginFails = n + 1
      <4>1. i \in 1..n
        BY <3>2, <2>1, <1>1
      <4>2. failedAt'[i + MaxLoginFails] = now /\ failedAt'[i] = failedAt[i]
        BY <3>2, <4>1, <1>2
      <4>3. CASE lockedUntil # None
        <5>1. failedAt[i] <= failedAt[n]
          BY <4>1, <1>1 DEF GuardInv, OrderInv
        <5>2. n \in 1..n
          BY <4>1, <1>1
        <5>3. now - failedAt[i] >= LockSecs
          <6>1. failedAt[i] \in Nat /\ failedAt[n] \in Nat /\ now - failedAt[n] >= LockSecs
            BY <4>1, <4>3, <5>2, <1>3, <1>7
          <6>2. QED
            BY <6>1, <5>1, <1>1, AccountAssumption, PauseBetween
        <5>4. QED
          BY <5>3, <4>2
      <4>4. CASE lockedUntil = None
        <5> DEFINE k == n - fails
        <5>1. k \in 1..n /\ k + 1 \in 1..n /\ i <= k /\ failedAt[k + 1] - failedAt[k] >= LockSecs
          BY <3>2, <4>1, <4>4, <1>1, <1>8
        <5>2. failedAt[i] <= failedAt[k] /\ failedAt[k + 1] <= now
          BY <4>1, <5>1, <1>1 DEF GuardInv, OrderInv
        <5> HIDE DEF k
        <5>3. now - failedAt[i] >= LockSecs
          <6>1. failedAt[i] \in Nat /\ failedAt[k] \in Nat /\ failedAt[k + 1] \in Nat
            BY <4>1, <5>1, <1>3
          <6>2. QED
            BY <6>1, <5>1, <5>2, <1>1, AccountAssumption, PauseBetween
        <5>4. QED
          BY <5>3, <4>2
      <4>5. QED
        BY <4>3, <4>4
    <3>3. QED
      BY <3>1, <3>2, <2>1, <1>1
  <2>2. QED
    BY <2>1, <1>2 DEF RateLimited
<1>11. QED
  BY <1>5, <1>6, <1>9, <1>10 DEF GuardInv

LEMMA StepGuardInv == TypeInv /\ GuardInv /\ [Next]_vars => GuardInv'
<1> SUFFICES ASSUME TypeInv, GuardInv, [Next]_vars PROVE GuardInv'
  OBVIOUS
<1>0. req' \in [Handlers -> Req]
  BY StepTypeInv DEF TypeInv, TypeOK
<1>1. ASSUME NEW h \in Handlers, NEW u \in Users, NEW p \in Passwords,
             InstallSubmit(h, u, p) \/ LoginSubmit(h, u, p)
      PROVE  GuardInv'
  <2>1. req'[h].pc \in {"body", "guard"} /\ \A g \in Handlers \ {h} : req'[g] = req[g]
    BY <1>1 DEF InstallSubmit, LoginSubmit, Become, Idle, TypeInv, TypeOK
  <2>2. UNCHANGED <<guard, now, failedAt>>
    BY <1>1 DEF InstallSubmit, LoginSubmit
  <2>3. QED
    BY <1>0, <2>1, <2>2, OutsideGuard
<1>2. ASSUME NEW h \in Handlers, NEW t \in tokens, NEW old \in Passwords, NEW new \in Passwords,
             ChangeSubmit(h, t, old, new)
      PROVE  GuardInv'
  BY <1>0, <1>2, OutsideGuard DEF ChangeSubmit, Become, TypeInv, TypeOK
<1>3. ASSUME NEW h \in Handlers,
             \/ InstallSave(h) \/ InstallFails(h) \/ TurnAway(h)
             \/ ChangeRejected(h) \/ ChangeSave(h) \/ ChangeFails(h)
             \/ SettingSave(h) \/ SettingFails(h)
      PROVE  GuardInv'
  <2>1. Become(h, Idle)
    BY <1>3
    DEF InstallSave, InstallFails, TurnAway, ChangeRejected, ChangeSave, ChangeFails,
        SettingSave, SettingFails
  <2>2. req'[h].pc = "idle" /\ \A g \in Handlers \ {h} : req'[g] = req[g]
    BY <2>1 DEF Become, Idle, TypeInv, TypeOK
  <2>3. UNCHANGED <<guard, now, failedAt>>
    BY <1>3
    DEF InstallSave, InstallFails, TurnAway, ChangeRejected, ChangeSave, ChangeFails,
        SettingSave, SettingFails
  <2>4. QED
    BY <1>0, <2>2, <2>3, OutsideGuard
<1>13. ASSUME NEW h \in Handlers, SettingSubmit(h) PROVE GuardInv'
  <2>1. req'[h].pc = "body" /\ \A g \in Handlers \ {h} : req'[g] = req[g]
    BY <1>13 DEF SettingSubmit, Become, Idle, TypeInv, TypeOK
  <2>2. UNCHANGED <<guard, now, failedAt>>
    BY <1>13 DEF SettingSubmit
  <2>3. QED
    BY <1>0, <2>1, <2>2, OutsideGuard
\* A draft to be saved is made outside the guard.
<1>12. ASSUME NEW h \in Handlers, InstallDraft(h) \/ ChangeDraft(h) \/ SettingDraft(h)
       PROVE  GuardInv'
  <2>1. PICK a : Draft(h, "saving", a)
    BY <1>12 DEF InstallDraft, ChangeDraft, SettingDraft
  <2>2. req'[h].pc = "saving" /\ \A g \in Handlers \ {h} : req'[g] = req[g]
    BY <2>1 DEF Draft, TypeInv, TypeOK, Req
  <2>3. UNCHANGED <<guard, now, failedAt>>
    BY <1>12 DEF InstallDraft, ChangeDraft, SettingDraft
  <2>4. QED
    BY <1>0, <2>2, <2>3, OutsideGuard
<1>4. ASSUME NEW h \in Handlers, ChangeBody(h) PROVE GuardInv'
  BY <1>0, <1>4, OutsideGuard DEF ChangeBody, Become, TypeInv, TypeOK, Req
\* Within the guard a login keeps the mutex, and the guard stays as it was.
<1>5. ASSUME NEW h \in Handlers, Verify(h) \/ UpgradeDraft(h) \/ Upgrade(h) \/ UpgradeFails(h)
      PROVE  GuardInv'
  <2>1. /\ UNCHANGED <<guard, now, failedAt>>
        /\ \A g \in Handlers \ {h} : req'[g] = req[g]
        /\ req'[h].kind = req[h].kind
        /\ req[h].pc \in {"verify", "upgrade", "upgrading"}
    BY <1>5 DEF Verify, UpgradeDraft, Upgrade, UpgradeFails, Goto, Draft, TypeInv, TypeOK, Req
  <2>2. req[h].kind = "login" => holder = h /\ ~Locked
    BY <2>1 DEF GuardInv, HolderInv
  <2>3. QED
    BY <1>0, <2>1, <2>2, OutsideGuard
<1>6. ASSUME NEW h \in Handlers, EnterGuard(h) PROVE GuardInv'
  <2>1. HolderInv'
    <3>1. /\ holder = None /\ holder' = h /\ ~Locked
          /\ UNCHANGED <<lockedUntil, now>>
          /\ \A g \in Handlers \ {h} : req'[g] = req[g]
      BY <1>6 DEF EnterGuard, Goto, TypeInv, TypeOK
    <3>2. \A g \in Handlers : g # None
      BY AccountAssumption
    <3>3. QED
      BY <3>1, <3>2 DEF GuardInv, HolderInv, Locked
  <2>2. UNCHANGED <<fails, lockedUntil, now, failedAt>>
    BY <1>6 DEF EnterGuard
  <2>3. OrderInv' /\ CountInv' /\ RateLimited'
    BY <2>2 DEF GuardInv, OrderInv, CountInv, RateLimited
  <2>4. QED
    BY <2>1, <2>3 DEF GuardInv
<1>7. ASSUME NEW h \in Handlers, LoginAccepted(h) PROVE GuardInv'
  <2>1. HolderInv'
    <3>1. /\ lockedUntil' = None
          /\ req'[h].pc = "idle"
          /\ \A g \in Handlers \ {h} : req'[g] = req[g]
          /\ holder = h
      BY <1>7 DEF LoginAccepted, Become, Idle, TypeInv, TypeOK, GuardInv, HolderInv
    <3>2. QED
      BY <3>1 DEF GuardInv, HolderInv
  <2>2. OrderInv' /\ CountInv' /\ RateLimited'
    BY <1>7, AccountAssumption DEF LoginAccepted, OrderInv, CountInv, RateLimited
  <2>3. QED
    BY <2>1, <2>2 DEF GuardInv
<1>8. ASSUME NEW h \in Handlers, LoginRejected(h) PROVE GuardInv'
  BY <1>8, RejectedGuardInv
<1>9. CASE Tick
  <2>1. /\ now \in Nat /\ now' = now + 1
        /\ UNCHANGED <<fails, lockedUntil, holder, req, failedAt>>
        /\ lockedUntil \in Nat \cup {None}
        /\ \A i \in DOMAIN failedAt : failedAt[i] \in Nat
    BY <1>9 DEF Tick, guard, TypeInv, TypeOK
  <2>2. HolderInv'
    BY <2>1 DEF GuardInv, HolderInv, Locked
  <2>3. OrderInv'
    BY <2>1 DEF GuardInv, OrderInv
  <2>4. CountInv' /\ RateLimited'
    BY <2>1 DEF GuardInv, CountInv, RateLimited
  <2>5. QED
    BY <2>2, <2>3, <2>4 DEF GuardInv
<1>10. CASE UNCHANGED vars
  <2>1. UNCHANGED <<fails, lockedUntil, holder, now, req, failedAt>>
    BY <1>10 DEF vars, guard
  <2>2. HolderInv' /\ OrderInv'
    BY <2>1 DEF GuardInv, HolderInv, OrderInv, Locked
  <2>3. CountInv' /\ RateLimited'
    BY <2>1 DEF GuardInv, CountInv, RateLimited
  <2>4. QED
    BY <2>2, <2>3 DEF GuardInv
<1>11. QED
  BY <1>1, <1>2, <1>3, <1>4, <1>5, <1>6, <1>7, <1>8, <1>9, <1>10, <1>12, <1>13 DEF Next

LEMMA SpecGuardInv == Spec => [](TypeInv /\ GuardInv)
<1>1. Init => TypeInv /\ GuardInv
  BY InitTypeInv, InitGuardInv
<1>2. TypeInv /\ GuardInv /\ [Next]_vars => (TypeInv /\ GuardInv)'
  BY StepTypeInv, StepGuardInv
<1>3. QED
  BY <1>1, <1>2, PTL DEF Spec

\* Any MaxLoginFails + 1 failed logins in a row, with no success between them, span
\* at least LockSecs, whatever the requests' interleaving.
THEOREM LoginRateLimited == Spec => []RateLimited
<1>1. GuardInv => RateLimited
  BY DEF GuardInv
<1>2. QED
  BY <1>1, SpecGuardInv, PTL

\* While the guard is locked, the last failure locked it, and there were enough.
THEOREM LockIsEarned == Spec => []LockEarned
<1>1. TypeInv /\ GuardInv => LockEarned
  BY DEF GuardInv, CountInv, LockEarned, Locked
<1>2. QED
  BY <1>1, SpecGuardInv, PTL

=============================================================================
