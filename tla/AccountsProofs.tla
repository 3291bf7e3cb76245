--------------------------- MODULE AccountsProofs ---------------------------
(***************************************************************************)
(* What holds of a user's home organisation and memberships for any number *)
(* of organisations and editors, as long as edits do not overlap; and of   *)
(* tickets and the login's lock for any limits.                            *)
(***************************************************************************)
EXTENDS Accounts, TLAPS

\* The user's row exists with a home, or not; a database that is not migrated
\* yet has no membership and serves no edit.  At most one edit is under way, and
\* it has loaded the row as it is, or its row is gone.
HomeInv ==
    ~AcHas("overlap") =>
       /\ user = NoUser \/ user \in [state : {"active", "disabled"}, home : AcOrgs]
       /\ member \in [AcOrgs -> {"none", "member", "default"}]
       /\ ~migrated => \A o \in AcOrgs : member[o] = "none"
       /\ ~migrated => \A e \in AcEditors : edit[e] = NoEdit
       /\ edit \in [AcEditors -> {NoEdit, {NoUser}, {user}}]
       /\ \A e, f \in AcEditors : edit[e] # NoEdit /\ edit[f] # NoEdit => e = f
       /\ migrated /\ Exists => \A o \in AcOrgs : member[o] = "default" <=> o = user.home

LEMMA HomeInit == AcInit => HomeInv
BY DEF AcInit, HomeInv, NoUser, NoEdit, Exists, AcHas

\* An edit that loaded the row as it is makes it the form.
LEMMA EditedRow ==
    ASSUME NEW e \in AcEditors, NEW home \in AcOrgs, NEW checked \in SUBSET AcOrgs,
           NEW state \in {"active", "disabled"}, FinishEdit(e, home, checked, state),
           edit[e] = {user}, edit[e] # {NoUser}
    PROVE  user' = [state |-> state, home |-> home]
<1> DEFINE form == [state |-> state, home |-> home]
<1>1. user' = [c \in DOMAIN form |->
                 IF \E loaded \in edit[e] : loaded[c] = form[c] THEN user[c] ELSE form[c]]
  BY DEF FinishEdit
<1>2. user' = [c \in DOMAIN form |-> form[c]]
  BY <1>1
<1>3. form = [c \in DOMAIN form |-> form[c]]
  OBVIOUS
<1> QED
  BY <1>2, <1>3

\* The parts of a behaviour stay what Init picked.
LEMMA PartsKept == [AcNext]_acVars => acSetting' = acSetting
<1> SUFFICES ASSUME AcNext PROVE acSetting' = acSetting
  BY DEF acVars
<1>1. CASE MigrateMembers \/ DeleteUser \/ LockExpires \/ SetPassword
  BY <1>1 DEF MigrateMembers, DeleteUser, LockExpires, SetPassword
<1>2. ASSUME NEW o \in AcOrgs, CreateUser(o) \/ LoginAsAdmin(o) \/ \E b \in BOOLEAN : CreateOrg(o, b)
      PROVE  acSetting' = acSetting
  BY <1>2 DEF CreateUser, LoginAsAdmin, CreateOrg
<1>3. ASSUME NEW e \in AcEditors, LoadEdit(e)
      PROVE  acSetting' = acSetting
  BY <1>3 DEF LoadEdit
<1>4. ASSUME NEW e \in AcEditors, NEW home \in AcOrgs, NEW checked \in SUBSET AcOrgs,
             NEW state \in {"active", "disabled"}, FinishEdit(e, home, checked, state)
      PROVE  acSetting' = acSetting
  BY <1>4 DEF FinishEdit
<1>5. ASSUME NEW o \in AcOrgs, NEW to \in {"active", "inactive"}, SetOrgActive(o, to)
      PROVE  acSetting' = acSetting
  BY <1>5 DEF SetOrgActive
<1>6. ASSUME NEW who \in {"user", "admin"}, Logout(who) \/ \E o \in AcOrgs : SwitchOrg(who, o)
      PROVE  acSetting' = acSetting
  BY <1>6 DEF Logout, SwitchOrg
<1>7. ASSUME NEW k \in DOMAIN counter, CounterExpires(k)
      PROVE  acSetting' = acSetting
  BY <1>7 DEF CounterExpires
<1>8. ASSUME NEW right \in BOOLEAN, NEW up \in Works,
             LoginByPassword(right, up) \/ EnterPasscode(right, up)
      PROVE  acSetting' = acSetting
  <2>1. CASE LoginByPassword(right, up)
    BY <2>1 DEF LoginByPassword
  <2>2. CASE EnterPasscode(right, up)
    BY <2>2 DEF EnterPasscode
  <2> QED
    BY <1>8, <2>1, <2>2
<1>9. ASSUME NEW k \in DOMAIN ticket, IssueTicket(k) \/ TicketExpires(k)
      PROVE  acSetting' = acSetting
  BY <1>9 DEF IssueTicket, TicketExpires
<1> QED
  BY <1>1, <1>2, <1>3, <1>4, <1>5, <1>6, <1>7, <1>8, <1>9 DEF AcNext

LEMMA HomeStep == HomeInv /\ [AcNext]_acVars => HomeInv'
<1> SUFFICES ASSUME HomeInv, [AcNext]_acVars, ~AcHas("overlap"), acSetting' = acSetting
             PROVE  HomeInv'
  BY PartsKept DEF HomeInv, AcHas
<1>a. /\ user = NoUser \/ user \in [state : {"active", "disabled"}, home : AcOrgs]
      /\ member \in [AcOrgs -> {"none", "member", "default"}]
      /\ ~migrated => \A o \in AcOrgs : member[o] = "none"
      /\ ~migrated => \A e \in AcEditors : edit[e] = NoEdit
      /\ edit \in [AcEditors -> {NoEdit, {NoUser}, {user}}]
      /\ \A e, f \in AcEditors : edit[e] # NoEdit /\ edit[f] # NoEdit => e = f
      /\ migrated /\ Exists => \A o \in AcOrgs : member[o] = "default" <=> o = user.home
  BY DEF HomeInv
<1>b. Exists <=> user # NoUser
  BY <1>a DEF Exists, NoUser
<1>1. CASE UNCHANGED acOrgs
  BY <1>1, <1>a DEF acOrgs, HomeInv, Exists
<1>2. CASE MigrateMembers
  <2>1. CASE ~Exists
    <3>1. UNCHANGED <<user, member, edit>> /\ migrated'
      BY <1>2, <2>1 DEF MigrateMembers
    <3> QED
      BY <2>1, <3>1, <1>a DEF HomeInv, Exists
  <2>2. CASE Exists /\ migrated
    <3>1. user.home \in AcOrgs
      BY <2>2, <1>a, <1>b
    <3>2. UNCHANGED <<user, member, edit, migrated>>
      BY <1>2, <2>2, <3>1, <1>a DEF MigrateMembers
    <3> QED
      BY <3>2, <1>a DEF HomeInv, Exists
  <2>3. CASE Exists /\ ~migrated
    <3>1. user.home \in AcOrgs
      BY <2>3, <1>a, <1>b
    <3>2. member' = [member EXCEPT ![user.home] = "default"] /\ UNCHANGED <<user, edit>>
      BY <1>2, <2>3, <3>1, <1>a DEF MigrateMembers
    <3> QED
      BY <1>2, <2>3, <3>1, <3>2, <1>a DEF HomeInv, Exists, MigrateMembers
  <2> QED
    BY <2>1, <2>2, <2>3
<1>3. ASSUME NEW o \in AcOrgs, Enrol(o), migrated, UNCHANGED <<migrated, edit>>
      PROVE  HomeInv'
  <2>1. CASE Exists
    <3>1. user' = user /\ member' = Added(member, o, FALSE)
      BY <1>3, <2>1 DEF Enrol
    <3>2. /\ member' \in [AcOrgs -> {"none", "member", "default"}]
          /\ \A p \in AcOrgs : member'[p] = "default" <=> member[p] = "default"
      BY <3>1, <1>a DEF Added
    <3>3. edit' \in [AcEditors -> {NoEdit, {NoUser}, {user'}}]
      BY <1>3, <3>1, <1>a
    <3> QED
      BY <1>3, <2>1, <3>1, <3>2, <3>3, <1>a DEF HomeInv, Exists
  <2>2. CASE ~Exists
    <3>1. /\ user' = [state |-> "active", home |-> o] /\ user'.home = o /\ user' # NoUser
          /\ member' = Added(member, o, TRUE)
      BY <1>3, <2>2 DEF Enrol, NoUser
    <3>2. user = NoUser
      BY <2>2, <1>b
    <3>3. edit' \in [AcEditors -> {NoEdit, {NoUser}, {user'}}]
      BY <1>3, <3>2, <1>a
    <3>4. /\ member' \in [AcOrgs -> {"none", "member", "default"}]
          /\ \A p \in AcOrgs : member'[p] = "default" <=> p = o
      BY <3>1, <1>a DEF Added
    <3>5. user' \in [state : {"active", "disabled"}, home : AcOrgs]
      BY <3>1
    <3> QED
      BY <1>3, <3>1, <3>3, <3>4, <3>5, <1>a DEF HomeInv
  <2> QED
    BY <2>1, <2>2
<1>4. ASSUME NEW o \in AcOrgs, CreateUser(o)
      PROVE  HomeInv'
  BY <1>3, <1>4 DEF CreateUser, Serves
<1>5. ASSUME NEW o \in AcOrgs, NEW forUser \in BOOLEAN, CreateOrg(o, forUser)
      PROVE  HomeInv'
  <2>1. CASE forUser
    BY <1>3, <1>5, <2>1 DEF CreateOrg, Serves
  <2>2. CASE ~forUser
    BY <1>5, <2>2, <1>a DEF CreateOrg, HomeInv, Exists
  <2> QED
    BY <2>1, <2>2
<1>6. CASE DeleteUser
  <2>1. user' = NoUser /\ ~Exists' /\ migrated' /\ member' \in [AcOrgs -> {"none", "member", "default"}]
    BY <1>6 DEF DeleteUser, NoUser, Exists, Serves
  <2>2. /\ edit' \in [AcEditors -> {NoEdit, {NoUser}, {user'}}]
        /\ \A e \in AcEditors : edit'[e] # NoEdit => edit[e] # NoEdit
    BY <1>6 DEF DeleteUser
  <2> QED
    BY <2>1, <2>2, <1>a DEF HomeInv
<1>7. ASSUME NEW e \in AcEditors, LoadEdit(e)
      PROVE  HomeInv'
  <2>1. \A f \in AcEditors : edit[f] = NoEdit
    BY <1>7 DEF LoadEdit
  <2>2. /\ edit' = [edit EXCEPT ![e] = {user}]
        /\ UNCHANGED <<user, member, migrated>> /\ migrated
    BY <1>7 DEF LoadEdit, Serves
  <2> QED
    BY <2>1, <2>2, <1>a DEF HomeInv, Exists
<1>8. ASSUME NEW e \in AcEditors, NEW home \in AcOrgs, NEW checked \in SUBSET AcOrgs,
             NEW state \in {"active", "disabled"}, FinishEdit(e, home, checked, state)
      PROVE  HomeInv'
  <2>1. /\ edit[e] # NoEdit /\ edit' = [edit EXCEPT ![e] = NoEdit] /\ migrated' = migrated
        /\ migrated
    BY <1>8, <1>a DEF FinishEdit
  <2>2. \A f \in AcEditors : edit'[f] = NoEdit
    BY <2>1, <1>a
  <2>3. CASE edit[e] = {NoUser}
    <3>1. UNCHANGED <<user, member>>
      BY <1>8, <2>3 DEF FinishEdit
    <3> QED
      BY <2>1, <2>2, <3>1, <1>a DEF HomeInv, Exists
  <2>4. CASE edit[e] # {NoUser}
    <3> DEFINE joined == [o \in AcOrgs |->
                  IF o \in checked \cup {home} /\ member[o] = "none" THEN "member" ELSE member[o]]
    <3>1. joined \in [AcOrgs -> {"none", "member", "default"}]
      BY <1>a
    <3>2. /\ user' = [state |-> state, home |-> home] /\ user'.home = home
          /\ user' \in [state : {"active", "disabled"}, home : AcOrgs]
      BY <1>8, <2>1, <2>4, <1>a, EditedRow
    <3>3. member' = [o \in AcOrgs |->
                       IF o \in checked \cup {home} THEN Added(joined, home, TRUE)[o] ELSE "none"]
      BY <1>8, <2>4 DEF FinishEdit
    <3>4. /\ member' \in [AcOrgs -> {"none", "member", "default"}]
          /\ \A o \in AcOrgs : member'[o] = "default" <=> o = home
      <4> DEFINE homed == Added(joined, home, TRUE)
      <4>1. /\ homed \in [AcOrgs -> {"none", "member", "default"}]
            /\ \A o \in AcOrgs : homed[o] = "default" <=> o = home
        BY <3>1 DEF Added
      <4> HIDE DEF homed, joined
      <4>2. member' = [o \in AcOrgs |-> IF o \in checked \cup {home} THEN homed[o] ELSE "none"]
        BY <3>3 DEF homed
      <4> QED
        BY <4>1, <4>2
    <3>5. edit' \in [AcEditors -> {NoEdit, {NoUser}, {user'}}]
      BY <2>1, <2>2, <1>a
    <3> QED
      BY <2>1, <2>2, <3>2, <3>4, <3>5 DEF HomeInv
  <2> QED
    BY <2>3, <2>4
<1>9. ASSUME NEW o \in AcOrgs, NEW to \in {"active", "inactive"}, SetOrgActive(o, to)
      PROVE  HomeInv'
  BY <1>9, <1>a DEF SetOrgActive, HomeInv, Exists
<1> QED
  BY <1>1, <1>2, <1>4, <1>5, <1>6, <1>7, <1>8, <1>9
  DEF AcNext, acVars, LockExpires, SetPassword, LoginAsAdmin, Logout, SwitchOrg, CounterExpires,
      LoginByPassword, EnterPasscode, IssueTicket, TicketExpires

\* After the migration the user's home organisation, and no other, is the
\* default membership, for any number of organisations and editors, as long as
\* an edit ends before the next one begins.
THEOREM HomeStaysDefault == AcSpec => []HomeIsDefault
<1>1. HomeInv => HomeIsDefault
  BY DEF HomeInv, HomeIsDefault, Exists, NoUser
<1> QED
  BY <1>1, HomeInit, HomeStep, PTL DEF AcSpec

\* What the two tickets and the counts of their use are; a live one is unused.
TicketInv ==
    /\ ticket \in [{"passcode", "link"} -> {"none", "live", "expired"}]
    /\ spent \in [{"passcode", "link"} -> {0, 1}]
    /\ \A k \in {"passcode", "link"} : ticket[k] = "live" => spent[k] = 0

LEMMA TicketStep == TicketInv /\ [AcNext]_acVars => TicketInv'
<1> SUFFICES ASSUME TicketInv, [AcNext]_acVars PROVE TicketInv'
  OBVIOUS
<1> USE DEF TicketInv
<1>1. CASE UNCHANGED acTickets
  BY <1>1 DEF acTickets
<1>2. CASE SetPassword
  BY <1>2 DEF SetPassword, AfterUse
<1>3. ASSUME NEW k \in {"passcode", "link"}, IssueTicket(k) \/ TicketExpires(k)
      PROVE  TicketInv'
  <2>1. CASE IssueTicket(k)
    BY <2>1 DEF IssueTicket
  <2>2. CASE TicketExpires(k)
    BY <2>2 DEF TicketExpires
  <2> QED
    BY <1>3, <2>1, <2>2
<1>4. ASSUME NEW right \in BOOLEAN, NEW up \in Works, EnterPasscode(right, up)
      PROVE  TicketInv'
  <2>1. CASE UNCHANGED acTickets
    BY <1>1, <2>1
  <2>2. CASE /\ ticket["passcode"] = "live"
             /\ ticket' = [ticket EXCEPT !["passcode"] = "none"]
             /\ spent' = [spent EXCEPT !["passcode"] = IF @ < 2 THEN @ + 1 ELSE @]
    BY <2>2
  <2>3. CASE /\ ticket' \in {ticket, [ticket EXCEPT !["passcode"] = "none"]}
             /\ UNCHANGED spent
    BY <2>3
  <2> QED
    BY <1>4, <2>1, <2>2, <2>3 DEF EnterPasscode, AfterUse
<1>5. CASE MigrateMembers \/ DeleteUser \/ LockExpires
  BY <1>1, <1>5 DEF MigrateMembers, DeleteUser, LockExpires
<1>6. ASSUME NEW o \in AcOrgs, CreateUser(o) \/ LoginAsAdmin(o) \/ \E b \in BOOLEAN : CreateOrg(o, b)
      PROVE  TicketInv'
  BY <1>1, <1>6 DEF CreateUser, LoginAsAdmin, CreateOrg
<1>7. ASSUME NEW e \in AcEditors,
             \/ LoadEdit(e)
             \/ \E home \in AcOrgs, checked \in SUBSET AcOrgs, state \in {"active", "disabled"} :
                   FinishEdit(e, home, checked, state)
      PROVE  TicketInv'
  BY <1>1, <1>7 DEF LoadEdit, FinishEdit
<1>8. ASSUME NEW o \in AcOrgs, NEW to \in {"active", "inactive"}, SetOrgActive(o, to)
      PROVE  TicketInv'
  BY <1>1, <1>8 DEF SetOrgActive
<1>9. ASSUME NEW who \in {"user", "admin"}, Logout(who) \/ \E o \in AcOrgs : SwitchOrg(who, o)
      PROVE  TicketInv'
  BY <1>1, <1>9 DEF Logout, SwitchOrg
<1>10. ASSUME NEW k \in DOMAIN counter, CounterExpires(k)
      PROVE  TicketInv'
  BY <1>1, <1>10 DEF CounterExpires
<1>11. ASSUME NEW right \in BOOLEAN, NEW up \in Works, LoginByPassword(right, up)
      PROVE  TicketInv'
  BY <1>1, <1>11 DEF LoginByPassword
<1> QED
  BY <1>1, <1>2, <1>3, <1>4, <1>5, <1>6, <1>7, <1>8, <1>9, <1>10, <1>11 DEF AcNext, acVars

\* A passcode is good for one login and a link for one new password, whatever
\* the counters say, who deletes the user and how often a new one is sent.
THEOREM TicketsWorkOnce == AcSpec => []TicketIsUsedOnce
<1>1. AcInit => TicketInv
  BY DEF AcInit, TicketInv
<1>2. TicketInv => TicketIsUsedOnce
  BY DEF TicketInv, TicketIsUsedOnce
<1> QED
  BY <1>1, <1>2, TicketStep, PTL DEF AcSpec

\* While Redis answers, the failures it has counted are no more than there were
\* since the last login.
FailureInv ==
    /\ wrong \in Nat
    /\ counter \in [{"login", "verify", "password", "passcode"} -> [value : Nat, expires : BOOLEAN]]
    /\ ~AcHas("blip") => counter["password"].value <= wrong

\* What a count makes of a counter.
LEMMA CountedIsNext ==
    ASSUME FailureInv, NEW k \in {"login", "verify", "password", "passcode"}, NEW c, NEW up
    PROVE  /\ More(k) \in Nat /\ More(k) <= counter[k].value + 1
           /\ Counted(k, c \in up) \in [value : Nat, expires : BOOLEAN]
           /\ Counted(k, c \in up).value <= counter[k].value + 1
<1>1. Most(k) \in Nat
  BY AcAssumption DEF Most
<1>2. counter[k] \in [value : Nat, expires : BOOLEAN]
  BY DEF FailureInv
<1>3. More(k) \in Nat /\ More(k) <= counter[k].value + 1
  BY <1>1, <1>2 DEF More
<1>4. (c \in up) \in BOOLEAN
  OBVIOUS
<1> QED
  BY <1>2, <1>3, <1>4 DEF Counted

LEMMA FailureStep ==
    FailureInv /\ [AcNext]_acVars =>
        FailureInv' /\ (~AcHas("blip") /\ ~locked /\ locked' => wrong' >= AcFailures)
<1> DEFINE Keys == {"login", "verify", "password", "passcode"}
           Earned == ~AcHas("blip") /\ ~locked /\ locked' => wrong' >= AcFailures
<1> SUFFICES ASSUME FailureInv, [AcNext]_acVars PROVE FailureInv' /\ Earned
  OBVIOUS
<1>a. Zero \in [value : Nat, expires : BOOLEAN] /\ Zero.value = 0
  BY DEF Zero
<1>b. counter \in [Keys -> [value : Nat, expires : BOOLEAN]] /\ wrong \in Nat
  BY DEF FailureInv
<1>1. CASE UNCHANGED <<acSetting, counter, locked, wrong>>
  BY <1>1 DEF FailureInv, AcHas
<1>2. CASE LockExpires
  BY <1>2 DEF LockExpires, FailureInv, AcHas
<1>3. ASSUME NEW k \in Keys, CounterExpires(k)
      PROVE  FailureInv' /\ Earned
  <2>1. counter' \in [Keys -> [value : Nat, expires : BOOLEAN]]
    BY <1>3, <1>a, <1>b DEF CounterExpires
  <2>2. counter'["password"].value <= counter["password"].value
    BY <1>3, <1>a, <1>b DEF CounterExpires
  <2> QED
    BY <1>3, <1>b, <2>1, <2>2 DEF CounterExpires, FailureInv, AcHas
<1>4. ASSUME NEW right \in BOOLEAN, NEW up \in Works, EnterPasscode(right, up)
      PROVE  FailureInv' /\ Earned
  <2> DEFINE throttle == [counter EXCEPT !["verify"] = Counted("verify", "request" \in up)]
  <2>1. throttle \in [Keys -> [value : Nat, expires : BOOLEAN]]
        /\ throttle["password"] = counter["password"]
    BY <1>b, CountedIsNext
  <2>2. \/ counter' = throttle
        \/ counter' = [throttle EXCEPT !["passcode"] = AfterSuccess("passcode", "reset" \in up)]
        \/ counter' = [throttle EXCEPT !["passcode"] = Counted("passcode", "count" \in up)]
    BY <1>4 DEF EnterPasscode
  <2>3. AfterSuccess("passcode", "reset" \in up) \in [value : Nat, expires : BOOLEAN]
    BY <1>a, <1>b DEF AfterSuccess
  <2>4. Counted("passcode", "count" \in up) \in [value : Nat, expires : BOOLEAN]
    BY CountedIsNext
  <2>5. counter' \in [Keys -> [value : Nat, expires : BOOLEAN]]
        /\ counter'["password"] = counter["password"]
    <3> HIDE DEF throttle
    <3> QED
      BY <2>1, <2>2, <2>3, <2>4
  <2>6. UNCHANGED <<acSetting, locked, wrong>>
    BY <1>4 DEF EnterPasscode
  <2> QED
    BY <2>5, <2>6 DEF FailureInv, AcHas
<1>5. ASSUME NEW right \in BOOLEAN, NEW up \in Works, LoginByPassword(right, up)
      PROVE  FailureInv' /\ Earned
  <2> DEFINE throttle == [counter EXCEPT !["login"] = Counted("login", "request" \in up)]
  <2>1. throttle \in [Keys -> [value : Nat, expires : BOOLEAN]]
        /\ throttle["password"] = counter["password"]
    BY <1>b, CountedIsNext
  <2>2. ~AcHas("blip") => up = Commands
    BY <1>5 DEF Works
  <2>3. UNCHANGED acSetting
    BY <1>5 DEF LoginByPassword
  <2>4. CASE counter' = throttle /\ UNCHANGED <<locked, wrong>>
    BY <2>1, <2>3, <2>4 DEF FailureInv, AcHas
  <2>5. CASE /\ counter' = [throttle EXCEPT !["password"] = AfterSuccess("password", "reset" \in up)]
             /\ wrong' = 0 /\ UNCHANGED locked
    <3>1. AfterSuccess("password", "reset" \in up) \in [value : Nat, expires : BOOLEAN]
      BY <1>a, <1>b DEF AfterSuccess
    <3>2. ~AcHas("blip") => AfterSuccess("password", "reset" \in up).value = 0
      BY <1>a, <2>2 DEF AfterSuccess, Commands
    <3> HIDE DEF throttle
    <3> QED
      BY <2>1, <2>3, <2>5, <3>1, <3>2 DEF FailureInv, AcHas
  <2>6. CASE /\ counter' = [throttle EXCEPT !["password"] = Counted("password", "count" \in up)]
             /\ locked' = (locked \/ (Told("password", "count" \in up) >= AcFailures /\ "lock" \in up))
             /\ wrong' = IF wrong < AcFailures THEN wrong + 1 ELSE wrong
    <3> DEFINE counted == Counted("password", "count" \in up)
    <3>1. counted \in [value : Nat, expires : BOOLEAN] /\ counted.value <= counter["password"].value + 1
      BY CountedIsNext
    <3>2. counted.value <= AcFailures \/ counted = counter["password"]
      BY <1>b, AcAssumption DEF Counted, More, Most
    <3>3. More("password") \in Nat /\ More("password") <= counter["password"].value + 1
      BY CountedIsNext
    <3>4. counter["password"].value <= wrong /\ More("password") >= AcFailures => wrong' >= AcFailures
      BY <1>b, <2>6, <3>3, AcAssumption
    <3>5. Told("password", "count" \in up) >= AcFailures => More("password") >= AcFailures
      BY AcAssumption DEF Told
    <3>6. Earned
      BY <2>6, <3>4, <3>5 DEF FailureInv
    <3>7. ~AcHas("blip") => counted.value <= wrong'
      BY <1>b, <2>6, <3>1, <3>2, AcAssumption DEF FailureInv
    <3>8. wrong' \in Nat
      BY <1>b, <2>6
    <3> HIDE DEF throttle, counted
    <3>9. counter' \in [Keys -> [value : Nat, expires : BOOLEAN]] /\ counter'["password"] = counted
      BY <2>1, <2>6, <3>1 DEF counted
    <3> QED
      BY <2>3, <3>6, <3>7, <3>8, <3>9 DEF FailureInv, AcHas
  <2> QED
    BY <1>5, <2>4, <2>5, <2>6 DEF LoginByPassword
<1>6. CASE MigrateMembers \/ DeleteUser \/ SetPassword
  BY <1>1, <1>6 DEF MigrateMembers, DeleteUser, SetPassword
<1>7. ASSUME NEW o \in AcOrgs, CreateUser(o) \/ LoginAsAdmin(o) \/ \E b \in BOOLEAN : CreateOrg(o, b)
      PROVE  FailureInv' /\ Earned
  BY <1>1, <1>7 DEF CreateUser, LoginAsAdmin, CreateOrg
<1>8. ASSUME NEW e \in AcEditors,
             \/ LoadEdit(e)
             \/ \E home \in AcOrgs, checked \in SUBSET AcOrgs, state \in {"active", "disabled"} :
                   FinishEdit(e, home, checked, state)
      PROVE  FailureInv' /\ Earned
  BY <1>1, <1>8 DEF LoadEdit, FinishEdit
<1>9. ASSUME NEW o \in AcOrgs, NEW to \in {"active", "inactive"}, SetOrgActive(o, to)
      PROVE  FailureInv' /\ Earned
  BY <1>1, <1>9 DEF SetOrgActive
<1>10. ASSUME NEW who \in {"user", "admin"}, Logout(who) \/ \E o \in AcOrgs : SwitchOrg(who, o)
      PROVE  FailureInv' /\ Earned
  BY <1>1, <1>10 DEF Logout, SwitchOrg
<1>11. ASSUME NEW k \in DOMAIN ticket, IssueTicket(k) \/ TicketExpires(k)
      PROVE  FailureInv' /\ Earned
  BY <1>1, <1>11 DEF IssueTicket, TicketExpires
<1>12. CASE UNCHANGED acVars
  BY <1>1, <1>12 DEF acVars
<1>13. DOMAIN counter = Keys
  BY <1>b
<1> HIDE DEF Keys, Earned
<1> QED
  BY <1>2, <1>3, <1>4, <1>5, <1>6, <1>7, <1>8, <1>9, <1>10, <1>11, <1>12, <1>13 DEF AcNext

\* While Redis answers, a login is locked only after as many wrong passwords as
\* the limit says since the last login, whoever edits or deletes the user.
THEOREM LockNeedsFailures == AcSpec => LockIsEarned
<1>1. AcInit => FailureInv
  BY DEF AcInit, FailureInv, Zero
<1>2. FailureInv /\ [AcNext]_acVars =>
        [~AcHas("blip") /\ ~locked /\ locked' => wrong' >= AcFailures]_acVars
  BY FailureStep
<1>3. FailureInv /\ [AcNext]_acVars => FailureInv'
  BY FailureStep
<1> QED
  BY <1>1, <1>2, <1>3, PTL DEF AcSpec, LockIsEarned
=============================================================================
