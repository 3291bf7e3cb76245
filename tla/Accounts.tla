-------------------------------- MODULE Accounts --------------------------------
(***************************************************************************)
(* A user's organisations and how the user gets in: the home organisation  *)
(* and the memberships beside it, the organisation of the session, the     *)
(* throttle and the lock of the login page, and the tickets, a passcode or *)
(* the link to a new password, that are good for one use.                  *)
(***************************************************************************)
EXTENDS Naturals, FiniteSets

CONSTANTS AcOrgs,      \* organisations
          AcEditors,   \* super administrators that edit the user
          AcRequests,  \* requests of one address in a minute
          AcFailures,  \* wrong passwords that lock the login
          AcWrong,     \* wrong passcodes that withdraw the code
          AcSettings   \* sets of parts and hazards: Init picks one

ASSUME AcAssumption ==
    /\ AcRequests \in Nat \ {0} /\ AcFailures \in Nat \ {0} /\ AcWrong \in Nat \ {0}
    /\ AcSettings \subseteq SUBSET {"members", "overlap", "password", "tickets", "blip"}

VARIABLES
    acSetting,  \* the parts of this behaviour, fixed
    org,        \* organisation -> none, active or inactive
    user,       \* the user's row
    member,     \* organisation -> none, member or default
    migrated,   \* the start-up migration has run
    edit,       \* editor -> the user's row as the edit has loaded it
    session,    \* whose session -> the organisation it works in
    counter,    \* Redis counter -> its value, and whether it will expire
    locked,     \* the login is locked
    wrong,      \* wrong passwords since the last login (history)
    ticket,     \* passcode and link: none, live or expired
    spent       \* how often the newest of each has been used (history)

acOrgs == <<org, user, member, migrated, edit>>
acTickets == <<ticket, spent>>
acVars == <<acSetting, acOrgs, session, counter, locked, wrong, acTickets>>

AcHas(p) == p \in acSetting
NoUser == [state |-> "none", home |-> "none"]
NoEdit == {}
Zero == [value |-> 0, expires |-> FALSE]

\* A database from before memberships, or an empty one.
AcInit ==
    /\ acSetting \in AcSettings
    /\ user \in {NoUser} \cup
         IF acSetting = {} THEN {} ELSE [state : {"active", "disabled"}, home : AcOrgs]
    /\ org = [o \in AcOrgs |-> IF o = user.home THEN "active" ELSE "none"]
    /\ member = [o \in AcOrgs |-> "none"]
    /\ migrated = FALSE /\ edit = [e \in AcEditors |-> NoEdit]
    /\ session = [s \in {"user", "admin"} |-> "none"]
    /\ counter = [k \in {"login", "verify", "password", "passcode"} |-> Zero]
    /\ locked = FALSE /\ wrong = 0
    /\ ticket = [k \in {"passcode", "link"} |-> "none"] /\ spent = [k \in {"passcode", "link"} |-> 0]

Exists == user.state # "none"
Serves(part) == AcHas(part) /\ migrated

-----------------------------------------------------------------------------
(* Organisations and memberships.                                          *)

\* The backfill of the start-up migration, which comes again with every deploy.
MigrateMembers ==
    /\ acSetting # {} /\ \A e \in AcEditors : edit[e] = NoEdit
    /\ migrated' = TRUE
    /\ member' = IF Exists /\ member[user.home] = "none"
                   THEN [member EXCEPT ![user.home] = "default"] ELSE member
    /\ UNCHANGED <<acSetting, org, user, edit, session, counter, locked, wrong, acTickets>>

\* Mutant: the former home keeps its flag.
AddedKeeping(members, o, default) ==
    [members EXCEPT ![o] = IF default THEN "default" ELSE IF @ = "none" THEN "member" ELSE @]

\* add_user_to_org
Added(members, o, default) ==
    [p \in AcOrgs |->
        IF p = o THEN IF default THEN "default" ELSE IF members[p] = "none" THEN "member" ELSE members[p]
        ELSE IF default /\ members[p] = "default" THEN "member" ELSE members[p]]

\* An organisation is the home of a new user, and one more of an old one.
Enrol(o) ==
    /\ user' = IF Exists THEN user ELSE [state |-> "active", home |-> o]
    /\ member' = Added(member, o, ~Exists)

CreateOrg(o, forUser) ==
    /\ Serves("members") /\ org[o] = "none"
    /\ org' = [org EXCEPT ![o] = "active"]
    /\ IF forUser THEN Enrol(o) ELSE UNCHANGED <<user, member>>
    /\ UNCHANGED <<acSetting, migrated, edit, session, counter, locked, wrong, acTickets>>

CreateUser(o) ==
    /\ Serves("members") /\ org[o] # "none"
    /\ Enrol(o)
    /\ UNCHANGED <<acSetting, org, migrated, edit, session, counter, locked, wrong, acTickets>>

\* The edits and the session that are left are of a row that is gone.
DeleteUser ==
    /\ Serves("members") /\ Exists
    /\ user' = NoUser /\ member' = [o \in AcOrgs |-> "none"]
    /\ edit' = [e \in AcEditors |-> IF edit[e] = NoEdit THEN NoEdit ELSE {NoUser}]
    /\ session' = [session EXCEPT !["user"] = IF @ = "none" THEN @ ELSE "gone"]
    /\ UNCHANGED <<acSetting, org, migrated, counter, locked, wrong, acTickets>>

\* An edit loads the user and waits for the form.
LoadEdit(e) ==
    /\ Serves("members") /\ Exists /\ edit[e] = NoEdit
    /\ AcHas("overlap") \/ \A f \in AcEditors : edit[f] = NoEdit
    /\ edit' = [edit EXCEPT ![e] = {user}]
    /\ UNCHANGED <<acSetting, org, user, member, migrated, session, counter, locked, wrong, acTickets>>

\* The memberships are read now; a column is written when the form differs from
\* what was loaded, and nothing at all when the row is gone.
FinishEdit(e, home, checked, state) ==
    LET form == [state |-> state, home |-> home]
        kept == checked \cup {home}
        joined == [o \in AcOrgs |-> IF o \in kept /\ member[o] = "none" THEN "member" ELSE member[o]]
        homed == Added(joined, home, TRUE)
    IN  /\ edit[e] # NoEdit /\ \A o \in kept : org[o] # "none"
        /\ IF edit[e] = {NoUser} THEN UNCHANGED <<user, member>>
           ELSE /\ member' = [o \in AcOrgs |-> IF o \in kept THEN homed[o] ELSE "none"]
                /\ user' = [c \in DOMAIN form |->
                      IF \E loaded \in edit[e] : loaded[c] = form[c] THEN user[c] ELSE form[c]]
        /\ edit' = [edit EXCEPT ![e] = NoEdit]
        /\ UNCHANGED <<acSetting, org, migrated, session, counter, locked, wrong, acTickets>>

\* A super administrator does not deactivate the organisation he works in.
SetOrgActive(o, to) ==
    /\ Serves("members") /\ org[o] # "none"
    /\ to = "inactive" => session["admin"] # o
    /\ org' = [org EXCEPT ![o] = to]
    /\ UNCHANGED <<acSetting, user, member, migrated, edit, session, counter, locked, wrong, acTickets>>

\* The user goes where he is a member and the organisation is active, a super
\* administrator anywhere.
SwitchOrg(who, o) ==
    /\ Serves("members") /\ org[o] # "none"
    /\ who = "user" =>
         /\ Exists /\ session["user"] \in AcOrgs /\ org[o] = "active"
         /\ o = user.home \/ member[o] # "none"
    /\ session' = [session EXCEPT ![who] = o]
    /\ UNCHANGED <<acSetting, acOrgs, counter, locked, wrong, acTickets>>

Logout(who) ==
    /\ session[who] # "none" /\ session' = [session EXCEPT ![who] = "none"]
    /\ UNCHANGED <<acSetting, acOrgs, counter, locked, wrong, acTickets>>

-----------------------------------------------------------------------------
(* Counters of rate_limit.py.  Values stop at what a threshold tells apart. *)

Most(k) == CASE k \in {"login", "verify"} -> AcRequests + 1
             [] k = "password" -> AcFailures [] k = "passcode" -> AcWrong

More(k) == IF counter[k].value < Most(k) THEN counter[k].value + 1 ELSE Most(k)

\* Mutant: the counter is given no end.
CountedForGood(k, works) == [value |-> More(k), expires |-> FALSE]

\* INCR, and EXPIRE after the first.  A blip fails the second command where
\* there is one, which leaves a counter without an end, and else the first.
Counted(k, works) ==
    IF More(k) = 1 THEN [value |-> 1, expires |-> works]
    ELSE IF works THEN [counter[k] EXCEPT !.value = More(k)] ELSE counter[k]

\* What the request is told: nothing, when a command failed.
Told(k, works) == IF works THEN More(k) ELSE 0

\* Which of a request's commands work: the count of requests, the look at the
\* lock, the count of failures, its reset and the lock.
Commands == {"request", "look", "count", "reset", "lock"}
Works == IF AcHas("blip") THEN SUBSET Commands ELSE {Commands}

CounterExpires(k) ==
    /\ counter[k].expires /\ counter' = [counter EXCEPT ![k] = Zero]
    /\ UNCHANGED <<acSetting, acOrgs, session, locked, wrong, acTickets>>

\* The lock comes after the first failure and outlasts the counter; in a blip a
\* failure beside the lock may have started another.
LockExpires ==
    /\ locked /\ (~counter["password"].expires \/ AcHas("blip")) /\ locked' = FALSE
    /\ UNCHANGED <<acSetting, acOrgs, session, counter, wrong, acTickets>>

-----------------------------------------------------------------------------
(* The login page.                                                         *)

\* A reset that fails is logged and forgotten.
AfterSuccess(k, works) == IF works THEN Zero ELSE counter[k]

\* One request with a password.  A refused one only counts the request.
LoginByPassword(right, up) ==
    LET asked == Told("login", "request" \in up)
        throttle == [counter EXCEPT !["login"] = Counted("login", "request" \in up)]
        refused == asked > AcRequests \/ (locked /\ "look" \in up)
    IN  /\ Serves("password")
        /\ \/ /\ refused \/ (right /\ user.state = "disabled")
              /\ counter' = throttle /\ UNCHANGED <<session, locked, wrong>>
           \/ /\ ~refused /\ right /\ user.state = "active"
              /\ counter' = [throttle EXCEPT !["password"] = AfterSuccess("password", "reset" \in up)]
              /\ session' = [session EXCEPT !["user"] = user.home] /\ wrong' = 0
              /\ UNCHANGED locked
           \/ /\ ~refused /\ (~right \/ ~Exists)
              /\ counter' = [throttle EXCEPT !["password"] = Counted("password", "count" \in up)]
              /\ locked' = (locked \/ (Told("password", "count" \in up) >= AcFailures /\ "lock" \in up))
              /\ wrong' = IF wrong < AcFailures THEN wrong + 1 ELSE wrong
              /\ UNCHANGED session
        /\ UNCHANGED <<acSetting, acOrgs, acTickets>>

LoginAsAdmin(o) ==
    /\ Serves("members") /\ org[o] # "none"
    /\ session' = [session EXCEPT !["admin"] = o]
    /\ UNCHANGED <<acSetting, acOrgs, counter, locked, wrong, acTickets>>

\* A passcode that is asked for, or the link of a new account or of a password
\* reset, replaces the one before.
IssueTicket(k) ==
    /\ Serves("tickets") /\ Exists /\ (k = "passcode" => user.state = "active")
    /\ ticket' = [ticket EXCEPT ![k] = "live"] /\ spent' = [spent EXCEPT ![k] = 0]
    /\ UNCHANGED <<acSetting, acOrgs, session, counter, locked, wrong>>

TicketExpires(k) ==
    /\ ticket[k] = "live" /\ ticket' = [ticket EXCEPT ![k] = "expired"]
    /\ UNCHANGED <<acSetting, acOrgs, session, counter, locked, wrong, spent>>

AfterUse(k) == "none"

EnterPasscode(right, up) ==
    LET asked == Told("verify", "request" \in up)
        throttle == [counter EXCEPT !["verify"] = Counted("verify", "request" \in up)]
        fits == right /\ ticket["passcode"] = "live"
    IN  /\ Serves("tickets") /\ Exists
        /\ \/ /\ asked > AcRequests
              /\ counter' = throttle /\ UNCHANGED <<session, acTickets>>
           \/ /\ asked <= AcRequests /\ fits
              /\ counter' = [throttle EXCEPT !["passcode"] = AfterSuccess("passcode", "reset" \in up)]
              /\ ticket' = [ticket EXCEPT !["passcode"] = AfterUse("passcode")]
              /\ spent' = [spent EXCEPT !["passcode"] = IF @ < 2 THEN @ + 1 ELSE @]
              /\ session' = [session EXCEPT !["user"] = user.home]
           \/ /\ asked <= AcRequests /\ ~fits
              /\ counter' = [throttle EXCEPT !["passcode"] = Counted("passcode", "count" \in up)]
              /\ ticket' = [ticket EXCEPT !["passcode"] =
                               IF Told("passcode", "count" \in up) >= AcWrong THEN "none" ELSE @]
              /\ UNCHANGED <<session, spent>>
        /\ UNCHANGED <<acSetting, acOrgs, locked, wrong>>

SetPassword ==
    /\ Serves("tickets") /\ Exists /\ ticket["link"] = "live"
    /\ ticket' = [ticket EXCEPT !["link"] = AfterUse("link")]
    /\ spent' = [spent EXCEPT !["link"] = IF @ < 2 THEN @ + 1 ELSE @]
    /\ UNCHANGED <<acSetting, acOrgs, session, counter, locked, wrong>>

-----------------------------------------------------------------------------
AcNext ==
    \/ MigrateMembers \/ DeleteUser \/ LockExpires \/ SetPassword
    \/ \E o \in AcOrgs : CreateUser(o) \/ LoginAsAdmin(o) \/ \E forUser \in BOOLEAN : CreateOrg(o, forUser)
    \/ \E e \in AcEditors : LoadEdit(e)
    \/ \E e \in AcEditors, home \in AcOrgs, checked \in SUBSET AcOrgs,
          state \in {"active", "disabled"} : FinishEdit(e, home, checked, state)
    \/ \E o \in AcOrgs, to \in {"active", "inactive"} : SetOrgActive(o, to)
    \/ \E who \in {"user", "admin"} : Logout(who) \/ \E o \in AcOrgs : SwitchOrg(who, o)
    \/ \E k \in DOMAIN counter : CounterExpires(k)
    \/ \E right \in BOOLEAN, up \in Works : LoginByPassword(right, up) \/ EnterPasscode(right, up)
    \/ \E k \in DOMAIN ticket : IssueTicket(k) \/ TicketExpires(k)

AcSpec == AcInit /\ [][AcNext]_acVars

\* Redis drops a key when its time is over.
AcFairness == (\A k \in {"login", "password"} : WF_acVars(CounterExpires(k))) /\ WF_acVars(LockExpires)

AcFairSpec == AcSpec /\ AcFairness

-----------------------------------------------------------------------------
(* Properties.                                                             *)

\* What membership.py says of the tables: after the migration the user's home
\* organisation, and no other, has the default membership, whoever enrols,
\* edits or deletes the user and however often the migration comes again.
\* Holds when one edit ends before the next begins.
HomeIsDefault ==
    migrated /\ Exists /\ ~AcHas("overlap") => {o \in AcOrgs : member[o] = "default"} = {user.home}

\* The login is locked only after as many wrong passwords as the limit says
\* since the last login, while Redis answers.
LockIsEarned ==
    [][~AcHas("blip") /\ ~locked /\ locked' => wrong' >= AcFailures]_acVars

\* An address that has asked too often is served again, and a locked login is
\* opened, also when the requests go on; without a blip between two commands.
ThrottleEnds ==
    /\ (~AcHas("blip") /\ counter["login"].value > AcRequests) ~> (counter["login"].value = 0)
    /\ locked ~> ~locked

\* A passcode logs in once, and a link sets one password.
TicketIsUsedOnce ==
    \A k \in DOMAIN spent : spent[k] <= 1

\* A lock is earned, and it ends, as does the throttle.
ThrottleIsFair == LockIsEarned /\ ThrottleEnds
=============================================================================
