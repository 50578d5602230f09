---------------------------- MODULE Notification ----------------------------
(***************************************************************************)
(* Sending notifications: Service.SendInApp, SendPush and SendEmail        *)
(* (internal/usecase/notification/service.go) in any number of goroutines, *)
(* while users change their preferences and register and unregister        *)
(* devices.  A step is one statement on the database, one exchange with    *)
(* the SMTP server (pkg/notify/smtp.go) or one request to FCM              *)
(* (pkg/notify/fcm.go); each may fail.                                     *)
(***************************************************************************)
EXTENDS Integers, FiniteSets

CONSTANTS
    Calls,      \* calls of a Send method, one goroutine each
    Users,
    Devices,
    Tokens,     \* push tokens, as the devices' vendor issues them
    Addresses,  \* the To list of an email
    None,       \* no row in notification_preferences, no message
    MaxChanges  \* bound: changes of preferences and registrations

ASSUME NoneAssumption == \A S \in SUBSET {"inApp", "push", "email"} : None # S
ASSUME MaxChangesAssumption == MaxChanges \in Nat

VARIABLES
    senders,    \* the senders this deployment is configured with
    prefs,      \* channels each user's row enables, or None
    pushTokens, \* rows of push_tokens
    inbox,      \* calls whose row is in notifications
    log,        \* rows of notification_delivery_logs
    pc,         \* where each call is
    msg,        \* its channel and user
    targets,    \* the tokens it has collected
    envelope,   \* recipients the SMTP server has accepted in its dialogue
    taken,      \* recipients or tokens a provider has taken the message for
    result,     \* what it returned, or is about to return
    contacted,  \* history: it called the provider
    blind,      \* history: it could not read preferences or all the tokens
    optedOut,   \* history: the channel was disabled all through the call
    live,       \* history: tokens active for the user some time in the call
    silenced,   \* history: the call had a moment when sending was pointless
    changes     \* changes so far

vars == <<senders, prefs, pushTokens, inbox, log, pc, msg, targets, envelope, taken, result,
          contacted, blind, optedOut, live, silenced, changes>>

database == <<prefs, pushTokens, inbox, log>>
provider == <<envelope, taken>>
past == <<contacted, blind, optedOut, live, silenced>>

Channels == {"inApp", "push", "email"}
TokenRow == [user : Users, device : Devices, token : Tokens, active : BOOLEAN]
Message == [channel : Channels, user : Users]

Disabled(row, ch) == row # None /\ ch \notin row

ActiveTokens(rows, u) == {r.token : r \in {x \in rows : x.user = u /\ x.active}}

\* Nothing can reach the user on this channel, as the database stands.
Pointless(row, rows, m) ==
    \/ Disabled(row, m.channel)
    \/ m.channel = "push" /\ ActiveTokens(rows, m.user) = {}

Running(c) == pc[c] \notin {"idle", "done"}

\* The histories follow every change of preferences and tokens.
Witness(newPrefs, newTokens) ==
    /\ optedOut' = [c \in Calls |->
                      IF Running(c)
                      THEN optedOut[c] /\ Disabled(newPrefs[msg[c].user], msg[c].channel)
                      ELSE optedOut[c]]
    /\ live' = [c \in Calls |->
                  IF Running(c) THEN live[c] \cup ActiveTokens(newTokens, msg[c].user)
                                ELSE live[c]]
    /\ silenced' = [c \in Calls |->
                      IF Running(c)
                      THEN silenced[c] \/ Pointless(newPrefs[msg[c].user], newTokens, msg[c])
                      ELSE silenced[c]]

-----------------------------------------------------------------------------
(* Preferences and push tokens *)

Change == /\ changes < MaxChanges
          /\ changes' = changes + 1
          /\ UNCHANGED <<senders, inbox, log, pc, msg, targets, provider, result,
                         contacted, blind>>

\* PreferencesUseCase.Update: INSERT ... ON CONFLICT (user_id) DO UPDATE.
UpdatePreferences(u, enabled) ==
    /\ prefs' = [prefs EXCEPT ![u] = enabled]
    /\ UNCHANGED pushTokens
    /\ Witness(prefs', pushTokens)
    /\ Change

\* PushTokenUseCase.Register: ON CONFLICT (user_id, device_id) DO UPDATE.
Register(row) ==
    /\ pushTokens' = {r \in pushTokens : <<r.user, r.device>> # <<row.user, row.device>>}
                     \cup {row}
    /\ UNCHANGED prefs
    /\ Witness(prefs, pushTokens')
    /\ Change

\* Unregister deletes by token, whoever has it.
Unregister(t) ==
    /\ pushTokens' = {r \in pushTokens : r.token # t}
    /\ UNCHANGED prefs
    /\ Witness(prefs, pushTokens')
    /\ Change

UnregisterAll(u) ==
    /\ pushTokens' = {r \in pushTokens : r.user # u}
    /\ UNCHANGED prefs
    /\ Witness(prefs, pushTokens')
    /\ Change

-----------------------------------------------------------------------------
(* The Send methods *)

Goto(c, label) == pc' = [pc EXCEPT ![c] = label]

Return(c, r) == /\ Goto(c, "done")
                /\ result' = [result EXCEPT ![c] = r]

\* SendEmail looks for its sender first, the other two start with Get.
Send(c, m) ==
    /\ pc[c] = "idle"
    /\ msg' = [msg EXCEPT ![c] = m]
    /\ IF m.channel = "email" /\ "email" \notin senders
       THEN Return(c, "nil")
       ELSE Goto(c, "prefs") /\ UNCHANGED result
    /\ optedOut' = [optedOut EXCEPT ![c] = Disabled(prefs[m.user], m.channel)]
    /\ live' = [live EXCEPT ![c] = ActiveTokens(pushTokens, m.user)]
    /\ silenced' = [silenced EXCEPT ![c] = Pointless(prefs[m.user], pushTokens, m)]
    /\ UNCHANGED <<senders, database, targets, provider, contacted, blind, changes>>

AfterPreferences(ch) ==
    CASE ch = "inApp" -> "store"
      [] ch = "push"  -> "tokens"
      [] ch = "email" -> "send"

\* A faulty variant: the channel's flag is not looked at.
ReadPreferencesUnchecked(c) ==
    /\ pc[c] = "prefs"
    /\ Goto(c, AfterPreferences(msg[c].channel))
    /\ UNCHANGED <<senders, database, msg, targets, provider, result, past, changes>>

\* prefsRepo.Get succeeds, or finds no row, which is an error like any other.
ReadPreferences(c) ==
    /\ pc[c] = "prefs"
    /\ IF Disabled(prefs[msg[c].user], msg[c].channel)
       THEN Return(c, "nil")
       ELSE Goto(c, AfterPreferences(msg[c].channel)) /\ UNCHANGED result
    /\ UNCHANGED <<senders, database, msg, targets, provider, past, changes>>

\* Any other error of Get: the message goes out all the same.
MissPreferences(c) ==
    /\ pc[c] = "prefs"
    /\ blind' = [blind EXCEPT ![c] = TRUE]
    /\ Goto(c, AfterPreferences(msg[c].channel))
    /\ UNCHANGED <<senders, database, msg, targets, provider, result, contacted, optedOut,
                   live, silenced, changes>>

StoreInApp(c) ==
    /\ pc[c] = "store"
    /\ \/ inbox' = inbox \cup {c} /\ Return(c, "nil")
       \/ UNCHANGED inbox /\ Return(c, "error")
    /\ UNCHANGED <<senders, prefs, pushTokens, log, msg, targets, provider, past, changes>>

\* A faulty variant: inactive tokens are collected too.
CollectInactive(c, rows) ==
    LET found == {r.token : r \in {x \in rows : x.user = msg[c].user}} IN
    IF found = {} \/ "push" \notin senders
    THEN Return(c, "nil") /\ UNCHANGED targets
    ELSE /\ targets' = [targets EXCEPT ![c] = found]
         /\ Goto(c, "send")
         /\ UNCHANGED result

\* The active ones of the rows read, if there is a push sender.
Collect(c, rows) ==
    LET found == ActiveTokens(rows, msg[c].user) IN
    IF found = {} \/ "push" \notin senders
    THEN Return(c, "nil") /\ UNCHANGED targets
    ELSE /\ targets' = [targets EXCEPT ![c] = found]
         /\ Goto(c, "send")
         /\ UNCHANGED result

ReadTokens(c) ==
    /\ pc[c] = "tokens"
    /\ Collect(c, pushTokens)
    /\ UNCHANGED <<senders, database, msg, provider, past, changes>>

\* The connection breaks after some of the rows: rows.Next returns FALSE and
\* nobody asks rows.Err, so what was read passes for all there is.
ReadSomeTokens(c) ==
    /\ pc[c] = "tokens"
    /\ \E rows \in SUBSET {r \in pushTokens : r.user = msg[c].user} :
          /\ rows # {r \in pushTokens : r.user = msg[c].user}
          /\ Collect(c, rows)
    /\ blind' = [blind EXCEPT ![c] = TRUE]
    /\ UNCHANGED <<senders, database, msg, provider, contacted, optedOut, live, silenced, changes>>

\* A faulty variant: the error of GetByUserID is swallowed.
TokensFailSilently(c) ==
    /\ pc[c] = "tokens"
    /\ Return(c, "nil")
    /\ UNCHANGED <<senders, database, msg, targets, provider, past, changes>>

TokensFail(c) ==
    /\ pc[c] = "tokens"
    /\ Return(c, "error")
    /\ UNCHANGED <<senders, database, msg, targets, provider, past, changes>>

(***************************************************************************)
(* pkg/notify/smtp.go: TLS, greeting, authentication and MAIL, one RCPT    *)
(* for each recipient, DATA with the message, and QUIT.                    *)
(***************************************************************************)

Sending(c, channel, place) == pc[c] = place /\ msg[c].channel = channel

Finish(c, r) == /\ Goto(c, "log")
                /\ result' = [result EXCEPT ![c] = r]

Contact(c) == contacted' = [contacted EXCEPT ![c] = TRUE]

SmtpConnects(c) ==
    /\ Sending(c, "email", "send")
    /\ Contact(c)
    /\ Goto(c, "mail")
    /\ UNCHANGED <<senders, database, msg, targets, provider, result, blind, optedOut,
                   live, silenced, changes>>

\* Send without TLS, or an error anywhere before the message is complete:
\* one refused recipient ends the dialogue.
SmtpFails(c) ==
    /\ \E place \in {"send", "mail"} : Sending(c, "email", place)
    /\ Contact(c)
    /\ Finish(c, "error")
    /\ UNCHANGED <<senders, database, msg, targets, provider, blind, optedOut,
                   live, silenced, changes>>

SmtpRcpt(c, a) ==
    /\ Sending(c, "email", "mail") /\ a \notin envelope[c]
    /\ envelope' = [envelope EXCEPT ![c] = @ \cup {a}]
    /\ UNCHANGED <<senders, database, pc, msg, targets, taken, result, past, changes>>

SmtpData(c) ==
    /\ Sending(c, "email", "mail") /\ envelope[c] = Addresses
    /\ Goto(c, "body")
    /\ UNCHANGED <<senders, database, msg, targets, provider, result, past, changes>>

\* A faulty variant: the error of w.Close is dropped.
SmtpCloseUnchecked(c) ==
    /\ Sending(c, "email", "body")
    /\ taken' \in {taken, [taken EXCEPT ![c] = envelope[c]]}
    /\ Goto(c, "quit")
    /\ UNCHANGED <<senders, database, msg, targets, envelope, result, past, changes>>

\* w.Close ends the message and waits for the server's word; without it the
\* server may have taken the message or not.
SmtpClose(c) ==
    /\ Sending(c, "email", "body")
    /\ \/ taken' = [taken EXCEPT ![c] = envelope[c]] /\ Goto(c, "quit") /\ UNCHANGED result
       \/ taken' \in {taken, [taken EXCEPT ![c] = envelope[c]]} /\ Finish(c, "error")
    /\ UNCHANGED <<senders, database, msg, targets, envelope, past, changes>>

\* An error of QUIT is returned although the message is taken.
SmtpQuit(c) ==
    /\ Sending(c, "email", "quit")
    /\ \E r \in {"nil", "error"} : Finish(c, r)
    /\ UNCHANGED <<senders, database, msg, targets, provider, past, changes>>

(***************************************************************************)
(* pkg/notify/fcm.go: one request for all tokens.  FCM may take the        *)
(* message for any of them, also when its answer is lost, and Send drops   *)
(* what the answer says of each token.                                     *)
(***************************************************************************)
FcmSend(c) ==
    /\ Sending(c, "push", "send")
    /\ Contact(c)
    /\ \E some \in SUBSET targets[c] : taken' = [taken EXCEPT ![c] = some]
    /\ \E r \in {"nil", "error"} : Finish(c, r)
    /\ UNCHANGED <<senders, database, msg, targets, envelope, blind, optedOut, live,
                   silenced, changes>>

-----------------------------------------------------------------------------
(* The delivery log *)

\* A faulty variant: whatever came back, the row says sent.
StatusOfSent(r) == "sent"

StatusOf(r) == IF r = "nil" THEN "sent" ELSE "failed"

\* logDelivery: fire and forget.  The log is a set: a call writes one row at most.
LogDelivery(c) ==
    /\ pc[c] = "log"
    /\ \/ log' = log \cup {[call |-> c, status |-> StatusOf(result[c])]}
       \/ UNCHANGED log
    /\ Goto(c, "done")
    /\ UNCHANGED <<senders, prefs, pushTokens, inbox, msg, targets, provider,
                   result, past, changes>>

-----------------------------------------------------------------------------
Init ==
    /\ senders \in SUBSET {"push", "email"}
    /\ prefs = [u \in Users |-> None]
    /\ pushTokens = {}
    /\ inbox = {}
    /\ log = {}
    /\ pc = [c \in Calls |-> "idle"]
    /\ msg = [c \in Calls |-> None]
    /\ targets = [c \in Calls |-> {}]
    /\ envelope = [c \in Calls |-> {}]
    /\ taken = [c \in Calls |-> {}]
    /\ result = [c \in Calls |-> "none"]
    /\ contacted = [c \in Calls |-> FALSE]
    /\ blind = [c \in Calls |-> FALSE]
    /\ optedOut = [c \in Calls |-> FALSE]
    /\ live = [c \in Calls |-> {}]
    /\ silenced = [c \in Calls |-> FALSE]
    /\ changes = 0

Proceed(c) ==
    \/ \E m \in Message : Send(c, m)
    \/ ReadPreferences(c)
    \/ MissPreferences(c)
    \/ StoreInApp(c)
    \/ ReadTokens(c)
    \/ ReadSomeTokens(c)
    \/ TokensFail(c)
    \/ SmtpConnects(c) \/ SmtpFails(c)
    \/ \E a \in Addresses : SmtpRcpt(c, a)
    \/ SmtpData(c) \/ SmtpClose(c) \/ SmtpQuit(c)
    \/ FcmSend(c)
    \/ LogDelivery(c)

Next ==
    \/ \E c \in Calls : Proceed(c)
    \/ \E u \in Users, enabled \in SUBSET Channels : UpdatePreferences(u, enabled)
    \/ \E row \in TokenRow : Register(row)
    \/ \E t \in Tokens : Unregister(t)
    \/ \E u \in Users : UnregisterAll(u)

Spec == Init /\ [][Next]_vars

-----------------------------------------------------------------------------
(* Properties *)

\* The variables keep their types.
TypeOK ==
    /\ senders \subseteq {"push", "email"}
    /\ prefs \in [Users -> {None} \cup SUBSET Channels]
    /\ pushTokens \subseteq TokenRow
    /\ inbox \subseteq Calls
    /\ log \subseteq [call : Calls, status : {"sent", "failed"}]
    /\ pc \in [Calls -> {"idle", "prefs", "store", "tokens", "send", "mail", "body", "quit",
                        "log", "done"}]
    /\ msg \in [Calls -> Message \cup {None}]
    /\ targets \in [Calls -> SUBSET Tokens]
    /\ envelope \in [Calls -> SUBSET Addresses]
    /\ taken \in [Calls -> SUBSET (Addresses \cup Tokens)]
    /\ result \in [Calls -> {"none", "nil", "error"}]
    /\ contacted \in [Calls -> BOOLEAN]
    /\ blind \in [Calls -> BOOLEAN]
    /\ optedOut \in [Calls -> BOOLEAN]
    /\ live \in [Calls -> SUBSET Tokens]
    /\ silenced \in [Calls -> BOOLEAN]
    /\ changes \in 0..MaxChanges

(***************************************************************************)
(* A user who has the channel disabled from before the call until it sends *)
(* gets nothing, unless the preferences could not be read                  *)
(* (service.go:42-46, 72-76, 113-121): a concurrent change may be missed,  *)
(* a standing opt-out is not.                                              *)
(***************************************************************************)
OptOutHonoured ==
    \A c \in Calls :
        contacted[c] \/ c \in inbox => ~optedOut[c] \/ blind[c]

(***************************************************************************)
(* The provider is given only tokens that were active for this user at     *)
(* some moment of the call (service.go:78-94): neither another user's nor  *)
(* one unregistered or deactivated before.                                 *)
(***************************************************************************)
TokensWereLive ==
    \A c \in Calls :
        contacted[c] /\ msg[c].channel = "push" =>
            targets[c] # {} /\ targets[c] \subseteq live[c]

Excused(c) == silenced[c] \/ msg[c].channel \in {"push", "email"} \ senders

Dropped(c) == pc[c] = "done" /\ result[c] = "nil" /\ ~contacted[c] /\ c \notin inbox

(***************************************************************************)
(* A Send that returns nil has sent, or had a moment when there was nobody *)
(* to send to, or no sender; the errors it swallows are the only other     *)
(* excuse (service.go:42-132).                                             *)
(***************************************************************************)
DropsAreExcused == \A c \in Calls : Dropped(c) => Excused(c) \/ blind[c]

(***************************************************************************)
(* The delivery log agrees with what the callers were told: one row at     *)
(* most for each call, sent if it returned nil and failed if it returned   *)
(* an error, and none for a call that never came to a provider             *)
(* (service.go:102-110, 123-149).                                          *)
(***************************************************************************)
AuditAgrees ==
    \A r \in log :
        /\ contacted[r.call]
        /\ result[r.call] = (IF r.status = "sent" THEN "nil" ELSE "error")

(***************************************************************************)
(* An email reaches all its recipients or none (smtp.go:132-136), and when *)
(* SendEmail has returned nil, and so when the log says sent, it reached   *)
(* them all: no error of the dialogue gets lost (smtp.go:138-151).  The    *)
(* converse does not hold: the mail may have gone out before an error.     *)
(***************************************************************************)
MailReachesAll ==
    \A c \in Calls :
        contacted[c] /\ msg[c].channel = "email" =>
            /\ taken[c] \in {{}, Addresses}
            /\ pc[c] \in {"log", "done"} /\ result[c] = "nil" => taken[c] = Addresses

-----------------------------------------------------------------------------
(* The inductive invariant *)

\* Where a call can be on its channel, and what it has done by then.
PlaceInv ==
    \A c \in Calls :
        /\ pc[c] # "idle" => msg[c] \in Message
        /\ pc[c] = "store" => msg[c].channel = "inApp"
        /\ pc[c] = "tokens" => msg[c].channel = "push"
        /\ pc[c] \in {"mail", "body", "quit"} => msg[c].channel = "email"
        /\ pc[c] \in {"idle", "prefs", "store", "tokens", "send"} =>
              ~contacted[c] /\ c \notin inbox
        /\ pc[c] \in {"mail", "body", "quit", "log"} => contacted[c]
        /\ pc[c] = "log" => result[c] \in {"nil", "error"}

\* While a call runs its histories keep up with the database.
WitnessInv ==
    \A c \in Calls :
        Running(c) =>
            /\ optedOut[c] => Disabled(prefs[msg[c].user], msg[c].channel)
            /\ ActiveTokens(pushTokens, msg[c].user) \subseteq live[c]
            /\ Pointless(prefs[msg[c].user], pushTokens, msg[c]) => silenced[c]

\* Past its reading of the preferences a call is not opted out, or is blind.
OptInv ==
    /\ \A c \in Calls : Running(c) /\ pc[c] # "prefs" => ~optedOut[c] \/ blind[c]
    /\ OptOutHonoured

\* The tokens are right before they are used.
TargetsInv ==
    /\ \A c \in Calls :
          pc[c] = "send" /\ msg[c].channel = "push" =>
              targets[c] # {} /\ targets[c] \subseteq live[c]
    /\ TokensWereLive

\* Only calls that are through have a row in the log.
LogInv ==
    /\ \A r \in log : pc[r.call] = "done"
    /\ AuditAgrees

\* How far the dialogue has come with recipients and message.
MailInv ==
    /\ \A c \in Calls :
          /\ pc[c] \in {"idle", "prefs", "store", "tokens", "send", "mail", "body"} =>
                taken[c] = {}
          /\ pc[c] = "body" => envelope[c] = Addresses
          /\ pc[c] = "quit" => taken[c] = Addresses
    /\ MailReachesAll

IInv ==
    /\ TypeOK /\ PlaceInv /\ WitnessInv /\ OptInv /\ TargetsInv
    /\ DropsAreExcused /\ LogInv /\ MailInv
=============================================================================
