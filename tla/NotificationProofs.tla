------------------------- MODULE NotificationProofs -------------------------
(***************************************************************************)
(* Proofs about Notification, for any calls, users, devices, tokens and    *)
(* recipients, every deployment of senders and any number of changes of    *)
(* preferences and tokens while calls are under way; and, at the end,      *)
(* about NotificationInbox, for any table, clocks and page length.         *)
(***************************************************************************)
EXTENDS Notification, NotificationInbox, FiniteSetTheorems, TLAPS

\* Only issued tokens are active (push_token_postgres.go:54-84).
LEMMA ActiveTokensType ==
    ASSUME NEW kept \in SUBSET TokenRow, NEW u
    PROVE  ActiveTokens(kept, u) \subseteq Tokens
  BY DEF ActiveTokens, TokenRow

-----------------------------------------------------------------------------
(* The Send methods *)

\* SendEmail looks for its sender first (service.go:42-46, 72-76, 113-121).
LEMMA SendStep ==
    ASSUME IInv, NEW c \in Calls, NEW m \in Message, Send(c, m)
    PROVE  IInv'
  <1>1. TypeOK'
    <2>1. Disabled(prefs[m.user], m.channel) \in BOOLEAN
      BY DEF Disabled
    <2>2. Pointless(prefs[m.user], pushTokens, m) \in BOOLEAN
      BY DEF Pointless
    <2>3. ActiveTokens(pushTokens, m.user) \subseteq Tokens
      BY ActiveTokensType DEF IInv, TypeOK
    <2> QED
      BY <2>1, <2>2, <2>3 DEF IInv, TypeOK, Send, Goto, Return, database, provider
  <1>2. PlaceInv'
    BY DEF IInv, TypeOK, PlaceInv, Send, Goto, Return, database
  <1>3. WitnessInv'
    <2>1. /\ msg' = [msg EXCEPT ![c] = m]
          /\ optedOut' = [optedOut EXCEPT ![c] = Disabled(prefs[m.user], m.channel)]
          /\ live' = [live EXCEPT ![c] = ActiveTokens(pushTokens, m.user)]
          /\ silenced' = [silenced EXCEPT ![c] = Pointless(prefs[m.user], pushTokens, m)]
          /\ UNCHANGED <<prefs, pushTokens>>
          /\ \A d \in Calls \ {c} : pc'[d] = pc[d]
      BY DEF IInv, TypeOK, Send, Goto, Return, database
    <2>2. msg'[c] = m /\ optedOut'[c] = Disabled(prefs[m.user], m.channel)
          /\ live'[c] = ActiveTokens(pushTokens, m.user)
          /\ (silenced'[c] <=> Pointless(prefs[m.user], pushTokens, m))
      BY <2>1 DEF IInv, TypeOK
    <2>3. \A d \in Calls \ {c} : msg'[d] = msg[d] /\ optedOut'[d] = optedOut[d]
                                /\ live'[d] = live[d] /\ silenced'[d] = silenced[d]
      BY <2>1 DEF IInv
    <2> QED
      BY <2>1, <2>2, <2>3 DEF IInv, WitnessInv, Running
  <1>4. OptInv'
    BY DEF IInv, TypeOK, PlaceInv, OptInv, Running, OptOutHonoured, Send, Goto, Return,
           database
  <1>5. TargetsInv'
    BY DEF IInv, TypeOK, PlaceInv, TargetsInv, TokensWereLive, Send, Goto, Return
  <1>6. DropsAreExcused'
    BY DEF IInv, TypeOK, DropsAreExcused, Dropped, Excused, Send, Goto, Return, database
  <1>7. LogInv'
    BY DEF IInv, TypeOK, LogInv, AuditAgrees, Send, Goto, Return, database
  <1>8. MailInv'
    BY DEF IInv, TypeOK, PlaceInv, MailInv, MailReachesAll, Send, Goto, Return, provider
  <1> QED
    BY <1>1, <1>2, <1>3, <1>4, <1>5, <1>6, <1>7, <1>8 DEF IInv

\* A disabled channel ends the call (service.go:43-46).
LEMMA ReadPreferencesStep ==
    ASSUME IInv, NEW c \in Calls, ReadPreferences(c)
    PROVE  IInv'
  <1>1. TypeOK'
    BY DEF IInv, TypeOK, PlaceInv, ReadPreferences, Goto, Return, AfterPreferences,
           Message, Channels, database, provider, past
  <1>2. PlaceInv'
    BY DEF IInv, TypeOK, PlaceInv, ReadPreferences, Goto, Return, AfterPreferences,
           Message, Channels, database, past
  <1>3. WitnessInv'
    BY DEF IInv, TypeOK, WitnessInv, Running, ReadPreferences, Goto, Return, database,
           past
  <1>4. OptInv'
    BY DEF IInv, TypeOK, WitnessInv, OptInv, Running, OptOutHonoured, ReadPreferences,
           Goto, Return, database, past
  <1>5. TargetsInv'
    BY DEF IInv, TypeOK, TargetsInv, TokensWereLive, ReadPreferences, Goto, Return,
           AfterPreferences, past
  <1>6. DropsAreExcused'
    BY DEF IInv, TypeOK, PlaceInv, WitnessInv, DropsAreExcused, Running, Dropped, Excused,
           ReadPreferences, Goto, Return, AfterPreferences, Message, Channels, Pointless,
           database, past
  <1>7. LogInv'
    BY DEF IInv, TypeOK, LogInv, AuditAgrees, ReadPreferences, Goto, Return, database,
           past
  <1>8. MailInv'
    BY DEF IInv, TypeOK, PlaceInv, MailInv, MailReachesAll, ReadPreferences, Goto, Return,
           AfterPreferences, Message, Channels, provider, past
  <1> QED
    BY <1>1, <1>2, <1>3, <1>4, <1>5, <1>6, <1>7, <1>8 DEF IInv

\* A failed Get leaves the call blind (service.go:43).
LEMMA MissPreferencesStep ==
    ASSUME IInv, NEW c \in Calls, MissPreferences(c)
    PROVE  IInv'
  <1>1. TypeOK'
    BY DEF IInv, TypeOK, PlaceInv, MissPreferences, Goto, AfterPreferences, Message,
           Channels, database, provider
  <1>2. PlaceInv'
    BY DEF IInv, PlaceInv, MissPreferences, Goto, AfterPreferences, Message, Channels,
           database
  <1>3. WitnessInv'
    BY DEF IInv, WitnessInv, Running, MissPreferences, Goto, database
  <1>4. OptInv'
    BY DEF IInv, TypeOK, OptInv, Running, OptOutHonoured, MissPreferences, Goto, database
  <1>5. TargetsInv'
    BY DEF IInv, TargetsInv, TokensWereLive, MissPreferences, Goto, AfterPreferences
  <1>6. DropsAreExcused'
    BY DEF IInv, TypeOK, DropsAreExcused, Dropped, Excused, MissPreferences, Goto,
           database
  <1>7. LogInv'
    BY DEF IInv, LogInv, AuditAgrees, MissPreferences, Goto, database
  <1>8. MailInv'
    BY DEF IInv, PlaceInv, MailInv, MailReachesAll, MissPreferences, Goto,
           AfterPreferences, Message, Channels, provider
  <1> QED
    BY <1>1, <1>2, <1>3, <1>4, <1>5, <1>6, <1>7, <1>8 DEF IInv

\* An in-app message is stored or is an error (service.go:48-65).
LEMMA StoreInAppStep ==
    ASSUME IInv, NEW c \in Calls, StoreInApp(c)
    PROVE  IInv'
  <1>1. TypeOK'
    BY DEF IInv, TypeOK, StoreInApp, Goto, Return, provider, past
  <1>2. PlaceInv'
    BY DEF IInv, TypeOK, PlaceInv, StoreInApp, Goto, Return, past
  <1>3. WitnessInv'
    BY DEF IInv, TypeOK, WitnessInv, Running, StoreInApp, Goto, Return, past
  <1>4. OptInv'
    BY DEF IInv, TypeOK, OptInv, Running, OptOutHonoured, StoreInApp, Goto, Return, past
  <1>5. TargetsInv'
    BY DEF IInv, TypeOK, TargetsInv, TokensWereLive, StoreInApp, Goto, Return, past
  <1>6. DropsAreExcused'
    BY DEF IInv, TypeOK, DropsAreExcused, Dropped, Excused, StoreInApp, Goto, Return, past
  <1>7. LogInv'
    BY DEF IInv, TypeOK, LogInv, AuditAgrees, StoreInApp, Goto, Return, past
  <1>8. MailInv'
    BY DEF IInv, TypeOK, PlaceInv, MailInv, MailReachesAll, StoreInApp, Goto, Return,
           provider, past
  <1> QED
    BY <1>1, <1>2, <1>3, <1>4, <1>5, <1>6, <1>7, <1>8 DEF IInv

\* The tokens are read, all or some of them (service.go:78-94).
LEMMA CollectStep ==
    ASSUME IInv, NEW c \in Calls, ReadTokens(c) \/ ReadSomeTokens(c)
    PROVE  IInv'
  <1> DEFINE all == ActiveTokens(pushTokens, msg[c].user)
  <1>1. PICK found \in SUBSET all :
           /\ \/ /\ found = {} \/ "push" \notin senders
                 /\ Return(c, "nil") /\ UNCHANGED targets
              \/ /\ found # {}
                 /\ targets' = [targets EXCEPT ![c] = found]
                 /\ Goto(c, "send") /\ UNCHANGED result
           /\ \/ found = all /\ UNCHANGED blind
              \/ blind' = [blind EXCEPT ![c] = TRUE]
    <2>1. CASE ReadTokens(c)
      BY <2>1 DEF ReadTokens, Collect, past
    <2>2. CASE ReadSomeTokens(c)
      <3>1. PICK found \in SUBSET {r \in pushTokens : r.user = msg[c].user} : Collect(c, found)
        BY <2>2 DEF ReadSomeTokens
      <3>2. ActiveTokens(found, msg[c].user) \subseteq all
        BY <3>1 DEF ActiveTokens
      <3> QED
        BY <2>2, <3>1, <3>2 DEF ReadSomeTokens, Collect
    <2> QED
      BY <2>1, <2>2
  <1>2. /\ pc[c] = "tokens"
        /\ UNCHANGED <<senders, prefs, pushTokens, inbox, log, msg, envelope, taken, contacted,
                       optedOut, live, silenced, changes>>
    BY DEF ReadTokens, ReadSomeTokens, database, provider, past
  <1>3. all \subseteq Tokens
    BY ActiveTokensType DEF IInv, TypeOK
  <1>4. all = {} => Pointless(prefs[msg[c].user], pushTokens, msg[c])
    BY <1>2 DEF IInv, PlaceInv, Pointless
  <1> HIDE DEF all
  <1>5. TypeOK'
    BY <1>1, <1>2, <1>3 DEF IInv, TypeOK, Goto, Return
  <1>6. PlaceInv'
    BY <1>1, <1>2 DEF IInv, TypeOK, PlaceInv, Goto, Return
  <1>7. WitnessInv'
    BY <1>1, <1>2 DEF IInv, TypeOK, WitnessInv, Running, Goto, Return
  <1>8. OptInv'
    BY <1>1, <1>2 DEF IInv, TypeOK, OptInv, Running, OptOutHonoured, Goto, Return
  <1>9. TargetsInv'
    BY <1>1, <1>2 DEF IInv, TypeOK, WitnessInv, TargetsInv, Running, TokensWereLive, Goto,
       Return, all
  <1>10. DropsAreExcused'
    BY <1>1, <1>2, <1>4 DEF IInv, TypeOK, PlaceInv, WitnessInv, DropsAreExcused, Running,
       Dropped, Excused, Goto, Return
  <1>11. LogInv'
    BY <1>1, <1>2 DEF IInv, TypeOK, LogInv, AuditAgrees, Goto, Return
  <1>12. MailInv'
    BY <1>1, <1>2 DEF IInv, TypeOK, PlaceInv, MailInv, MailReachesAll, Goto, Return
  <1> QED
    BY <1>5, <1>6, <1>7, <1>8, <1>9, <1>10, <1>11, <1>12 DEF IInv

\* The error of GetByUserID is returned (service.go:79-81).
LEMMA TokensFailStep ==
    ASSUME IInv, NEW c \in Calls, TokensFail(c)
    PROVE  IInv'
  <1>1. TypeOK'
    BY DEF IInv, TypeOK, TokensFail, Goto, Return, database, provider, past
  <1>2. PlaceInv'
    BY DEF IInv, PlaceInv, TokensFail, Goto, Return, database, past
  <1>3. WitnessInv'
    BY DEF IInv, WitnessInv, Running, TokensFail, Goto, Return, database, past
  <1>4. OptInv'
    BY DEF IInv, OptInv, Running, OptOutHonoured, TokensFail, Goto, Return, database, past
  <1>5. TargetsInv'
    BY DEF IInv, TargetsInv, TokensWereLive, TokensFail, Goto, Return, past
  <1>6. DropsAreExcused'
    BY DEF IInv, TypeOK, DropsAreExcused, Dropped, Excused, TokensFail, Goto, Return,
           database, past
  <1>7. LogInv'
    BY DEF IInv, LogInv, AuditAgrees, TokensFail, Goto, Return, database, past
  <1>8. MailInv'
    BY DEF IInv, TypeOK, MailInv, MailReachesAll, TokensFail, Goto, Return, provider, past
  <1> QED
    BY <1>1, <1>2, <1>3, <1>4, <1>5, <1>6, <1>7, <1>8 DEF IInv

\* The dialogue begins (smtp.go:75-130).
LEMMA SmtpConnectsStep ==
    ASSUME IInv, NEW c \in Calls, SmtpConnects(c)
    PROVE  IInv'
  <1>1. TypeOK'
    BY DEF IInv, TypeOK, SmtpConnects, Contact, Goto, database, provider
  <1>2. PlaceInv'
    BY DEF IInv, TypeOK, PlaceInv, SmtpConnects, Sending, Contact, Goto, database
  <1>3. WitnessInv'
    BY DEF IInv, WitnessInv, Running, SmtpConnects, Sending, Goto, database
  <1>4. OptInv'
    BY DEF IInv, OptInv, Running, OptOutHonoured, SmtpConnects, Sending, Contact, Goto,
           database
  <1>5. TargetsInv'
    BY DEF IInv, TargetsInv, TokensWereLive, SmtpConnects, Sending, Contact, Goto
  <1>6. DropsAreExcused'
    BY DEF IInv, DropsAreExcused, Dropped, Excused, SmtpConnects, Contact, Goto, database
  <1>7. LogInv'
    BY DEF IInv, LogInv, AuditAgrees, SmtpConnects, Sending, Contact, Goto, database
  <1>8. MailInv'
    BY DEF IInv, MailInv, MailReachesAll, SmtpConnects, Sending, Contact, Goto, provider
  <1> QED
    BY <1>1, <1>2, <1>3, <1>4, <1>5, <1>6, <1>7, <1>8 DEF IInv

\* An error before the message is complete: nobody gets it (smtp.go:75-147).
LEMMA SmtpFailsStep ==
    ASSUME IInv, NEW c \in Calls, SmtpFails(c)
    PROVE  IInv'
  <1>1. TypeOK'
    BY DEF IInv, TypeOK, SmtpFails, Contact, Finish, Goto, database, provider
  <1>2. PlaceInv'
    BY DEF IInv, TypeOK, PlaceInv, SmtpFails, Sending, Contact, Finish, Goto, database
  <1>3. WitnessInv'
    BY DEF IInv, WitnessInv, Running, SmtpFails, Sending, Finish, Goto, database
  <1>4. OptInv'
    BY DEF IInv, OptInv, Running, OptOutHonoured, SmtpFails, Sending, Contact, Finish,
           Goto, database
  <1>5. TargetsInv'
    BY DEF IInv, TargetsInv, TokensWereLive, SmtpFails, Sending, Contact, Finish, Goto
  <1>6. DropsAreExcused'
    BY DEF IInv, DropsAreExcused, Dropped, Excused, SmtpFails, Contact, Finish, Goto,
           database
  <1>7. LogInv'
    BY DEF IInv, LogInv, AuditAgrees, SmtpFails, Sending, Contact, Finish, Goto, database
  <1>8. MailInv'
    BY DEF IInv, TypeOK, MailInv, MailReachesAll, SmtpFails, Sending, Contact, Finish,
           Goto, provider
  <1> QED
    BY <1>1, <1>2, <1>3, <1>4, <1>5, <1>6, <1>7, <1>8 DEF IInv

\* One recipient more (smtp.go:132-136).
LEMMA SmtpRcptStep ==
    ASSUME IInv, NEW c \in Calls, NEW a \in Addresses, SmtpRcpt(c, a)
    PROVE  IInv'
  <1>1. TypeOK'
    BY DEF IInv, TypeOK, SmtpRcpt, database, past
  <1>2. PlaceInv'
    BY DEF IInv, PlaceInv, SmtpRcpt, database, past
  <1>3. WitnessInv'
    BY DEF IInv, WitnessInv, Running, SmtpRcpt, database, past
  <1>4. OptInv'
    BY DEF IInv, OptInv, Running, OptOutHonoured, SmtpRcpt, database, past
  <1>5. TargetsInv'
    BY DEF IInv, TargetsInv, TokensWereLive, SmtpRcpt, past
  <1>6. DropsAreExcused'
    BY DEF IInv, DropsAreExcused, Dropped, Excused, SmtpRcpt, database, past
  <1>7. LogInv'
    BY DEF IInv, LogInv, AuditAgrees, SmtpRcpt, database, past
  <1>8. MailInv'
    BY DEF IInv, MailInv, MailReachesAll, SmtpRcpt, past
  <1> QED
    BY <1>1, <1>2, <1>3, <1>4, <1>5, <1>6, <1>7, <1>8 DEF IInv

\* All recipients are accepted (smtp.go:138-141).
LEMMA SmtpDataStep ==
    ASSUME IInv, NEW c \in Calls, SmtpData(c)
    PROVE  IInv'
  <1>1. TypeOK'
    BY DEF IInv, TypeOK, SmtpData, Goto, database, provider, past
  <1>2. PlaceInv'
    BY DEF IInv, PlaceInv, SmtpData, Sending, Goto, database, past
  <1>3. WitnessInv'
    BY DEF IInv, WitnessInv, Running, SmtpData, Sending, Goto, database, past
  <1>4. OptInv'
    BY DEF IInv, OptInv, Running, OptOutHonoured, SmtpData, Sending, Goto, database, past
  <1>5. TargetsInv'
    BY DEF IInv, TargetsInv, TokensWereLive, SmtpData, Goto, past
  <1>6. DropsAreExcused'
    BY DEF IInv, DropsAreExcused, Dropped, Excused, SmtpData, Goto, database, past
  <1>7. LogInv'
    BY DEF IInv, LogInv, AuditAgrees, SmtpData, Sending, Goto, database, past
  <1>8. MailInv'
    BY DEF IInv, MailInv, MailReachesAll, SmtpData, Sending, Goto, provider, past
  <1> QED
    BY <1>1, <1>2, <1>3, <1>4, <1>5, <1>6, <1>7, <1>8 DEF IInv

\* The server takes the message, or there is an error (smtp.go:143-149).
LEMMA SmtpCloseStep ==
    ASSUME IInv, NEW c \in Calls, SmtpClose(c)
    PROVE  IInv'
  <1>1. TypeOK'
    BY DEF IInv, TypeOK, SmtpClose, Finish, Goto, database, past
  <1>2. PlaceInv'
    BY DEF IInv, TypeOK, PlaceInv, SmtpClose, Sending, Finish, Goto, database, past
  <1>3. WitnessInv'
    BY DEF IInv, TypeOK, WitnessInv, Running, SmtpClose, Sending, Finish, Goto, database,
           past
  <1>4. OptInv'
    BY DEF IInv, TypeOK, OptInv, Running, OptOutHonoured, SmtpClose, Sending, Finish,
           Goto, database, past
  <1>5. TargetsInv'
    BY DEF IInv, TypeOK, TargetsInv, TokensWereLive, SmtpClose, Finish, Goto, past
  <1>6. DropsAreExcused'
    BY DEF IInv, TypeOK, DropsAreExcused, Dropped, Excused, SmtpClose, Finish, Goto,
           database, past
  <1>7. LogInv'
    BY DEF IInv, TypeOK, LogInv, AuditAgrees, SmtpClose, Sending, Finish, Goto, database,
           past
  <1>8. MailInv'
    BY DEF IInv, TypeOK, MailInv, MailReachesAll, SmtpClose, Sending, Finish, Goto, past
  <1> QED
    BY <1>1, <1>2, <1>3, <1>4, <1>5, <1>6, <1>7, <1>8 DEF IInv

\* QUIT, whose error is returned (smtp.go:151).
LEMMA SmtpQuitStep ==
    ASSUME IInv, NEW c \in Calls, SmtpQuit(c)
    PROVE  IInv'
  <1>1. TypeOK'
    BY DEF IInv, TypeOK, SmtpQuit, Finish, Goto, database, provider, past
  <1>2. PlaceInv'
    BY DEF IInv, TypeOK, PlaceInv, SmtpQuit, Sending, Finish, Goto, database, past
  <1>3. WitnessInv'
    BY DEF IInv, WitnessInv, Running, SmtpQuit, Sending, Finish, Goto, database, past
  <1>4. OptInv'
    BY DEF IInv, OptInv, Running, OptOutHonoured, SmtpQuit, Sending, Finish, Goto,
           database, past
  <1>5. TargetsInv'
    BY DEF IInv, TargetsInv, TokensWereLive, SmtpQuit, Finish, Goto, past
  <1>6. DropsAreExcused'
    BY DEF IInv, TypeOK, DropsAreExcused, Dropped, Excused, SmtpQuit, Finish, Goto,
           database, past
  <1>7. LogInv'
    BY DEF IInv, LogInv, AuditAgrees, SmtpQuit, Sending, Finish, Goto, database, past
  <1>8. MailInv'
    BY DEF IInv, MailInv, MailReachesAll, SmtpQuit, Sending, Finish, Goto, provider, past
  <1> QED
    BY <1>1, <1>2, <1>3, <1>4, <1>5, <1>6, <1>7, <1>8 DEF IInv

\* One request for all tokens (fcm.go:85-150).
LEMMA FcmSendStep ==
    ASSUME IInv, NEW c \in Calls, FcmSend(c)
    PROVE  IInv'
  <1>1. TypeOK'
    BY DEF IInv, TypeOK, FcmSend, Contact, Finish, Goto, database
  <1>2. PlaceInv'
    BY DEF IInv, TypeOK, PlaceInv, FcmSend, Sending, Contact, Finish, Goto, database
  <1>3. WitnessInv'
    BY DEF IInv, WitnessInv, Running, FcmSend, Sending, Finish, Goto, database
  <1>4. OptInv'
    BY DEF IInv, OptInv, Running, OptOutHonoured, FcmSend, Sending, Contact, Finish, Goto,
           database
  <1>5. TargetsInv'
    BY DEF IInv, TargetsInv, TokensWereLive, FcmSend, Sending, Contact, Finish, Goto
  <1>6. DropsAreExcused'
    BY DEF IInv, TypeOK, DropsAreExcused, Dropped, Excused, FcmSend, Contact, Finish,
           Goto, database
  <1>7. LogInv'
    BY DEF IInv, LogInv, AuditAgrees, FcmSend, Sending, Contact, Finish, Goto, database
  <1>8. MailInv'
    BY DEF IInv, TypeOK, MailInv, MailReachesAll, FcmSend, Sending, Contact, Finish, Goto
  <1> QED
    BY <1>1, <1>2, <1>3, <1>4, <1>5, <1>6, <1>7, <1>8 DEF IInv

\* logDelivery, which may fail (service.go:134-149).
LEMMA LogDeliveryStep ==
    ASSUME IInv, NEW c \in Calls, LogDelivery(c)
    PROVE  IInv'
  <1>1. TypeOK'
    BY DEF IInv, TypeOK, LogDelivery, StatusOf, Goto, provider, past
  <1>2. PlaceInv'
    BY DEF IInv, PlaceInv, LogDelivery, Goto, past
  <1>3. WitnessInv'
    BY DEF IInv, WitnessInv, Running, LogDelivery, Goto, past
  <1>4. OptInv'
    BY DEF IInv, OptInv, Running, OptOutHonoured, LogDelivery, Goto, past
  <1>5. TargetsInv'
    BY DEF IInv, TargetsInv, TokensWereLive, LogDelivery, Goto, past
  <1>6. DropsAreExcused'
    BY DEF IInv, PlaceInv, DropsAreExcused, Dropped, Excused, LogDelivery, Goto, past
  <1>7. LogInv'
    BY DEF IInv, TypeOK, PlaceInv, LogInv, AuditAgrees, LogDelivery, StatusOf, Goto, past
  <1>8. MailInv'
    BY DEF IInv, MailInv, MailReachesAll, LogDelivery, Goto, provider, past
  <1> QED
    BY <1>1, <1>2, <1>3, <1>4, <1>5, <1>6, <1>7, <1>8 DEF IInv

-----------------------------------------------------------------------------
(* Changes of preferences and tokens *)

\* The histories of running calls follow a change, whatever it is
\* (notification_preferences_postgres.go:52, push_token_postgres.go:21-120).
LEMMA WitnessStep ==
    ASSUME IInv, Change,
           NEW newPrefs \in [Users -> {None} \cup SUBSET Channels], prefs' = newPrefs,
           NEW newTokens \in SUBSET TokenRow, pushTokens' = newTokens,
           Witness(newPrefs, newTokens)
    PROVE  IInv'
  <1>1. UNCHANGED <<senders, inbox, log, pc, msg, targets, envelope, taken, result, contacted,
                    blind>>
    BY DEF Change, provider
  <1>2. optedOut' \in [Calls -> BOOLEAN]
        /\ \A c \in Calls : /\ optedOut'[c] => optedOut[c]
                            /\ ~Running(c) => optedOut'[c] = optedOut[c]
                            /\ Running(c) /\ optedOut'[c] =>
                                  Disabled(newPrefs[msg[c].user], msg[c].channel)
    BY DEF Witness, IInv, TypeOK
  <1>3. live' \in [Calls -> SUBSET Tokens]
        /\ \A c \in Calls : /\ live[c] \subseteq live'[c]
                            /\ Running(c) =>
                                  ActiveTokens(newTokens, msg[c].user) \subseteq live'[c]
    <2>1. \A c \in Calls : ActiveTokens(newTokens, msg[c].user) \subseteq Tokens
      BY ActiveTokensType
    <2> QED
      BY <2>1 DEF Witness, IInv, TypeOK
  <1>4. silenced' \in [Calls -> BOOLEAN]
        /\ \A c \in Calls : /\ silenced[c] => silenced'[c]
                            /\ Running(c) /\ Pointless(newPrefs[msg[c].user], newTokens, msg[c])
                                  => silenced'[c]
    <2>1. silenced \in [Calls -> BOOLEAN]
      BY DEF IInv, TypeOK
    <2>2. \A c \in Calls : Pointless(newPrefs[msg[c].user], newTokens, msg[c]) \in BOOLEAN
      BY DEF Pointless
    <2> QED
      BY <2>1, <2>2 DEF Witness
  <1>5. changes' \in 0..MaxChanges
    BY MaxChangesAssumption DEF Change, IInv, TypeOK
  <1>6. TypeOK'
    BY <1>1, <1>2, <1>3, <1>4, <1>5 DEF IInv, TypeOK
  <1>7. PlaceInv'
    BY <1>1 DEF IInv, PlaceInv
  <1>8. WitnessInv'
    BY <1>1, <1>2, <1>3, <1>4 DEF IInv, WitnessInv, Running
  <1>9. OptInv'
    BY <1>1, <1>2 DEF IInv, OptInv, OptOutHonoured, Running
  <1>10. TargetsInv'
    BY <1>1, <1>3 DEF IInv, TargetsInv, TokensWereLive
  <1>11. DropsAreExcused'
    BY <1>1, <1>4 DEF IInv, DropsAreExcused, Dropped, Excused
  <1>12. LogInv' /\ MailInv'
    BY <1>1 DEF IInv, LogInv, AuditAgrees, MailInv, MailReachesAll
  <1> QED
    BY <1>6, <1>7, <1>8, <1>9, <1>10, <1>11, <1>12 DEF IInv

\* Each statement on the two tables is such a change.
LEMMA ChangeStep ==
    ASSUME IInv,
           \/ \E u \in Users, enabled \in SUBSET Channels : UpdatePreferences(u, enabled)
           \/ \E row \in TokenRow : Register(row)
           \/ \E t \in Tokens : Unregister(t)
           \/ \E u \in Users : UnregisterAll(u)
    PROVE  IInv'
  <1>1. Change /\ Witness(prefs', pushTokens')
    BY DEF UpdatePreferences, Register, Unregister, UnregisterAll
  <1>2. prefs' \in [Users -> {None} \cup SUBSET Channels]
    BY DEF UpdatePreferences, Register, Unregister, UnregisterAll, IInv, TypeOK
  <1>3. pushTokens' \in SUBSET TokenRow
    BY DEF UpdatePreferences, Register, Unregister, UnregisterAll, IInv, TypeOK
  <1> QED
    BY <1>1, <1>2, <1>3, WitnessStep

-----------------------------------------------------------------------------
(* The theorems *)

\* Each call is where its histories, the database and its provider allow
\* (service.go:42-149).
THEOREM Inductive == Spec => []IInv
  <1>1. Init => IInv
    BY MaxChangesAssumption DEF Init, IInv, TypeOK, PlaceInv, WitnessInv, OptInv,
       OptOutHonoured, TargetsInv, TokensWereLive, DropsAreExcused, Dropped, LogInv,
       AuditAgrees, MailInv, MailReachesAll, Running
  <1>2. IInv /\ [Next]_vars => IInv'
    <2> SUFFICES ASSUME IInv, [Next]_vars PROVE IInv'
      OBVIOUS
    <2>1. ASSUME NEW c \in Calls, Proceed(c) PROVE IInv'
      BY <2>1, SendStep, ReadPreferencesStep, MissPreferencesStep, StoreInAppStep,
         CollectStep, TokensFailStep, SmtpConnectsStep, SmtpFailsStep, SmtpRcptStep,
         SmtpDataStep, SmtpCloseStep, SmtpQuitStep, FcmSendStep, LogDeliveryStep DEF
         Proceed
    <2>2. CASE UNCHANGED vars
      BY <2>2 DEF vars, IInv, TypeOK, PlaceInv, WitnessInv, OptInv, OptOutHonoured,
         TargetsInv, TokensWereLive, DropsAreExcused, Dropped, Excused, LogInv,
         AuditAgrees, MailInv, MailReachesAll, Running
    <2> QED
      BY <2>1, <2>2, ChangeStep DEF Next
  <1> QED
    BY <1>1, <1>2, PTL DEF Spec

\* A standing opt-out is honoured by every call that could read it
\* (service.go:42-46, 72-76, 113-121).
THEOREM OptOutsAreHonoured == Spec => []OptOutHonoured
  <1>1. IInv => OptOutHonoured
    BY DEF IInv, OptInv
  <1> QED
    BY <1>1, Inductive, PTL

\* Only tokens that were the user's own and active in the call go to the
\* provider (service.go:78-94).
THEOREM TokensAreLive == Spec => []TokensWereLive
  <1>1. IInv => TokensWereLive
    BY DEF IInv, TargetsInv
  <1> QED
    BY <1>1, Inductive, PTL

\* A Send that returned nil without sending had nobody to send to, no sender,
\* or an error it swallows (service.go:42-132).
THEOREM EveryDropHasAnExcuse == Spec => []DropsAreExcused
  <1>1. IInv => DropsAreExcused
    BY DEF IInv
  <1> QED
    BY <1>1, Inductive, PTL

\* The delivery log says what the callers were told (service.go:102-110,
\* 123-149).
THEOREM LogAgrees == Spec => []AuditAgrees
  <1>1. IInv => AuditAgrees
    BY DEF IInv, LogInv
  <1> QED
    BY <1>1, Inductive, PTL

\* A mail reaches all its recipients or none, and all of them if SendEmail
\* returned nil (smtp.go:127-151).
THEOREM MailIsAllOrNothing == Spec => []MailReachesAll
  <1>1. IInv => MailReachesAll
    BY DEF IInv, MailInv
  <1> QED
    BY <1>1, Inductive, PTL

-----------------------------------------------------------------------------
(* The table notifications as a client that pages through it sees it *)

\* As many notifications as identifiers (the primary key of notifications).
LEMMA Sizes ==
    ASSUME InboxTypeOK, RowsInv, NEW R \in SUBSET rows
    PROVE  /\ IsFiniteSet(R) /\ IsFiniteSet(IdsOf(R))
           /\ Cardinality(R) \in Nat /\ Cardinality(R) = Cardinality(IdsOf(R))
  <1> DEFINE f == [r \in R |-> r.id]
  <1>1. IsFiniteSet(IdsOf(R))
    <2>1. IdsOf(R) \subseteq Ids
      BY DEF InboxTypeOK, IdsOf, Row
    <2> QED
      BY <2>1, IdsAssumption, FS_Subset
  <1>2. f \in Injection(R, IdsOf(R))
    BY DEF Injection, IsInjective, IdsOf, RowsInv
  <1>3. f \in Surjection(R, IdsOf(R))
    BY <1>2 DEF Surjection, Injection, IdsOf
  <1> HIDE DEF f
  <1>4. IsFiniteSet(R) /\ Cardinality(R) = Cardinality(IdsOf(R))
    BY <1>1, <1>2, <1>3, FS_Injection
  <1> QED
    BY <1>1, <1>4, FS_CardinalityType

\* The place of a row in the list is a number.
LEMMA NewerType ==
    ASSUME InboxTypeOK, RowsInv, NEW r
    PROVE  IsFiniteSet(Newer(r)) /\ Cardinality(Newer(r)) \in Nat
  <1>1. {q \in Of(Reader) : q.createdAt > r.createdAt} \in SUBSET rows
    BY DEF Of
  <1> QED
    BY <1>1, Sizes, FS_CardinalityType DEF Newer

\* A notification arrives, in front of others or behind (notification_postgres.go:25-50).
LEMMA StoreStep ==
    ASSUME InboxInv, NEW id \in Ids, NEW u \in Recipients, NEW t \in Times, Store(id, u, t)
    PROVE  InboxInv'
  <1>1. PICK read \in BOOLEAN :
           rows' = rows \cup {[id |-> id, user |-> u, read |-> read, createdAt |-> t]}
    BY DEF Store
  <1> DEFINE new == [id |-> id, user |-> u, read |-> read, createdAt |-> t]
  <1>2. /\ id \notin IdsOf(rows) /\ rows' = rows \cup {new}
        /\ UNCHANGED <<client, offset, seen, initial, broken, cleared>>
    BY <1>1 DEF Store, paging
  <1>3. new \in Row /\ new.id = id /\ new.user = u
    BY DEF Row
  <1>4. InboxTypeOK'
    BY <1>2, <1>3 DEF InboxTypeOK, InboxInv
  <1>5. Of(Reader) \subseteq Of(Reader)' /\ Of(Reader)' \subseteq Of(Reader) \cup {new}
    BY <1>2 DEF Of
  <1> HIDE DEF new
  <1>6. id \notin cleared /\ id \notin initial
    BY <1>2 DEF InboxInv, RowsInv, IdsOf, Of
  <1>7. RowsInv'
    BY <1>2, <1>3, <1>5 DEF InboxInv, RowsInv, IdsOf
  <1>8. ReadInv'
    BY <1>2, <1>3, <1>6 DEF InboxInv, ReadInv
  <1>9. PageInv'
    <2> SUFFICES ASSUME ~broken, DistinctTimes'
                 PROVE  /\ \A r \in Of(Reader)' :
                              r.id \in initial \ seen => Cardinality(Newer(r)') >= offset
                        /\ client = "done" => initial \subseteq seen
      BY <1>2 DEF PageInv
    <2>1. DistinctTimes
      BY <1>5 DEF DistinctTimes
    <2>2. ASSUME NEW r \in Of(Reader)', r.id \in initial \ seen
          PROVE  Cardinality(Newer(r)') >= offset
      <3>1. r \in Of(Reader)
        BY <2>2, <1>3, <1>5, <1>6
      <3>2. Cardinality(Newer(r)) >= offset
        BY <2>1, <2>2, <3>1 DEF InboxInv, PageInv
      <3>3. Newer(r) \subseteq Newer(r)'
        BY <1>5 DEF Newer, IdsOf
      <3>4. IsFiniteSet(Newer(r)')
        <4>1. {q \in Of(Reader)' : q.createdAt > r.createdAt} \in SUBSET rows'
          BY DEF Of
        <4>2. IsFiniteSet(IdsOf({q \in Of(Reader)' : q.createdAt > r.createdAt}))
          <5>1. IdsOf({q \in Of(Reader)' : q.createdAt > r.createdAt}) \subseteq Ids
            BY <4>1, <1>4 DEF InboxTypeOK, IdsOf, Row
          <5> QED
            BY <5>1, IdsAssumption, FS_Subset
        <4> QED
          BY <4>2 DEF Newer, IdsOf
      <3>5. Cardinality(Newer(r)) <= Cardinality(Newer(r)')
        BY <3>3, <3>4, FS_Subset
      <3> QED
        BY <3>2, <3>5, <3>3, <3>4, FS_CardinalityType, FS_Subset DEF InboxInv, InboxTypeOK
    <2> QED
      BY <2>1, <2>2 DEF InboxInv, PageInv
  <1> QED
    BY <1>2, <1>4, <1>7, <1>8, <1>9 DEF InboxInv

\* A statement that may set read (notification_postgres.go:112-152) and leaves the rest of each row as it was.
OnlyReadChanges(f) ==
    /\ f \in [rows -> Row]
    /\ \A r \in rows : f[r].id = r.id /\ f[r].user = r.user /\ f[r].createdAt = r.createdAt
    /\ \A r \in rows : r.read => f[r].read
    /\ rows' = {f[r] : r \in rows}

\* It changes nobody's list but for read.
LEMMA OrderStays ==
    ASSUME InboxInv, NEW f, OnlyReadChanges(f)
    PROVE  /\ \A u : IdsOf(Of(u)') = IdsOf(Of(u))
           /\ IdsOf(rows') = IdsOf(rows)
           /\ DistinctTimes' => DistinctTimes
           /\ \A r \in rows : Newer(f[r])' = Newer(r)
  <1>1. \A u : IdsOf(Of(u)') = IdsOf(Of(u))
    BY DEF OnlyReadChanges, IdsOf, Of
  <1>2. IdsOf(rows') = IdsOf(rows)
    BY DEF OnlyReadChanges, IdsOf
  <1>3. ASSUME DistinctTimes' PROVE DistinctTimes
    <2> SUFFICES ASSUME NEW r \in Of(Reader), NEW q \in Of(Reader), r.createdAt = q.createdAt
                 PROVE  r = q
      BY DEF DistinctTimes
    <2>1. r \in rows /\ q \in rows /\ f[r] \in Of(Reader)' /\ f[q] \in Of(Reader)'
      BY DEF OnlyReadChanges, Of
    <2>2. f[r] = f[q]
      BY <1>3, <2>1 DEF DistinctTimes, OnlyReadChanges
    <2> QED
      BY <2>1, <2>2 DEF InboxInv, RowsInv, OnlyReadChanges
  <1>4. ASSUME NEW r \in rows PROVE Newer(f[r])' = Newer(r)
    <2>1. f[r].createdAt = r.createdAt
      BY DEF OnlyReadChanges
    <2>2. {q.id : q \in {p \in Of(Reader)' : p.createdAt > r.createdAt}}
             = {q.id : q \in {p \in Of(Reader) : p.createdAt > r.createdAt}}
      BY DEF OnlyReadChanges, Of
    <2> QED
      BY <2>1, <2>2 DEF Newer, IdsOf
  <1> QED
    BY <1>1, <1>2, <1>3, <1>4

\* Marking, whichever rows it is for.
LEMMA MarkStep ==
    ASSUME InboxInv, NEW f, OnlyReadChanges(f), UNCHANGED paging,
           cleared \subseteq cleared', cleared' \subseteq IdsOf(rows),
           \A r \in rows : r.id \in cleared' \ cleared => f[r].read
    PROVE  InboxInv'
  <1> USE OrderStays DEF paging
  <1>1. InboxTypeOK'
    <2>1. cleared' \subseteq Ids
      BY DEF InboxInv, InboxTypeOK, IdsOf, Row
    <2> QED
      BY <2>1 DEF InboxInv, InboxTypeOK, OnlyReadChanges
  <1>2. RowsInv'
    <2>1. \A r, q \in rows' : r.id = q.id => r = q
      BY DEF InboxInv, RowsInv, OnlyReadChanges
    <2>2. cleared' \subseteq IdsOf(rows')
      OBVIOUS
    <2>3. initial' \subseteq IdsOf(Of(Reader)')
      BY DEF InboxInv, RowsInv
    <2> QED
      BY <2>1, <2>2, <2>3 DEF RowsInv, IdsOf
  <1>3. ReadInv'
    BY DEF InboxInv, ReadInv, OnlyReadChanges
  <1>4. PageInv'
    <2> SUFFICES ASSUME ~broken, DistinctTimes'
                 PROVE  /\ \A r \in Of(Reader)' :
                              r.id \in initial \ seen => Cardinality(Newer(r)') >= offset
                        /\ client = "done" => initial \subseteq seen
      BY DEF PageInv
    <2>1. DistinctTimes
      OBVIOUS
    <2>2. ASSUME NEW q \in Of(Reader)', q.id \in initial \ seen
          PROVE  Cardinality(Newer(q)') >= offset
      <3>1. PICK r \in rows : q = f[r]
        BY DEF Of, OnlyReadChanges
      <3>2. r \in Of(Reader) /\ r.id = q.id
        BY <3>1 DEF Of, OnlyReadChanges
      <3>3. Newer(q)' = Newer(r)
        BY <3>1
      <3> QED
        BY <2>1, <2>2, <3>2, <3>3 DEF InboxInv, PageInv
    <2> QED
      BY <2>1, <2>2 DEF InboxInv, PageInv
  <1> QED
    BY <1>1, <1>2, <1>3, <1>4 DEF InboxInv

\* One notification is read (notification_postgres.go:112-131).
LEMMA MarkAsReadStep ==
    ASSUME InboxInv, NEW id \in Ids, MarkAsRead(id)
    PROVE  InboxInv'
  <1> DEFINE f == [r \in rows |-> IF r.id = id THEN [r EXCEPT !.read = TRUE] ELSE r]
  <1>1. OnlyReadChanges(f)
    BY DEF OnlyReadChanges, MarkAsRead, InboxInv, InboxTypeOK, Row
  <1>2. UNCHANGED paging /\ cleared' = cleared
    BY DEF MarkAsRead
  <1>3. cleared \subseteq IdsOf(rows)
    BY DEF InboxInv, RowsInv
  <1> HIDE DEF f
  <1> QED
    BY <1>1, <1>2, <1>3, MarkStep

\* All of a user's are read (notification_postgres.go:133-152).
LEMMA MarkAllAsReadStep ==
    ASSUME InboxInv, NEW u \in Recipients, MarkAllAsRead(u)
    PROVE  InboxInv'
  <1> DEFINE f == [r \in rows |-> IF r.user = u THEN [r EXCEPT !.read = TRUE] ELSE r]
  <1>1. OnlyReadChanges(f)
    BY DEF OnlyReadChanges, MarkAllAsRead, InboxInv, InboxTypeOK, Row
  <1>2. UNCHANGED paging /\ cleared' = cleared \cup IdsOf(Of(u))
    BY DEF MarkAllAsRead
  <1>3. cleared' \subseteq IdsOf(rows)
    BY <1>2 DEF InboxInv, RowsInv, IdsOf, Of
  <1>4. \A r \in rows : r.id \in cleared' \ cleared => f[r].read
    BY <1>2 DEF InboxInv, InboxTypeOK, RowsInv, IdsOf, Of, Row
  <1> HIDE DEF f
  <1> QED
    BY <1>1, <1>2, <1>3, <1>4, MarkStep

\* The client asks for its first page.
LEMMA BeginStep ==
    ASSUME InboxInv, Begin
    PROVE  InboxInv'
  <1> USE DEF Begin
  <1>1. \A u : Of(u)' = Of(u)
    BY DEF Of
  <1>2. \A r : Newer(r)' = Newer(r)
    BY <1>1 DEF Newer
  <1>3. initial' \subseteq Ids
    BY DEF InboxInv, InboxTypeOK, IdsOf, Of, Row
  <1>4. InboxTypeOK' /\ RowsInv' /\ ReadInv'
    BY <1>1, <1>3 DEF InboxInv, InboxTypeOK, RowsInv, ReadInv, IdsOf
  <1>5. PageInv'
    <2> SUFFICES ASSUME NEW r \in Of(Reader)' PROVE Cardinality(Newer(r)') >= offset'
      BY DEF PageInv
    <2>1. Cardinality(Newer(r)) \in Nat
      BY NewerType DEF InboxInv
    <2> QED
      BY <1>2, <2>1 DEF InboxInv
  <1> QED
    BY <1>4, <1>5 DEF InboxInv

\* A row the client is still to see and that its page leaves out has the rows
\* skipped and a full page before it: an order by created_at leaves no other
\* place for it (notification_postgres.go:82-84).
LEMMA PageShows ==
    ASSUME InboxInv, ~broken, DistinctTimes, NEW page \in Pages(Of(Reader), Limit, offset),
           NEW r \in Of(Reader), r.id \in initial \ seen, r \notin page
    PROVE  /\ Cardinality(page) = Limit
           /\ Cardinality(Newer(r)) >= offset + Limit
  <1>1. Cardinality(Newer(r)) >= offset
    BY DEF InboxInv, PageInv
  <1>2. InboxTypeOK /\ RowsInv /\ offset \in Nat /\ Limit \in Nat
    BY LimitAssumption DEF InboxInv, InboxTypeOK
  <1>3. page \subseteq Of(Reader) /\ Of(Reader) \subseteq rows
    BY DEF Pages, Of
  <1>4. PICK before \in SUBSET (Of(Reader) \ page) :
          LET after == (Of(Reader) \ page) \ before IN
            /\ Cardinality(before) = offset
                 \/ (Cardinality(before) < offset /\ page \cup after = {})
            /\ Cardinality(page) = Limit \/ (Cardinality(page) < Limit /\ after = {})
            /\ \A b \in before, p \in page \cup after : b.createdAt >= p.createdAt
            /\ \A p \in page, a \in after : p.createdAt >= a.createdAt
    BY DEF Pages
  <1> DEFINE after == (Of(Reader) \ page) \ before
             newer == {q \in Of(Reader) : q.createdAt > r.createdAt}
  <1>5. \A q \in Of(Reader) : q.createdAt \in Nat
    BY <1>2, <1>3, TimesAssumption DEF InboxTypeOK, Row
  <1>6. newer \in SUBSET rows /\ before \in SUBSET rows /\ page \in SUBSET rows
    BY <1>3
  <1>7. /\ IsFiniteSet(newer) /\ Cardinality(newer) = Cardinality(Newer(r))
        /\ Cardinality(newer) \in Nat
        /\ IsFiniteSet(before) /\ Cardinality(before) \in Nat
        /\ IsFiniteSet(page) /\ Cardinality(page) \in Nat
    BY <1>2, <1>6, Sizes DEF Newer
  <1>8. r \notin before
    <2> SUFFICES ASSUME r \in before PROVE FALSE
      OBVIOUS
    <2>1. newer \subseteq before \ {r}
      BY <1>4, <1>5
    <2>2. /\ IsFiniteSet(before \ {r})
          /\ Cardinality(before \ {r}) = Cardinality(before) - 1
      BY <1>7, FS_RemoveElement
    <2>3. Cardinality(newer) <= Cardinality(before \ {r})
      BY <2>1, <2>2, FS_Subset
    <2>4. Cardinality(before) <= offset
      BY <1>4, <1>2, <1>7
    <2> QED
      BY <1>1, <1>2, <1>7, <2>2, <2>3, <2>4
  <1>9. r \in after
    BY <1>8
  <1>10. Cardinality(page) = Limit /\ Cardinality(before) = offset
    BY <1>4, <1>9
  <1>11. before \cup page \subseteq newer
    <2>1. ASSUME NEW q \in before \cup page PROVE q \in newer
      <3>1. q \in Of(Reader) /\ q # r /\ q.createdAt >= r.createdAt
        BY <1>3, <1>4, <1>8, <1>9
      <3>2. q.createdAt # r.createdAt
        BY <3>1 DEF DistinctTimes
      <3> QED
        BY <3>1, <3>2, <1>5
    <2> QED
      BY <2>1
  <1>12. Cardinality(before \cup page) = offset + Limit
    <2>1. before \cap page = {}
      OBVIOUS
    <2>2. Cardinality(before \cup page) = Cardinality(before) + Cardinality(page)
      <3>1. Cardinality(before \cap page) = 0
        BY <2>1, FS_EmptySet
      <3>2. Cardinality(before \cup page)
               = Cardinality(before) + Cardinality(page) - Cardinality(before \cap page)
        BY <1>7, FS_Union
      <3> QED
        BY <3>1, <3>2, <1>7
    <2> QED
      BY <1>10, <2>2
  <1>13. Cardinality(before \cup page) <= Cardinality(newer)
    BY <1>7, <1>11, FS_Subset
  <1> QED
    BY <1>7, <1>10, <1>12, <1>13

\* The types of a page, whole or cut short.
LEMMA TakeTypes ==
    ASSUME InboxInv, NEW page \in SUBSET Of(Reader), client = "paging", Take(page),
           broken' \in BOOLEAN
    PROVE  /\ InboxTypeOK' /\ RowsInv' /\ ReadInv'
           /\ \A u : Of(u)' = Of(u)
           /\ client' # "idle"
  <1> USE DEF Take
  <1>1. \A u : Of(u)' = Of(u)
    BY DEF Of
  <1>2. IdsOf(page) \subseteq Ids
    BY DEF InboxInv, InboxTypeOK, IdsOf, Of, Row
  <1>3. offset' \in Nat
    BY LimitAssumption DEF InboxInv, InboxTypeOK
  <1>4. InboxTypeOK'
    BY <1>2, <1>3 DEF InboxInv, InboxTypeOK
  <1> QED
    BY <1>1, <1>4 DEF InboxInv, RowsInv, ReadInv, IdsOf

\* A whole page (notification_postgres.go:77-110).
LEMMA GetByUserIDStep ==
    ASSUME InboxInv, GetByUserID
    PROVE  InboxInv'
  <1>1. PICK page \in Pages(Of(Reader), Limit, offset) : Take(page)
    BY DEF GetByUserID
  <1>2. client = "paging" /\ broken' = broken /\ page \in SUBSET Of(Reader)
    BY DEF GetByUserID, Pages
  <1>3. /\ InboxTypeOK' /\ RowsInv' /\ ReadInv' /\ client' # "idle"
        /\ \A u : Of(u)' = Of(u)
    BY <1>1, <1>2, TakeTypes DEF InboxInv, InboxTypeOK
  <1>4. PageInv'
    <2> SUFFICES ASSUME ~broken, DistinctTimes'
                 PROVE  /\ \A r \in Of(Reader)' :
                              r.id \in (initial \ seen)' => Cardinality(Newer(r)') >= offset'
                        /\ client' = "done" => initial' \subseteq seen'
      BY <1>2 DEF PageInv
    <2>1. DistinctTimes
      BY <1>3 DEF DistinctTimes
    <2>2. ASSUME NEW r \in Of(Reader), r.id \in initial' \ seen'
          PROVE  Cardinality(page) = Limit /\ Cardinality(Newer(r)) >= offset + Limit
      <3>1. r.id \in initial \ seen /\ r \notin page
        BY <1>1, <2>2 DEF Take, IdsOf
      <3> QED
        BY <2>1, <3>1, PageShows
    <2>3. \A r : Newer(r)' = Newer(r)
      BY <1>3 DEF Newer
    <2>4. ASSUME client' = "done" PROVE initial' \subseteq seen'
      <3>1. Cardinality(page) < Limit
        BY <1>1, <2>4 DEF Take
      <3>2. \A r \in Of(Reader) : r.id \notin initial' \ seen'
        BY <2>2, <3>1, LimitAssumption
      <3>3. initial' \subseteq IdsOf(Of(Reader))
        BY <1>1 DEF InboxInv, RowsInv, Take
      <3> QED
        BY <3>2, <3>3 DEF IdsOf
    <2> QED
      BY <1>1, <1>3, <2>2, <2>3, <2>4 DEF Take
  <1> QED
    BY <1>3, <1>4 DEF InboxInv

\* A page cut short: no promise is left (notification_postgres.go:98-109).
LEMMA CutShortStep ==
    ASSUME InboxInv, GetByUserIDCutShort
    PROVE  InboxInv'
  <1>1. PICK part \in SUBSET Of(Reader) : Take(part)
    BY DEF GetByUserIDCutShort, Pages
  <1>2. client = "paging" /\ broken' = TRUE
    BY DEF GetByUserIDCutShort
  <1>3. InboxTypeOK' /\ RowsInv' /\ ReadInv' /\ client' # "idle"
    BY <1>1, <1>2, TakeTypes
  <1> QED
    BY <1>2, <1>3 DEF InboxInv, PageInv

(***************************************************************************)
(* The invariant that the next two follow from: what is still to be seen   *)
(* is never above the client's offset, and nothing is made unread again    *)
(* (notification_postgres.go:25-152).                                      *)
(***************************************************************************)
THEOREM InboxInductive == InboxSpec => []InboxInv
  <1>1. InboxInit => InboxInv
    <2> SUFFICES ASSUME InboxInit PROVE InboxInv
      OBVIOUS
    <2>1. Of(Reader) = {}
      BY DEF InboxInit, Of
    <2> QED
      BY <2>1 DEF InboxInit, InboxInv, InboxTypeOK, RowsInv, ReadInv, PageInv, IdsOf
  <1>2. InboxInv /\ [InboxNext]_inboxVars => InboxInv'
    <2> SUFFICES ASSUME InboxInv, [InboxNext]_inboxVars PROVE InboxInv'
      OBVIOUS
    <2>1. CASE UNCHANGED inboxVars
      <3> USE <2>1 DEF inboxVars
      <3>1. \A u : Of(u)' = Of(u)
        BY DEF Of
      <3>2. DistinctTimes' = DistinctTimes /\ \A r : Newer(r)' = Newer(r)
        BY <3>1 DEF DistinctTimes, Newer
      <3> QED
        BY <3>1, <3>2 DEF InboxInv, InboxTypeOK, RowsInv, ReadInv, PageInv
    <2> QED
      BY <2>1, StoreStep, MarkAsReadStep, MarkAllAsReadStep, BeginStep, GetByUserIDStep,
         CutShortStep DEF InboxNext
  <1> QED
    BY <1>1, <1>2, PTL DEF InboxSpec

(***************************************************************************)
(* For any page length and clocks, a client that reaches the end of the    *)
(* list has seen all it held at the start, unless a connection broke or    *)
(* timestamps are equal (notification_postgres.go:77-110).                 *)
(***************************************************************************)
THEOREM PagingShowsAll == InboxSpec => []PagingMissesNothing
  <1>1. InboxInv => PagingMissesNothing
    BY DEF InboxInv, PageInv, PagingMissesNothing
  <1> QED
    BY <1>1, InboxInductive, PTL

(***************************************************************************)
(* After MarkAllAsRead only what came later counts as unread, whatever is  *)
(* stored and marked at the same time (notification_postgres.go:133-172).  *)
(***************************************************************************)
THEOREM UnreadCameLater == InboxSpec => []UnreadAreNew
  <1>1. InboxInv => UnreadAreNew
    <2> SUFFICES ASSUME InboxInv, NEW u \in Recipients
                 PROVE  GetUnreadCount(u) <= Cardinality(IdsOf(Of(u)) \ cleared)
      BY DEF UnreadAreNew
    <2> DEFINE unread == {r \in Of(u) : ~r.read}
    <2>1. unread \in SUBSET rows /\ Of(u) \in SUBSET rows
      BY DEF Of
    <2>2. IdsOf(unread) \subseteq IdsOf(Of(u)) \ cleared
      BY <2>1 DEF InboxInv, ReadInv, IdsOf, Of
    <2>3. Cardinality(unread) = Cardinality(IdsOf(unread))
      BY <2>1, Sizes DEF InboxInv
    <2>4. IsFiniteSet(IdsOf(Of(u)) \ cleared)
      BY <2>1, Sizes, FS_Subset DEF InboxInv
    <2> QED
      BY <2>2, <2>3, <2>4, FS_Subset DEF GetUnreadCount
  <1> QED
    BY <1>1, InboxInductive, PTL
=============================================================================
