----------------------------- MODULE HttpProofs -----------------------------
(* Theorems about what the HTTP layer answers.  Of SignIn: a session is one  *)
(* person's consent used once, and an address taken off the allowlist is     *)
(* admitted for one session's life at most, for any number of people,        *)
(* callbacks, requests, challenges, codes and sessions, and any lifetimes.   *)
(* Of Listing: a listing is complete, ordered and honest, for all names,     *)
(* prefixes and page sizes.                                                  *)
EXTENDS Integers, SignIn, Listing, FiniteSetTheorems, WellFoundedInduction, TLAPS

-----------------------------------------------------------------------------
(* Sign-in. *)

(* The phases of a callback that has consumed its challenge, of one that has *)
(* exchanged its code as well, and of one that has compared the nonce.       *)
Verified == {"profile", "session"}
Exchanged == {"verify"} \cup Verified
Consumed == {"exchange"} \cup Exchanged

(* A callback at work carries a code and a state, and so does what it made. *)
CarriesBoth ==
  /\ \A h \in Callbacks : cb[h].pc # "idle" => cb[h].code \in Codes /\ cb[h].c \in Challenges
  /\ \A s \in Sessions : made[s] # Unmade => made[s].code \in Codes /\ made[s].c \in Challenges

(* Who has consumed a challenge is alone with it. *)
ConsumedAlone ==
  \A h \in Callbacks : cb[h].pc \in Consumed =>
    /\ challenges[cb[h].c] = 0
    /\ \A s \in Sessions : made[s].c # cb[h].c
    /\ \A g \in Callbacks : cb[g].pc \in Consumed /\ cb[g].c = cb[h].c => g = h

(* Who has exchanged a code is alone with it, and knows whose it is. *)
ExchangedAlone ==
  \A h \in Callbacks : cb[h].pc \in Exchanged =>
    /\ codes[cb[h].code].used /\ codes[cb[h].code].user = cb[h].sub
    /\ \A s \in Sessions : made[s].code # cb[h].code
    /\ \A g \in Callbacks : cb[g].pc \in Exchanged /\ cb[g].code = cb[h].code => g = h

(* Who has compared the nonce carries a code that was granted for its state. *)
NonceCompared == \A h \in Callbacks : cb[h].pc \in Verified => codes[cb[h].code].c = cb[h].c

(* A session belongs to an address on the allowlist, or ends within a        *)
(* session's life after the address left it.                                 *)
Stays(u, end) == u \in allowlist \/ (removed[u] # None /\ end <= removed[u] + SessionTTL)

SessionsEnd ==
  /\ \A h \in Callbacks : cb[h].pc = "session" => cb[h].sub \in allowlist
  /\ \A s \in Sessions : sessions[s] # NoSession =>
       sessions[s].email \in Users /\ Stays(sessions[s].email, sessions[s].expires)

Consent == CarriesBoth /\ ConsumedAlone /\ ExchangedAlone /\ NonceCompared /\ SessionFollowsConsent


USE BoundsAssumption, NoneAssumption DEF At, Time, Challenges, Codes, Sessions

(* The type invariant, table by table. *)
ConfigOK == now \in Time /\ allowlist \subseteq Users /\ removed \in [Users -> Time \cup {None}]
ChallengesOK ==
  /\ drawn \in 0..MaxChallenges
  /\ challenges \in [Challenges -> 0..(MaxClock + ChallengeLife)]
  /\ \A c \in Challenges : c > drawn => challenges[c] = 0
CodeRows(d) == [user : Users \cup {None}, c : 0..d, used : BOOLEAN]
CodesOK == codes \in [Codes -> CodeRows(drawn)]
SessionRows == [email : Users \cup {None}, expires : 0..(MaxClock + SessionTTL)]
SessionsOK == sessions \in [Sessions -> SessionRows]
              /\ \A s \in Sessions : sessions[s].expires <= now + SessionTTL
CallbackRows(d) == [pc : {"idle", "consume", "exchange", "verify", "profile", "session"},
                    code : 0..MaxCodes, c : 0..d, sub : Users \cup {None}]
CallbacksOK == cb \in [Callbacks -> CallbackRows(drawn)]
RequestRows == [pc : {"idle", "act", "drop"}, s : 0..MaxSessions]
RequestsOK == req \in [Requests -> RequestRows]
MadeRows(d) == [email : Users \cup {None}, code : 0..MaxCodes, c : 0..d]
MadeOK == made \in [Sessions -> MadeRows(drawn)]

Types == ConfigOK /\ ChallengesOK /\ CodesOK /\ SessionsOK /\ CallbacksOK /\ RequestsOK /\ MadeOK

LEMMA TypeOKParts == TypeOK <=> Types
  BY DEF TypeOK, Types, ConfigOK, ChallengesOK, CodesOK, CodeRows, SessionsOK, SessionRows, CallbacksOK,
         CallbackRows, RequestsOK, RequestRows, MadeOK, MadeRows

(* Rows stay typed when one more challenge is drawn. *)
LEMMA RowsGrow ==
  ASSUME NEW d \in Nat
  PROVE  /\ CodeRows(d) \subseteq CodeRows(d + 1) /\ CallbackRows(d) \subseteq CallbackRows(d + 1)
         /\ MadeRows(d) \subseteq MadeRows(d + 1)
<1>1. CodeRows(d) \subseteq CodeRows(d + 1)
  BY DEF CodeRows
<1>2. CallbackRows(d) \subseteq CallbackRows(d + 1)
  BY DEF CallbackRows
<1>3. MadeRows(d) \subseteq MadeRows(d + 1)
  BY DEF MadeRows
<1> QED BY <1>1, <1>2, <1>3

(* What a callback writes to its own locals is typed if the new value is. *)
LEMMA CallbackTyped ==
  ASSUME CallbacksOK, UNCHANGED drawn, NEW h \in Callbacks, NEW l \in CallbackRows(drawn),
         cb' = [cb EXCEPT ![h] = l]
  PROVE  CallbacksOK'
  BY DEF CallbacksOK

LEMMA GotoTyped ==
  ASSUME CallbacksOK, UNCHANGED drawn, NEW h \in Callbacks,
         NEW p \in {"idle", "consume", "exchange", "verify", "profile", "session"}, Goto(h, p)
  PROVE  CallbacksOK'
  BY DEF CallbacksOK, CallbackRows, Goto

LEMMA RestTyped ==
  ASSUME CallbacksOK, ChallengesOK, UNCHANGED drawn, NEW h \in Callbacks, FailRedirect(h)
  PROVE  CallbacksOK'
<1>1. Resting \in CallbackRows(drawn)
  BY DEF Resting, CallbackRows, ChallengesOK
<1> QED BY <1>1, CallbackTyped DEF FailRedirect

(* Every step keeps the types, and the expiry of a session within its life   *)
(* from now.                                                                 *)
LEMMA StepTypes == Types /\ CarriesBoth /\ [Next]_vars => Types'
<1> SUFFICES ASSUME Types, CarriesBoth, [Next]_vars PROVE Types'
  OBVIOUS
<1> USE DEF Types
<1>1. CASE SaveOIDCChallenge
  <2>1. ConfigOK' /\ SessionsOK' /\ RequestsOK'
    BY <1>1 DEF SaveOIDCChallenge, ConfigOK, SessionsOK, RequestsOK
  <2>2. ChallengesOK'
    BY <1>1 DEF SaveOIDCChallenge, ChallengesOK, ConfigOK
  <2>3. CodesOK' /\ CallbacksOK' /\ MadeOK'
    BY <1>1, RowsGrow DEF SaveOIDCChallenge, ChallengesOK, CodesOK, CallbacksOK, MadeOK
  <2> QED BY <2>1, <2>2, <2>3
<1>2. CASE Tick
  <2>1. ConfigOK' /\ SessionsOK'
    BY <1>2 DEF Tick, ConfigOK, SessionsOK, SessionRows
  <2>2. ChallengesOK' /\ CodesOK' /\ CallbacksOK' /\ RequestsOK' /\ MadeOK'
    BY <1>2 DEF Tick, ChallengesOK, CodesOK, CallbacksOK, RequestsOK, MadeOK
  <2> QED BY <2>1, <2>2
<1>3. ASSUME NEW u \in Users, NEW c \in Challenges, NEW n \in Codes, Grant(u, c, n) PROVE Types'
  <2>1. ConfigOK' /\ ChallengesOK' /\ SessionsOK' /\ CallbacksOK' /\ RequestsOK' /\ MadeOK'
    BY <1>3 DEF Grant, ConfigOK, ChallengesOK, SessionsOK, CallbacksOK, RequestsOK, MadeOK
  <2>2. CodesOK'
    BY <1>3 DEF Grant, CodesOK, CodeRows, ChallengesOK
  <2> QED BY <2>1, <2>2
<1>4. ASSUME NEW h \in Callbacks, NEW n \in Codes, NEW c \in Challenges, CallbackStart(h, n, c) PROVE Types'
  <2>1. ConfigOK' /\ ChallengesOK' /\ CodesOK' /\ SessionsOK' /\ RequestsOK' /\ MadeOK'
    BY <1>4 DEF CallbackStart, ConfigOK, ChallengesOK, CodesOK, SessionsOK, RequestsOK, MadeOK
  <2>2. [pc |-> "consume", code |-> n, c |-> c, sub |-> None] \in CallbackRows(drawn)
    BY <1>4 DEF CallbackStart, CallbackRows, ChallengesOK
  <2>3. CallbacksOK'
    BY <1>4, <2>2, CallbackTyped DEF CallbackStart
  <2> QED BY <2>1, <2>2, <2>3
<1>5. ASSUME NEW h \in Callbacks, ConsumeOIDCChallenge(h) PROVE Types'
  <2>1. ConfigOK' /\ CodesOK' /\ SessionsOK' /\ RequestsOK' /\ MadeOK'
    BY <1>5 DEF ConsumeOIDCChallenge, ConfigOK, CodesOK, SessionsOK, RequestsOK, MadeOK
  <2>2. ChallengesOK'
    <3>1. 0 \in 0..(MaxClock + ChallengeLife)
      OBVIOUS
    <3>2. challenges' = challenges \/ challenges' = [challenges EXCEPT ![cb[h].c] = 0]
      BY <1>5 DEF ConsumeOIDCChallenge
    <3>3. drawn' = drawn
      BY <1>5 DEF ConsumeOIDCChallenge
    <3> QED BY <3>1, <3>2, <3>3 DEF ChallengesOK
  <2>3. CallbacksOK'
    BY <1>5, GotoTyped, RestTyped DEF ConsumeOIDCChallenge
  <2> QED BY <2>1, <2>2, <2>3
<1>6. ASSUME NEW h \in Callbacks, ExchangeCode(h) PROVE Types'
  <2>1. ConfigOK' /\ ChallengesOK' /\ SessionsOK' /\ RequestsOK' /\ MadeOK'
    BY <1>6 DEF ExchangeCode, ConfigOK, ChallengesOK, SessionsOK, RequestsOK, MadeOK
  <2>2. CodesOK'
    BY <1>6 DEF ExchangeCode, CodesOK, CodeRows
  <2>3. CASE FailRedirect(h)
    <3>1. CallbacksOK'
      BY <1>6, <2>3, RestTyped DEF ExchangeCode
    <3> QED BY <2>1, <2>2, <3>1
  <2>4. CASE cb' = [cb EXCEPT ![h].pc = "verify", ![h].sub = codes[cb[h].code].user]
    <3>1. cb[h].code \in Codes => codes[cb[h].code].user \in Users \cup {None}
      BY DEF CodesOK, CodeRows
    <3>2. cb[h].code \in Codes
      BY <1>6 DEF ExchangeCode, CarriesBoth
    <3>3. CallbacksOK'
      BY <1>6, <2>4, <3>1, <3>2 DEF ExchangeCode, CallbacksOK, CallbackRows
    <3> QED BY <2>1, <2>2, <3>3
  <2> QED BY <1>6, <2>3, <2>4 DEF ExchangeCode
<1>7. ASSUME NEW h \in Callbacks, VerifyIDToken(h) PROVE Types'
  <2>1. ConfigOK' /\ ChallengesOK' /\ CodesOK' /\ SessionsOK' /\ RequestsOK' /\ MadeOK'
    BY <1>7 DEF VerifyIDToken, ConfigOK, ChallengesOK, CodesOK, SessionsOK, RequestsOK, MadeOK
  <2>2. CallbacksOK'
    BY <1>7, GotoTyped, RestTyped DEF VerifyIDToken
  <2> QED BY <2>1, <2>2
<1>8. ASSUME NEW h \in Callbacks, Fail(h) PROVE Types'
  <2>1. ConfigOK' /\ ChallengesOK' /\ CodesOK' /\ SessionsOK' /\ RequestsOK' /\ MadeOK'
    BY <1>8 DEF Fail, ConfigOK, ChallengesOK, CodesOK, SessionsOK, RequestsOK, MadeOK
  <2>2. CallbacksOK'
    BY <1>8, GotoTyped, RestTyped DEF Fail
  <2> QED BY <2>1, <2>2
<1>9. ASSUME NEW h \in Callbacks, NEW u \in Users, UserInfo(h, u) PROVE Types'
  <2>1. ConfigOK' /\ ChallengesOK' /\ CodesOK' /\ SessionsOK' /\ RequestsOK' /\ MadeOK'
    BY <1>9 DEF UserInfo, ConfigOK, ChallengesOK, CodesOK, SessionsOK, RequestsOK, MadeOK
  <2>2. CallbacksOK'
    BY <1>9, GotoTyped, RestTyped DEF UserInfo
  <2> QED BY <2>1, <2>2
<1>10. ASSUME NEW h \in Callbacks, NEW s \in Sessions, CreateAdminSession(h, s) PROVE Types'
  <2>1. ConfigOK' /\ ChallengesOK' /\ CodesOK' /\ RequestsOK'
    BY <1>10 DEF CreateAdminSession, ConfigOK, ChallengesOK, CodesOK, RequestsOK
  <2>2. CallbacksOK'
    BY <1>10, RestTyped DEF CreateAdminSession
  <2>3. cb[h] \in CallbackRows(drawn)
    BY DEF CallbacksOK
  <2>4. [email |-> cb[h].sub, expires |-> now + SessionTTL] \in SessionRows
    BY <2>3 DEF CallbackRows, SessionRows, ConfigOK
  <2>5. SessionsOK'
    BY <1>10, <2>4 DEF CreateAdminSession, SessionsOK, ConfigOK
  <2>6. MadeOK'
    BY <1>10, <2>3 DEF CreateAdminSession, MadeOK, MadeRows, CallbackRows
  <2> QED BY <2>1, <2>2, <2>3, <2>4, <2>5, <2>6
<1>11. ASSUME NEW r \in Requests, NEW s \in Sessions, AdminSession(r, s) PROVE Types'
  <2>1. ConfigOK' /\ ChallengesOK' /\ CodesOK' /\ SessionsOK' /\ CallbacksOK' /\ MadeOK'
    BY <1>11 DEF AdminSession, ConfigOK, ChallengesOK, CodesOK, SessionsOK, CallbacksOK, MadeOK
  <2>2. RequestsOK'
    BY <1>11 DEF AdminSession, RequestsOK, RequestRows
  <2> QED BY <2>1, <2>2
<1>12. ASSUME NEW r \in Requests, DropExpired(r) PROVE Types'
  <2>1. ConfigOK' /\ ChallengesOK' /\ CodesOK' /\ CallbacksOK' /\ MadeOK'
    BY <1>12 DEF DropExpired, ConfigOK, ChallengesOK, CodesOK, CallbacksOK, MadeOK
  <2>2. RequestsOK'
    BY <1>12 DEF DropExpired, RequestsOK, RequestRows, Waiting
  <2>3. NoSession \in SessionRows /\ NoSession.expires = 0
    BY DEF NoSession, SessionRows
  <2>4. sessions' = [sessions EXCEPT ![req[r].s] = NoSession] /\ now' = now
    BY <1>12 DEF DropExpired
  <2>5. \A t \in Sessions : sessions'[t] = NoSession \/ sessions'[t] = sessions[t]
    BY <2>4 DEF SessionsOK
  <2>6. sessions' \in [Sessions -> SessionRows]
    BY <2>3, <2>4 DEF SessionsOK
  <2>7. \A t \in Sessions : sessions'[t].expires <= now' + SessionTTL
    BY <2>3, <2>4, <2>5 DEF SessionsOK, ConfigOK
  <2>8. SessionsOK'
    BY <2>6, <2>7 DEF SessionsOK
  <2> QED BY <2>1, <2>2, <2>8
<1>13. ASSUME NEW r \in Requests, Answer(r) PROVE Types'
  <2>1. ConfigOK' /\ ChallengesOK' /\ CodesOK' /\ SessionsOK' /\ CallbacksOK' /\ MadeOK'
    BY <1>13 DEF Answer, ConfigOK, ChallengesOK, CodesOK, SessionsOK, CallbacksOK, MadeOK
  <2>2. RequestsOK'
    BY <1>13 DEF Answer, RequestsOK, RequestRows, Waiting
  <2> QED BY <2>1, <2>2
<1>14. ASSUME NEW s \in Sessions, DeleteAdminSession(s) PROVE Types'
  <2>1. ConfigOK' /\ ChallengesOK' /\ CodesOK' /\ CallbacksOK' /\ RequestsOK' /\ MadeOK'
    BY <1>14 DEF DeleteAdminSession, ConfigOK, ChallengesOK, CodesOK, CallbacksOK, RequestsOK, MadeOK
  <2>2. NoSession \in SessionRows /\ NoSession.expires = 0
    BY DEF NoSession, SessionRows
  <2>3. SessionsOK'
    BY <1>14, <2>2 DEF DeleteAdminSession, SessionsOK, ConfigOK
  <2> QED BY <2>1, <2>2, <2>3
<1>15. ASSUME NEW emails \in SUBSET Users, Restart(emails) PROVE Types'
  <2>1. ChallengesOK' /\ CodesOK' /\ SessionsOK' /\ MadeOK'
    BY <1>15 DEF Restart, ChallengesOK, CodesOK, SessionsOK, MadeOK
  <2>2. ConfigOK'
    BY <1>15 DEF Restart, ConfigOK
  <2>3. CallbacksOK'
    BY <1>15 DEF Restart, CallbacksOK, CallbackRows, Resting, ChallengesOK
  <2>4. RequestsOK'
    BY <1>15 DEF Restart, RequestsOK, RequestRows, Waiting
  <2> QED BY <2>1, <2>2, <2>3, <2>4
<1>16. CASE UNCHANGED vars
  BY <1>16 DEF vars, ConfigOK, ChallengesOK, CodesOK, SessionsOK, CallbacksOK, RequestsOK, MadeOK
<1> QED
  BY <1>1, <1>2, <1>3, <1>4, <1>5, <1>6, <1>7, <1>8, <1>9, <1>10, <1>11, <1>12, <1>13, <1>14, <1>15, <1>16 DEF Next

(* What is kept of consent while the rows stay: a callback may rest, *)
LEMMA RestKeeps ==
  ASSUME Types, Consent, UNCHANGED <<challenges, codes, sessions, made>>,
         NEW h \in Callbacks, FailRedirect(h)
  PROVE  Consent'
<1>1. \A g \in Callbacks : cb'[g] = (IF g = h THEN Resting ELSE cb[g])
  BY DEF FailRedirect, Types, CallbacksOK
<1>2. Resting.pc = "idle"
  BY DEF Resting
<1>3. CarriesBoth' /\ SessionFollowsConsent'
  BY <1>1, <1>2 DEF Consent, CarriesBoth, SessionFollowsConsent
<1>4. ConsumedAlone' /\ ExchangedAlone' /\ NonceCompared'
  BY <1>1, <1>2 DEF Consent, ConsumedAlone, ExchangedAlone, NonceCompared, Consumed, Exchanged, Verified
<1> QED BY <1>3, <1>4 DEF Consent

(* and may go on where that takes no more than it has. *)
LEMMA GotoKeeps ==
  ASSUME Types, Consent, UNCHANGED <<challenges, codes, sessions, made>>,
         NEW h \in Callbacks, NEW p \in Verified, Goto(h, p), cb[h].pc \in Exchanged,
         codes[cb[h].code].c = cb[h].c
  PROVE  Consent'
<1>1. \A g \in Callbacks : /\ cb'[g].pc = (IF g = h THEN p ELSE cb[g].pc)
                           /\ cb'[g].code = cb[g].code /\ cb'[g].c = cb[g].c /\ cb'[g].sub = cb[g].sub
  BY DEF Goto, Types, CallbacksOK, CallbackRows
<1>2. CarriesBoth' /\ SessionFollowsConsent'
  BY <1>1 DEF Consent, CarriesBoth, SessionFollowsConsent, Exchanged, Verified
<1>3. ConsumedAlone'
  BY <1>1 DEF Consent, ConsumedAlone, Consumed, Exchanged, Verified
<1>4. ExchangedAlone' /\ NonceCompared'
  BY <1>1 DEF Consent, ExchangedAlone, NonceCompared, Exchanged, Verified
<1> QED BY <1>2, <1>3, <1>4 DEF Consent

(* A code that is taken only becomes used. *)
LEMMA UsedRow ==
  ASSUME NEW row \in CodeRows(drawn)
  PROVE  LET new == [row EXCEPT !.used = TRUE]
         IN  new.used = TRUE /\ new.user = row.user /\ new.c = row.c /\ (row.used => new = row)
<1> DEFINE new == [row EXCEPT !.used = TRUE]
<1>1. new.used = TRUE /\ new.user = row.user /\ new.c = row.c
  BY DEF CodeRows
<1>2. ASSUME row.used PROVE new = row
  <2>1. row.used = TRUE
    BY <1>2 DEF CodeRows
  <2> QED BY <2>1 DEF CodeRows
<1> QED BY <1>1, <1>2

(* Every step keeps it. *)
LEMMA StepConsent == Types /\ Consent /\ [Next]_vars => Consent'
<1> SUFFICES ASSUME Types, Consent, [Next]_vars PROVE Consent'
  OBVIOUS
<1> DEFINE Tables == <<challenges, codes, sessions, made>>
<1>1. CASE SaveOIDCChallenge
  <2>1. \A c \in Challenges : c <= drawn => challenges'[c] = challenges[c]
    BY <1>1 DEF SaveOIDCChallenge, Types, ChallengesOK
  <2>2. UNCHANGED <<codes, sessions, made, cb>>
    BY <1>1 DEF SaveOIDCChallenge
  <2>3. /\ \A h \in Callbacks : cb[h].c <= drawn
        /\ \A s \in Sessions : made[s].c <= drawn
    BY DEF Types, ChallengesOK, CallbacksOK, CallbackRows, MadeOK, MadeRows
  <2>4. CarriesBoth' /\ ExchangedAlone' /\ NonceCompared'
    BY <2>2 DEF Consent, CarriesBoth, ExchangedAlone, NonceCompared
  <2>5. ConsumedAlone'
    BY <2>1, <2>2, <2>3 DEF Consent, CarriesBoth, ConsumedAlone, Consumed, Exchanged, Verified
  <2>6. SessionFollowsConsent'
    BY <2>1, <2>2, <2>3 DEF Consent, CarriesBoth, SessionFollowsConsent
  <2> QED BY <2>4, <2>5, <2>6 DEF Consent
<1>2. ASSUME NEW u \in Users, NEW c \in Challenges, NEW n \in Codes, Grant(u, c, n) PROVE Consent'
  <2>1. codes[n] = NoCode /\ UNCHANGED <<challenges, sessions, made, cb>>
    BY <1>2 DEF Grant
  <2>2. \A m \in Codes : codes[m].used => codes'[m] = codes[m]
    BY <1>2 DEF Grant, NoCode, Types, CodesOK
  <2>3. CarriesBoth' /\ ConsumedAlone'
    BY <2>1 DEF Consent, CarriesBoth, ConsumedAlone
  <2>4. ExchangedAlone' /\ NonceCompared'
    BY <2>1, <2>2 DEF Consent, CarriesBoth, ExchangedAlone, NonceCompared, Exchanged, Verified
  <2>5. SessionFollowsConsent'
    BY <2>1, <2>2 DEF Consent, CarriesBoth, SessionFollowsConsent
  <2> QED BY <2>3, <2>4, <2>5 DEF Consent
<1>3. ASSUME NEW h \in Callbacks, NEW n \in Codes, NEW c \in Challenges, CallbackStart(h, n, c)
      PROVE  Consent'
  <2> DEFINE l == [pc |-> "consume", code |-> n, c |-> c, sub |-> None]
  <2>1. UNCHANGED Tables
    BY <1>3 DEF CallbackStart
  <2>2. \A g \in Callbacks : cb'[g] = (IF g = h THEN l ELSE cb[g])
    BY <1>3 DEF CallbackStart, Types, CallbacksOK
  <2>3. l.pc = "consume" /\ l.code \in Codes /\ l.c \in Challenges
    OBVIOUS
  <2> HIDE DEF l
  <2>4. CarriesBoth' /\ SessionFollowsConsent'
    BY <2>1, <2>2, <2>3 DEF Consent, CarriesBoth, SessionFollowsConsent
  <2>5. ConsumedAlone' /\ ExchangedAlone' /\ NonceCompared'
    BY <2>1, <2>2, <2>3 DEF Consent, ConsumedAlone, ExchangedAlone, NonceCompared, Consumed, Exchanged, Verified
  <2> QED BY <2>4, <2>5 DEF Consent
<1>4. ASSUME NEW h \in Callbacks, ConsumeOIDCChallenge(h) PROVE Consent'
  <2>1. CASE ~Valid(cb[h].c)
    BY <1>4, <2>1, RestKeeps DEF ConsumeOIDCChallenge
  <2>2. CASE Valid(cb[h].c)
    <3>1. /\ UNCHANGED <<codes, sessions, made>> /\ cb[h].pc = "consume"
          /\ challenges[cb[h].c] # 0 /\ cb[h].c \in Challenges
      BY <1>4, <2>2 DEF ConsumeOIDCChallenge, Valid, Consent, CarriesBoth
    <3>2. \A c \in Challenges : challenges'[c] = (IF c = cb[h].c THEN 0 ELSE challenges[c])
      BY <1>4, <2>2 DEF ConsumeOIDCChallenge, Types, ChallengesOK
    <3>3. \A g \in Callbacks : /\ cb'[g].pc = (IF g = h THEN "exchange" ELSE cb[g].pc)
                               /\ cb'[g].code = cb[g].code /\ cb'[g].c = cb[g].c /\ cb'[g].sub = cb[g].sub
      BY <1>4, <2>2 DEF ConsumeOIDCChallenge, Goto, Types, CallbacksOK, CallbackRows
    <3>4. \A s \in Sessions : made[s].c # cb[h].c
      <4>1. \A s \in Sessions : made[s] # Unmade => challenges[made[s].c] = 0
        BY DEF Consent, SessionFollowsConsent
      <4>2. Unmade.c = 0
        BY DEF Unmade
      <4> QED BY <3>1, <4>1, <4>2
    <3>5. CarriesBoth'
      BY <3>1, <3>3 DEF Consent, CarriesBoth
    <3>6. ConsumedAlone'
      BY <3>1, <3>2, <3>3, <3>4 DEF Consent, CarriesBoth, ConsumedAlone, Consumed, Exchanged, Verified
    <3>7. ExchangedAlone' /\ NonceCompared'
      BY <3>1, <3>3 DEF Consent, ExchangedAlone, NonceCompared, Exchanged, Verified
    <3>8. SessionFollowsConsent'
      BY <3>1, <3>2 DEF Consent, CarriesBoth, SessionFollowsConsent
    <3> QED BY <3>5, <3>6, <3>7, <3>8 DEF Consent
  <2> QED BY <2>1, <2>2
<1>5. ASSUME NEW h \in Callbacks, ExchangeCode(h) PROVE Consent'
  <2> DEFINE n == cb[h].code
  <2>1. /\ UNCHANGED <<challenges, sessions, made>> /\ cb[h].pc = "exchange"
        /\ n \in Codes
    BY <1>5 DEF ExchangeCode, Consent, CarriesBoth
  <2>2. codes' = [codes EXCEPT ![n].used = TRUE]
    BY <1>5 DEF ExchangeCode
  <2>3. \A m \in Codes : m # n => codes'[m] = codes[m]
    BY <2>2 DEF Types, CodesOK
  <2>4. /\ codes'[n].used = TRUE /\ codes'[n].user = codes[n].user /\ codes'[n].c = codes[n].c
        /\ codes[n].used => codes'[n] = codes[n]
    <3>1. codes[n] \in CodeRows(drawn) /\ codes'[n] = [codes[n] EXCEPT !.used = TRUE]
      BY <2>1, <2>2 DEF Types, CodesOK
    <3> QED BY <3>1, UsedRow
  <2>5. CASE codes[n].used
    <3>1. UNCHANGED codes
      BY <2>2, <2>3, <2>4, <2>5 DEF Types, CodesOK
    <3> QED BY <1>5, <2>1, <2>5, <3>1, RestKeeps DEF ExchangeCode
  <2>6. CASE ~codes[n].used
    <3>1. \A g \in Callbacks : /\ cb'[g].pc = (IF g = h THEN "verify" ELSE cb[g].pc)
                               /\ cb'[g].code = cb[g].code /\ cb'[g].c = cb[g].c
                               /\ cb'[g].sub = (IF g = h THEN codes[n].user ELSE cb[g].sub)
      BY <1>5, <2>6 DEF ExchangeCode, Types, CallbacksOK, CallbackRows
    <3>2. \A s \in Sessions : made[s].code # n
      <4>1. \A s \in Sessions : made[s] # Unmade => codes[made[s].code].used
        <5> SUFFICES ASSUME NEW s \in Sessions, made[s] # Unmade PROVE codes[made[s].code].used
          OBVIOUS
        <5>1. codes[made[s].code] = [user |-> made[s].email, c |-> made[s].c, used |-> TRUE]
          BY DEF Consent, SessionFollowsConsent
        <5> QED BY <5>1
      <4>2. Unmade.code = 0
        BY DEF Unmade
      <4> QED BY <2>1, <2>6, <4>1, <4>2
    <3>3. CarriesBoth'
      BY <2>1, <3>1 DEF Consent, CarriesBoth
    <3>4. ConsumedAlone'
      BY <2>1, <3>1 DEF Consent, ConsumedAlone, Consumed, Exchanged, Verified
    <3>5. ExchangedAlone'
      BY <2>1, <2>3, <2>4, <2>6, <3>1, <3>2 DEF Consent, CarriesBoth, ExchangedAlone, Exchanged, Verified
    <3>6. NonceCompared'
      BY <2>1, <2>3, <2>4, <3>1 DEF Consent, CarriesBoth, NonceCompared, Verified
    <3>7. SessionFollowsConsent'
      BY <2>1, <2>3, <2>4 DEF Consent, CarriesBoth, SessionFollowsConsent
    <3> QED BY <3>3, <3>4, <3>5, <3>6, <3>7 DEF Consent
  <2> QED BY <2>5, <2>6
<1>6. ASSUME NEW h \in Callbacks, VerifyIDToken(h) PROVE Consent'
  BY <1>6, RestKeeps, GotoKeeps DEF VerifyIDToken, Exchanged, Verified
<1>7. ASSUME NEW h \in Callbacks, Fail(h) PROVE Consent'
  BY <1>7, RestKeeps DEF Fail
<1>8. ASSUME NEW h \in Callbacks, NEW u \in Users, UserInfo(h, u) PROVE Consent'
  <2>1. cb[h].pc = "profile" /\ UNCHANGED Tables /\ (FailRedirect(h) \/ Goto(h, "session"))
    BY <1>8 DEF UserInfo
  <2>2. codes[cb[h].code].c = cb[h].c
    BY <2>1 DEF Consent, NonceCompared, Verified
  <2> QED BY <2>1, <2>2, RestKeeps, GotoKeeps DEF Exchanged, Verified
<1>9. ASSUME NEW h \in Callbacks, NEW s \in Sessions, CreateAdminSession(h, s) PROVE Consent'
  <2> DEFINE m == [email |-> cb[h].sub, code |-> cb[h].code, c |-> cb[h].c]
             e == [email |-> cb[h].sub, expires |-> now + SessionTTL]
  <2>1. /\ UNCHANGED <<challenges, codes>> /\ cb[h].pc = "session"
        /\ cb[h].code \in Codes /\ cb[h].c \in Challenges
    BY <1>9 DEF CreateAdminSession, Consent, CarriesBoth
  <2>2. \A t \in Sessions : /\ made'[t] = (IF t = s THEN m ELSE made[t])
                            /\ sessions'[t] = (IF t = s THEN e ELSE sessions[t])
    BY <1>9 DEF CreateAdminSession, Types, MadeOK, SessionsOK
  <2>3. \A g \in Callbacks : cb'[g] = (IF g = h THEN Resting ELSE cb[g])
    BY <1>9 DEF CreateAdminSession, FailRedirect, Types, CallbacksOK
  <2>4. m.email = cb[h].sub /\ m.code = cb[h].code /\ m.c = cb[h].c /\ e.email = cb[h].sub
        /\ Resting.pc = "idle"
    BY DEF Resting
  <2>5. codes[cb[h].code] = [user |-> cb[h].sub, c |-> cb[h].c, used |-> TRUE]
    BY <2>1 DEF Consent, ExchangedAlone, NonceCompared, Exchanged, Verified, Types, CodesOK, CodeRows
  <2>6. /\ challenges[cb[h].c] = 0
        /\ \A t \in Sessions : made[t].code # cb[h].code /\ made[t].c # cb[h].c
        /\ \A g \in Callbacks : g # h => /\ cb[g].pc \in Exchanged => cb[g].code # cb[h].code
                                         /\ cb[g].pc \in Consumed => cb[g].c # cb[h].c
    BY <2>1 DEF Consent, ConsumedAlone, ExchangedAlone, Consumed, Exchanged, Verified
  <2> HIDE DEF m, e
  <2>7. CarriesBoth'
    BY <2>1, <2>2, <2>3, <2>4 DEF Consent, CarriesBoth
  <2>8. ConsumedAlone'
    BY <2>1, <2>2, <2>3, <2>4, <2>6 DEF Consent, ConsumedAlone, Consumed, Exchanged, Verified
  <2>9. ExchangedAlone' /\ NonceCompared'
    BY <2>1, <2>2, <2>3, <2>4, <2>6 DEF Consent, ExchangedAlone, NonceCompared, Exchanged, Verified
  <2>10. SessionFollowsConsent'
    <3>1. ASSUME NEW t \in Sessions, t # s, made'[t] # Unmade
          PROVE  /\ codes[made[t].code] = [user |-> made[t].email, c |-> made[t].c, used |-> TRUE]
                 /\ challenges[made[t].c] = 0 /\ sessions[t].email \in {made[t].email, None}
                 /\ \A q \in Sessions : made[q].code = made[t].code \/ made[q].c = made[t].c => q = t
      BY <2>2, <3>1 DEF Consent, SessionFollowsConsent
    <3>2. ASSUME NEW t \in Sessions, t # s, made'[t] # Unmade, NEW q \in Sessions,
                 made'[q].code = made'[t].code \/ made'[q].c = made'[t].c
          PROVE  q = t
      <4>1. made'[t] = made[t]
        BY <2>2, <3>2
      <4>2. CASE q = s
        BY <2>2, <2>4, <2>6, <3>2, <4>1, <4>2
      <4>3. CASE q # s
        BY <2>2, <3>1, <3>2, <4>1, <4>3
      <4> QED BY <4>2, <4>3
    <3>3. ASSUME NEW q \in Sessions, made'[q].code = m.code \/ made'[q].c = m.c PROVE q = s
      BY <2>2, <2>4, <2>6, <3>3
    <3>4. codes[m.code] = [user |-> m.email, c |-> m.c, used |-> TRUE] /\ challenges[m.c] = 0
          /\ e.email \in {m.email, None}
      BY <2>4, <2>5, <2>6
    <3> SUFFICES ASSUME NEW t \in Sessions, made'[t] # Unmade
                 PROVE  /\ codes[made'[t].code] = [user |-> made'[t].email, c |-> made'[t].c, used |-> TRUE]
                        /\ challenges[made'[t].c] = 0
                        /\ sessions'[t].email \in {made'[t].email, None}
                        /\ \A q \in Sessions : made'[q].code = made'[t].code \/ made'[q].c = made'[t].c => q = t
      BY <2>1 DEF SessionFollowsConsent
    <3>5. CASE t = s
      BY <2>2, <3>3, <3>4, <3>5
    <3>6. CASE t # s
      <4>1. made'[t] = made[t] /\ sessions'[t] = sessions[t]
        BY <2>2, <3>6
      <4> QED BY <3>1, <3>2, <3>6, <4>1
    <3> QED BY <3>5, <3>6
  <2> QED BY <2>7, <2>8, <2>9, <2>10 DEF Consent
<1>10. ASSUME UNCHANGED <<challenges, codes, made, cb>>,
              \A s \in Sessions : sessions'[s] = sessions[s] \/ sessions'[s] = NoSession
       PROVE  Consent'
  <2>1. CarriesBoth' /\ ConsumedAlone' /\ ExchangedAlone' /\ NonceCompared'
    BY <1>10 DEF Consent, CarriesBoth, ConsumedAlone, ExchangedAlone, NonceCompared
  <2>2. NoSession.email = None
    BY DEF NoSession
  <2>3. SessionFollowsConsent'
    BY <1>10, <2>2 DEF Consent, SessionFollowsConsent
  <2> QED BY <2>1, <2>3 DEF Consent
<1>11. ASSUME NEW r \in Requests, NEW s \in Sessions, AdminSession(r, s) PROVE Consent'
  BY <1>10, <1>11 DEF AdminSession
<1>12. ASSUME NEW r \in Requests, DropExpired(r) PROVE Consent'
  BY <1>10, <1>12 DEF DropExpired, Types, SessionsOK
<1>13. ASSUME NEW r \in Requests, Answer(r) PROVE Consent'
  BY <1>10, <1>13 DEF Answer
<1>14. ASSUME NEW s \in Sessions, DeleteAdminSession(s) PROVE Consent'
  BY <1>10, <1>14 DEF DeleteAdminSession, Types, SessionsOK
<1>15. CASE Tick
  BY <1>10, <1>15 DEF Tick
<1>16. ASSUME NEW emails \in SUBSET Users, Restart(emails) PROVE Consent'
  <2>1. UNCHANGED Tables /\ \A h \in Callbacks : cb'[h].pc = "idle"
    BY <1>16 DEF Restart, Resting
  <2>2. CarriesBoth' /\ SessionFollowsConsent'
    BY <2>1 DEF Consent, CarriesBoth, SessionFollowsConsent
  <2>3. ConsumedAlone' /\ ExchangedAlone' /\ NonceCompared'
    BY <2>1 DEF ConsumedAlone, ExchangedAlone, NonceCompared, Consumed, Exchanged, Verified
  <2> QED BY <2>2, <2>3 DEF Consent
<1>17. CASE UNCHANGED vars
  BY <1>10, <1>17 DEF vars
<1> QED
  BY <1>1, <1>2, <1>3, <1>4, <1>5, <1>6, <1>7, <1>8, <1>9, <1>11, <1>12, <1>13, <1>14, <1>15, <1>16,
     <1>17 DEF Next

(* A session ends within its life after its address left the allowlist, and  *)
(* a callback about to make one has just found its address there: a restart, *)
(* which alone changes the allowlist, ends all callbacks.                    *)
LEMMA StepEnds == Types /\ SessionsEnd /\ [Next]_vars => SessionsEnd'
<1> SUFFICES ASSUME Types, SessionsEnd, [Next]_vars PROVE SessionsEnd'
  OBVIOUS
<1>1. ASSUME UNCHANGED <<allowlist, removed>>,
             \A h \in Callbacks : cb'[h].pc = "session" => cb[h].pc = "session" /\ cb'[h].sub = cb[h].sub,
             \A s \in Sessions : sessions'[s] = sessions[s] \/ sessions'[s] = NoSession
      PROVE  SessionsEnd'
  BY <1>1 DEF SessionsEnd, Stays
<1>2. ASSUME SaveOIDCChallenge \/ Tick \/ (\E u \in Users, c \in Challenges, n \in Codes : Grant(u, c, n))
             \/ UNCHANGED vars
      PROVE  SessionsEnd'
  BY <1>1, <1>2 DEF SaveOIDCChallenge, Tick, Grant, vars
<1>3. ASSUME NEW h \in Callbacks, NEW n \in Codes, NEW c \in Challenges, CallbackStart(h, n, c)
      PROVE  SessionsEnd'
  BY <1>1, <1>3 DEF CallbackStart, Types, CallbacksOK
<1>4. ASSUME NEW h \in Callbacks, UNCHANGED <<allowlist, removed, sessions>>, FailRedirect(h)
      PROVE  SessionsEnd'
  BY <1>1, <1>4 DEF FailRedirect, Resting, Types, CallbacksOK
<1>5. ASSUME NEW h \in Callbacks, UNCHANGED <<allowlist, removed, sessions>>,
             NEW p \in {"exchange", "profile"}, Goto(h, p)
      PROVE  SessionsEnd'
  BY <1>1, <1>5 DEF Goto, Types, CallbacksOK
<1>6. ASSUME NEW h \in Callbacks, ConsumeOIDCChallenge(h) \/ VerifyIDToken(h) \/ Fail(h) PROVE SessionsEnd'
  BY <1>4, <1>5, <1>6 DEF ConsumeOIDCChallenge, VerifyIDToken, Fail
<1>7. ASSUME NEW h \in Callbacks, ExchangeCode(h) PROVE SessionsEnd'
  <2>1. UNCHANGED <<allowlist, removed, sessions>>
    BY <1>7 DEF ExchangeCode
  <2>2. FailRedirect(h) \/ cb' = [cb EXCEPT ![h].pc = "verify", ![h].sub = codes[cb[h].code].user]
    BY <1>7 DEF ExchangeCode
  <2>3. CASE cb' = [cb EXCEPT ![h].pc = "verify", ![h].sub = codes[cb[h].code].user]
    BY <1>1, <2>1, <2>3 DEF Types, CallbacksOK, CallbackRows
  <2> QED BY <1>4, <2>1, <2>2, <2>3
<1>8. ASSUME NEW h \in Callbacks, NEW u \in Users, UserInfo(h, u) PROVE SessionsEnd'
  <2>1. UNCHANGED <<allowlist, removed, sessions>>
    BY <1>8 DEF UserInfo
  <2>2. CASE u = cb[h].sub /\ u \in allowlist
    <3>1. Goto(h, "session")
      BY <1>8, <2>2 DEF UserInfo
    <3>2. \A g \in Callbacks : /\ g # h => cb'[g] = cb[g]
                               /\ cb'[g].sub = cb[g].sub
      BY <3>1 DEF Goto, Types, CallbacksOK, CallbackRows
    <3>3. \A g \in Callbacks : cb'[g].pc = "session" => cb'[g].sub \in allowlist
      <4>1. \A g \in Callbacks : g # h /\ cb[g].pc = "session" => cb[g].sub \in allowlist
        BY DEF SessionsEnd
      <4>2. cb'[h].sub \in allowlist
        BY <2>2, <3>2
      <4> QED BY <3>2, <4>1, <4>2
    <3> QED BY <2>1, <3>3 DEF SessionsEnd, Stays
  <2>3. CASE ~(u = cb[h].sub /\ u \in allowlist)
    BY <1>4, <1>8, <2>1, <2>3 DEF UserInfo
  <2> QED BY <2>2, <2>3
<1>9. ASSUME NEW h \in Callbacks, NEW s \in Sessions, CreateAdminSession(h, s) PROVE SessionsEnd'
  <2> DEFINE e == [email |-> cb[h].sub, expires |-> now + SessionTTL]
  <2>1. UNCHANGED <<allowlist, removed>> /\ cb[h].pc = "session"
    BY <1>9 DEF CreateAdminSession
  <2>2. \A t \in Sessions : sessions'[t] = (IF t = s THEN e ELSE sessions[t])
    BY <1>9 DEF CreateAdminSession, Types, SessionsOK
  <2>3. \A g \in Callbacks : cb'[g].pc = "session" => cb'[g] = cb[g]
    BY <1>9 DEF CreateAdminSession, FailRedirect, Resting, Types, CallbacksOK
  <2>4. e.email = cb[h].sub /\ cb[h].sub \in allowlist /\ allowlist \subseteq Users
    BY <2>1 DEF SessionsEnd, Types, ConfigOK
  <2> HIDE DEF e
  <2> QED BY <2>1, <2>2, <2>3, <2>4 DEF SessionsEnd, Stays
<1>10. ASSUME NEW r \in Requests, (\E s \in Sessions : AdminSession(r, s)) \/ Answer(r) PROVE SessionsEnd'
  BY <1>1, <1>10 DEF AdminSession, Answer
<1>11. ASSUME NEW r \in Requests, DropExpired(r) PROVE SessionsEnd'
  BY <1>1, <1>11 DEF DropExpired, Types, SessionsOK
<1>12. ASSUME NEW s \in Sessions, DeleteAdminSession(s) PROVE SessionsEnd'
  BY <1>1, <1>12 DEF DeleteAdminSession, Types, SessionsOK
<1>13. ASSUME NEW emails \in SUBSET Users, Restart(emails) PROVE SessionsEnd'
  <2>1. /\ UNCHANGED sessions /\ allowlist' = emails
        /\ \A u \in Users : removed'[u] = (IF u \in allowlist \ emails THEN now ELSE removed[u])
    BY <1>13 DEF Restart
  <2>2. \A h \in Callbacks : cb'[h].pc # "session"
    BY <1>13 DEF Restart, Resting
  <2>3. now # None /\ \A s \in Sessions : sessions[s].expires <= now + SessionTTL
    BY DEF Types, ConfigOK, SessionsOK
  <2> QED BY <2>1, <2>2, <2>3 DEF SessionsEnd, Stays
<1> QED
  BY <1>2, <1>3, <1>6, <1>7, <1>8, <1>9, <1>10, <1>11, <1>12, <1>13 DEF Next

-----------------------------------------------------------------------------

IInv == Types /\ Consent /\ SessionsEnd

(* The empty tables satisfy the invariant. *)
LEMMA InitIInv == Init => IInv
<1> SUFFICES ASSUME Init PROVE IInv
  OBVIOUS
<1>1. TypeOK
  BY DEF Init, TypeOK, NoCode, NoSession, Unmade, Resting, Waiting
<1>2. Consent
  BY DEF Init, Consent, CarriesBoth, ConsumedAlone, ExchangedAlone, NonceCompared, Consumed,
         Exchanged, Verified, SessionFollowsConsent, Resting, Unmade
<1>3. SessionsEnd
  BY DEF Init, SessionsEnd, Resting, NoSession
<1> QED BY <1>1, <1>2, <1>3, TypeOKParts DEF IInv

LEMMA StepIInv == IInv /\ [Next]_vars => IInv'
  BY StepTypes, StepConsent, StepEnds DEF IInv, Consent

(* The tables of the sign-in and the handlers' locals keep their types, and  *)
(* no session lasts longer than SessionTTL from now.                         *)
THEOREM SignInTypeCorrect == Spec => []TypeOK
<1>1. IInv => TypeOK
  BY TypeOKParts DEF IInv
<1> QED BY <1>1, InitIInv, StepIInv, PTL DEF Spec

(* A session bears the address of the person who granted the code it was     *)
(* made from, for the challenge its callback consumed, and no two sessions   *)
(* share a code or a challenge (oidcCallback, ConsumeOIDCChallenge).         *)
THEOREM SessionsFollowConsent == Spec => []SessionFollowsConsent
<1>1. IInv => SessionFollowsConsent
  BY DEF IInv, Consent
<1> QED BY <1>1, InitIInv, StepIInv, PTL DEF Spec

(* A request is admitted for an address on the allowlist, or within one      *)
(* session's life after the address left it (AdminSession).                  *)
THEOREM AdmissionIsCurrent == Spec => AdmittedIsCurrent
<1> DEFINE Admits == \A r \in Requests : req[r].pc = "idle" /\ req'[r].pc = "act" =>
                       LET u == sessions[req'[r].s].email IN
                       \/ u \in allowlist
                       \/ removed[u] # None /\ now <= removed[u] + SessionTTL
<1>1. IInv /\ [Next]_vars => [Admits]_vars
  <2> SUFFICES ASSUME IInv, Next, NEW r \in Requests, req[r].pc = "idle", req'[r].pc = "act"
               PROVE  Stays(sessions[req'[r].s].email, now)
    BY DEF Stays
  <2>1. PICK q \in Requests, s \in Sessions : AdminSession(q, s)
    <3>1. req' # req
      OBVIOUS
    <3>2. ~(\E q \in Requests : DropExpired(q) \/ Answer(q)) /\ ~(\E emails \in SUBSET Users : Restart(emails))
      BY DEF DropExpired, Answer, Restart, Waiting, IInv, Types, RequestsOK
    <3>3. ~(SaveOIDCChallenge \/ Tick \/ \E u \in Users, c \in Challenges, n \in Codes : Grant(u, c, n))
      BY <3>1 DEF SaveOIDCChallenge, Tick, Grant
    <3>4. /\ ~\E h \in Callbacks, n \in Codes, c \in Challenges : CallbackStart(h, n, c)
          /\ ~\E h \in Callbacks, u \in Users : UserInfo(h, u)
          /\ ~\E h \in Callbacks, s \in Sessions : CreateAdminSession(h, s)
          /\ ~\E s \in Sessions : DeleteAdminSession(s)
      BY <3>1 DEF CallbackStart, UserInfo, CreateAdminSession, DeleteAdminSession
    <3>5. ~\E h \in Callbacks : ConsumeOIDCChallenge(h) \/ ExchangeCode(h) \/ VerifyIDToken(h) \/ Fail(h)
      BY <3>1 DEF ConsumeOIDCChallenge, ExchangeCode, VerifyIDToken, Fail
    <3> QED BY <3>2, <3>3, <3>4, <3>5 DEF Next
  <2>2. q = r /\ req'[r].s = s /\ now <= sessions[s].expires /\ sessions[s] # NoSession
    BY <2>1 DEF AdminSession, Has, IInv, Types, RequestsOK
  <2>3. Stays(sessions[s].email, sessions[s].expires) /\ sessions[s].email \in Users
    BY <2>2 DEF IInv, SessionsEnd
  <2> QED BY <2>2, <2>3 DEF Stays, IInv, Types, ConfigOK, SessionsOK, SessionRows
<1> QED BY <1>1, InitIInv, StepIInv, PTL DEF Spec, AdmittedIsCurrent

-----------------------------------------------------------------------------
(* Names, entries and pages of a listing. *)

(* A set of names has a first one and a last one. *)
LEMMA Ends ==
  ASSUME NEW S \in SUBSET Names, S # {}
  PROVE  (\E e \in S : \A f \in S : e <= f) /\ (\E e \in S : \A f \in S : f <= e)
<1> DEFINE R == {p \in Nat \X Nat : p[1] < p[2]}
<1>1. IsWellFoundedOn(R, Nat)
  BY NatLessThanWellFounded DEF OpToRel
<1>0. \A x, y \in Nat : ~ (<<y, x>> \in R) => x <= y
  OBVIOUS
<1>2. ASSUME NEW T \in SUBSET Nat, T # {} PROVE \E x \in T : \A y \in T : x <= y
  <2>1. \E x \in T : \A y \in T : ~ (<<y, x>> \in R)
    <3> HIDE DEF R
    <3> QED BY <1>1, <1>2, WFMin
  <2> HIDE DEF R
  <2> QED BY <1>0, <1>2, <2>1
<1>3. S \subseteq Nat /\ MaxName \in Nat /\ \A e \in S : e <= MaxName
  BY NamesAssumption DEF Names
<1>4. \E e \in S : \A f \in S : e <= f
  BY <1>2, <1>3
<1>5. \E e \in S : \A f \in S : f <= e
  <2> DEFINE T == {MaxName - e : e \in S}
  <2>1. \A e \in S : e \in Nat /\ e <= MaxName /\ MaxName - e \in Nat
    BY <1>3
  <2>2. T \in SUBSET Nat /\ T # {}
    BY <2>1
  <2>3. PICK x \in T : \A y \in T : x <= y
    <3> HIDE DEF T
    <3> QED BY <1>2, <2>2
  <2>4. PICK e \in S : x = MaxName - e
    BY <2>3
  <2>5. \A f \in S : MaxName - e <= MaxName - f
    BY <2>3, <2>4
  <2>6. \A f \in S : f <= e
    BY <1>3, <2>1, <2>5
  <2> QED BY <2>6
<1> QED BY <1>4, <1>5

(* The entry of a key is the key or a folder, and a name. *)
LEMMA EntryNamed ==
  ASSUME NEW kind, NEW p, NEW k
  PROVE  Entry(kind, p, k) \in Folders \cup {k}
<1>1. FoldersAbove(p, k) \subseteq Folders /\ Folders \subseteq Names
  BY NamesAssumption DEF FoldersAbove
<1>2. CASE kind = "browse" /\ FoldersAbove(p, k) # {}
  <2>1. \E f \in FoldersAbove(p, k) : \A g \in FoldersAbove(p, k) : f <= g
    BY <1>1, <1>2, Ends
  <2> QED BY <1>1, <1>2, <2>1 DEF Entry
<1> QED BY <1>2 DEF Entry

LEMMA EntriesNamed ==
  ASSUME NEW kind, NEW p, NEW S \in SUBSET Keys
  PROVE  /\ Entries(kind, p, S) \subseteq Names \ {0}
         /\ Entries(kind, p, S) \subseteq Folders \cup S
<1>1. Entries(kind, p, S) \subseteq Folders \cup S
  BY EntryNamed DEF Entries, Scoped
<1> QED BY <1>1, NamesAssumption

(* More rows make more entries. *)
LEMMA EntriesGrow ==
  ASSUME NEW kind, NEW p, NEW S, NEW T, S \subseteq T
  PROVE  Entries(kind, p, S) \subseteq Entries(kind, p, T)
BY DEF Entries, Scoped

LEMMA NamesFinite == IsFiniteSet(Names) /\ \A S \in SUBSET Names : IsFiniteSet(S)
<1>1. IsFiniteSet(Names)
  BY NamesAssumption, FS_Interval DEF Names
<1> QED BY <1>1, FS_Subset

(* A page holds the first entries, at most as many as asked for, and its     *)
(* cursor tells what it does not hold.                                       *)
LEMMA PageFacts ==
  ASSUME NEW S \in SUBSET (Names \ {0}), NEW n \in Nat \ {0}
  PROVE  /\ First(S, n) \subseteq S /\ Cardinality(First(S, n)) <= n
         /\ Cursor(S, n) \in Names
         /\ Cursor(S, n) = 0 => First(S, n) = S
         /\ Cursor(S, n) # 0 => /\ Cursor(S, n) \in S
                                /\ \A e \in First(S, n) : e <= Cursor(S, n)
                                /\ \A e \in S : e <= Cursor(S, n) => e \in First(S, n)
<1> DEFINE F == First(S, n)
           Less(e) == {f \in S : f < e}
<1>1. F \subseteq S /\ (\A e \in S : e \in F <=> Cardinality(Less(e)) < n)
  BY DEF First
<1>2. /\ S \subseteq Nat /\ IsFiniteSet(S) /\ IsFiniteSet(F) /\ S \subseteq Names
      /\ \A e \in S : IsFiniteSet(Less(e)) /\ Less(e) \subseteq S
  BY <1>1, NamesFinite, NamesAssumption DEF Names
<1>3. /\ Cardinality(S) \in Nat /\ Cardinality(F) \in Nat
      /\ \A e \in S : Cardinality(Less(e)) \in Nat
  BY <1>2, FS_CardinalityType
<1> HIDE DEF F
<1>4. Cardinality(F) <= n
  <2>1. CASE F = {}
    BY <2>1, FS_EmptySet
  <2>2. CASE F # {}
    <3>1. PICK m \in F : \A f \in F : f <= m
      BY <1>1, <1>2, <2>2, Ends
    <3>2. m \in S /\ Cardinality(Less(m)) < n
      BY <1>1, <3>1
    <3>3. F \subseteq Less(m) \cup {m}
      BY <1>1, <1>2, <3>1
    <3>4. /\ IsFiniteSet(Less(m) \cup {m})
          /\ Cardinality(Less(m) \cup {m}) = Cardinality(Less(m)) + 1
      <4> m \notin Less(m)
        BY <1>2, <3>2
      <4> HIDE DEF Less
      <4> QED BY <1>2, <3>2, FS_AddElement
    <3>5. Cardinality(F) <= Cardinality(Less(m) \cup {m})
      <4> HIDE DEF Less
      <4> QED BY <3>3, <3>4, FS_Subset
    <3> QED BY <1>3, <3>2, <3>4, <3>5
  <2> QED BY <2>1, <2>2
<1>5. CASE Cardinality(S) <= n
  <2>1. \A e \in S : e \in F
    <3> TAKE e \in S
    <3>1. e \notin Less(e) /\ Less(e) # S
      BY <1>2
    <3>2. Cardinality(Less(e)) < Cardinality(S)
      <4>1. Cardinality(Less(e)) <= Cardinality(S) /\ (Cardinality(S) = Cardinality(Less(e)) => S = Less(e))
        <5> HIDE DEF Less
        <5> QED BY <1>2, FS_Subset
      <4> QED BY <1>3, <3>1, <4>1
    <3> QED BY <1>1, <1>3, <1>5, <3>2
  <2>2. Cursor(S, n) = 0
    BY <1>5 DEF Cursor
  <2>3. F = S /\ 0 \in Names
    <3>1. F = S
      BY <1>1, <2>1
    <3>2. 0 \in Names
      BY NamesAssumption DEF Names
    <3> QED BY <3>1, <3>2
  <2> QED BY <1>4, <2>2, <2>3 DEF F
<1>6. CASE ~ (Cardinality(S) <= n)
  <2>1. S # {}
    BY <1>3, <1>6, FS_EmptySet
  <2>2. PICK l \in S : \A f \in S : l <= f
    BY <1>2, <2>1, Ends
  <2>3. Less(l) = {}
    <3>1. \A f \in S : f \in Nat /\ l \in Nat /\ l <= f
      BY <1>2, <2>2
    <3> QED BY <3>1
  <2>4. l \in F
    BY <1>1, <2>3, FS_EmptySet
  <2>5. \E e \in F : \A f \in F : f <= e
    BY <1>1, <1>2, <2>4, Ends
  <2>6. Cursor(S, n) \in F /\ \A f \in F : f <= Cursor(S, n)
    <3>1. Cursor(S, n) = CHOOSE e \in F : \A f \in F : f <= e
      BY <1>6 DEF Cursor, F
    <3> QED BY <2>5, <3>1
  <2>7. ASSUME NEW e \in S, e <= Cursor(S, n) PROVE e \in F
    <3> DEFINE c == Cursor(S, n)
    <3>1. c \in S /\ Less(e) \subseteq Less(c)
      <4>1. c \in S /\ e <= c
        BY <1>1, <2>6, <2>7
      <4> HIDE DEF c
      <4>2. \A f \in S : f < e => f < c
        BY <1>2, <4>1
      <4> QED BY <4>1, <4>2
    <3>2. Cardinality(Less(e)) <= Cardinality(Less(c))
      <4> HIDE DEF Less, c
      <4> QED BY <1>2, <3>1, FS_Subset
    <3>3. Cardinality(Less(c)) < n
      BY <1>1, <2>6
    <3> HIDE DEF c
    <3> QED BY <1>1, <1>3, <3>1, <3>2, <3>3
  <2>8. Cursor(S, n) \in S /\ Cursor(S, n) # 0
    BY <1>1, <2>6
  <2> QED BY <1>1, <1>2, <1>4, <2>6, <2>7, <2>8 DEF F
<1> QED BY <1>5, <1>6

-----------------------------------------------------------------------------
(* What holds of a listing between its steps. *)

(* The types, but for the number of entries on a page. *)
PageTypes ==
  [pc : {"idle", "auth", "query", "rows", "done"}, kind : Kinds, prefix : Prefixes \cup {0},
   limit : Limits \cup {1}, start : Names, after : Names, token : BucketIds, b : BucketIds,
   got : SUBSET Names, rest : SUBSET Keys, next : Names, seen : SUBSET Names,
   steady : SUBSET Keys, ever : SUBSET Keys, from : SUBSET BucketIds]

SlugTypes ==
  /\ bucket \in [id : BucketIds, state : {"active", "deleting"}]
  /\ lastId \in BucketIds /\ bucket.id <= lastId
  /\ objects \subseteq Keys /\ (bucket.id = 0 => objects = {})

Typed == SlugTypes /\ w \in PageTypes /\ w.steady \subseteq objects

(* A page exists only between its query and its receipt, and no folder is    *)
(* read as a row.                                                            *)
PageOnItsWay ==
  /\ w.pc # "rows" => w.got = {} /\ w.rest = {} /\ w.next = 0
  /\ w.pc \in {"query", "rows"} => w.b # 0
  /\ w.rest \cap Folders = {}
  /\ Cardinality(w.got \cup w.rest) <= w.limit

(* The rows are among those that were there at some time; the rows of        *)
(* another bucket than the one that has the slug are gone.                   *)
RowsKnown ==
  /\ IF w.pc = "idle" THEN w.ever = {} ELSE objects \subseteq w.ever
  /\ w.pc \in {"query", "rows"} /\ w.b # bucket.id => w.steady = {}

(* What was there all along has been shown up to the cursor of the last page *)
(* and is on the present one up to its cursor.                               *)
ShownSoFar ==
  \A e \in Entries(w.kind, w.prefix, w.steady) : e > w.start =>
    /\ w.pc \in {"auth", "query", "rows"} /\ e <= w.after => e \in w.seen
    /\ w.pc = "rows" /\ e > w.after /\ (w.next = 0 \/ e <= w.next) => e \in w.got \cup w.rest

(* What was shown comes before what is asked for. *)
ShownBefore == w.pc \in {"auth", "query", "rows"} => \A f \in w.seen : f <= w.after

(* All pages of the gateway are of the bucket its token names. *)
TokenHolds ==
  /\ w.token = 0 => w.from = {}
  /\ w.kind = "s3" => /\ w.from \subseteq {w.token}
                      /\ w.pc \in {"query", "rows"} => w.token \in {0, w.b}

ListingInv ==
  /\ Typed /\ PageOnItsWay /\ RowsKnown /\ ShownSoFar /\ ShownBefore /\ TokenHolds
  /\ ListingsCover /\ ListingsHonest

LEMMA ListingTypes == Typed /\ PageOnItsWay => ListingTypeOK
BY DEF Typed, PageOnItsWay, SlugTypes, PageTypes, ListingTypeOK

LEMMA ListingInvInit == ListingInit => ListingInv
<1> SUFFICES ASSUME ListingInit PROVE ListingInv
  OBVIOUS
<1>1. 0 \in Names /\ 0 \in BucketIds /\ Prefixes \subseteq Names
  BY NamesAssumption DEF Names, BucketIds
<1>2. Typed
  BY <1>1 DEF ListingInit, Idle, Typed, SlugTypes, PageTypes, Kinds
<1>3. PageOnItsWay
  BY FS_EmptySet DEF ListingInit, Idle, PageOnItsWay
<1>4. Entries(w.kind, w.prefix, w.steady) = {}
  BY DEF ListingInit, Idle, Entries, Scoped
<1> QED BY <1>2, <1>3, <1>4
        DEF ListingInit, Idle, ListingInv, RowsKnown, ShownSoFar, ShownBefore, TokenHolds,
            ListingsCover, ListingsHonest

(* A step that leaves the listing alone but for its history, which loses     *)
(* steady keys or gains others.                                              *)
Elsewhere ==
  /\ Typed' /\ w' = [w EXCEPT !.steady = w'.steady, !.ever = w'.ever]
  /\ w'.steady \subseteq w.steady /\ w.ever \subseteq w'.ever

LEMMA ElsewhereKeeps ==
  ASSUME ListingInv, Elsewhere, RowsKnown'
  PROVE  ListingInv'
<1>1. /\ w'.pc = w.pc /\ w'.kind = w.kind /\ w'.prefix = w.prefix /\ w'.limit = w.limit
      /\ w'.start = w.start /\ w'.after = w.after /\ w'.token = w.token /\ w'.b = w.b
      /\ w'.got = w.got /\ w'.rest = w.rest /\ w'.next = w.next /\ w'.seen = w.seen
      /\ w'.from = w.from
  BY DEF ListingInv, Typed, PageTypes, Elsewhere
<1>2. Entries(w.kind, w.prefix, w'.steady) \subseteq Entries(w.kind, w.prefix, w.steady)
  BY EntriesGrow DEF Elsewhere
<1>3. Entries(w.kind, w.prefix, w.ever) \subseteq Entries(w.kind, w.prefix, w'.ever)
  BY EntriesGrow DEF Elsewhere
<1>4. PageOnItsWay' /\ ShownBefore' /\ TokenHolds'
  BY <1>1 DEF ListingInv, PageOnItsWay, ShownBefore, TokenHolds
<1>5. ShownSoFar' /\ ListingsCover'
  BY <1>1, <1>2 DEF ListingInv, ShownSoFar, ListingsCover
<1>6. ListingsHonest'
  BY <1>1, <1>3 DEF ListingInv, ListingsHonest
<1> QED BY <1>4, <1>5, <1>6 DEF ListingInv, Elsewhere

LEMMA RowsMove ==
  ASSUME ListingInv,
         \/ CreateBucket \/ BeginBucketDeletion \/ FinishBucketDeletion
         \/ \E k \in Keys : CommitUpload(k) \/ DeleteObject(k)
  PROVE  Elsewhere /\ RowsKnown'
<1>0. Typed /\ RowsKnown /\ SlugTypes /\ w \in PageTypes /\ MaxBuckets \in Nat
  BY NamesAssumption DEF ListingInv, Typed
<1>1. CASE CreateBucket
  <2>1. bucket' = [id |-> lastId + 1, state |-> "active"] /\ lastId' = lastId + 1 /\ lastId < MaxBuckets
    BY <1>1 DEF CreateBucket
  <2>2. lastId \in 0..MaxBuckets /\ lastId + 1 \in BucketIds
    BY <1>0, <2>1 DEF SlugTypes, BucketIds
  <2>3. w' = w /\ objects' = objects /\ objects = {} /\ w.steady = {}
    BY <1>0, <1>1 DEF CreateBucket, SlugTypes, Typed
  <2>4. Typed'
    BY <1>0, <2>1, <2>2, <2>3 DEF Typed, SlugTypes
  <2> QED BY <1>0, <2>1, <2>3, <2>4 DEF Elsewhere, RowsKnown, PageTypes
<1>2. CASE BeginBucketDeletion
  <2>1. /\ bucket' = [bucket EXCEPT !.state = "deleting"] /\ lastId' = lastId
        /\ w' = w /\ objects' = objects
    BY <1>2 DEF BeginBucketDeletion
  <2>2. Typed' /\ bucket'.id = bucket.id
    BY <1>0, <2>1 DEF Typed, SlugTypes
  <2> QED BY <1>0, <2>1, <2>2 DEF Elsewhere, RowsKnown, PageTypes
<1>3. CASE FinishBucketDeletion
  <2>1. /\ bucket' = [id |-> 0, state |-> "active"] /\ lastId' = lastId
        /\ w' = [w EXCEPT !.steady = {}] /\ objects' = {}
    BY <1>3 DEF FinishBucketDeletion
  <2>2. w' \in PageTypes /\ w'.steady = {} /\ w'.ever = w.ever /\ w'.pc = w.pc
    BY <1>0, <2>1 DEF PageTypes
  <2>3. Typed'
    BY <1>0, <2>1, <2>2 DEF Typed, SlugTypes, BucketIds
  <2>4. w' = [w EXCEPT !.steady = w'.steady, !.ever = w'.ever]
    BY <1>0, <2>1, <2>2 DEF PageTypes
  <2> QED BY <1>0, <2>1, <2>2, <2>3, <2>4 DEF Elsewhere, RowsKnown
<1>4. ASSUME NEW k \in Keys, CommitUpload(k) PROVE Elsewhere /\ RowsKnown'
  <2> DEFINE ever == IF w.pc = "idle" THEN {} ELSE w.ever \cup {k}
  <2>1. /\ bucket' = bucket /\ lastId' = lastId /\ objects' = objects \cup {k}
        /\ w' = [w EXCEPT !.ever = ever] /\ bucket.id # 0
    BY <1>4 DEF CommitUpload
  <2>2. ever \subseteq Keys /\ (IF w.pc = "idle" THEN ever = {} ELSE ever = w.ever \cup {k})
    BY <1>0 DEF PageTypes
  <2> HIDE DEF ever
  <2>3. w' \in PageTypes /\ w'.steady = w.steady /\ w'.ever = ever /\ w'.pc = w.pc /\ w'.b = w.b
    BY <1>0, <2>1, <2>2 DEF PageTypes
  <2>4. Typed'
    BY <1>0, <2>1, <2>2, <2>3 DEF Typed, SlugTypes
  <2>5. w' = [w EXCEPT !.steady = w'.steady, !.ever = w'.ever]
    BY <1>0, <2>1, <2>3 DEF PageTypes
  <2>6. w.ever \subseteq w'.ever
    BY <1>0, <2>2, <2>3 DEF RowsKnown
  <2>7. RowsKnown'
    BY <1>0, <2>1, <2>2, <2>3 DEF RowsKnown
  <2> QED BY <2>3, <2>4, <2>5, <2>6, <2>7 DEF Elsewhere
<1>5. ASSUME NEW k \in Keys, DeleteObject(k) PROVE Elsewhere /\ RowsKnown'
  <2>1. /\ bucket' = bucket /\ lastId' = lastId /\ objects' = objects \ {k}
        /\ w' = [w EXCEPT !.steady = @ \ {k}]
    BY <1>5 DEF DeleteObject
  <2>2. w' \in PageTypes /\ w'.steady = w.steady \ {k} /\ w'.ever = w.ever /\ w'.pc = w.pc /\ w'.b = w.b
    BY <1>0, <2>1 DEF PageTypes
  <2>3. Typed'
    BY <1>0, <2>1, <2>2 DEF Typed, SlugTypes
  <2>4. w' = [w EXCEPT !.steady = w'.steady, !.ever = w'.ever]
    BY <1>0, <2>1, <2>2 DEF PageTypes
  <2> QED BY <1>0, <2>1, <2>2, <2>3, <2>4 DEF Elsewhere, RowsKnown
<1> QED BY <1>1, <1>2, <1>3, <1>4, <1>5

LEMMA PageSize == ListingInv => w.limit \in Nat \ {0}
<1>1. Limits \subseteq Nat \ {0}
  BY NamesAssumption
<1>2. ListingInv => w.limit \in Limits \cup {1}
  BY DEF ListingInv, Typed, PageTypes
<1>3. \A n \in Limits \cup {1} : n \in Nat \ {0}
  BY <1>1
<1> QED BY <1>2, <1>3

LEMMA BeginStep ==
  ASSUME ListingInv, NEW kind \in Kinds, NEW p \in Prefixes, NEW n \in Limits, NEW start \in Names,
         Begin(kind, p, n, start)
  PROVE  ListingInv'
<1> DEFINE v == [Idle EXCEPT !.pc = "auth", !.kind = kind, !.prefix = p, !.limit = n,
                             !.start = start, !.after = start, !.steady = objects,
                             !.ever = objects]
<1>1. w' = v /\ bucket' = bucket /\ lastId' = lastId /\ objects' = objects
  BY DEF Begin
<1>2. 0 \in Names /\ 0 \in BucketIds /\ objects \subseteq Keys /\ n \in Nat
  BY NamesAssumption DEF Names, BucketIds, ListingInv, Typed, SlugTypes
<1>3. /\ v \in PageTypes /\ v.pc = "auth" /\ v.after = v.start /\ v.steady = objects
      /\ v.ever = objects /\ v.got = {} /\ v.rest = {} /\ v.next = 0 /\ v.seen = {}
      /\ v.from = {} /\ v.limit = n
  BY <1>2 DEF Idle, PageTypes
<1> HIDE DEF v
<1>4. Typed'
  BY <1>1, <1>3 DEF ListingInv, Typed, SlugTypes
<1>5. PageOnItsWay'
  BY <1>1, <1>2, <1>3, FS_EmptySet DEF PageOnItsWay
<1>6. Entries(v.kind, v.prefix, v.steady) \subseteq Names \ {0} /\ v.start \in Names /\ Names \subseteq Nat
  BY <1>2, <1>3, EntriesNamed DEF PageTypes, Names
<1>7. ShownSoFar'
  <2>1. \A e \in Entries(v.kind, v.prefix, v.steady) : e > v.start => ~ (e <= v.after)
    <3>1. \A e, f \in Nat : e > f => ~ (e <= f)
      OBVIOUS
    <3> QED BY <1>3, <1>6, <3>1
  <2> QED BY <1>1, <1>3, <2>1 DEF ShownSoFar
<1>8. RowsKnown' /\ ShownBefore' /\ TokenHolds' /\ ListingsCover'
  BY <1>1, <1>3 DEF RowsKnown, ShownBefore, TokenHolds, ListingsCover
<1>9. ListingsHonest'
  BY <1>1, <1>3 DEF ListingsHonest
<1> QED BY <1>4, <1>5, <1>7, <1>8, <1>9 DEF ListingInv

LEMMA RefuseStep ==
  ASSUME ListingInv, Refuse, UNCHANGED <<bucket, lastId, objects>>
  PROVE  ListingInv'
<1>1. w' = Idle /\ bucket' = bucket /\ lastId' = lastId /\ objects' = objects
  BY DEF Refuse
<1>2. 0 \in Names /\ 0 \in BucketIds /\ objects \subseteq Keys
  BY NamesAssumption DEF Names, BucketIds, ListingInv, Typed, SlugTypes
<1>3. Idle \in PageTypes
  BY <1>2 DEF Idle, PageTypes, Kinds
<1>4. Typed'
  BY <1>1, <1>3 DEF ListingInv, Typed, SlugTypes, Idle
<1>5. PageOnItsWay'
  BY <1>1, FS_EmptySet DEF PageOnItsWay, Idle
<1>6. Entries(Idle.kind, Idle.prefix, Idle.steady) = {}
  BY DEF Idle, Entries, Scoped
<1> QED BY <1>1, <1>4, <1>5, <1>6
        DEF Idle, ListingInv, RowsKnown, ShownSoFar, ShownBefore, TokenHolds,
            ListingsCover, ListingsHonest

LEMMA AuthenticateStep == ASSUME ListingInv, Authenticate PROVE ListingInv'
<1>1. CASE Refuse
  BY <1>1, RefuseStep DEF Authenticate
<1>2. CASE ~ Refuse
  <2>1. /\ w' = [w EXCEPT !.pc = "query", !.b = bucket.id] /\ w.pc = "auth"
        /\ bucket' = bucket /\ lastId' = lastId /\ objects' = objects
        /\ bucket.id # 0 /\ (w.kind = "s3" => w.token \in {0, bucket.id})
    BY <1>2 DEF Authenticate
  <2>2. /\ w'.pc = "query" /\ w'.kind = w.kind /\ w'.prefix = w.prefix /\ w'.limit = w.limit
        /\ w'.start = w.start /\ w'.after = w.after /\ w'.token = w.token /\ w'.b = bucket.id
        /\ w'.got = w.got /\ w'.rest = w.rest /\ w'.next = w.next /\ w'.seen = w.seen
        /\ w'.from = w.from /\ w'.steady = w.steady /\ w'.ever = w.ever /\ w' \in PageTypes
    BY <2>1 DEF ListingInv, Typed, PageTypes, SlugTypes
  <2>3. Typed'
    BY <2>1, <2>2 DEF ListingInv, Typed, SlugTypes
  <2>4. PageOnItsWay' /\ RowsKnown' /\ ShownBefore' /\ TokenHolds'
    BY <2>1, <2>2 DEF ListingInv, PageOnItsWay, RowsKnown, ShownBefore, TokenHolds
  <2>5. ShownSoFar' /\ ListingsCover'
    BY <2>1, <2>2 DEF ListingInv, ShownSoFar, ListingsCover
  <2>6. ListingsHonest'
    BY <2>1, <2>2 DEF ListingInv, ListingsHonest
  <2> QED BY <2>3, <2>4, <2>5, <2>6 DEF ListingInv
<1> QED BY <1>1, <1>2

LEMMA LostStep == ASSUME ListingInv, Lost PROVE ListingInv'
<1>1. /\ w' = [w EXCEPT !.pc = "auth", !.got = {}, !.rest = {}, !.b = 0, !.next = 0]
      /\ w.pc \in {"query", "rows"}
      /\ bucket' = bucket /\ lastId' = lastId /\ objects' = objects
  BY DEF Lost
<1>2. 0 \in Names /\ 0 \in BucketIds
  BY NamesAssumption DEF Names, BucketIds
<1>3. /\ w'.pc = "auth" /\ w'.kind = w.kind /\ w'.prefix = w.prefix /\ w'.limit = w.limit
      /\ w'.start = w.start /\ w'.after = w.after /\ w'.token = w.token /\ w'.b = 0
      /\ w'.got = {} /\ w'.rest = {} /\ w'.next = 0 /\ w'.seen = w.seen
      /\ w'.from = w.from /\ w'.steady = w.steady /\ w'.ever = w.ever /\ w' \in PageTypes
  BY <1>1, <1>2 DEF ListingInv, Typed, PageTypes
<1>4. Typed'
  BY <1>1, <1>3 DEF ListingInv, Typed, SlugTypes
<1>5. w.limit \in Nat
  BY PageSize
<1>6. PageOnItsWay' /\ RowsKnown' /\ ShownBefore' /\ TokenHolds'
  BY <1>1, <1>3, <1>5, FS_EmptySet DEF ListingInv, PageOnItsWay, RowsKnown, ShownBefore, TokenHolds
<1>7. ShownSoFar' /\ ListingsCover'
  BY <1>1, <1>3 DEF ListingInv, ShownSoFar, ListingsCover
<1>8. ListingsHonest'
  BY <1>1, <1>3 DEF ListingInv, ListingsHonest
<1> QED BY <1>4, <1>6, <1>7, <1>8 DEF ListingInv

LEMMA ReceiveStep == ASSUME ListingInv, Receive PROVE ListingInv'
<1> DEFINE pc == IF w.next = 0 THEN "done" ELSE "auth"
           from == IF w.got = {} THEN w.from ELSE w.from \cup {w.b}
<1>1. /\ w' = [w EXCEPT !.pc = pc, !.seen = @ \cup w.got, !.after = w.next, !.token = w.b,
                        !.got = {}, !.b = 0, !.next = 0, !.from = from]
      /\ w.pc = "rows" /\ w.rest = {}
      /\ bucket' = bucket /\ lastId' = lastId /\ objects' = objects
  BY DEF Receive
<1>2. 0 \in Names /\ 0 \in BucketIds /\ Names \subseteq Nat
  BY NamesAssumption DEF Names, BucketIds
<1>3. /\ from \subseteq BucketIds /\ pc \in {"done", "auth"} /\ (pc = "done" <=> w.next = 0)
      /\ from \subseteq w.from \cup {w.b}
  BY DEF ListingInv, Typed, PageTypes
<1> HIDE DEF pc, from
<1>4. /\ w'.pc = pc /\ w'.kind = w.kind /\ w'.prefix = w.prefix /\ w'.limit = w.limit
      /\ w'.start = w.start /\ w'.after = w.next /\ w'.token = w.b /\ w'.b = 0
      /\ w'.got = {} /\ w'.rest = {} /\ w'.next = 0 /\ w'.seen = w.seen \cup w.got
      /\ w'.from = from /\ w'.steady = w.steady /\ w'.ever = w.ever /\ w' \in PageTypes
  BY <1>1, <1>2, <1>3 DEF ListingInv, Typed, PageTypes
<1>5. Typed'
  BY <1>1, <1>4 DEF ListingInv, Typed, SlugTypes
<1>6. w.limit \in Nat /\ w.b # 0
  BY <1>1, PageSize DEF ListingInv, PageOnItsWay
<1>7. PageOnItsWay' /\ RowsKnown'
  BY <1>1, <1>3, <1>4, <1>6, FS_EmptySet DEF ListingInv, PageOnItsWay, RowsKnown
<1>8. /\ w.seen \subseteq Nat /\ w.got \subseteq Nat /\ w.after \in Nat /\ w.next \in Nat
      /\ Entries(w.kind, w.prefix, w.steady) \subseteq Nat
  BY <1>2, EntriesNamed DEF ListingInv, Typed, PageTypes
<1>9. ASSUME w.next # 0
      PROVE  \A f \in w.seen \cup w.got : f <= w.next
  BY <1>1, <1>8, <1>9 DEF ListingInv, ListingsHonest, ShownBefore
<1>10. ShownBefore'
  BY <1>3, <1>4, <1>9 DEF ShownBefore
<1>11. TokenHolds'
  BY <1>1, <1>3, <1>4, <1>6 DEF ListingInv, TokenHolds
<1>12. ASSUME NEW e \in Entries(w.kind, w.prefix, w.steady), e > w.start,
              w.next = 0 \/ e <= w.next
       PROVE  e \in w.seen \cup w.got
  BY <1>1, <1>8, <1>12 DEF ListingInv, ShownSoFar
<1>13. ShownSoFar' /\ ListingsCover'
  BY <1>3, <1>4, <1>12 DEF ShownSoFar, ListingsCover
<1>14. \A a, b \in w'.from : w.kind = "s3" => a = b
  BY <1>4, <1>11 DEF TokenHolds
<1>15. ListingsHonest'
  BY <1>1, <1>4, <1>14 DEF ListingInv, ListingsHonest
<1> QED BY <1>5, <1>7, <1>10, <1>11, <1>13, <1>15 DEF ListingInv

LEMMA ReadRowStep == ASSUME ListingInv, NEW k \in Keys, ReadRow(k) PROVE ListingInv'
<1> DEFINE got == IF k \in Rows(w.b) THEN w.got \cup {k} ELSE w.got
<1>1. /\ w' = [w EXCEPT !.rest = @ \ {k}, !.got = got]
      /\ w.pc = "rows" /\ k \in w.rest
      /\ bucket' = bucket /\ lastId' = lastId /\ objects' = objects
  BY DEF ReadRow
<1>2. /\ got \subseteq w.got \cup {k} /\ w.got \subseteq got /\ (k \in Rows(w.b) => k \in got)
      /\ got \subseteq Names
  BY NamesAssumption DEF ListingInv, Typed, PageTypes
<1> HIDE DEF got
<1>3. /\ w'.pc = w.pc /\ w'.kind = w.kind /\ w'.prefix = w.prefix /\ w'.limit = w.limit
      /\ w'.start = w.start /\ w'.after = w.after /\ w'.token = w.token /\ w'.b = w.b
      /\ w'.got = got /\ w'.rest = w.rest \ {k} /\ w'.next = w.next /\ w'.seen = w.seen
      /\ w'.from = w.from /\ w'.steady = w.steady /\ w'.ever = w.ever /\ w' \in PageTypes
  BY <1>1, <1>2 DEF ListingInv, Typed, PageTypes
<1>4. Typed'
  BY <1>1, <1>3 DEF ListingInv, Typed, SlugTypes
<1>5. got \cup (w.rest \ {k}) \subseteq w.got \cup w.rest
  BY <1>1, <1>2
<1>6. Cardinality(got \cup (w.rest \ {k})) <= w.limit
  <2>1. IsFiniteSet(w.got \cup w.rest)
    BY NamesFinite, NamesAssumption DEF ListingInv, Typed, PageTypes
  <2>2. /\ Cardinality(got \cup (w.rest \ {k})) <= Cardinality(w.got \cup w.rest)
        /\ IsFiniteSet(got \cup (w.rest \ {k}))
    BY <1>5, <2>1, FS_Subset
  <2>3. Cardinality(got \cup (w.rest \ {k})) \in Nat /\ Cardinality(w.got \cup w.rest) \in Nat
    BY <2>1, <2>2, FS_CardinalityType
  <2>4. w.limit \in Nat /\ Cardinality(w.got \cup w.rest) <= w.limit
    BY PageSize DEF ListingInv, PageOnItsWay
  <2> QED BY <2>2, <2>3, <2>4
<1>7. PageOnItsWay' /\ RowsKnown' /\ ShownBefore' /\ TokenHolds'
  BY <1>1, <1>3, <1>6 DEF ListingInv, PageOnItsWay, RowsKnown, ShownBefore, TokenHolds
<1>8. ASSUME k \in Entries(w.kind, w.prefix, w.steady) PROVE k \in got
  <2>1. k \in w.steady
    BY <1>1, <1>8, EntriesNamed DEF ListingInv, PageOnItsWay, Typed, PageTypes
  <2>2. w.b = bucket.id /\ w.b # 0 /\ k \in objects
    BY <1>1, <2>1 DEF ListingInv, PageOnItsWay, RowsKnown, Typed
  <2> QED BY <1>2, <2>2 DEF Rows
<1>9. ShownSoFar' /\ ListingsCover'
  <2>1. \A e \in Entries(w.kind, w.prefix, w.steady) :
          e \in w.got \cup w.rest => e \in got \cup (w.rest \ {k})
    BY <1>2, <1>8
  <2> QED BY <1>1, <1>3, <2>1 DEF ListingInv, ShownSoFar, ListingsCover
<1>10. ListingsHonest'
  BY <1>3, <1>5 DEF ListingInv, ListingsHonest
<1> QED BY <1>4, <1>7, <1>9, <1>10 DEF ListingInv

LEMMA QueryStep == ASSUME ListingInv, Query PROVE ListingInv'
<1> DEFINE E == Entries(w.kind, w.prefix, Rows(w.b))
           S == {e \in E : e > w.after}
           page == First(S, w.limit)
           shown == IF w.kind = "browse" THEN page \cap Folders ELSE page
           next == Cursor(S, w.limit)
<1>1. /\ w' = [w EXCEPT !.pc = "rows", !.got = shown, !.rest = page \ shown, !.next = next]
      /\ w.pc = "query"
      /\ bucket' = bucket /\ lastId' = lastId /\ objects' = objects
  BY DEF Query
<1>2. /\ Rows(w.b) \subseteq objects /\ objects \subseteq Keys /\ Names \subseteq Nat
      /\ w.limit \in Nat \ {0} /\ w.after \in Nat
  <2>1. Names \subseteq Nat
    BY DEF Names
  <2>2. Rows(w.b) \subseteq objects /\ objects \subseteq Keys /\ w.after \in Names
    BY DEF Rows, ListingInv, Typed, PageTypes, SlugTypes
  <2> QED BY <2>1, <2>2, PageSize
<1>3. E \subseteq Names \ {0} /\ E \subseteq Folders \cup Rows(w.b)
  BY <1>2, EntriesNamed
<1>4. w.kind # "browse" => E \subseteq Rows(w.b)
  BY DEF Entries, Entry, Scoped
<1>5. E \subseteq Entries(w.kind, w.prefix, w.ever)
  BY <1>1, <1>2, EntriesGrow DEF ListingInv, RowsKnown
<1>6. Entries(w.kind, w.prefix, w.steady) \subseteq E
  <2>1. w.b # 0 /\ (w.b # bucket.id => w.steady = {}) /\ w.steady \subseteq objects
    BY <1>1 DEF ListingInv, PageOnItsWay, RowsKnown, Typed
  <2>2. w.steady \subseteq Rows(w.b)
    BY <2>1 DEF Rows
  <2> QED BY <2>2, EntriesGrow
<1> HIDE DEF E
<1>7. S \in SUBSET (Names \ {0}) /\ S \subseteq E /\ \A e \in S : e > w.after
  BY <1>3
<1>8. \A e \in E : e > w.after => e \in S
  OBVIOUS
<1> HIDE DEF S
<1>9. /\ page \subseteq S /\ Cardinality(page) <= w.limit /\ next \in Names
      /\ next = 0 => page = S
      /\ next # 0 => /\ next \in S /\ (\A e \in page : e <= next)
                     /\ (\A e \in S : e <= next => e \in page)
  BY <1>2, <1>7, PageFacts
<1> HIDE DEF page, next
<1>10. /\ shown \cup (page \ shown) = page /\ shown \subseteq Names
       /\ page \ shown \subseteq Keys /\ (page \ shown) \cap Folders = {}
  BY <1>2, <1>3, <1>7, <1>9
<1> HIDE DEF shown
<1>11. /\ w'.pc = "rows" /\ w'.kind = w.kind /\ w'.prefix = w.prefix /\ w'.limit = w.limit
       /\ w'.start = w.start /\ w'.after = w.after /\ w'.token = w.token /\ w'.b = w.b
       /\ w'.got = shown /\ w'.rest = page \ shown /\ w'.next = next /\ w'.seen = w.seen
       /\ w'.from = w.from /\ w'.steady = w.steady /\ w'.ever = w.ever /\ w' \in PageTypes
  BY <1>1, <1>9, <1>10 DEF ListingInv, Typed, PageTypes
<1>12. w'.got \cup w'.rest = page
  BY <1>10, <1>11
<1>13. Typed'
  BY <1>1, <1>11 DEF ListingInv, Typed, SlugTypes
<1>14. PageOnItsWay'
  BY <1>1, <1>9, <1>10, <1>11, <1>12 DEF ListingInv, PageOnItsWay
<1>15. RowsKnown' /\ ShownBefore' /\ TokenHolds'
  BY <1>1, <1>11 DEF ListingInv, RowsKnown, ShownBefore, TokenHolds
<1>16. ShownSoFar' /\ ListingsCover'
  BY <1>1, <1>6, <1>8, <1>9, <1>11, <1>12 DEF ListingInv, ShownSoFar, ListingsCover
<1>17. \A e \in page : e > w.after /\ \A f \in w.seen : f < e
  <2>1. \A f \in w.seen : f \in Nat /\ f <= w.after
    BY <1>1, <1>2 DEF ListingInv, ShownBefore, Typed, PageTypes
  <2>2. \A e \in page : e \in Nat /\ e > w.after
    BY <1>2, <1>7, <1>9
  <2> QED BY <1>2, <2>1, <2>2
<1>18. next # 0 => next > w.after /\ \A e \in page : e <= next
  BY <1>7, <1>9
<1>19. ListingsHonest'
  <2>1. page \subseteq Entries(w.kind, w.prefix, w.ever)
    BY <1>5, <1>7, <1>9
  <2> QED BY <1>11, <1>12, <1>17, <1>18, <2>1 DEF ListingInv, ListingsHonest
<1> QED BY <1>13, <1>14, <1>15, <1>16, <1>19 DEF ListingInv

LEMMA ListingInvStep == ListingInv /\ [ListingNext]_listingVars => ListingInv'
<1> SUFFICES ASSUME ListingInv, [ListingNext]_listingVars PROVE ListingInv'
  OBVIOUS
<1>1. CASE UNCHANGED listingVars
  BY <1>1 DEF listingVars, ListingInv, Typed, SlugTypes, PageOnItsWay, RowsKnown, ShownSoFar, ShownBefore,
              TokenHolds, ListingsCover, ListingsHonest
<1>2. CASE \/ CreateBucket \/ BeginBucketDeletion \/ FinishBucketDeletion
           \/ \E k \in Keys : CommitUpload(k) \/ DeleteObject(k)
  BY <1>2, RowsMove, ElsewhereKeeps
<1> QED BY <1>1, <1>2, BeginStep, AuthenticateStep, QueryStep, ReadRowStep, ReceiveStep, LostStep
        DEF ListingNext

-----------------------------------------------------------------------------
(* The cursor, token, page and history of a listing, and the slug it lists,  *)
(* keep their types, and no page holds more entries than were asked for      *)
(* (ListObjectsPage, BrowseObjectsPage and the handlers above them).         *)
THEOREM ListingTypeCorrect == ListingSpec => []ListingTypeOK
<1>1. ListingInv => ListingTypeOK
  BY ListingTypes DEF ListingInv
<1> QED BY <1>1, ListingInvInit, ListingInvStep, PTL DEF ListingSpec

(* A listing that came to its end has shown every key under the prefix that  *)
(* was there all along, or its folder, for all names, prefixes, page sizes   *)
(* and any number of commits, deletes and buckets in between.                *)
THEOREM ListingsAreComplete == ListingSpec => []ListingsCover
<1>1. ListingInv => ListingsCover
  BY DEF ListingInv
<1> QED BY <1>1, ListingInvInit, ListingInvStep, PTL DEF ListingSpec

(* A listing shows nothing twice, nothing out of order and nothing that      *)
(* never was, and a continuation token never goes on with another bucket.    *)
THEOREM ListingsAreHonest == ListingSpec => []ListingsHonest
<1>1. ListingInv => ListingsHonest
  BY DEF ListingInv
<1> QED BY <1>1, ListingInvInit, ListingInvStep, PTL DEF ListingSpec
=============================================================================
