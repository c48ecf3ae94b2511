------------------------------- MODULE SignIn -------------------------------
(***************************************************************************)
(* The administrators' sign-in: OIDC challenges, the callback that turns a  *)
(* code into a session, the sessions table, and the requests it admits.     *)
(* A callback makes a database transaction, three kinds of call to the      *)
(* identity provider and an insert; it may be repeated by a reload, may     *)
(* carry the code of another sign-in than its state, and may stop anywhere. *)
(* The allowlist is configuration: it changes with a restart, while the     *)
(* sessions stay in the database.                                           *)
(*                                                                          *)
(* The state, nonce and verifier of a challenge are drawn together and are  *)
(* one id here; an ID token carries the id of the challenge its code was    *)
(* granted for.  Signature, issuer, audience and time claims are among the  *)
(* reasons for which any step may refuse (Fail).                            *)
(***************************************************************************)
EXTENDS Naturals

CONSTANTS
  Users,          \* subjects at the identity provider, with their addresses
  Callbacks,      \* callback handlers
  Requests,       \* handlers of requests with a session cookie
  MaxChallenges,  \* bound: challenges ever drawn
  MaxCodes,       \* bound: codes ever granted
  MaxSessions,    \* bound: sessions ever made
  MaxClock,       \* bound: the time
  ChallengeLife,  \* ten minutes
  SessionTTL,     \* Config.SessionTTL
  None

ASSUME BoundsAssumption ==
  /\ MaxChallenges \in Nat /\ MaxCodes \in Nat /\ MaxSessions \in Nat /\ MaxClock \in Nat
  /\ ChallengeLife \in Nat \ {0} /\ SessionTTL \in Nat
ASSUME NoneAssumption == None \notin Users \cup Nat

VARIABLES
  now,
  allowlist,   \* Config.AdminEmails of the running process
  challenges,  \* oidc_challenges: when the row expires, 0 without a row
  drawn,       \* challenges drawn so far
  codes,       \* at the provider: who granted a code, for which challenge
  sessions,    \* admin_sessions: address and expiry
  cb,          \* the callbacks' local variables
  req,         \* the requests' local variables
  made,        \* history: the address, code and challenge a session came from
  removed      \* history: when an address last left the allowlist

vars == <<now, allowlist, challenges, drawn, codes, sessions, cb, req, made, removed>>

Challenges == 1..MaxChallenges
Codes == 1..MaxCodes
Sessions == 1..MaxSessions
Time == 0..MaxClock

Resting == [pc |-> "idle", code |-> 0, c |-> 0, sub |-> None]
Waiting == [pc |-> "idle", s |-> 0]
NoCode == [user |-> None, c |-> 0, used |-> FALSE]
NoSession == [email |-> None, expires |-> 0]
Unmade == [email |-> None, code |-> 0, c |-> 0]

TypeOK ==
  /\ now \in Time
  /\ allowlist \subseteq Users
  /\ drawn \in 0..MaxChallenges
  /\ challenges \in [Challenges -> 0..(MaxClock + ChallengeLife)]
  /\ \A c \in Challenges : c > drawn => challenges[c] = 0
  /\ codes \in [Codes -> [user : Users \cup {None}, c : 0..drawn, used : BOOLEAN]]
  /\ sessions \in [Sessions -> [email : Users \cup {None}, expires : 0..(MaxClock + SessionTTL)]]
  /\ \A s \in Sessions : sessions[s].expires <= now + SessionTTL
  /\ cb \in [Callbacks -> [pc : {"idle", "consume", "exchange", "verify", "profile", "session"},
                           code : 0..MaxCodes, c : 0..drawn, sub : Users \cup {None}]]
  /\ req \in [Requests -> [pc : {"idle", "act", "drop"}, s : 0..MaxSessions]]
  /\ made \in [Sessions -> [email : Users \cup {None}, code : 0..MaxCodes, c : 0..drawn]]
  /\ removed \in [Users -> Time \cup {None}]

Init ==
  /\ now = 0 /\ drawn = 0
  /\ allowlist \in SUBSET Users
  /\ challenges = [c \in Challenges |-> 0]
  /\ codes = [n \in Codes |-> NoCode]
  /\ sessions = [s \in Sessions |-> NoSession]
  /\ cb = [h \in Callbacks |-> Resting]
  /\ req = [r \in Requests |-> Waiting]
  /\ made = [s \in Sessions |-> Unmade]
  /\ removed = [u \in Users |-> None]

At(h, pc) == cb[h].pc = pc
Goto(h, pc) == cb' = [cb EXCEPT ![h].pc = pc]
FailRedirect(h) == cb' = [cb EXCEPT ![h] = Resting]

-----------------------------------------------------------------------------
(* The sign-in page, the provider's pages, and the way back. *)

SaveOIDCChallenge ==
  /\ drawn < MaxChallenges
  /\ drawn' = drawn + 1
  /\ challenges' = [challenges EXCEPT ![drawn + 1] = now + ChallengeLife]
  /\ UNCHANGED <<now, allowlist, codes, sessions, cb, req, made, removed>>

(* Somebody signs in at the provider; nothing keeps them from doing so twice *)
(* on the page of one challenge.                                             *)
Grant(u, c, n) ==
  /\ c <= drawn
  /\ codes[n] = NoCode /\ \A m \in Codes : m < n => codes[m] # NoCode
  /\ codes' = [codes EXCEPT ![n] = [user |-> u, c |-> c, used |-> FALSE]]
  /\ UNCHANGED <<now, allowlist, challenges, drawn, sessions, cb, req, made, removed>>

CallbackStart(h, n, c) ==
  /\ At(h, "idle")
  /\ codes[n] # NoCode /\ c <= drawn
  /\ cb' = [cb EXCEPT ![h] = [pc |-> "consume", code |-> n, c |-> c, sub |-> None]]
  /\ UNCHANGED <<now, allowlist, challenges, drawn, codes, sessions, req, made, removed>>

-----------------------------------------------------------------------------
(* The callback. *)

Valid(c) == challenges[c] # 0 /\ now <= challenges[c]

(* Mutant: the row is read and left. *)
ConsumeKeepsRow(h) ==
  /\ At(h, "consume")
  /\ IF Valid(cb[h].c) THEN Goto(h, "exchange") ELSE FailRedirect(h)
  /\ UNCHANGED <<now, allowlist, challenges, drawn, codes, sessions, req, made, removed>>

ConsumeOIDCChallenge(h) ==
  /\ At(h, "consume")
  /\ IF Valid(cb[h].c)
     THEN /\ challenges' = [challenges EXCEPT ![cb[h].c] = 0]
          /\ Goto(h, "exchange")
     ELSE FailRedirect(h) /\ UNCHANGED challenges
  /\ UNCHANGED <<now, allowlist, drawn, codes, sessions, req, made, removed>>

(* The provider takes a code once.  That it compares the verifier with the   *)
(* challenge is its business: here it does not, and the nonce must do.       *)
ExchangeCode(h) ==
  LET n == cb[h].code IN
  /\ At(h, "exchange")
  /\ codes' = [codes EXCEPT ![n].used = TRUE]
  /\ IF codes[n].used
     THEN FailRedirect(h)
     ELSE cb' = [cb EXCEPT ![h].pc = "verify", ![h].sub = codes[n].user]
  /\ UNCHANGED <<now, allowlist, challenges, drawn, sessions, req, made, removed>>

(* Mutant: the nonce in the token is not compared. *)
VerifyAnyNonce(h) ==
  /\ At(h, "verify")
  /\ Goto(h, "profile")
  /\ UNCHANGED <<now, allowlist, challenges, drawn, codes, sessions, req, made, removed>>

VerifyIDToken(h) ==
  /\ At(h, "verify")
  /\ IF codes[cb[h].code].c = cb[h].c THEN Goto(h, "profile") ELSE FailRedirect(h)
  /\ UNCHANGED <<now, allowlist, challenges, drawn, codes, sessions, req, made, removed>>

(* UserInfo answers with a profile, which may be somebody else's. *)
UserInfo(h, u) ==
  /\ At(h, "profile")
  /\ IF u = cb[h].sub /\ u \in allowlist THEN Goto(h, "session") ELSE FailRedirect(h)
  /\ UNCHANGED <<now, allowlist, challenges, drawn, codes, sessions, req, made, removed>>

NextSession(s) == made[s] = Unmade /\ \A t \in Sessions : t < s => made[t] # Unmade

(* Mutant: a session's expiry counts from the end of the sign-in's ten minutes. *)
CreateAdminSessionLate(h, s) ==
  /\ At(h, "session") /\ NextSession(s)
  /\ sessions' = [sessions EXCEPT ![s] =
                    [email |-> cb[h].sub, expires |-> now + ChallengeLife + SessionTTL]]
  /\ made' = [made EXCEPT ![s] = [email |-> cb[h].sub, code |-> cb[h].code, c |-> cb[h].c]]
  /\ FailRedirect(h)
  /\ UNCHANGED <<now, allowlist, challenges, drawn, codes, req, removed>>

CreateAdminSession(h, s) ==
  /\ At(h, "session") /\ NextSession(s)
  /\ sessions' = [sessions EXCEPT ![s] = [email |-> cb[h].sub, expires |-> now + SessionTTL]]
  /\ made' = [made EXCEPT ![s] = [email |-> cb[h].sub, code |-> cb[h].code, c |-> cb[h].c]]
  /\ FailRedirect(h)
  /\ UNCHANGED <<now, allowlist, challenges, drawn, codes, req, removed>>

(* A query or a call fails, an answer is refused, or the client is gone. *)
Fail(h) ==
  /\ ~At(h, "idle")
  /\ FailRedirect(h)
  /\ UNCHANGED <<now, allowlist, challenges, drawn, codes, sessions, req, made, removed>>

-----------------------------------------------------------------------------
(* Requests with a session cookie. *)

Has(s) == sessions[s] # NoSession

(* Mutant: a session in use is extended. *)
AdminSessionSlides(r, s) ==
  /\ req[r].pc = "idle" /\ Has(s)
  /\ IF now <= sessions[s].expires
     THEN /\ req' = [req EXCEPT ![r] = [pc |-> "act", s |-> s]]
          /\ sessions' = [sessions EXCEPT ![s].expires = now + SessionTTL]
     ELSE /\ req' = [req EXCEPT ![r] = [pc |-> "drop", s |-> s]]
          /\ UNCHANGED sessions
  /\ UNCHANGED <<now, allowlist, challenges, drawn, codes, cb, made, removed>>

AdminSession(r, s) ==
  /\ req[r].pc = "idle" /\ Has(s)
  /\ req' = [req EXCEPT ![r] =
               [pc |-> IF now <= sessions[s].expires THEN "act" ELSE "drop", s |-> s]]
  /\ UNCHANGED <<now, allowlist, challenges, drawn, codes, sessions, cb, made, removed>>

(* An expired row is deleted on the way out of AdminSession, if that works. *)
DropExpired(r) ==
  /\ req[r].pc = "drop"
  /\ sessions' = [sessions EXCEPT ![req[r].s] = NoSession]
  /\ req' = [req EXCEPT ![r] = Waiting]
  /\ UNCHANGED <<now, allowlist, challenges, drawn, codes, cb, made, removed>>

Answer(r) ==
  /\ req[r].pc # "idle"
  /\ req' = [req EXCEPT ![r] = Waiting]
  /\ UNCHANGED <<now, allowlist, challenges, drawn, codes, sessions, cb, made, removed>>

(* Logout; the result of its DELETE is ignored, so that it may as well be no *)
(* step at all.                                                              *)
DeleteAdminSession(s) ==
  /\ Has(s)
  /\ sessions' = [sessions EXCEPT ![s] = NoSession]
  /\ UNCHANGED <<now, allowlist, challenges, drawn, codes, cb, req, made, removed>>

-----------------------------------------------------------------------------
(* Time passes; the server starts again, perhaps with another allowlist. *)

Tick ==
  /\ now < MaxClock
  /\ now' = now + 1
  /\ UNCHANGED <<allowlist, challenges, drawn, codes, sessions, cb, req, made, removed>>

Restart(emails) ==
  /\ allowlist' = emails
  /\ removed' = [u \in Users |-> IF u \in allowlist \ emails THEN now ELSE removed[u]]
  /\ cb' = [h \in Callbacks |-> Resting]
  /\ req' = [r \in Requests |-> Waiting]
  /\ UNCHANGED <<now, challenges, drawn, codes, sessions, made>>

Next ==
  \/ SaveOIDCChallenge \/ Tick
  \/ \E u \in Users, c \in Challenges, n \in Codes : Grant(u, c, n)
  \/ \E h \in Callbacks, n \in Codes, c \in Challenges : CallbackStart(h, n, c)
  \/ \E h \in Callbacks : ConsumeOIDCChallenge(h) \/ ExchangeCode(h) \/ VerifyIDToken(h) \/ Fail(h)
  \/ \E h \in Callbacks, u \in Users : UserInfo(h, u)
  \/ \E h \in Callbacks, s \in Sessions : CreateAdminSession(h, s)
  \/ \E r \in Requests, s \in Sessions : AdminSession(r, s)
  \/ \E r \in Requests : DropExpired(r) \/ Answer(r)
  \/ \E s \in Sessions : DeleteAdminSession(s)
  \/ \E emails \in SUBSET Users : Restart(emails)

Spec == Init /\ [][Next]_vars

-----------------------------------------------------------------------------
(* A session is one person's consent, used once: it bears the address of the *)
(* person who granted the code it was made from, that code was granted for   *)
(* the challenge the callback consumed, and no two sessions come from one    *)
(* code or from one challenge, however callbacks are repeated, mixed up,     *)
(* overtaken or cut off (oidcCallback, ConsumeOIDCChallenge, verifyIDToken). *)
SessionFollowsConsent ==
  \A s \in Sessions : made[s] # Unmade =>
    /\ codes[made[s].code] = [user |-> made[s].email, c |-> made[s].c, used |-> TRUE]
    /\ challenges[made[s].c] = 0
    /\ sessions[s].email \in {made[s].email, None}
    /\ \A t \in Sessions : made[t].code = made[s].code \/ made[t].c = made[s].c => t = s

(* A request is admitted for an address that is on the allowlist, or left it *)
(* no longer than a session's life ago: the allowlist is read only when a    *)
(* session is made, so this is all that removing an address achieves         *)
(* (sessionEmail, AdminSession, and the restart that changes AdminEmails).   *)
AdmittedIsCurrent ==
  [][\A r \in Requests : req[r].pc = "idle" /\ req'[r].pc = "act" =>
       LET u == sessions[req'[r].s].email IN
       \/ u \in allowlist
       \/ removed[u] # None /\ now <= removed[u] + SessionTTL]_vars
=============================================================================
