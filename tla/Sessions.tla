------------------------------- MODULE Sessions -------------------------------
(***************************************************************************)
(* Sessions and their rotating refresh tokens (sessions.service.ts, called  *)
(* by auth.service.ts).  A refresh or a logout reads the session, verifies  *)
(* the secret against the hash it read (argon2, awaited) and then writes    *)
(* over whatever the session is by then.  Several tabs share one token.     *)
(* The password check and the signing of access tokens keep no state.       *)
(***************************************************************************)
EXTENDS Integers, Sequences

CONSTANTS Tabs,
          MaxSessions, MaxSecrets, MaxLost   \* bounds: sessions, secrets made, replies lost

ASSUME SessionAssumption == {MaxSessions, MaxSecrets, MaxLost} \subseteq Nat

NoToken == [id |-> 0, secret |-> 0]

VARIABLES
  sessions,   \* id -> [hash, revoked, expired]
  blocked,    \* the user is no longer ACTIVE
  held,       \* tab -> refresh token
  request,    \* tab -> [pc, token]
  made,       \* secrets made so far
  exchanged,  \* history: tokens exchanged for another, and whether by overlapping calls
  repliesLost
sessionVars == <<sessions, blocked, held, request, made, exchanged, repliesLost>>

Quiet == [pc |-> "idle", token |-> NoToken]

SessionInit ==
  /\ sessions = <<>> /\ blocked = FALSE /\ made = 0 /\ repliesLost = 0
  /\ held = [t \in Tabs |-> NoToken] /\ request = [t \in Tabs |-> Quiet]
  /\ exchanged = [once |-> {}, again |-> {}, overlapping |-> {}]

-----------------------------------------------------------------------------
Token(id, secret) == [id |-> id, secret |-> secret]

Active(id) == id \in DOMAIN sessions /\ ~sessions[id].revoked /\ ~sessions[id].expired /\ ~blocked

\* Mutant: the session is found by the id alone.
FoundById(token) == Active(token.id)

\* verifyRefreshToken
Verified(token) == Active(token.id) /\ sessions[token.id].hash = token.secret

\* A reply that is lost leaves the tab the token it sent.
Reply(t, token) ==
  \/ held' = [held EXCEPT ![t] = token] /\ UNCHANGED repliesLost
  \/ repliesLost < MaxLost /\ repliesLost' = repliesLost + 1 /\ UNCHANGED held

\* login and register: issueTokens, createSession
Login(t) ==
  /\ held[t] = NoToken /\ request[t] = Quiet /\ ~blocked
  /\ Len(sessions) < MaxSessions /\ made < MaxSecrets
  /\ made' = made + 1
  /\ sessions' = Append(sessions, [hash |-> made + 1, revoked |-> FALSE, expired |-> FALSE])
  /\ Reply(t, Token(Len(sessions) + 1, made + 1))
  /\ UNCHANGED <<blocked, request, exchanged>>

\* A tab without a token, or with an older one, takes what another tab stored.
Share(t, u) ==
  /\ request[t] = Quiet /\ held[u] # NoToken
  /\ held[t] = NoToken \/ (held[t].id = held[u].id /\ held[t].secret < held[u].secret)
  /\ held' = [held EXCEPT ![t] = held[u]]
  /\ UNCHANGED <<sessions, blocked, request, made, exchanged, repliesLost>>

\* refresh and logout: the session is read and its hash verified.
Ask(t, kind) ==
  /\ request[t] = Quiet /\ held[t] # NoToken
  /\ IF Verified(held[t])
     THEN /\ request' = [request EXCEPT ![t] = [pc |-> kind, token |-> held[t]]]
          /\ exchanged' = [exchanged EXCEPT !.overlapping = @ \union
               {held[t] : u \in {u \in Tabs : request[u].pc = "refresh" /\ request[u].token = held[t]}}]
          /\ UNCHANGED held
     ELSE held' = [held EXCEPT ![t] = NoToken] /\ UNCHANGED <<request, exchanged>>   \* 401
  /\ UNCHANGED <<sessions, blocked, made, repliesLost>>

\* rotateRefreshToken: the new hash, whatever happened since the old one was verified.
Rotate(t) ==
  LET token == request[t].token
  IN  /\ request[t].pc = "refresh" /\ made < MaxSecrets
      /\ made' = made + 1
      /\ sessions' = [sessions EXCEPT ![token.id].hash = made + 1]
      /\ exchanged' = [exchanged EXCEPT !.once = @ \union {token},
                                        !.again = @ \union ({token} \intersect exchanged.once)]
      /\ Reply(t, Token(token.id, made + 1))
      /\ request' = [request EXCEPT ![t] = Quiet]
      /\ UNCHANGED blocked

\* revokeByRefreshToken
Revoke(t) ==
  /\ request[t].pc = "logout"
  /\ sessions' = [sessions EXCEPT ![request[t].token.id].revoked = TRUE]
  /\ held' = [held EXCEPT ![t] = NoToken]
  /\ request' = [request EXCEPT ![t] = Quiet]
  /\ UNCHANGED <<blocked, made, exchanged, repliesLost>>

Expire(id) ==
  /\ ~sessions[id].expired
  /\ sessions' = [sessions EXCEPT ![id].expired = TRUE]
  /\ UNCHANGED <<blocked, held, request, made, exchanged, repliesLost>>

BlockUser ==
  /\ ~blocked /\ blocked' = TRUE
  /\ UNCHANGED <<sessions, held, request, made, exchanged, repliesLost>>

SessionNext ==
  \/ \E t \in Tabs : Login(t) \/ Ask(t, "refresh") \/ Ask(t, "logout") \/ Rotate(t) \/ Revoke(t)
  \/ \E t, u \in Tabs : Share(t, u)
  \/ \E id \in DOMAIN sessions : Expire(id)
  \/ BlockUser

SessionSpec == SessionInit /\ [][SessionNext]_sessionVars

-----------------------------------------------------------------------------
(* Properties. *)

\* Refreshes of one token overlap and each writes over what it did not read: unless a reply is
\* lost, what the last of them wrote is the token of a tab, so nobody is locked out of a session
\* that is not revoked, and a token is exchanged twice only by calls that overlapped.
TokensRotate ==
  /\ exchanged.again \subseteq exchanged.overlapping
  /\ repliesLost = 0 => \A id \in DOMAIN sessions :
       Active(id) => \E t \in Tabs : held[t] = Token(id, sessions[id].hash)
===============================================================================
