----------------------------- MODULE Platform_proof -----------------------------
(***************************************************************************)
(* Theorems about the machines of Platform: any users, keys and calls, any  *)
(* withdrawals, coins and fees, any bounds; at the end about Overviews.     *)
(***************************************************************************)
EXTENDS Platform, FiniteSetTheorems, SequenceTheorems, TLAPS

-----------------------------------------------------------------------------
(* Sessions: the inductive invariant *)

TokenType   == [id : Nat, secret : Nat]
RequestType == [pc : {"idle", "refresh", "logout"}, token : TokenType]
SessionType == [hash : Nat, revoked : BOOLEAN, expired : BOOLEAN]

SessionTypes ==
  /\ sessions \in Seq(SessionType) /\ blocked \in BOOLEAN /\ made \in Nat /\ repliesLost \in Nat
  /\ held \in [Tabs -> TokenType] /\ request \in [Tabs -> RequestType]
  /\ exchanged \in [once : SUBSET TokenType, again : SUBSET TokenType, overlapping : SUBSET TokenType]

\* A token is of a session there is, and not newer than its hash.
Issued(token) == token.id \in DOMAIN sessions /\ token.secret <= sessions[token.id].hash
HeldAreIssued == \A t \in Tabs : held[t] # NoToken => Issued(held[t])
HashesAreMade == \A id \in DOMAIN sessions : sessions[id].hash <= made

\* A request is about the token its tab still holds.
AskedIsHeld == \A t \in Tabs : request[t].pc # "idle" => held[t] = request[t].token /\ held[t] # NoToken

\* A token that was exchanged is older than its session's hash.
ExchangedAreOld == \A token \in exchanged.once : Issued(token) /\ token.secret # sessions[token.id].hash

Refreshing(t) == request[t].pc = "refresh"

\* Who refreshes with a token that was exchanged, or as another does, overlapped.
OverlapsAreSeen ==
  /\ \A t \in Tabs : Refreshing(t) /\ request[t].token \in exchanged.once => request[t].token \in exchanged.overlapping
  /\ \A t, u \in Tabs : t # u /\ Refreshing(t) /\ Refreshing(u) /\ request[t].token = request[u].token
                        => request[t].token \in exchanged.overlapping

SessionInv ==
  /\ SessionTypes /\ HeldAreIssued /\ HashesAreMade /\ AskedIsHeld /\ ExchangedAreOld /\ OverlapsAreSeen
  /\ TokensRotate

LEMMA SessionStarts == SessionInit => SessionInv
<1> SUFFICES ASSUME SessionInit PROVE SessionInv
  OBVIOUS
<1>1. /\ sessions = <<>> /\ blocked = FALSE /\ made = 0 /\ repliesLost = 0
      /\ held = [t \in Tabs |-> NoToken] /\ request = [t \in Tabs |-> Quiet]
      /\ exchanged = [once |-> {}, again |-> {}, overlapping |-> {}]
  BY DEF SessionInit
<1>2. NoToken \in TokenType /\ Quiet \in RequestType /\ Quiet.pc = "idle"
  BY DEF NoToken, Quiet, TokenType, RequestType
<1>3. sessions \in Seq(SessionType) /\ DOMAIN sessions = {}
  BY <1>1
<1>4. SessionTypes
  BY <1>1, <1>2, <1>3 DEF SessionTypes
<1>5. HeldAreIssued /\ HashesAreMade /\ AskedIsHeld /\ ExchangedAreOld /\ OverlapsAreSeen
  BY <1>1, <1>2, <1>3 DEF HeldAreIssued, HashesAreMade, AskedIsHeld, ExchangedAreOld, OverlapsAreSeen, Refreshing
<1>6. TokensRotate
  BY <1>1, <1>3 DEF TokensRotate
<1> QED BY <1>4, <1>5, <1>6 DEF SessionInv

LEMMA SessionFields ==
  ASSUME SessionTypes, NEW id \in DOMAIN sessions
  PROVE  sessions[id] \in SessionType /\ sessions[id].hash \in Nat /\ id \in Nat /\ id # 0
<1>1. sessions \in Seq(SessionType)
  BY DEF SessionTypes
<1>2. sessions[id] \in SessionType /\ id \in 1 .. Len(sessions)
  BY <1>1
<1> QED BY <1>2 DEF SessionType

\* A sequence with one record changed.
LEMMA SessionChanged ==
  ASSUME NEW s \in Seq(SessionType), NEW i \in DOMAIN s, NEW x \in SessionType
  PROVE  LET r == [s EXCEPT ![i] = x]
         IN  r \in Seq(SessionType) /\ DOMAIN r = DOMAIN s /\ r[i] = x /\ \A j \in DOMAIN s \ {i} : r[j] = s[j]
  OBVIOUS

LEMMA LoginKeeps == ASSUME SessionInv, NEW t \in Tabs, Login(t) PROVE SessionInv'
<1> DEFINE n == Len(sessions) + 1
           token == Token(n, made + 1)
           x == [hash |-> made + 1, revoked |-> FALSE, expired |-> FALSE]
<1>1. /\ SessionTypes /\ HeldAreIssued /\ HashesAreMade /\ AskedIsHeld /\ ExchangedAreOld /\ OverlapsAreSeen /\ TokensRotate
  BY DEF SessionInv
<1>2. /\ held[t] = NoToken /\ request[t] = Quiet /\ ~blocked /\ made' = made + 1
      /\ sessions' = Append(sessions, x) /\ Reply(t, token)
      /\ UNCHANGED <<blocked, request, exchanged>>
  BY DEF Login
<1>3. /\ sessions \in Seq(SessionType) /\ made \in Nat /\ held \in [Tabs -> TokenType] /\ request \in [Tabs -> RequestType]
      /\ repliesLost \in Nat
  BY <1>1 DEF SessionTypes
<1>4. x \in SessionType /\ token \in TokenType /\ token.id = n /\ token.secret = made + 1 /\ n \in Nat /\ n # 0
  BY <1>3 DEF SessionType, Token, TokenType
<1>5. /\ sessions' \in Seq(SessionType) /\ DOMAIN sessions' = DOMAIN sessions \cup {n} /\ n \notin DOMAIN sessions
      /\ sessions'[n] = x /\ \A id \in DOMAIN sessions : sessions'[id] = sessions[id]
  BY <1>2, <1>3, <1>4
<1>6. x.hash = made + 1 /\ ~x.revoked /\ ~x.expired
  OBVIOUS
<1>q. Quiet.pc = "idle"
  BY DEF Quiet
<1> HIDE DEF n, x, token
<1>7. /\ held' \in [Tabs -> TokenType] /\ \A u \in Tabs \ {t} : held'[u] = held[u]
      /\ (held'[t] = token /\ repliesLost' = repliesLost) \/ (held'[t] = NoToken /\ repliesLost' = repliesLost + 1)
  BY <1>2, <1>3, <1>4 DEF Reply
<1>8. SessionTypes'
  BY <1>1, <1>2, <1>3, <1>5, <1>7 DEF SessionTypes
<1>9. \A k : Issued(k) => Issued(k)'
  BY <1>5 DEF Issued
<1>10. \A k \in {token} : Issued(k)'
  <2>1. (made + 1) \in Nat /\ sessions'[n].hash = made + 1 /\ n \in DOMAIN sessions'
    BY <1>3, <1>5, <1>6
  <2> QED BY <2>1, <1>4 DEF Issued
<1>11. HeldAreIssued'
  BY <1>1, <1>7, <1>9, <1>10 DEF HeldAreIssued
<1>12. HashesAreMade'
  <2>1. \A id \in DOMAIN sessions : sessions[id].hash \in Nat /\ sessions[id].hash <= made
    BY <1>1, SessionFields DEF HashesAreMade
  <2> QED BY <2>1, <1>2, <1>3, <1>5, <1>6 DEF HashesAreMade
<1>13. AskedIsHeld'
  BY <1>1, <1>2, <1>7, <1>q DEF AskedIsHeld
<1>14. ExchangedAreOld'
  BY <1>1, <1>2, <1>5, <1>9 DEF ExchangedAreOld, Issued
<1>15. OverlapsAreSeen'
  BY <1>1, <1>2 DEF OverlapsAreSeen, Refreshing
<1>16. TokensRotate'
  <2>1. (exchanged.again \subseteq exchanged.overlapping)'
    BY <1>1, <1>2 DEF TokensRotate
  <2>2. ASSUME repliesLost' = 0, NEW id \in DOMAIN sessions', Active(id)'
        PROVE  \E u \in Tabs : held'[u] = Token(id, sessions'[id].hash)
    <3>1. repliesLost = 0 /\ held'[t] = token
      BY <2>2, <1>3, <1>7
    <3>2. CASE id = n
      BY <3>1, <3>2, <1>5, <1>6 DEF token
    <3>3. CASE id \in DOMAIN sessions
      <4>1. sessions'[id] = sessions[id] /\ Active(id)
        BY <2>2, <3>3, <1>2, <1>5 DEF Active
      <4>2. PICK u \in Tabs : held[u] = Token(id, sessions[id].hash)
        BY <4>1, <3>1, <3>3, <1>1 DEF TokensRotate
      <4>3. u # t
        <5>1. held[u].id = id /\ id # 0
          BY <4>2, <3>3, <1>3 DEF Token
        <5> QED BY <5>1, <1>2 DEF NoToken
      <4> QED BY <4>1, <4>2, <4>3, <1>7
    <3> QED BY <3>2, <3>3, <2>2, <1>5
  <2> QED BY <2>1, <2>2 DEF TokensRotate
<1> QED BY <1>8, <1>11, <1>12, <1>13, <1>14, <1>15, <1>16 DEF SessionInv

LEMMA ShareKeeps == ASSUME SessionInv, NEW t \in Tabs, NEW u \in Tabs, Share(t, u) PROVE SessionInv'
<1>1. /\ SessionTypes /\ HeldAreIssued /\ HashesAreMade /\ AskedIsHeld /\ ExchangedAreOld /\ OverlapsAreSeen /\ TokensRotate
  BY DEF SessionInv
<1>2. /\ request[t] = Quiet /\ held[u] # NoToken
      /\ held[t] = NoToken \/ (held[t].id = held[u].id /\ held[t].secret < held[u].secret)
      /\ held' = [held EXCEPT ![t] = held[u]]
      /\ UNCHANGED <<sessions, blocked, request, made, exchanged, repliesLost>>
  BY DEF Share
<1>3. sessions \in Seq(SessionType) /\ held \in [Tabs -> TokenType]
  BY <1>1 DEF SessionTypes
<1>4. held' \in [Tabs -> TokenType] /\ held'[t] = held[u] /\ \A v \in Tabs \ {t} : held'[v] = held[v]
  BY <1>2, <1>3
<1>5. SessionTypes' /\ HashesAreMade' /\ ExchangedAreOld' /\ OverlapsAreSeen'
  BY <1>1, <1>2, <1>4 DEF SessionTypes, HashesAreMade, ExchangedAreOld, Issued, OverlapsAreSeen, Refreshing
<1>6. HeldAreIssued'
  BY <1>1, <1>2, <1>4 DEF HeldAreIssued, Issued
<1>7. AskedIsHeld'
  BY <1>1, <1>2, <1>4 DEF AskedIsHeld, Quiet
<1>8. TokensRotate'
  <2>1. (exchanged.again \subseteq exchanged.overlapping)'
    BY <1>1, <1>2 DEF TokensRotate
  <2>2. ASSUME repliesLost' = 0, NEW id \in DOMAIN sessions', Active(id)'
        PROVE  \E v \in Tabs : held'[v] = Token(id, sessions'[id].hash)
    <3>1. repliesLost = 0 /\ Active(id) /\ id \in DOMAIN sessions
      BY <2>2, <1>2 DEF Active
    <3>2. PICK v \in Tabs : held[v] = Token(id, sessions[id].hash)
      BY <3>1, <1>1 DEF TokensRotate
    <3>3. v # t
      <4>1. held[v].id = id /\ held[v].secret = sessions[id].hash /\ id \in Nat /\ id # 0 /\ sessions[id].hash \in Nat
        BY <3>1, <3>2, <1>1, SessionFields DEF Token
      <4>2. held[v] # NoToken
        BY <4>1 DEF NoToken
      <4>3. Issued(held[u]) /\ held[u].secret \in Nat
        BY <1>1, <1>2, <1>3 DEF HeldAreIssued, TokenType
      <4>4. held[u].id = id => held[u].secret <= sessions[id].hash
        BY <4>3 DEF Issued
      <4> QED BY <4>1, <4>2, <4>3, <4>4, <1>2
    <3> QED BY <3>2, <3>3, <1>2, <1>4
  <2> QED BY <2>1, <2>2 DEF TokensRotate
<1> QED BY <1>5, <1>6, <1>7, <1>8 DEF SessionInv

LEMMA AskKeeps ==
  ASSUME SessionInv, NEW t \in Tabs, NEW kind \in {"refresh", "logout"}, Ask(t, kind)
  PROVE  SessionInv'
<1>1. /\ SessionTypes /\ HeldAreIssued /\ HashesAreMade /\ AskedIsHeld /\ ExchangedAreOld /\ OverlapsAreSeen /\ TokensRotate
  BY DEF SessionInv
<1>2. request[t] = Quiet /\ held[t] # NoToken /\ UNCHANGED <<sessions, blocked, made, repliesLost>>
  BY DEF Ask
<1>3. /\ sessions \in Seq(SessionType) /\ held \in [Tabs -> TokenType] /\ request \in [Tabs -> RequestType]
      /\ exchanged \in [once : SUBSET TokenType, again : SUBSET TokenType, overlapping : SUBSET TokenType]
  BY <1>1 DEF SessionTypes
<1>4. HashesAreMade'
  BY <1>1, <1>2 DEF HashesAreMade
<1>5. CASE ~Verified(held[t]) /\ held' = [held EXCEPT ![t] = NoToken] /\ UNCHANGED <<request, exchanged>>
  <2>1. NoToken \in TokenType
    BY DEF NoToken, TokenType
  <2>2. held' \in [Tabs -> TokenType] /\ held'[t] = NoToken /\ \A v \in Tabs \ {t} : held'[v] = held[v]
    BY <2>1, <1>3, <1>5
  <2>3. SessionTypes' /\ ExchangedAreOld' /\ OverlapsAreSeen'
    BY <1>1, <1>2, <1>5, <2>2 DEF SessionTypes, ExchangedAreOld, Issued, OverlapsAreSeen, Refreshing
  <2>4. HeldAreIssued'
    BY <1>1, <1>2, <2>2 DEF HeldAreIssued, Issued
  <2>5. AskedIsHeld'
    BY <1>1, <1>2, <1>5, <2>2 DEF AskedIsHeld, Quiet
  <2>6. TokensRotate'
    <3>1. (exchanged.again \subseteq exchanged.overlapping)'
      BY <1>1, <1>5 DEF TokensRotate
    <3>2. ASSUME repliesLost' = 0, NEW id \in DOMAIN sessions', Active(id)'
          PROVE  \E v \in Tabs : held'[v] = Token(id, sessions'[id].hash)
      <4>1. repliesLost = 0 /\ Active(id) /\ id \in DOMAIN sessions
        BY <3>2, <1>2 DEF Active
      <4>2. PICK v \in Tabs : held[v] = Token(id, sessions[id].hash)
        BY <4>1, <1>1 DEF TokensRotate
      <4>3. v # t
        BY <4>1, <4>2, <1>5 DEF Verified, Token
      <4> QED BY <4>2, <4>3, <1>2, <2>2
    <3> QED BY <3>1, <3>2 DEF TokensRotate
  <2> QED BY <1>4, <2>3, <2>4, <2>5, <2>6 DEF SessionInv
<1>6. CASE /\ Verified(held[t])
           /\ request' = [request EXCEPT ![t] = [pc |-> kind, token |-> held[t]]]
           /\ exchanged' = [exchanged EXCEPT !.overlapping = @ \union
                {held[t] : u \in {u \in Tabs : request[u].pc = "refresh" /\ request[u].token = held[t]}}]
           /\ UNCHANGED held
  <2> DEFINE o == exchanged.overlapping \union
                    {held[t] : u \in {u \in Tabs : request[u].pc = "refresh" /\ request[u].token = held[t]}}
  <2>1. o \subseteq TokenType /\ exchanged.overlapping \subseteq o
    BY <1>3
  <2>2. \A u \in Tabs : Refreshing(u) /\ request[u].token = held[t] => held[t] \in o
    BY DEF Refreshing
  <2>3. exchanged' = [exchanged EXCEPT !.overlapping = o]
    BY <1>6
  <2> HIDE DEF o
  <2>4. exchanged'.once = exchanged.once /\ exchanged'.again = exchanged.again /\ exchanged'.overlapping = o
        /\ exchanged' \in [once : SUBSET TokenType, again : SUBSET TokenType, overlapping : SUBSET TokenType]
    BY <1>3, <2>1, <2>3
  <2>5. [pc |-> kind, token |-> held[t]] \in RequestType
    BY <1>3 DEF RequestType
  <2>6. /\ request' \in [Tabs -> RequestType] /\ request'[t].pc = kind /\ request'[t].token = held[t]
        /\ \A v \in Tabs \ {t} : request'[v] = request[v]
    BY <1>3, <1>6, <2>5
  <2>7. SessionTypes'
    BY <1>1, <1>2, <1>6, <2>4, <2>6 DEF SessionTypes
  <2>8. HeldAreIssued' /\ ExchangedAreOld'
    BY <1>1, <1>2, <1>6, <2>4 DEF HeldAreIssued, ExchangedAreOld, Issued
  <2>9. AskedIsHeld'
    BY <1>1, <1>2, <1>6, <2>6 DEF AskedIsHeld
  <2>10. held[t] \notin exchanged.once
    BY <1>1, <1>6 DEF ExchangedAreOld, Verified
  <2>11. OverlapsAreSeen'
    <3>1. ASSUME NEW v \in Tabs, Refreshing(v)', request'[v].token \in exchanged'.once
          PROVE  request'[v].token \in exchanged'.overlapping
      <4>1. v # t
        BY <3>1, <2>4, <2>6, <2>10
      <4> QED BY <4>1, <3>1, <1>1, <2>1, <2>4, <2>6 DEF OverlapsAreSeen, Refreshing
    <3>2. ASSUME NEW v \in Tabs, NEW u \in Tabs, v # u, Refreshing(v)', Refreshing(u)', request'[v].token = request'[u].token
          PROVE  request'[v].token \in exchanged'.overlapping
      <4>1. CASE v = t
        BY <4>1, <3>2, <2>2, <2>4, <2>6 DEF Refreshing
      <4>2. CASE u = t
        BY <4>2, <3>2, <2>2, <2>4, <2>6 DEF Refreshing
      <4>3. CASE v # t /\ u # t
        BY <4>3, <3>2, <1>1, <2>1, <2>4, <2>6 DEF OverlapsAreSeen, Refreshing
      <4> QED BY <4>1, <4>2, <4>3
    <3> QED BY <3>1, <3>2 DEF OverlapsAreSeen
  <2>12. TokensRotate'
    BY <1>1, <1>2, <1>6, <2>1, <2>4 DEF TokensRotate, Active
  <2> QED BY <1>4, <2>7, <2>8, <2>9, <2>11, <2>12 DEF SessionInv
<1> QED BY <1>5, <1>6 DEF Ask

LEMMA RotateKeeps == ASSUME SessionInv, NEW t \in Tabs, Rotate(t) PROVE SessionInv'
<1> DEFINE token == request[t].token
           i == token.id
           new == Token(i, made + 1)
           x == [sessions[i] EXCEPT !.hash = made + 1]
<1>1. /\ SessionTypes /\ HeldAreIssued /\ HashesAreMade /\ AskedIsHeld /\ ExchangedAreOld /\ OverlapsAreSeen /\ TokensRotate
  BY DEF SessionInv
<1>2. /\ request[t].pc = "refresh" /\ made' = made + 1
      /\ sessions' = [sessions EXCEPT ![i].hash = made + 1]
      /\ exchanged' = [exchanged EXCEPT !.once = @ \union {token}, !.again = @ \union ({token} \intersect exchanged.once)]
      /\ Reply(t, new) /\ request' = [request EXCEPT ![t] = Quiet] /\ UNCHANGED blocked
  BY DEF Rotate
<1>3. /\ sessions \in Seq(SessionType) /\ held \in [Tabs -> TokenType] /\ request \in [Tabs -> RequestType]
      /\ exchanged \in [once : SUBSET TokenType, again : SUBSET TokenType, overlapping : SUBSET TokenType]
      /\ made \in Nat /\ repliesLost \in Nat /\ blocked \in BOOLEAN
  BY <1>1 DEF SessionTypes
<1>4. held[t] = token /\ token # NoToken /\ token \in TokenType /\ Issued(token) /\ i \in Nat /\ token.secret \in Nat
  BY <1>1, <1>2, <1>3 DEF AskedIsHeld, HeldAreIssued, TokenType, RequestType
<1>5. i \in DOMAIN sessions /\ sessions[i] \in SessionType /\ sessions[i].hash \in Nat /\ token.secret <= sessions[i].hash
      /\ sessions[i].hash <= made
  BY <1>1, <1>4, SessionFields DEF Issued, HashesAreMade
<1>6. x \in SessionType /\ x.hash = made + 1 /\ x.revoked = sessions[i].revoked /\ x.expired = sessions[i].expired
      /\ new \in TokenType /\ new.id = i /\ new.secret = made + 1
  <2>1. (made + 1) \in Nat
    BY <1>3
  <2>2. x \in SessionType /\ x.hash = made + 1 /\ x.revoked = sessions[i].revoked /\ x.expired = sessions[i].expired
    BY <2>1, <1>5 DEF SessionType
  <2>3. new \in TokenType /\ new.id = i /\ new.secret = made + 1
    BY <2>1, <1>4 DEF TokenType, Token
  <2> QED BY <2>2, <2>3
<1>7. sessions' = [sessions EXCEPT ![i] = x]
  BY <1>2
<1>8. Quiet \in RequestType /\ Quiet.pc = "idle"
  BY DEF Quiet, RequestType, NoToken, TokenType
<1>o. /\ exchanged'.once = exchanged.once \union {token}
      /\ exchanged'.again = exchanged.again \union ({token} \intersect exchanged.once)
      /\ exchanged'.overlapping = exchanged.overlapping
      /\ exchanged' \in [once : SUBSET TokenType, again : SUBSET TokenType, overlapping : SUBSET TokenType]
  BY <1>2, <1>3, <1>4
<1>9. /\ request' \in [Tabs -> RequestType] /\ request'[t].pc = "idle" /\ \A v \in Tabs \ {t} : request'[v] = request[v]
  BY <1>2, <1>3, <1>8
<1>10. /\ held' \in [Tabs -> TokenType] /\ \A v \in Tabs \ {t} : held'[v] = held[v]
       /\ (held'[t] = new /\ repliesLost' = repliesLost) \/ (held'[t] = token /\ repliesLost' = repliesLost + 1)
  BY <1>2, <1>3, <1>4, <1>6 DEF Reply
<1>11. /\ sessions' \in Seq(SessionType) /\ DOMAIN sessions' = DOMAIN sessions /\ sessions'[i] = x
       /\ \A id \in DOMAIN sessions \ {i} : sessions'[id] = sessions[id]
  BY <1>3, <1>5, <1>6, <1>7, SessionChanged
<1>t. token = request[t].token
  OBVIOUS
<1>12. \A k \in {new} : k.id = i /\ k.secret = made + 1 /\ k = Token(i, made + 1)
  BY <1>6
<1> HIDE DEF token, i, new, x
<1>13. \A id \in DOMAIN sessions : sessions'[id].hash \in Nat /\ sessions[id].hash \in Nat
                                   /\ sessions'[id].hash <= made + 1 /\ sessions[id].hash <= sessions'[id].hash
  <2> SUFFICES ASSUME NEW id \in DOMAIN sessions
               PROVE  sessions'[id].hash \in Nat /\ sessions[id].hash \in Nat
                      /\ sessions'[id].hash <= made + 1 /\ sessions[id].hash <= sessions'[id].hash
    OBVIOUS
  <2>1. sessions[id].hash \in Nat /\ sessions[id].hash <= made
    BY <1>1, SessionFields DEF HashesAreMade
  <2>2. CASE id = i
    BY <2>1, <2>2, <1>3, <1>6, <1>11
  <2>3. CASE id # i
    BY <2>1, <2>3, <1>3, <1>11
  <2> QED BY <2>2, <2>3
<1>14. SessionTypes'
  BY <1>2, <1>3, <1>9, <1>10, <1>11, <1>o DEF SessionTypes
<1>15. HashesAreMade'
  BY <1>2, <1>11, <1>13 DEF HashesAreMade
<1>16. \A k \in TokenType : Issued(k) => Issued(k)'
  <2> SUFFICES ASSUME NEW k \in TokenType, Issued(k) PROVE k.id \in DOMAIN sessions' /\ k.secret <= sessions'[k.id].hash
    BY DEF Issued
  <2>1. k.secret \in Nat /\ k.id \in DOMAIN sessions /\ k.secret <= sessions[k.id].hash
    BY DEF Issued, TokenType
  <2> QED BY <2>1, <1>11, <1>13
<1>17. \A k \in {new} : Issued(k)'
  <2>1. sessions'[i].hash = made + 1 /\ i \in DOMAIN sessions' /\ (made + 1) \in Nat
    BY <1>3, <1>5, <1>6, <1>11
  <2> QED BY <2>1, <1>12 DEF Issued
<1>18. HeldAreIssued'
  <2> SUFFICES ASSUME NEW v \in Tabs, held'[v] # NoToken PROVE \A k : k = held'[v] => Issued(k)'
    BY DEF HeldAreIssued, Issued
  <2>1. CASE v # t
    BY <2>1, <1>1, <1>3, <1>10, <1>16 DEF HeldAreIssued
  <2>2. CASE v = t
    BY <2>2, <1>4, <1>10, <1>16, <1>17
  <2> QED BY <2>1, <2>2
<1>19. AskedIsHeld'
  BY <1>1, <1>9, <1>10 DEF AskedIsHeld
<1>20. ExchangedAreOld'
  <2> SUFFICES ASSUME NEW k \in exchanged'.once PROVE Issued(k)' /\ k.secret # sessions'[k.id].hash
    BY DEF ExchangedAreOld
  <2>1. k \in TokenType /\ k.secret \in Nat /\ Issued(k)
    BY <1>1, <1>3, <1>4, <1>o DEF ExchangedAreOld, TokenType
  <2>2. k.secret <= sessions[k.id].hash /\ k.id \in DOMAIN sessions /\ sessions[k.id].hash \in Nat /\ sessions[k.id].hash <= made
    BY <2>1, <1>1, <1>13 DEF Issued, HashesAreMade
  <2>3. CASE k.id = i
    BY <2>1, <2>2, <2>3, <1>3, <1>6, <1>11, <1>16
  <2>4. CASE k.id # i
    <3>1. k \in exchanged.once
      BY <2>4, <1>o DEF i
    <3> QED BY <3>1, <2>1, <2>2, <2>4, <1>1, <1>11, <1>16 DEF ExchangedAreOld
  <2> QED BY <2>3, <2>4
<1>21. OverlapsAreSeen'
  <2>1. ASSUME NEW v \in Tabs, Refreshing(v)', request'[v].token \in exchanged'.once
        PROVE  request'[v].token \in exchanged'.overlapping
    <3>1. v # t /\ request'[v] = request[v] /\ Refreshing(v)
      BY <2>1, <1>9 DEF Refreshing
    <3>2. CASE request[v].token \in exchanged.once
      BY <3>1, <3>2, <1>1, <1>o DEF OverlapsAreSeen
    <3>3. CASE request[v].token = token
      BY <3>1, <3>3, <1>1, <1>2, <1>o, <1>t DEF OverlapsAreSeen, Refreshing
    <3> QED BY <2>1, <3>1, <3>2, <3>3, <1>o
  <2>2. ASSUME NEW v \in Tabs, NEW u \in Tabs, v # u, Refreshing(v)', Refreshing(u)', request'[v].token = request'[u].token
        PROVE  request'[v].token \in exchanged'.overlapping
    <3>1. v # t /\ u # t /\ request'[v] = request[v] /\ request'[u] = request[u]
      BY <2>2, <1>9 DEF Refreshing
    <3> QED BY <3>1, <2>2, <1>1, <1>o DEF OverlapsAreSeen, Refreshing
  <2> QED BY <2>1, <2>2 DEF OverlapsAreSeen
<1>22. TokensRotate'
  <2>1. (exchanged.again \subseteq exchanged.overlapping)'
    <3>1. token \in exchanged.once => token \in exchanged.overlapping
      BY <1>1, <1>2, <1>t DEF OverlapsAreSeen, Refreshing
    <3> QED BY <3>1, <1>1, <1>o DEF TokensRotate
  <2>2. ASSUME repliesLost' = 0, NEW id \in DOMAIN sessions', Active(id)'
        PROVE  \E u \in Tabs : held'[u] = Token(id, sessions'[id].hash)
    <3>1. repliesLost = 0 /\ held'[t] = new
      BY <2>2, <1>3, <1>10
    <3>2. CASE id = i
      BY <3>1, <3>2, <1>6, <1>11, <1>12
    <3>3. CASE id # i
      <4>1. sessions'[id] = sessions[id] /\ Active(id) /\ id \in DOMAIN sessions
        BY <2>2, <3>3, <1>2, <1>11 DEF Active
      <4>2. PICK u \in Tabs : held[u] = Token(id, sessions[id].hash)
        BY <4>1, <3>1, <1>1 DEF TokensRotate
      <4>3. u # t
        BY <4>2, <3>3, <1>4 DEF Token, i
      <4> QED BY <4>1, <4>2, <4>3, <1>10
    <3> QED BY <3>2, <3>3
  <2> QED BY <2>1, <2>2 DEF TokensRotate
<1> QED BY <1>14, <1>15, <1>18, <1>19, <1>20, <1>21, <1>22 DEF SessionInv

\* A session ends with a logout, with time, or with its user; a tab may lose its token with it.
LEMMA SessionsEnd ==
  ASSUME SessionInv,
         sessions' \in Seq(SessionType), DOMAIN sessions' = DOMAIN sessions,
         \A id \in DOMAIN sessions : sessions'[id].hash = sessions[id].hash /\ (Active(id)' => Active(id)),
         blocked' \in BOOLEAN, UNCHANGED <<made, exchanged, repliesLost>>,
         held' \in [Tabs -> TokenType], request' \in [Tabs -> RequestType],
         \A t \in Tabs :
           \/ held'[t] = held[t] /\ request'[t] = request[t]
           \/ held'[t] = NoToken /\ request'[t].pc = "idle" /\ \A id \in DOMAIN sessions : held[t].id = id => ~Active(id)'
  PROVE  SessionInv'
<1>1. /\ SessionTypes /\ HeldAreIssued /\ HashesAreMade /\ AskedIsHeld /\ ExchangedAreOld /\ OverlapsAreSeen /\ TokensRotate
  BY DEF SessionInv
<1>2. SessionTypes'
  BY <1>1 DEF SessionTypes
<1>3. HeldAreIssued' /\ HashesAreMade' /\ AskedIsHeld' /\ ExchangedAreOld'
  BY <1>1 DEF HeldAreIssued, HashesAreMade, AskedIsHeld, ExchangedAreOld, Issued
<1>4. OverlapsAreSeen'
  <2>1. \A t \in Tabs : Refreshing(t)' => Refreshing(t) /\ request'[t] = request[t]
    BY DEF Refreshing
  <2> QED BY <2>1, <1>1 DEF OverlapsAreSeen
<1>5. TokensRotate'
  <2>1. (exchanged.again \subseteq exchanged.overlapping)'
    BY <1>1 DEF TokensRotate
  <2>2. ASSUME repliesLost' = 0, NEW id \in DOMAIN sessions', Active(id)'
        PROVE  \E u \in Tabs : held'[u] = Token(id, sessions'[id].hash)
    <3>1. PICK u \in Tabs : held[u] = Token(id, sessions[id].hash)
      BY <2>2, <1>1 DEF TokensRotate
    <3>2. held[u].id = id
      BY <3>1 DEF Token
    <3>3. held'[u] = held[u]
      BY <3>2, <2>2
    <3> QED BY <3>1, <3>3, <2>2
  <2> QED BY <2>1, <2>2 DEF TokensRotate
<1> QED BY <1>2, <1>3, <1>4, <1>5 DEF SessionInv

LEMMA RevokeKeeps == ASSUME SessionInv, NEW t \in Tabs, Revoke(t) PROVE SessionInv'
<1> DEFINE i == request[t].token.id
           x == [sessions[i] EXCEPT !.revoked = TRUE]
<1>1. /\ request[t].pc = "logout" /\ sessions' = [sessions EXCEPT ![i] = x]
      /\ held' = [held EXCEPT ![t] = NoToken] /\ request' = [request EXCEPT ![t] = Quiet]
      /\ UNCHANGED <<blocked, made, exchanged, repliesLost>>
  BY DEF Revoke
<1>2. /\ SessionTypes /\ sessions \in Seq(SessionType) /\ held \in [Tabs -> TokenType] /\ request \in [Tabs -> RequestType]
      /\ blocked \in BOOLEAN
  BY DEF SessionInv, SessionTypes
<1>3. held[t] = request[t].token /\ held[t] # NoToken /\ held[t].id = i /\ i \in DOMAIN sessions
  BY <1>1 DEF SessionInv, AskedIsHeld, HeldAreIssued, Issued
<1>4. sessions[i] \in SessionType
  BY <1>2, <1>3, SessionFields
<1>5. x \in SessionType /\ x.hash = sessions[i].hash /\ x.revoked
  BY <1>4 DEF SessionType
<1>6. Quiet \in RequestType /\ Quiet.pc = "idle" /\ NoToken \in TokenType
  BY DEF Quiet, RequestType, NoToken, TokenType
<1> HIDE DEF x, i
<1>7. /\ sessions' \in Seq(SessionType) /\ DOMAIN sessions' = DOMAIN sessions /\ sessions'[i] = x
      /\ \A id \in DOMAIN sessions \ {i} : sessions'[id] = sessions[id]
  BY <1>1, <1>2, <1>3, <1>5, SessionChanged
<1>8. /\ held' \in [Tabs -> TokenType] /\ request' \in [Tabs -> RequestType]
      /\ held'[t] = NoToken /\ request'[t].pc = "idle"
      /\ \A v \in Tabs \ {t} : held'[v] = held[v] /\ request'[v] = request[v]
  BY <1>1, <1>2, <1>6
<1>9. \A id \in DOMAIN sessions : sessions'[id].hash = sessions[id].hash /\ (Active(id)' => Active(id) /\ id # i)
  BY <1>1, <1>5, <1>7 DEF Active
<1>10. blocked' \in BOOLEAN /\ UNCHANGED <<made, exchanged, repliesLost>>
  BY <1>1, <1>2
<1>11. \A v \in Tabs :
         \/ held'[v] = held[v] /\ request'[v] = request[v]
         \/ held'[v] = NoToken /\ request'[v].pc = "idle" /\ \A id \in DOMAIN sessions : held[v].id = id => ~Active(id)'
  BY <1>3, <1>8, <1>9
<1> QED BY <1>7, <1>8, <1>9, <1>10, <1>11, SessionsEnd

LEMMA ExpireKeeps == ASSUME SessionInv, NEW i \in DOMAIN sessions, Expire(i) PROVE SessionInv'
<1> DEFINE x == [sessions[i] EXCEPT !.expired = TRUE]
<1>1. sessions' = [sessions EXCEPT ![i] = x] /\ UNCHANGED <<blocked, held, request, made, exchanged, repliesLost>>
  BY DEF Expire
<1>2. /\ SessionTypes /\ sessions \in Seq(SessionType) /\ held \in [Tabs -> TokenType] /\ request \in [Tabs -> RequestType]
      /\ blocked \in BOOLEAN
  BY DEF SessionInv, SessionTypes
<1>3. sessions[i] \in SessionType
  BY <1>2, SessionFields
<1>4. x \in SessionType /\ x.hash = sessions[i].hash /\ x.expired
  BY <1>3 DEF SessionType
<1> HIDE DEF x
<1>5. /\ sessions' \in Seq(SessionType) /\ DOMAIN sessions' = DOMAIN sessions /\ sessions'[i] = x
      /\ \A id \in DOMAIN sessions \ {i} : sessions'[id] = sessions[id]
  BY <1>1, <1>2, <1>4, SessionChanged
<1>6. \A id \in DOMAIN sessions : sessions'[id].hash = sessions[id].hash /\ (Active(id)' => Active(id))
  BY <1>1, <1>4, <1>5 DEF Active
<1> QED BY <1>1, <1>2, <1>5, <1>6, SessionsEnd

LEMMA BlockUserKeeps == ASSUME SessionInv, BlockUser PROVE SessionInv'
<1>1. blocked' = TRUE /\ UNCHANGED <<sessions, held, request, made, exchanged, repliesLost>>
  BY DEF BlockUser
<1>2. sessions \in Seq(SessionType) /\ held \in [Tabs -> TokenType] /\ request \in [Tabs -> RequestType]
  BY DEF SessionInv, SessionTypes
<1>3. \A id \in DOMAIN sessions : sessions'[id].hash = sessions[id].hash /\ (Active(id)' => Active(id))
  BY <1>1 DEF Active
<1> QED BY <1>1, <1>2, <1>3, SessionsEnd

\* Every step keeps the invariant.
LEMMA SessionStep == SessionInv /\ [SessionNext]_sessionVars => SessionInv'
<1> SUFFICES ASSUME SessionInv, [SessionNext]_sessionVars PROVE SessionInv'
  OBVIOUS
<1>1. ASSUME NEW t \in Tabs, Login(t) PROVE SessionInv'
  BY <1>1, LoginKeeps
<1>2. ASSUME NEW t \in Tabs, NEW kind \in {"refresh", "logout"}, Ask(t, kind) PROVE SessionInv'
  BY <1>2, AskKeeps
<1>3. ASSUME NEW t \in Tabs, Rotate(t) PROVE SessionInv'
  BY <1>3, RotateKeeps
<1>4. ASSUME NEW t \in Tabs, Revoke(t) PROVE SessionInv'
  BY <1>4, RevokeKeeps
<1>5. ASSUME NEW t \in Tabs, NEW u \in Tabs, Share(t, u) PROVE SessionInv'
  BY <1>5, ShareKeeps
<1>6. ASSUME NEW id \in DOMAIN sessions, Expire(id) PROVE SessionInv'
  BY <1>6, ExpireKeeps
<1>7. CASE BlockUser
  BY <1>7, BlockUserKeeps
<1>8. CASE UNCHANGED sessionVars
  BY <1>8 DEF sessionVars, SessionInv, SessionTypes, HeldAreIssued, HashesAreMade, AskedIsHeld, ExchangedAreOld, Issued,
              OverlapsAreSeen, Refreshing, TokensRotate, Active
<1> QED BY <1>1, <1>2, <1>3, <1>4, <1>5, <1>6, <1>7, <1>8 DEF SessionNext

\* While no reply is lost the current token of a session that goes on is in some tab's hands,
\* and a token is exchanged twice only by calls that overlapped (rotateRefreshToken,
\* verifyRefreshToken, revokeByRefreshToken).
THEOREM TokensRotateAlways == SessionSpec => []TokensRotate
<1>1. SessionInv => TokensRotate
  BY DEF SessionInv
<1> QED BY SessionStarts, SessionStep, <1>1, PTL DEF SessionSpec

-----------------------------------------------------------------------------
(* Wallets: the inductive invariant *)

WalletType ==
  [owner : Users \cup {NoOne}, type : {"none", "EXTERNAL", "EMBEDDED"},
   status : {"none", "ACTIVE", "REVOKED"}, primary : BOOLEAN]
NonceType == [user : Users \cup {NoOne}, key : Keys \cup {NoOne}, state : {"none", "open", "used", "expired"}]

WalletTypes ==
  /\ wallets \in [Keys -> WalletType] /\ nonce \in NonceType /\ connecting \in [Calls -> {"idle", "ready"}]
  /\ usedTwice \in BOOLEAN /\ reactivated \in BOOLEAN

Alive(k) == wallets[k].status = "ACTIVE"

\* Only an active wallet is primary, its owner showed its key, and what was never connected is blank.
EachWallet ==
  \A k \in Keys :
    /\ wallets[k].primary => Alive(k)
    /\ Alive(k) => wallets[k].owner \in Users /\ <<wallets[k].owner, k>> \in proved
    /\ wallets[k].status = "none" => wallets[k] = NoWallet

\* Whoever has an active wallet has a primary one.
EachHasPrimary ==
  \A k \in Keys : Alive(k) => \E j \in Keys : Alive(j) /\ wallets[j].primary /\ wallets[j].owner = wallets[k].owner

External(w, u) == {k \in Keys : w[k].owner = u /\ w[k].status = "ACTIVE" /\ w[k].type = "EXTERNAL"}
FewExternal == \A u \in Users : reactivated \/ Cardinality(External(wallets, u)) <= MaxExternal

\* A nonce that can be used, or that a call is at, is somebody's for a key, shown once it is verified.
NonceIsAsked ==
  /\ nonce.state = "open" => nonce.user \in Users /\ nonce.key \in Keys
  /\ \A c \in Calls : connecting[c] = "ready" =>
       nonce.state # "none" /\ nonce.user \in Users /\ nonce.key \in Keys /\ <<nonce.user, nonce.key>> \in proved

WalletInv ==
  /\ WalletTypes /\ OnePrimary(wallets) /\ EachWallet /\ EachHasPrimary /\ FewExternal /\ NonceIsAsked /\ ~usedTwice

LEMMA ExternalIsFinite == \A u : IsFiniteSet(External(wallets, u)) /\ Cardinality(External(wallets, u)) \in Nat
<1> TAKE u
<1>1. IsFiniteSet(Keys) /\ External(wallets, u) \subseteq Keys
  BY WalletAssumption DEF External
<1>2. IsFiniteSet(External(wallets, u))
  BY <1>1, FS_Subset
<1> QED BY <1>2, FS_CardinalityType

LEMMA WalletStarts == WalletInit => WalletInv
<1> SUFFICES ASSUME WalletInit PROVE WalletInv
  OBVIOUS
<1>1. /\ wallets = [k \in Keys |-> NoWallet] /\ nonce = NoNonce /\ connecting = [c \in Calls |-> "idle"]
      /\ usedTwice = FALSE /\ reactivated = FALSE
  BY DEF WalletInit
<1>2. NoWallet \in WalletType /\ NoWallet.status = "none" /\ ~NoWallet.primary /\ NoNonce \in NonceType /\ NoNonce.state = "none"
  BY DEF NoWallet, WalletType, NoNonce, NonceType
<1>3. WalletTypes
  BY <1>1, <1>2 DEF WalletTypes
<1>4. OnePrimary(wallets) /\ EachWallet /\ EachHasPrimary /\ NonceIsAsked /\ ~usedTwice
  BY <1>1, <1>2 DEF OnePrimary, EachWallet, EachHasPrimary, Alive, NonceIsAsked
<1>5. FewExternal
  <2> SUFFICES ASSUME NEW u \in Users PROVE Cardinality(External(wallets, u)) <= MaxExternal
    BY DEF FewExternal
  <2>1. External(wallets, u) = {}
    BY <1>1, <1>2 DEF External, Alive
  <2>2. Cardinality(External(wallets, u)) = 0
    BY <2>1, FS_EmptySet
  <2> QED BY <2>2, WalletAssumption
<1> QED BY <1>3, <1>4, <1>5 DEF WalletInv

\* What the invariant gives the property.
LEMMA WalletInvSays == WalletInv => WalletsAreTheirs
<1> SUFFICES ASSUME WalletInv, NEW u \in Users
             PROVE  /\ ActiveOf(u) # {} => Cardinality(PrimaryOf(u)) = 1
                    /\ \A k \in ActiveOf(u) : <<u, k>> \in proved
                    /\ reactivated \/ Cardinality({k \in ActiveOf(u) : wallets[k].type = "EXTERNAL"}) <= MaxExternal
  BY DEF WalletsAreTheirs, WalletInv
<1>1. ActiveOf(u) # {} => Cardinality(PrimaryOf(u)) = 1
  <2> SUFFICES ASSUME NEW k \in ActiveOf(u) PROVE Cardinality(PrimaryOf(u)) = 1
    OBVIOUS
  <2>1. k \in Keys /\ Alive(k) /\ wallets[k].owner = u
    BY DEF ActiveOf, Owned, Alive
  <2>2. PICK j \in Keys : Alive(j) /\ wallets[j].primary /\ wallets[j].owner = u
    BY <2>1 DEF WalletInv, EachHasPrimary
  <2>3. j \in PrimaryOf(u) /\ \A i \in PrimaryOf(u) : i = j
    BY <2>2 DEF WalletInv, OnePrimary, PrimaryOf, ActiveOf, Owned, Alive
  <2>4. PrimaryOf(u) = {j}
    BY <2>3
  <2> QED BY <2>4, FS_Singleton
<1>2. \A k \in ActiveOf(u) : <<u, k>> \in proved
  BY DEF WalletInv, EachWallet, ActiveOf, Owned, Alive
<1>3. {k \in ActiveOf(u) : wallets[k].type = "EXTERNAL"} = External(wallets, u)
  BY DEF External, ActiveOf, Owned, Alive
<1>4. reactivated \/ Cardinality(External(wallets, u)) <= MaxExternal
  BY DEF WalletInv, FewExternal
<1> QED BY <1>1, <1>2, <1>3, <1>4

\* The external wallets of the users are no more than before.
LEMMA StillFew ==
  ASSUME FewExternal, reactivated => reactivated', \A u \in Users : External(wallets', u) \subseteq External(wallets, u)
  PROVE  FewExternal'
<1> SUFFICES ASSUME NEW u \in Users, ~reactivated PROVE Cardinality(External(wallets', u)) <= MaxExternal
  BY DEF FewExternal
<1>1. Cardinality(External(wallets', u)) <= Cardinality(External(wallets, u)) /\ Cardinality(External(wallets', u)) \in Nat
  BY ExternalIsFinite, FS_Subset, FS_CardinalityType
<1>2. Cardinality(External(wallets, u)) <= MaxExternal /\ Cardinality(External(wallets, u)) \in Nat
  BY ExternalIsFinite DEF FewExternal
<1> QED BY <1>1, <1>2, WalletAssumption

\* A step that leaves the wallets alone.
LEMMA WalletsLeft ==
  ASSUME WalletInv, UNCHANGED <<wallets, usedTwice, reactivated>>, proved \subseteq proved',
         nonce' \in NonceType, connecting' \in [Calls -> {"idle", "ready"}], NonceIsAsked'
  PROVE  WalletInv'
<1>1. WalletTypes' /\ OnePrimary(wallets)' /\ EachWallet' /\ EachHasPrimary' /\ ~usedTwice'
  BY DEF WalletInv, WalletTypes, OnePrimary, EachWallet, EachHasPrimary, Alive
<1>2. \A u \in Users : External(wallets', u) \subseteq External(wallets, u)
  BY DEF External, Alive
<1>3. FewExternal'
  BY <1>2, StillFew DEF WalletInv
<1> QED BY <1>1, <1>3 DEF WalletInv

LEMMA NonceKeeps ==
  ASSUME WalletInv, NEW u \in Users, NEW k \in Keys, CreateNonce(u, k)
  PROVE  WalletInv'
<1>1. nonce = NoNonce /\ nonce' = [user |-> u, key |-> k, state |-> "open"]
      /\ UNCHANGED <<wallets, connecting, proved, usedTwice, reactivated>>
  BY DEF CreateNonce
<1>2. connecting \in [Calls -> {"idle", "ready"}] /\ nonce' \in NonceType /\ nonce.state = "none"
  BY <1>1 DEF WalletInv, WalletTypes, NonceType, NoNonce
<1>3. NonceIsAsked'
  BY <1>1, <1>2 DEF WalletInv, NonceIsAsked
<1> QED BY <1>1, <1>2, <1>3, WalletsLeft

LEMMA NonceExpiresKeeps == ASSUME WalletInv, NonceExpires PROVE WalletInv'
<1>1. nonce.state = "open" /\ nonce' = [nonce EXCEPT !.state = "expired"]
      /\ UNCHANGED <<wallets, connecting, proved, usedTwice, reactivated>>
  BY DEF NonceExpires
<1>2. connecting \in [Calls -> {"idle", "ready"}] /\ nonce' \in NonceType
      /\ nonce'.user = nonce.user /\ nonce'.key = nonce.key /\ nonce'.state = "expired"
  BY <1>1 DEF WalletInv, WalletTypes, NonceType
<1>3. NonceIsAsked'
  BY <1>1, <1>2 DEF WalletInv, NonceIsAsked
<1> QED BY <1>1, <1>2, <1>3, WalletsLeft

LEMMA CleanupKeeps == ASSUME WalletInv, CleanupNonce PROVE WalletInv'
<1>1. (\A c \in Calls : connecting[c] = "idle") /\ nonce' = NoNonce
      /\ UNCHANGED <<wallets, connecting, proved, usedTwice, reactivated>>
  BY DEF CleanupNonce
<1>2. connecting \in [Calls -> {"idle", "ready"}] /\ nonce' \in NonceType /\ nonce'.state = "none"
  BY <1>1 DEF WalletInv, WalletTypes, NonceType, NoNonce
<1>3. NonceIsAsked'
  BY <1>1, <1>2 DEF NonceIsAsked
<1> QED BY <1>1, <1>2, <1>3, WalletsLeft

LEMMA VerifyKeeps == ASSUME WalletInv, NEW c \in Calls, Verify(c) PROVE WalletInv'
<1>1. nonce.state = "open" /\ connecting' = [connecting EXCEPT ![c] = "ready"]
      /\ proved' = proved \union {<<nonce.user, nonce.key>>} /\ UNCHANGED <<wallets, nonce, usedTwice, reactivated>>
  BY DEF Verify
<1>2. connecting' \in [Calls -> {"idle", "ready"}] /\ nonce' \in NonceType
  BY <1>1 DEF WalletInv, WalletTypes
<1>3. NonceIsAsked'
  BY <1>1 DEF WalletInv, NonceIsAsked
<1> QED BY <1>1, <1>2, <1>3, WalletsLeft

\* What a stored set of wallets must be: one wallet k is written to x.
LEMMA WalletWritten ==
  ASSUME WalletInv, NEW k \in Keys, NEW x \in WalletType, wallets' = [wallets EXCEPT ![k] = x]
  PROVE  wallets' \in [Keys -> WalletType] /\ wallets'[k] = x /\ \A j \in Keys \ {k} : wallets'[j] = wallets[j]
  BY DEF WalletInv, WalletTypes

\* A connected wallet is active, of its user, and primary if the user has no other primary one.
LEMMA ConnectedIs ==
  ASSUME WalletInv, NEW u \in Users, NEW k \in Keys, NEW type \in {"EXTERNAL", "EMBEDDED"}
  PROVE  LET x == Connected(u, k, type)
         IN  /\ x \in WalletType /\ x.owner = u /\ x.status = "ACTIVE"
             /\ x.primary \/ PrimaryOf(u) \ {k} # {}
             /\ ~(x.primary /\ PrimaryOf(u) \ {k} # {}) \/ wallets[k].primary
             /\ wallets[k].status = "ACTIVE" /\ wallets[k].owner = u => x.type = wallets[k].type
<1> DEFINE w == wallets[k]
           first == PrimaryOf(u) \ {k} = {}
           t == IF w = NoWallet \/ Transferred(w, u) THEN type ELSE w.type
           p == IF Transferred(w, u) THEN first ELSE w.primary \/ first
<1>1. w \in WalletType
  BY DEF WalletInv, WalletTypes
<1>2. Connected(u, k, type) = [owner |-> u, status |-> "ACTIVE", type |-> t, primary |-> p]
  BY DEF Connected
<1>3. t \in {"none", "EXTERNAL", "EMBEDDED"}
  BY <1>1 DEF WalletType
<1>4. w.primary \in BOOLEAN
  BY <1>1 DEF WalletType
<1>5. first \in BOOLEAN /\ p \in BOOLEAN
  BY <1>4
<1>6. p \/ ~first
  OBVIOUS
<1>7. ~(p /\ ~first) \/ w.primary
  OBVIOUS
<1>8. w.status = "ACTIVE" /\ w.owner = u => t = w.type
  BY DEF NoWallet, Transferred
<1> HIDE DEF t, p, w
<1>9. Connected(u, k, type) \in WalletType
  BY <1>2, <1>3, <1>5 DEF WalletType
<1> QED BY <1>2, <1>6, <1>7, <1>8, <1>9 DEF w

\* Wallet k is connected to user u, who showed its key.
LEMMA ConnectKeeps ==
  ASSUME WalletInv, NEW u \in Users, NEW k \in Keys, NEW x \in WalletType,
         x.owner = u, x.status = "ACTIVE", x.primary \/ PrimaryOf(u) \ {k} # {},
         ~(Alive(k) /\ wallets[k].owner # u),
         wallets' \in [Keys -> WalletType], wallets'[k] = x, \A j \in Keys \ {k} : wallets'[j] = wallets[j],
         OnePrimary(wallets'), <<u, k>> \in proved', proved \subseteq proved',
         usedTwice' = FALSE, reactivated' \in BOOLEAN, FewExternal',
         nonce' \in NonceType, connecting' \in [Calls -> {"idle", "ready"}], NonceIsAsked'
  PROVE  WalletInv'
<1>1. WalletTypes'
  BY DEF WalletInv, WalletTypes
<1>2. EachWallet'
  <2> SUFFICES ASSUME NEW j \in Keys
               PROVE  /\ wallets'[j].primary => Alive(j)'
                      /\ Alive(j)' => wallets'[j].owner \in Users /\ <<wallets'[j].owner, j>> \in proved'
                      /\ wallets'[j].status = "none" => wallets'[j] = NoWallet
    BY DEF EachWallet
  <2>1. CASE j = k
    BY <2>1 DEF Alive
  <2>2. CASE j # k
    BY <2>2 DEF WalletInv, EachWallet, Alive
  <2> QED BY <2>1, <2>2
<1>3. EachHasPrimary'
  <2> SUFFICES ASSUME NEW j \in Keys, Alive(j)'
               PROVE  \E i \in Keys : Alive(i)' /\ wallets'[i].primary /\ wallets'[i].owner = wallets'[j].owner
    BY DEF EachHasPrimary
  <2>1. CASE wallets'[j].owner = u
    <3>1. CASE x.primary
      BY <3>1, <2>1 DEF Alive
    <3>2. CASE PrimaryOf(u) \ {k} # {}
      <4>1. PICK i \in Keys \ {k} : wallets[i].primary /\ Alive(i) /\ wallets[i].owner = u
        BY <3>2 DEF PrimaryOf, ActiveOf, Owned, Alive
      <4> QED BY <4>1, <2>1 DEF Alive
    <3> QED BY <3>1, <3>2
  <2>2. CASE wallets'[j].owner # u
    <3>1. j # k /\ wallets'[j] = wallets[j] /\ Alive(j)
      BY <2>2 DEF Alive
    <3>2. PICK i \in Keys : Alive(i) /\ wallets[i].primary /\ wallets[i].owner = wallets[j].owner
      BY <3>1 DEF WalletInv, EachHasPrimary
    <3>3. i # k
      BY <3>1, <3>2, <2>2
    <3> QED BY <3>1, <3>2, <3>3 DEF Alive
  <2> QED BY <2>1, <2>2
<1> QED BY <1>1, <1>2, <1>3 DEF WalletInv

\* The external wallets of a user when wallet k has been written to x.
LEMMA WrittenExternal ==
  ASSUME NEW k \in Keys, NEW x, wallets'[k] = x, \A j \in Keys \ {k} : wallets'[j] = wallets[j]
  PROVE  \A v :
           /\ External(wallets', v) \subseteq External(wallets, v) \cup {k}
           /\ ~(x.owner = v /\ x.type = "EXTERNAL") => External(wallets', v) \subseteq External(wallets, v)
           /\ Alive(k) /\ wallets[k].owner = x.owner /\ wallets[k].type = x.type => External(wallets', v) \subseteq External(wallets, v)
<1> SUFFICES ASSUME NEW v, NEW j \in External(wallets', v)
             PROVE  /\ j \in External(wallets, v) \cup {k}
                    /\ ~(x.owner = v /\ x.type = "EXTERNAL") => j \in External(wallets, v)
                    /\ Alive(k) /\ wallets[k].owner = x.owner /\ wallets[k].type = x.type => j \in External(wallets, v)
  OBVIOUS
<1>1. j \in Keys /\ wallets'[j].owner = v /\ wallets'[j].status = "ACTIVE" /\ wallets'[j].type = "EXTERNAL"
  BY DEF External
<1>2. CASE j = k
  BY <1>1, <1>2 DEF External, Alive
<1>3. CASE j # k
  BY <1>1, <1>3 DEF External, Alive
<1> QED BY <1>2, <1>3

\* The transaction of call c, for the user u and the key k of the nonce.
LEMMA ConnectTxDoes ==
  ASSUME WalletInv, NEW c \in Calls, ConnectTx(c), NEW u, u = nonce.user, NEW k, k = nonce.key,
         NEW x, x = Connected(u, k, "EXTERNAL")
  PROVE  WalletInv'
<1>1. connecting[c] = "ready" /\ connecting' = [connecting EXCEPT ![c] = "idle"] /\ UNCHANGED proved
  BY DEF ConnectTx
<1>2. u \in Users /\ k \in Keys /\ <<u, k>> \in proved /\ nonce \in NonceType /\ usedTwice = FALSE
  BY <1>1 DEF WalletInv, NonceIsAsked, WalletTypes
<1>3. connecting' \in [Calls -> {"idle", "ready"}] /\ \A a \in Calls : connecting'[a] = "ready" => connecting[a] = "ready"
  BY <1>1 DEF WalletInv, WalletTypes
<1>4. CASE UNCHANGED <<wallets, nonce, usedTwice, reactivated>>
  <2>1. NonceIsAsked'
    BY <1>1, <1>3, <1>4 DEF WalletInv, NonceIsAsked
  <2> QED BY <1>1, <1>2, <1>3, <1>4, <2>1, WalletsLeft
<1>5. CASE /\ nonce.state = "open" /\ Connectable(u, k) /\ Store([wallets EXCEPT ![k] = x])
           /\ nonce' = [nonce EXCEPT !.state = "used"]
           /\ usedTwice' = (usedTwice \/ nonce.state = "used")
           /\ reactivated' = (reactivated \/ wallets[k].status = "REVOKED")
  <2>1. /\ x \in WalletType /\ x.owner = u /\ x.status = "ACTIVE"
        /\ x.primary \/ PrimaryOf(u) \ {k} # {}
        /\ wallets[k].status = "ACTIVE" /\ wallets[k].owner = u => x.type = wallets[k].type
    BY <1>2, ConnectedIs
  <2>2. wallets' = [wallets EXCEPT ![k] = x] /\ OnePrimary(wallets')
    BY <1>5 DEF Store
  <2>3. ~(Alive(k) /\ wallets[k].owner # u)
        /\ (wallets[k] = NoWallet => Cardinality({j \in ActiveOf(u) : wallets[j].type = "EXTERNAL"}) < MaxExternal)
    BY <1>5 DEF Connectable, Alive
  <2>4. nonce' \in NonceType /\ nonce'.user = u /\ nonce'.key = k /\ nonce'.state = "used" /\ usedTwice' = FALSE
    BY <1>2, <1>5 DEF NonceType
  <2>5. NonceIsAsked'
    BY <1>1, <1>2, <1>3, <2>4 DEF NonceIsAsked
  <2>6. reactivated' \in BOOLEAN
    BY <1>5
  <2>7. wallets' \in [Keys -> WalletType] /\ wallets'[k] = x /\ \A j \in Keys \ {k} : wallets'[j] = wallets[j]
    BY <1>2, <2>1, <2>2 DEF WalletInv, WalletTypes
  <2>e. \A v :
              /\ External(wallets', v) \subseteq External(wallets, v) \cup {k}
              /\ ~(x.owner = v /\ x.type = "EXTERNAL") => External(wallets', v) \subseteq External(wallets, v)
              /\ Alive(k) /\ wallets[k].owner = x.owner /\ wallets[k].type = x.type => External(wallets', v) \subseteq External(wallets, v)
    BY <1>2, <2>7, WrittenExternal
  <2>8. FewExternal'
    <3>1. CASE wallets[k] = NoWallet
      <4> SUFFICES ASSUME NEW v \in Users, ~reactivated' PROVE Cardinality(External(wallets', v)) <= MaxExternal
        BY DEF FewExternal
      <4>1. ~reactivated
        BY <1>5
      <4>2. CASE v # u
        <5>1. External(wallets', v) \subseteq External(wallets, v)
          BY <4>2, <2>1, <2>e
        <5>2. Cardinality(External(wallets', v)) <= Cardinality(External(wallets, v)) /\ Cardinality(External(wallets', v)) \in Nat
          BY <5>1, ExternalIsFinite, FS_Subset, FS_CardinalityType
        <5>3. Cardinality(External(wallets, v)) <= MaxExternal /\ Cardinality(External(wallets, v)) \in Nat
          BY <4>1, ExternalIsFinite DEF WalletInv, FewExternal
        <5> QED BY <5>2, <5>3, WalletAssumption
      <4>3. CASE v = u
        <5>1. External(wallets', u) \subseteq External(wallets, u) \cup {k}
          BY <2>e
        <5>2. {j \in ActiveOf(u) : wallets[j].type = "EXTERNAL"} = External(wallets, u)
          BY DEF External, ActiveOf, Owned, Alive
        <5>3. Cardinality(External(wallets, u)) < MaxExternal /\ Cardinality(External(wallets, u)) \in Nat /\ IsFiniteSet(External(wallets, u))
          BY <3>1, <2>3, <5>2, ExternalIsFinite
        <5>4. IsFiniteSet(External(wallets, u) \cup {k}) /\ Cardinality(External(wallets, u) \cup {k}) <= Cardinality(External(wallets, u)) + 1
              /\ Cardinality(External(wallets, u) \cup {k}) \in Nat
          <6>1. /\ IsFiniteSet(External(wallets, u) \cup {k})
                /\ \/ Cardinality(External(wallets, u) \cup {k}) = Cardinality(External(wallets, u))
                   \/ Cardinality(External(wallets, u) \cup {k}) = Cardinality(External(wallets, u)) + 1
            BY <5>3, FS_AddElement
          <6> QED BY <5>3, <6>1
        <5>5. Cardinality(External(wallets', u)) <= Cardinality(External(wallets, u) \cup {k}) /\ Cardinality(External(wallets', u)) \in Nat
          BY <5>1, <5>4, FS_Subset, FS_CardinalityType
        <5>6. Cardinality(External(wallets', u)) <= MaxExternal
          BY <5>3, <5>4, <5>5, WalletAssumption
        <5> QED BY <5>6, <4>3
      <4> QED BY <4>2, <4>3
    <3>2. CASE wallets[k].status = "REVOKED"
      BY <3>2, <1>5 DEF FewExternal
    <3>3. CASE Alive(k)
      <4>1. wallets[k].owner = u /\ x.type = wallets[k].type
        BY <3>3, <2>1, <2>3 DEF Alive
      <4>2. \A v \in Users : External(wallets', v) \subseteq External(wallets, v)
        BY <4>1, <3>3, <2>1, <2>e DEF Alive
      <4>3. reactivated => reactivated'
        BY <1>5
      <4> QED BY <4>2, <4>3, StillFew DEF WalletInv
    <3>4. wallets[k] = NoWallet \/ wallets[k].status = "REVOKED" \/ Alive(k)
      BY <1>2 DEF WalletInv, WalletTypes, WalletType, EachWallet, Alive
    <3> QED BY <3>1, <3>2, <3>3, <3>4
  <2>9. <<u, k>> \in proved' /\ proved \subseteq proved'
    BY <1>1, <1>2
  <2>10. x.primary \/ PrimaryOf(u) \ {k} # {}
    BY <2>1
  <2> QED BY <1>2, <1>3, <2>1, <2>2, <2>3, <2>4, <2>5, <2>6, <2>7, <2>8, <2>9, <2>10, ConnectKeeps
<1> QED BY <1>4, <1>5 DEF ConnectTx, Consumable

LEMMA ConnectTxKeeps == ASSUME WalletInv, NEW c \in Calls, ConnectTx(c) PROVE WalletInv'
  BY ConnectTxDoes

LEMMA SyncKeeps == ASSUME WalletInv, NEW u \in Users, SyncEmbedded(u) PROVE WalletInv'
<1> DEFINE k == Embedded[u]
           y == Connected(u, k, "EMBEDDED")
           x == [y EXCEPT !.type = "EMBEDDED"]
<1>1. /\ ~(wallets[k].owner # u /\ wallets[k].status = "ACTIVE")
      /\ Store([wallets EXCEPT ![k] = x]) /\ proved' = proved \union {<<u, k>>}
      /\ UNCHANGED <<nonce, connecting, usedTwice, reactivated>>
  BY DEF SyncEmbedded
<1>2. k \in Keys
  BY WalletAssumption
<1>3. /\ y \in WalletType /\ y.owner = u /\ y.status = "ACTIVE"
      /\ y.primary \/ PrimaryOf(u) \ {k} # {}
  BY <1>2, ConnectedIs
<1> HIDE DEF y
<1>4. /\ x \in WalletType /\ x.owner = u /\ x.status = "ACTIVE" /\ x.type = "EMBEDDED" /\ x.primary = y.primary
  BY <1>3 DEF WalletType
<1>5. wallets' = [wallets EXCEPT ![k] = x] /\ OnePrimary(wallets')
  BY <1>1 DEF Store
<1>d. SUFFICES ASSUME NEW l, l = k, NEW z, z = x PROVE WalletInv'
  OBVIOUS
<1> HIDE DEF x, k
<1>6. /\ l \in Keys /\ z \in WalletType /\ z.owner = u /\ z.status = "ACTIVE" /\ z.type = "EMBEDDED"
      /\ z.primary \/ PrimaryOf(u) \ {l} # {}
      /\ ~(Alive(l) /\ wallets[l].owner # u)
  BY <1>d, <1>1, <1>2, <1>3, <1>4 DEF Alive
<1>7. wallets' \in [Keys -> WalletType] /\ wallets'[l] = z /\ \A j \in Keys \ {l} : wallets'[j] = wallets[j]
  BY <1>d, <1>5, <1>6 DEF WalletInv, WalletTypes
<1>8. FewExternal'
  <2>1. \A v : External(wallets', v) \subseteq External(wallets, v)
    BY <1>6, <1>7, WrittenExternal
  <2> QED BY <2>1, <1>1, StillFew DEF WalletInv
<1>9. <<u, l>> \in proved' /\ proved \subseteq proved'
  BY <1>1, <1>d
<1>10. usedTwice' = FALSE /\ reactivated' \in BOOLEAN /\ nonce' \in NonceType /\ connecting' \in [Calls -> {"idle", "ready"}]
       /\ NonceIsAsked'
  BY <1>1 DEF WalletInv, WalletTypes, NonceIsAsked
<1> QED BY <1>5, <1>6, <1>7, <1>8, <1>9, <1>10, ConnectKeeps

LEMMA SetPrimaryKeeps ==
  ASSUME WalletInv, NEW u \in Users, NEW k \in Keys, SetPrimary(u, k)
  PROVE  WalletInv'
<1>1. /\ Alive(k) /\ wallets[k].owner = u /\ OnePrimary(wallets')
      /\ wallets' = [j \in Keys |-> IF wallets[j].owner = u THEN [wallets[j] EXCEPT !.primary = (j = k)] ELSE wallets[j]]
      /\ UNCHANGED <<nonce, connecting, proved, usedTwice, reactivated>>
  BY DEF SetPrimary, Store, ActiveOf, Owned, Alive
<1>2. \A j \in Keys : wallets[j] \in WalletType
  BY DEF WalletInv, WalletTypes
<1>3. \A j \in Keys :
        /\ wallets'[j] \in WalletType
        /\ wallets'[j].owner = wallets[j].owner /\ wallets'[j].status = wallets[j].status /\ wallets'[j].type = wallets[j].type
        /\ wallets[j].owner = u => wallets'[j].primary = (j = k)
        /\ wallets[j].owner # u => wallets'[j] = wallets[j]
  <2> SUFFICES ASSUME NEW j \in Keys
               PROVE  /\ wallets'[j] \in WalletType
                      /\ wallets'[j].owner = wallets[j].owner /\ wallets'[j].status = wallets[j].status /\ wallets'[j].type = wallets[j].type
                      /\ wallets[j].owner = u => wallets'[j].primary = (j = k)
                      /\ wallets[j].owner # u => wallets'[j] = wallets[j]
    OBVIOUS
  <2>1. CASE wallets[j].owner = u
    <3>1. wallets'[j] = [wallets[j] EXCEPT !.primary = (j = k)] /\ (j = k) \in BOOLEAN
      BY <1>1, <2>1
    <3> QED BY <3>1, <2>1, <1>2 DEF WalletType
  <2>2. CASE wallets[j].owner # u
    BY <1>1, <1>2, <2>2
  <2> QED BY <2>1, <2>2
<1>4. WalletTypes'
  <2>1. wallets' \in [Keys -> WalletType]
    BY <1>1, <1>3
  <2> QED BY <2>1, <1>1 DEF WalletInv, WalletTypes
<1>5. EachWallet'
  <2> SUFFICES ASSUME NEW j \in Keys
               PROVE  /\ wallets'[j].primary => Alive(j)'
                      /\ Alive(j)' => wallets'[j].owner \in Users /\ <<wallets'[j].owner, j>> \in proved'
                      /\ wallets'[j].status = "none" => wallets'[j] = NoWallet
    BY DEF EachWallet
  <2>1. u # NoOne /\ NoWallet.owner = NoOne
    BY WalletAssumption DEF NoWallet
  <2>2. /\ wallets[j].primary => Alive(j)
        /\ Alive(j) => wallets[j].owner \in Users /\ <<wallets[j].owner, j>> \in proved
        /\ wallets[j].status = "none" => wallets[j] = NoWallet
    BY DEF WalletInv, EachWallet
  <2>3. Alive(j)' <=> Alive(j)
    BY <1>3 DEF Alive
  <2>4. proved' = proved /\ wallets'[j].owner = wallets[j].owner /\ wallets'[j].status = wallets[j].status
    BY <1>1, <1>3
  <2>5. CASE wallets[j].owner = u
    <3>1. wallets'[j].primary => j = k
      BY <2>5, <1>3
    <3>2. wallets'[j].primary => Alive(j)
      BY <3>1, <1>1
    <3>3. wallets[j].status # "none"
      BY <2>1, <2>2, <2>5
    <3> QED BY <2>2, <2>3, <2>4, <3>2, <3>3
  <2>6. CASE wallets[j].owner # u
    <3>1. wallets'[j] = wallets[j]
      BY <2>6, <1>3
    <3> QED BY <2>2, <2>3, <2>4, <3>1
  <2> QED BY <2>5, <2>6
<1>6. EachHasPrimary'
  <2> SUFFICES ASSUME NEW j \in Keys, Alive(j)'
               PROVE  \E i \in Keys : Alive(i)' /\ wallets'[i].primary /\ wallets'[i].owner = wallets'[j].owner
    BY DEF EachHasPrimary
  <2>1. Alive(j)
    BY <1>3 DEF Alive
  <2>2. CASE wallets[j].owner = u
    <3>1. Alive(k)' /\ wallets'[k].primary /\ wallets'[k].owner = wallets'[j].owner
      BY <2>2, <1>1, <1>3 DEF Alive
    <3> QED BY <3>1
  <2>3. CASE wallets[j].owner # u
    <3>1. PICK i \in Keys : Alive(i) /\ wallets[i].primary /\ wallets[i].owner = wallets[j].owner
      BY <2>1 DEF WalletInv, EachHasPrimary
    <3>2. wallets'[i] = wallets[i] /\ wallets'[j] = wallets[j]
      BY <3>1, <2>3, <1>3
    <3> QED BY <3>1, <3>2 DEF Alive
  <2> QED BY <2>2, <2>3
<1>7. FewExternal'
  <2>1. \A v \in Users : External(wallets', v) \subseteq External(wallets, v)
    BY <1>3 DEF External
  <2> QED BY <2>1, <1>1, StillFew DEF WalletInv
<1>8. NonceIsAsked' /\ ~usedTwice'
  BY <1>1 DEF WalletInv, NonceIsAsked
<1> QED BY <1>1, <1>4, <1>5, <1>6, <1>7, <1>8 DEF WalletInv

\* Wallet k is revoked; another of its user's may become the primary one.
LEMMA RevokedKeeps ==
  ASSUME WalletInv, NEW u \in Users, NEW k \in Keys, wallets[k].owner = u,
         wallets' \in [Keys -> WalletType], OnePrimary(wallets'),
         wallets'[k].status = "REVOKED", ~wallets'[k].primary,
         \A j \in Keys \ {k} :
           /\ wallets'[j].owner = wallets[j].owner /\ wallets'[j].status = wallets[j].status /\ wallets'[j].type = wallets[j].type
           /\ wallets[j].primary => wallets'[j].primary
           /\ wallets'[j] = wallets[j] \/ (Alive(j) /\ wallets'[j].primary),
         wallets[k].primary => \/ ActiveOf(u) \ {k} = {}
                               \/ \E j \in ActiveOf(u) \ {k} : wallets'[j].primary,
         UNCHANGED <<nonce, connecting, proved, usedTwice, reactivated>>
  PROVE  WalletInv'
<1>1. WalletTypes'
  BY DEF WalletInv, WalletTypes
<1>2. EachWallet'
  <2> SUFFICES ASSUME NEW j \in Keys
               PROVE  /\ wallets'[j].primary => Alive(j)'
                      /\ Alive(j)' => wallets'[j].owner \in Users /\ <<wallets'[j].owner, j>> \in proved'
                      /\ wallets'[j].status = "none" => wallets'[j] = NoWallet
    BY DEF EachWallet
  <2>1. CASE j = k
    BY <2>1 DEF Alive
  <2>2. CASE j # k
    <3>1. /\ wallets[j].primary => Alive(j)
          /\ Alive(j) => wallets[j].owner \in Users /\ <<wallets[j].owner, j>> \in proved
          /\ wallets[j].status = "none" => wallets[j] = NoWallet
      BY DEF WalletInv, EachWallet
    <3> QED BY <2>2, <3>1 DEF Alive
  <2> QED BY <2>1, <2>2
<1>3. EachHasPrimary'
  <2> SUFFICES ASSUME NEW j \in Keys, Alive(j)'
               PROVE  \E i \in Keys : Alive(i)' /\ wallets'[i].primary /\ wallets'[i].owner = wallets'[j].owner
    BY DEF EachHasPrimary
  <2>1. j # k /\ Alive(j) /\ wallets'[j].owner = wallets[j].owner
    BY DEF Alive
  <2>2. PICK i \in Keys : Alive(i) /\ wallets[i].primary /\ wallets[i].owner = wallets[j].owner
    BY <2>1 DEF WalletInv, EachHasPrimary
  <2>3. CASE i # k
    BY <2>1, <2>2, <2>3 DEF Alive
  <2>4. CASE i = k
    <3>1. j \in ActiveOf(u) \ {k}
      BY <2>1, <2>2, <2>4 DEF ActiveOf, Owned, Alive
    <3>2. PICK l \in ActiveOf(u) \ {k} : wallets'[l].primary
      BY <3>1, <2>2, <2>4
    <3>3. l \in Keys \ {k} /\ Alive(l) /\ wallets[l].owner = u
      BY <3>2 DEF ActiveOf, Owned, Alive
    <3> QED BY <3>2, <3>3, <2>1, <2>2, <2>4 DEF Alive
  <2> QED BY <2>3, <2>4
<1>4. FewExternal'
  <2>1. \A v \in Users : External(wallets', v) \subseteq External(wallets, v)
    BY DEF External
  <2> QED BY <2>1, StillFew DEF WalletInv
<1>5. NonceIsAsked' /\ ~usedTwice'
  BY DEF WalletInv, NonceIsAsked
<1> QED BY <1>1, <1>2, <1>3, <1>4, <1>5 DEF WalletInv

LEMMA RevokeWalletKeeps ==
  ASSUME WalletInv, NEW u \in Users, NEW k \in Keys, RevokeWallet(u, k)
  PROVE  WalletInv'
<1> DEFINE x == [wallets[k] EXCEPT !.status = "REVOKED", !.primary = FALSE]
           r == [wallets EXCEPT ![k].status = "REVOKED", ![k].primary = FALSE]
<1>1. /\ wallets[k].owner = u
      /\ \/ Replacement(u, k) = {} /\ Store(r)
         \/ \E j \in Replacement(u, k) : Store([r EXCEPT ![j].primary = TRUE])
      /\ UNCHANGED <<nonce, connecting, proved, usedTwice, reactivated>>
  BY DEF RevokeWallet, Owned
<1>2. \A j \in Keys : wallets[j] \in WalletType
  BY DEF WalletInv, WalletTypes
<1>3. x \in WalletType /\ x.status = "REVOKED" /\ x.primary = FALSE /\ x.owner = u
  BY <1>1, <1>2 DEF WalletType
<1>4. r \in [Keys -> WalletType] /\ r[k] = x /\ \A j \in Keys \ {k} : r[j] = wallets[j]
  BY <1>3 DEF WalletInv, WalletTypes
<1> HIDE DEF x, r
<1>5. Replacement(u, k) = IF wallets[k].primary THEN ActiveOf(u) \ {k} ELSE {}
  BY DEF Replacement
<1>6. CASE Replacement(u, k) = {} /\ Store(r)
  <2>1. wallets' = r /\ OnePrimary(wallets')
    BY <1>6 DEF Store
  <2>2. wallets[k].primary => ActiveOf(u) \ {k} = {}
    BY <1>5, <1>6
  <2> QED BY <1>1, <1>3, <1>4, <2>1, <2>2, RevokedKeeps
<1>7. ASSUME NEW j \in Replacement(u, k), Store([r EXCEPT ![j].primary = TRUE]) PROVE WalletInv'
  <2>1. j \in ActiveOf(u) \ {k} /\ j \in Keys \ {k} /\ Alive(j)
    BY <1>5, <1>7 DEF ActiveOf, Owned, Alive
  <2>2. wallets' = [r EXCEPT ![j].primary = TRUE] /\ OnePrimary(wallets')
    BY <1>7 DEF Store
  <2>3. r[j] = wallets[j] /\ r[j] \in WalletType
    BY <2>1, <1>2, <1>4
  <2>4. /\ [r[j] EXCEPT !.primary = TRUE] \in WalletType
        /\ [r[j] EXCEPT !.primary = TRUE].primary
        /\ [r[j] EXCEPT !.primary = TRUE].owner = wallets[j].owner /\ [r[j] EXCEPT !.primary = TRUE].status = wallets[j].status
        /\ [r[j] EXCEPT !.primary = TRUE].type = wallets[j].type
    BY <2>3 DEF WalletType
  <2>5. wallets' = [r EXCEPT ![j] = [r[j] EXCEPT !.primary = TRUE]]
    BY <2>2
  <2>6. /\ wallets' \in [Keys -> WalletType] /\ wallets'[j] = [r[j] EXCEPT !.primary = TRUE]
        /\ \A i \in Keys \ {j} : wallets'[i] = r[i]
    BY <2>1, <2>4, <2>5, <1>4
  <2>7. wallets'[k] = x /\ \A i \in Keys \ {j, k} : wallets'[i] = wallets[i]
    BY <2>1, <2>6, <1>4
  <2>8. /\ wallets'[k].status = "REVOKED" /\ ~wallets'[k].primary
        /\ \A i \in Keys \ {k} :
             /\ wallets'[i].owner = wallets[i].owner /\ wallets'[i].status = wallets[i].status /\ wallets'[i].type = wallets[i].type
             /\ wallets[i].primary => wallets'[i].primary
             /\ wallets'[i] = wallets[i] \/ (Alive(i) /\ wallets'[i].primary)
    BY <2>1, <2>4, <2>6, <2>7, <1>3
  <2>9. \E i \in ActiveOf(u) \ {k} : wallets'[i].primary
    BY <2>1, <2>4, <2>6
  <2> QED BY <1>1, <2>2, <2>6, <2>8, <2>9, RevokedKeeps
<1> QED BY <1>1, <1>6, <1>7

\* Every step keeps the invariant.
LEMMA WalletStep == WalletInv /\ [WalletNext]_walletVars => WalletInv'
<1> SUFFICES ASSUME WalletInv, [WalletNext]_walletVars PROVE WalletInv'
  OBVIOUS
<1>1. ASSUME NEW u \in Users, NEW k \in Keys, CreateNonce(u, k) PROVE WalletInv'
  BY <1>1, NonceKeeps
<1>2. ASSUME NEW u \in Users, NEW k \in Keys, SetPrimary(u, k) PROVE WalletInv'
  BY <1>2, SetPrimaryKeeps
<1>3. ASSUME NEW u \in Users, NEW k \in Keys, RevokeWallet(u, k) PROVE WalletInv'
  BY <1>3, RevokeWalletKeeps
<1>4. ASSUME NEW u \in Users, SyncEmbedded(u) PROVE WalletInv'
  BY <1>4, SyncKeeps
<1>5. ASSUME NEW c \in Calls, Verify(c) PROVE WalletInv'
  BY <1>5, VerifyKeeps
<1>6. ASSUME NEW c \in Calls, ConnectTx(c) PROVE WalletInv'
  BY <1>6, ConnectTxKeeps
<1>7. CASE NonceExpires
  BY <1>7, NonceExpiresKeeps
<1>8. CASE CleanupNonce
  BY <1>8, CleanupKeeps
<1>9. CASE UNCHANGED walletVars
  BY <1>9 DEF walletVars, WalletInv, WalletTypes, OnePrimary, EachWallet, EachHasPrimary, Alive, FewExternal, NonceIsAsked
<1> QED BY <1>1, <1>2, <1>3, <1>4, <1>5, <1>6, <1>7, <1>8, <1>9 DEF WalletNext

\* Who has an active wallet has one primary wallet, an active wallet is of an account that
\* showed its key, a nonce connects once, and no more external wallets are active than
\* allowed unless revoked ones were connected again (connectWallet, syncEmbeddedWallet,
\* setPrimaryWallet, revokeWallet).
THEOREM WalletsAreTheirsAlways == WalletSpec => []WalletsAreTheirs
<1> QED BY WalletStarts, WalletStep, WalletInvSays, PTL DEF WalletSpec

\* Both: the accounts of users, whatever of the two moves (wallets.service.ts,
\* sessions.service.ts).
THEOREM AccountsAreTheirsAlways == WalletSpec /\ SessionSpec => []AccountsAreTheirs
<1>1. WalletsAreTheirs /\ TokensRotate => AccountsAreTheirs
  BY DEF AccountsAreTheirs
<1> QED BY WalletsAreTheirsAlways, TokensRotateAlways, <1>1, PTL

-----------------------------------------------------------------------------
(* BNB chain: the inductive invariant *)

BnbTx    == [w : Jobs, nonce : Int, gas : Int]
CallType ==
  [pc : {"prepare"}, w : Jobs] \cup [pc : {"sign", "post"}, w : Jobs, tx : BnbTx]
  \cup [pc : {"again", "done", "error"}, w : Jobs, tx : BnbTx, lost : BOOLEAN]
  \cup [pc : {"error"}, w : Jobs, lost : BOOLEAN]
JobType == [status : {"APPROVED", "BROADCASTING", "BROADCASTED", "CONFIRMED", "FAILED"}, tx : BnbTx \cup {None}]

BnbTypes ==
  /\ job \in [Jobs -> JobType] /\ send \in [Jobs -> CallType \cup {NoSend}] /\ givenUp \subseteq CallType
  /\ signed \in [Jobs -> BnbTx \cup {None}] /\ price \in Int /\ unsure \subseteq Jobs
  /\ pool \subseteq BnbTx /\ mined \subseteq BnbTx /\ IsFiniteSet(pool) /\ IsFiniteSet(mined)

\* Whatever is on the chain, or will be posted, is what was signed for its withdrawal.
PostedIsSigned == \A t \in pool \cup mined : signed[t.w] = t
SignedIsOf(s) == \A w \in Jobs : s[w] # None => s[w].w = w
SignedCall(c, s) ==
  /\ c.pc \in {"sign", "post", "again", "done"} => c.tx.w = c.w
  /\ c.pc \in {"post", "again", "done"} => s[c.w] = c.tx
CallsAreSigned ==
  /\ \A w \in Jobs : send[w] # NoSend => SignedCall(send[w], signed)
  /\ \A c \in givenUp : SignedCall(c, signed)

\* A call that is waited for is that of a withdrawal under way; the others' outcome nobody knows.
CallsAreOf ==
  /\ \A w \in Jobs : send[w] # NoSend => send[w].w = w /\ job[w].status = "BROADCASTING"
  /\ \A c \in givenUp : c.w \in unsure

\* No transaction of w is in S.
NoneOf(w, S) == \A t \in S : t.w # w

\* A call whose transaction no node has taken yet.
Untaken(c) == c.pc \in {"prepare", "sign", "post"} \/ (c.pc \in {"again", "error"} /\ ~c.lost)

\* Unless its outcome was unknown once, a withdrawal that may be sent again has nothing on
\* the chain.
NothingTwice ==
  \A w \in Jobs \ unsure :
    /\ job[w].status \in {"APPROVED", "FAILED"} => NoneOf(w, pool \cup mined)
    /\ send[w] # NoSend /\ Untaken(send[w]) => NoneOf(w, pool \cup mined)

BnbInv == BnbTypes /\ PostedIsSigned /\ SignedIsOf(signed) /\ CallsAreSigned /\ CallsAreOf /\ NothingTwice

\* What the fields of a call are.
LEMMA CallFields ==
  ASSUME NEW c \in CallType
  PROVE  /\ c.w \in Jobs /\ c.pc \in {"prepare", "sign", "post", "again", "done", "error"}
         /\ c # NoSend
         /\ c.pc = "sign" => c \in [pc : {"sign", "post"}, w : Jobs, tx : BnbTx]
         /\ c.pc \in {"sign", "post", "again", "done"} => c.tx \in BnbTx
         /\ c.pc \in {"again", "done", "error"} => c.lost \in BOOLEAN
  BY DEF CallType, NoSend

LEMMA BnbStarts == BnbInit => BnbInv
<1> SUFFICES ASSUME BnbInit PROVE BnbInv
  OBVIOUS
<1>1. BnbTypes
  BY FS_EmptySet DEF BnbInit, BnbTypes, JobType
<1> QED BY <1>1 DEF BnbInit, BnbInv, PostedIsSigned, SignedIsOf, CallsAreSigned, CallsAreOf, NothingTwice, NoneOf

LEMMA BnbInvSays == BnbInv => BnbIsPaidFor
<1> SUFFICES ASSUME BnbInv, NEW w \in Jobs
             PROVE  /\ Cardinality({t \in mined : t.w = w}) <= 1
                    /\ job[w].status = "FAILED" /\ (\E t \in mined : t.w = w) => w \in unsure
  BY DEF BnbIsPaidFor
<1>1. {t \in mined : t.w = w} \subseteq {signed[w]}
  BY DEF BnbInv, PostedIsSigned
<1>2. Cardinality({t \in mined : t.w = w}) <= 1
  <2>1. IsFiniteSet({signed[w]}) /\ Cardinality({signed[w]}) = 1
    BY FS_Singleton
  <2> QED BY <1>1, <2>1, FS_Subset
<1>3. job[w].status = "FAILED" /\ (\E t \in mined : t.w = w) => w \in unsure
  BY DEF BnbInv, NothingTwice, NoneOf
<1> QED BY <1>2, <1>3

LEMMA SignedSame ==
  ASSUME NEW c \in CallType, NEW s, NEW z, \A w \in Jobs : s[w] \in BnbTx \cup {None},
         \A w \in Jobs : s[w] # None => z[w] = s[w], SignedCall(c, s)
  PROVE  SignedCall(c, z)
<1>1. None \notin BnbTx
  BY BnbAssumption DEF BnbTx
<1> QED BY <1>1, CallFields DEF SignedCall

\* A call goes on: what it has signed stays, and what it posts is its own.
LEMMA CallGoesOn ==
  ASSUME BnbInv, NEW c \in CallType, NEW d \in CallType, Step(c, d), d.w = c.w,
         signed' \in [Jobs -> BnbTx \cup {None}], \A w \in Jobs : signed[w] # None => signed'[w] = signed[w],
         SignedIsOf(signed'), SignedCall(d, signed'), Untaken(d) => Untaken(c),
         pool' \subseteq BnbTx, IsFiniteSet(pool'),
         \A t \in pool' \ pool : t.w = c.w /\ signed'[t.w] = t /\ ~Untaken(d),
         UNCHANGED <<job, mined, price, unsure>>
  PROVE  BnbInv'
<1>1. /\ send' \in [Jobs -> CallType \cup {NoSend}]
      /\ \A w \in Jobs : send'[w] = send[w] \/ (send[w] = c /\ send'[w] = d)
  <2>1. CASE \E w \in Jobs : send[w] = c /\ send' = [send EXCEPT ![w] = d]
    BY <2>1 DEF BnbInv, BnbTypes
  <2>2. CASE send' = send
    BY <2>2 DEF BnbInv, BnbTypes
  <2> QED BY <2>1, <2>2 DEF Step
<1>2. givenUp' \subseteq CallType /\ \A e \in givenUp' : e \in givenUp \/ (e = d /\ c \in givenUp)
  <2>1. CASE givenUp' = givenUp
    BY <2>1 DEF BnbInv, BnbTypes
  <2>2. CASE c \in givenUp /\ (givenUp' = givenUp \ {c} \/ givenUp' = (givenUp \ {c}) \cup {d})
    BY <2>2 DEF BnbInv, BnbTypes
  <2> QED BY <2>1, <2>2 DEF Step
<1>3. c # NoSend /\ d # NoSend /\ c.w \in Jobs /\ None \notin BnbTx
  BY CallFields, BnbAssumption DEF BnbTx
<1>4. BnbTypes'
  BY <1>1, <1>2 DEF BnbInv, BnbTypes
<1>5. PostedIsSigned'
  <2> SUFFICES ASSUME NEW t \in pool' \cup mined' PROVE signed'[t.w] = t
    BY DEF PostedIsSigned
  <2>1. CASE t \in pool' \ pool
    BY <2>1
  <2>2. CASE t \in pool \cup mined
    <3>1. signed[t.w] = t /\ t \in BnbTx
      BY <2>2 DEF BnbInv, BnbTypes, PostedIsSigned
    <3> QED BY <3>1, <1>3 DEF BnbTx
  <2> QED BY <2>1, <2>2
<1>6. CallsAreSigned'
  <2>0. \A w \in Jobs : signed[w] \in BnbTx \cup {None}
    BY DEF BnbInv, BnbTypes
  <2>1. ASSUME NEW w \in Jobs, send'[w] # NoSend PROVE SignedCall(send'[w], signed')
    <3>1. CASE send'[w] = send[w]
      BY <3>1, <2>0, <2>1, SignedSame DEF BnbInv, BnbTypes, CallsAreSigned
    <3> QED BY <3>1, <1>1
  <2>2. ASSUME NEW e \in givenUp' PROVE SignedCall(e, signed')
    <3>1. CASE e \in givenUp
      BY <3>1, <2>0, SignedSame DEF BnbInv, BnbTypes, CallsAreSigned
    <3> QED BY <3>1, <1>2
  <2> QED BY <2>1, <2>2 DEF CallsAreSigned
<1>7. CallsAreOf'
  BY <1>1, <1>2, <1>3 DEF BnbInv, CallsAreOf
<1>8. NothingTwice'
  <2> SUFFICES ASSUME NEW w \in Jobs \ unsure
               PROVE  /\ job[w].status \in {"APPROVED", "FAILED"} => NoneOf(w, pool' \cup mined)
                      /\ send'[w] # NoSend /\ Untaken(send'[w]) => NoneOf(w, pool' \cup mined)
    BY DEF NothingTwice
  <2>1. CASE c.w = w /\ send[w] = c
    <3>1. job[w].status = "BROADCASTING"
      BY <2>1, <1>3 DEF BnbInv, CallsAreOf
    <3>2. ASSUME Untaken(send'[w]) PROVE NoneOf(w, pool' \cup mined)
      <4>1. c \notin givenUp
        BY <2>1 DEF BnbInv, CallsAreOf
      <4>2. PICK v \in Jobs : send[v] = c /\ send' = [send EXCEPT ![v] = d]
        BY <4>1 DEF Step
      <4>3. v = w
        BY <4>2, <2>1, <1>3 DEF BnbInv, CallsAreOf
      <4>4. send'[w] = d
        BY <4>2, <4>3 DEF BnbInv, BnbTypes
      <4>5. NoneOf(w, pool \cup mined)
        BY <4>4, <3>2, <2>1, <1>3 DEF BnbInv, NothingTwice
      <4> QED BY <4>4, <4>5, <3>2 DEF NoneOf
    <3> QED BY <3>1, <3>2
  <2>2. CASE ~(c.w = w /\ send[w] = c)
    <3>1. c.w # w
      BY <2>2, <1>3 DEF Step, BnbInv, CallsAreOf
    <3>2. send'[w] = send[w] /\ \A t \in pool' : t.w = w => t \in pool
      BY <3>1, <1>1, <1>3, <2>2 DEF BnbInv, CallsAreOf
    <3> QED BY <3>2 DEF BnbInv, NothingTwice, NoneOf
  <2> QED BY <2>1, <2>2
<1> QED BY <1>4, <1>5, <1>6, <1>7, <1>8 DEF BnbInv

LEMMA PrepareKeeps == ASSUME BnbInv, NEW c \in CallType, Prepare(c) PROVE BnbInv'
<1>1. PICK n \in Next0..(Next0 + Cardinality(pool)) :
        Step(c, [pc |-> "sign", w |-> c.w, tx |-> [w |-> c.w, nonce |-> n, gas |-> price]])
  BY DEF Prepare
<1>2. n \in Int /\ price \in Int
  BY <1>1, FS_CardinalityType DEF Next0, BnbInv, BnbTypes
<1> SUFFICES ASSUME NEW x, x = [w |-> c.w, nonce |-> n, gas |-> price],
                    NEW d, d = [pc |-> "sign", w |-> c.w, tx |-> x]
             PROVE BnbInv'
  OBVIOUS
<1>3. x \in BnbTx /\ x.w = c.w
  BY <1>2, CallFields DEF BnbTx
<1>4. d \in CallType /\ d.w = c.w /\ d.pc = "sign" /\ d.tx = x
  BY <1>3, CallFields DEF CallType
<1>5. Step(c, d) /\ SignedCall(d, signed) /\ Untaken(c)
  BY <1>1, <1>3, <1>4 DEF SignedCall, Untaken, Prepare
<1>6. /\ signed' = signed /\ pool' = pool
      /\ UNCHANGED <<job, mined, price, unsure>>
  BY DEF Prepare
<1>7. /\ signed' \in [Jobs -> BnbTx \cup {None}] /\ SignedCall(d, signed') /\ SignedIsOf(signed')
      /\ \A w \in Jobs : signed[w] # None => signed'[w] = signed[w]
      /\ pool' \subseteq BnbTx /\ IsFiniteSet(pool') /\ pool' \ pool = {}
  BY <1>5, <1>6 DEF BnbInv, BnbTypes
<1> QED BY <1>4, <1>5, <1>6, <1>7, CallGoesOn

LEMMA SignKeeps == ASSUME BnbInv, NEW c \in CallType, Sign(c) PROVE BnbInv'
<1>0. /\ c.pc = "sign" /\ c \in [pc : {"sign", "post"}, w : Jobs, tx : BnbTx]
      /\ UNCHANGED <<job, pool, mined, price, unsure>>
  BY CallFields DEF Sign
<1>1. c.w \in Jobs /\ c.tx \in BnbTx /\ Untaken(c) /\ None \notin BnbTx
  BY <1>0, BnbAssumption DEF BnbTx, Untaken
<1>2. signed \in [Jobs -> BnbTx \cup {None}] /\ pool \subseteq BnbTx /\ IsFiniteSet(pool)
  BY DEF BnbInv, BnbTypes
<1>3. CASE /\ signed' = [signed EXCEPT ![c.w] = SignOnce(c.w, c.tx)]
           /\ Step(c, [c EXCEPT !.pc = "post", !.tx = SignOnce(c.w, c.tx)])
  <2> SUFFICES ASSUME NEW x, x = SignOnce(c.w, c.tx), NEW d, d = [c EXCEPT !.pc = "post", !.tx = x]
               PROVE BnbInv'
    OBVIOUS
  <2>1. x \in BnbTx /\ (signed[c.w] # None => x = signed[c.w])
    BY <1>1, <1>2 DEF SignOnce
  <2>2. d \in CallType /\ d.w = c.w /\ d.pc = "post" /\ d.tx = x
    BY <2>1, <1>0 DEF CallType
  <2>3. x.w = c.w
    <3>1. CASE signed[c.w] = None
      <4>1. x = c.tx
        BY <3>1 DEF SignOnce
      <4>2. SignedCall(c, signed)
        BY <1>3, CallFields DEF BnbInv, CallsAreSigned, Step
      <4> QED BY <4>1, <4>2, <1>0 DEF SignedCall
    <3>2. CASE signed[c.w] # None
      BY <2>1, <3>2, <1>1 DEF BnbInv, SignedIsOf
    <3> QED BY <3>1, <3>2
  <2>4. /\ signed' \in [Jobs -> BnbTx \cup {None}] /\ signed'[c.w] = x
        /\ \A w \in Jobs : signed[w] # None => signed'[w] = signed[w]
        /\ \A w \in Jobs \ {c.w} : signed'[w] = signed[w]
    BY <2>1, <1>1, <1>2, <1>3
  <2>6. SignedIsOf(signed')
    BY <2>3, <2>4 DEF SignedIsOf, BnbInv
  <2>5. Step(c, d) /\ SignedCall(d, signed')
    BY <2>2, <2>3, <2>4, <1>3 DEF SignedCall
  <2> QED BY <2>2, <2>4, <2>5, <2>6, <1>0, <1>1, <1>2, CallGoesOn
<1>4. CASE Step(c, [pc |-> "error", w |-> c.w, lost |-> FALSE]) /\ UNCHANGED signed
  <2> SUFFICES ASSUME NEW d, d = [pc |-> "error", w |-> c.w, lost |-> FALSE] PROVE BnbInv'
    OBVIOUS
  <2>1. d \in CallType /\ d.w = c.w /\ d.pc = "error"
    BY <1>1 DEF CallType
  <2>2. Step(c, d) /\ SignedCall(d, signed') /\ SignedIsOf(signed')
    BY <2>1, <1>4 DEF SignedCall, BnbInv
  <2> QED BY <2>1, <2>2, <1>0, <1>1, <1>2, <1>4, CallGoesOn
<1> QED BY <1>3, <1>4 DEF Sign

LEMMA AnsweredIs ==
  ASSUME NEW c \in CallType, c.pc \in {"post", "again"}, NEW pc \in {"done", "error"}, NEW mute \in BOOLEAN
  PROVE  LET d == Answered(c, pc, mute)
         IN  /\ d \in CallType /\ d.w = c.w /\ d.tx = c.tx
             /\ d.pc \in {"again", "done", "error"} /\ d.lost = (mute \/ (c.pc = "again" /\ c.lost))
             /\ pc = "done" => d.pc = "done"
             /\ pc = "error" => d.pc \in {"again", "error"}
<1>1. /\ c.w \in Jobs /\ c.tx \in BnbTx /\ (c.pc = "again" => c.lost \in BOOLEAN)
  BY CallFields
<1> QED BY <1>1 DEF Answered, CallType

LEMMA PostKeeps == ASSUME BnbInv, NEW c \in CallType, Post(c) PROVE BnbInv'
<1>1. /\ c.pc \in {"post", "again"} /\ UNCHANGED <<job, signed, mined, price, unsure>>
  BY DEF Post
<1>2. /\ c.w \in Jobs /\ c.tx \in BnbTx /\ (c.pc = "again" => c.lost \in BOOLEAN)
  BY <1>1, CallFields
<1>3. /\ signed \in [Jobs -> BnbTx \cup {None}] /\ pool \subseteq BnbTx /\ IsFiniteSet(pool)
  BY DEF BnbInv, BnbTypes
<1>4. ASSUME NEW pc \in {"done", "error"}, NEW mute \in BOOLEAN, Step(c, Answered(c, pc, mute)),
             pool' = pool \/ (Pooled(c.tx) /\ (mute \/ pc = "done")), mute \/ pc = "done" \/ pool' = pool
      PROVE  BnbInv'
  <2> SUFFICES ASSUME NEW d, d = Answered(c, pc, mute) PROVE BnbInv'
    OBVIOUS
  <2>1. /\ d \in CallType /\ d.w = c.w /\ d.tx = c.tx
        /\ d.pc \in {"again", "done", "error"} /\ d.lost = (mute \/ (c.pc = "again" /\ c.lost))
        /\ pc = "done" => d.pc = "done"
        /\ pc = "error" => d.pc \in {"again", "error"}
    BY <1>1, AnsweredIs
  <2>2. SignedCall(c, signed)
    BY <1>1, <1>4, CallFields DEF BnbInv, CallsAreSigned, Step
  <2>3. SignedIsOf(signed') /\ SignedCall(d, signed') /\ c.tx.w = c.w /\ signed'[c.w] = c.tx
    BY <2>1, <2>2, <1>1 DEF SignedCall, BnbInv
  <2>4. Untaken(d) => Untaken(c)
    BY <2>1, <1>1 DEF Untaken
  <2>5. pool' \subseteq BnbTx /\ IsFiniteSet(pool')
    <3>1. CASE pool' = pool
      BY <3>1, <1>3
    <3>2. CASE Pooled(c.tx)
      <4>1. pool' \subseteq pool \cup {c.tx} /\ IsFiniteSet(pool \cup {c.tx})
        BY <3>2, <1>3, FS_AddElement DEF Pooled
      <4> QED BY <4>1, <1>2, <1>3, FS_Subset
    <3> QED BY <3>1, <3>2, <1>4
  <2>6. \A t \in pool' \ pool : t.w = c.w /\ signed'[t.w] = t /\ ~Untaken(d)
    <3> SUFFICES ASSUME NEW t \in pool' \ pool PROVE t.w = c.w /\ signed'[t.w] = t /\ ~Untaken(d)
      OBVIOUS
    <3>1. t = c.tx /\ (mute \/ pc = "done")
      BY <1>4 DEF Pooled
    <3> QED BY <3>1, <2>1, <2>3 DEF Untaken
  <2> QED BY <2>1, <2>3, <2>4, <2>5, <2>6, <1>1, <1>3, <1>4, CallGoesOn
<1>5. CASE Takes(c.tx)
  BY <1>5, <1>4 DEF Post
<1>6. CASE ~Takes(c.tx)
  BY <1>6, <1>4 DEF Post
<1> QED BY <1>5, <1>6

\* A withdrawal w is given up or ends as the worker sees it; the chain is left alone.
LEMMA WorkerKeeps ==
  ASSUME BnbInv, NEW w \in Jobs, job' \in [Jobs -> JobType], unsure' \subseteq Jobs, unsure \subseteq unsure',
         send' \in [Jobs -> CallType \cup {NoSend}],
         \A v \in Jobs \ {w} : job'[v] = job[v] /\ send'[v] = send[v],
         givenUp' \subseteq CallType,
         \A c \in givenUp' : c \in givenUp \/ (send[w] # NoSend /\ c = send[w] /\ w \in unsure'),
         send'[w] # NoSend => /\ send'[w].w = w /\ job'[w].status = "BROADCASTING" /\ SignedCall(send'[w], signed),
         w \notin unsure' =>
           /\ job'[w].status \in {"APPROVED", "FAILED"} => NoneOf(w, pool \cup mined)
           /\ send'[w] # NoSend /\ Untaken(send'[w]) => NoneOf(w, pool \cup mined),
         UNCHANGED <<signed, pool, mined, price>>
  PROVE  BnbInv'
<1>1. BnbTypes' /\ PostedIsSigned'
  BY DEF BnbInv, BnbTypes, PostedIsSigned
<1>5. SignedIsOf(signed')
  BY DEF BnbInv
<1>2. CallsAreSigned'
  BY DEF BnbInv, CallsAreSigned
<1>3. CallsAreOf'
  BY DEF BnbInv, CallsAreOf
<1>4. NothingTwice'
  BY DEF BnbInv, NothingTwice
<1> QED BY <1>1, <1>2, <1>3, <1>4, <1>5 DEF BnbInv

\* The status of a withdrawal alone.
LEMMA StatusSet ==
  ASSUME BnbInv, NEW w \in Jobs, NEW s \in {"APPROVED", "BROADCASTING", "BROADCASTED", "CONFIRMED", "FAILED"},
         job' = [job EXCEPT ![w].status = s]
  PROVE  job' \in [Jobs -> JobType] /\ job'[w].status = s /\ \A v \in Jobs \ {w} : job'[v] = job[v]
<1>1. job \in [Jobs -> JobType] /\ job[w] \in JobType
  BY DEF BnbInv, BnbTypes
<1>2. job' = [job EXCEPT ![w] = [job[w] EXCEPT !.status = s]]
  OBVIOUS
<1>3. [job[w] EXCEPT !.status = s] \in JobType /\ [job[w] EXCEPT !.status = s].status = s
  BY <1>1 DEF JobType
<1> QED BY <1>1, <1>2, <1>3

LEMMA TakeJobKeeps == ASSUME BnbInv, NEW w \in Jobs, TakeJob(w) PROVE BnbInv'
<1> DEFINE d == [pc |-> "prepare", w |-> w]
<1>1. /\ job[w].status = "APPROVED" /\ job' = [job EXCEPT ![w].status = "BROADCASTING"]
      /\ send' = [send EXCEPT ![w] = d] /\ UNCHANGED <<givenUp, signed, pool, mined, price, unsure>>
  BY DEF TakeJob
<1>2. d \in CallType /\ d.w = w /\ d.pc = "prepare" /\ SignedCall(d, signed)
  BY DEF CallType, SignedCall
<1> HIDE DEF d
<1>3. /\ job' \in [Jobs -> JobType] /\ job'[w].status = "BROADCASTING" /\ \A v \in Jobs \ {w} : job'[v] = job[v]
  BY <1>1, StatusSet
<1>4. /\ send' \in [Jobs -> CallType \cup {NoSend}] /\ send'[w] = d /\ \A v \in Jobs \ {w} : send'[v] = send[v]
  BY <1>1, <1>2 DEF BnbInv, BnbTypes
<1>5. /\ unsure' \subseteq Jobs /\ givenUp' \subseteq CallType
      /\ w \notin unsure' => NoneOf(w, pool \cup mined)
  BY <1>1 DEF BnbInv, BnbTypes, NothingTwice
<1> QED BY <1>1, <1>2, <1>3, <1>4, <1>5, WorkerKeeps

\* The worker no longer waits for w, and the row is written.
LEMMA StoppedKeeps ==
  ASSUME BnbInv, NEW w \in Jobs, send' = [send EXCEPT ![w] = NoSend],
         job' \in [Jobs -> JobType], \A v \in Jobs \ {w} : job'[v] = job[v],
         \/ Failed(w, FALSE)
         \/ unsure' = unsure /\ job'[w].status \notin {"APPROVED", "FAILED"}
         \/ unsure' = unsure /\ (w \in unsure \/ NoneOf(w, pool \cup mined)),
         givenUp' \subseteq CallType,
         \A c \in givenUp' : c \in givenUp \/ (send[w] # NoSend /\ c = send[w] /\ w \in unsure'),
         UNCHANGED <<signed, pool, mined, price>>
  PROVE  BnbInv'
<1>1. /\ send' \in [Jobs -> CallType \cup {NoSend}] /\ send'[w] = NoSend /\ \A v \in Jobs \ {w} : send'[v] = send[v]
      /\ unsure \subseteq Jobs
  BY DEF BnbInv, BnbTypes
<1>2. unsure' \subseteq Jobs /\ unsure \subseteq unsure'
  BY <1>1 DEF Failed
<1>3. w \notin unsure' => (job'[w].status \in {"APPROVED", "FAILED"} => NoneOf(w, pool \cup mined))
  BY DEF Failed
<1> QED BY <1>1, <1>2, <1>3, WorkerKeeps

LEMMA FailedIs ==
  ASSUME BnbInv, NEW w \in Jobs, NEW known \in BOOLEAN, Failed(w, known)
  PROVE  job' \in [Jobs -> JobType] /\ job'[w].status = "FAILED" /\ \A v \in Jobs \ {w} : job'[v] = job[v]
BY StatusSet DEF Failed

LEMMA GiveUpKeeps == ASSUME BnbInv, NEW w \in Jobs, GiveUp(w) PROVE BnbInv'
<1>1. /\ send' = [send EXCEPT ![w] = NoSend] /\ givenUp' = givenUp \cup {send[w]} /\ Failed(w, FALSE)
      /\ send[w].pc \in {"prepare", "sign", "post", "again"} /\ UNCHANGED <<signed, pool, mined, price>>
  BY DEF GiveUp
<1>2. send[w] \in CallType \cup {NoSend} /\ NoSend.pc = "idle" /\ givenUp \subseteq CallType
  BY DEF BnbInv, BnbTypes, NoSend
<1>3. send[w] # NoSend /\ givenUp' \subseteq CallType /\ w \in unsure'
  BY <1>1, <1>2 DEF Failed
<1>4. job' \in [Jobs -> JobType] /\ \A v \in Jobs \ {w} : job'[v] = job[v]
  BY <1>1, FailedIs
<1>5. \A c \in givenUp' : c \in givenUp \/ (send[w] # NoSend /\ c = send[w] /\ w \in unsure')
  BY <1>1, <1>3
<1> QED BY <1>1, <1>3, <1>4, <1>5, StoppedKeeps

LEMMA ReturnsKeeps == ASSUME BnbInv, NEW w \in Jobs, Returns(w) PROVE BnbInv'
<1>1. /\ send[w].pc = "done" /\ send' = [send EXCEPT ![w] = NoSend] /\ UNCHANGED <<givenUp, signed, pool, mined, price>>
  BY DEF Returns
<1>2. givenUp' \subseteq CallType /\ \A c \in givenUp' : c \in givenUp
  BY <1>1 DEF BnbInv, BnbTypes
<1>3. CASE job' = [job EXCEPT ![w] = [status |-> "BROADCASTED", tx |-> send[w].tx]] /\ UNCHANGED unsure
  <2>1. send[w] \in CallType
    BY <1>1 DEF BnbInv, BnbTypes, NoSend
  <2>2. send[w].tx \in BnbTx
    BY <2>1, <1>1, CallFields
  <2> DEFINE x == [status |-> "BROADCASTED", tx |-> send[w].tx]
  <2>3. x \in JobType /\ x.status = "BROADCASTED"
    BY <2>2 DEF JobType
  <2> HIDE DEF x
  <2>4. job' \in [Jobs -> JobType] /\ job'[w] = x /\ \A v \in Jobs \ {w} : job'[v] = job[v]
    BY <1>3, <2>3 DEF BnbInv, BnbTypes, x
  <2> QED BY <1>1, <1>2, <1>3, <2>3, <2>4, StoppedKeeps
<1>4. CASE Failed(w, FALSE)
  <2>1. job' \in [Jobs -> JobType] /\ \A v \in Jobs \ {w} : job'[v] = job[v]
    BY <1>4, FailedIs
  <2> QED BY <1>1, <1>2, <1>4, <2>1, StoppedKeeps
<1> QED BY <1>3, <1>4 DEF Returns

LEMMA ThrowsKeeps == ASSUME BnbInv, NEW w \in Jobs, Throws(w) PROVE BnbInv'
<1>1. /\ send[w].pc = "error" /\ send' = [send EXCEPT ![w] = NoSend] /\ Failed(w, ~send[w].lost)
      /\ UNCHANGED <<givenUp, signed, pool, mined, price>>
  BY DEF Throws
<1>2. givenUp' \subseteq CallType /\ \A c \in givenUp' : c \in givenUp
  BY <1>1 DEF BnbInv, BnbTypes
<1>3. send[w] \in CallType /\ send[w] # NoSend
  BY <1>1 DEF BnbInv, BnbTypes, NoSend
<1>4. send[w].lost \in BOOLEAN
  BY <1>1, <1>3, CallFields
<1>5. job' \in [Jobs -> JobType] /\ \A v \in Jobs \ {w} : job'[v] = job[v]
  BY <1>1, <1>4, FailedIs
<1>6. CASE send[w].lost
  <2>1. Failed(w, FALSE)
    BY <1>1, <1>6, <1>4 DEF Failed
  <2> QED BY <1>1, <1>2, <1>5, <2>1, StoppedKeeps
<1>7. CASE ~send[w].lost
  <2>1. unsure' = unsure /\ (w \in unsure \/ NoneOf(w, pool \cup mined))
    BY <1>1, <1>3, <1>7 DEF Failed, Untaken, BnbInv, NothingTwice
  <2> QED BY <1>1, <1>2, <1>5, <2>1, StoppedKeeps
<1> QED BY <1>4, <1>6, <1>7

LEMMA JobInterruptedKeeps == ASSUME BnbInv, NEW w \in Jobs, JobInterrupted(w) PROVE BnbInv'
<1>1. /\ send[w] = NoSend /\ Failed(w, FALSE) /\ UNCHANGED <<send, givenUp, signed, pool, mined, price>>
  BY DEF JobInterrupted
<1>2. job' \in [Jobs -> JobType] /\ \A v \in Jobs \ {w} : job'[v] = job[v]
  BY <1>1, FailedIs
<1>3. send' = [send EXCEPT ![w] = NoSend] /\ givenUp' \subseteq CallType
  BY <1>1 DEF BnbInv, BnbTypes
<1> QED BY <1>1, <1>2, <1>3, StoppedKeeps

LEMMA ConfirmJobKeeps == ASSUME BnbInv, NEW w \in Jobs, ConfirmJob(w) PROVE BnbInv'
<1>1. /\ job[w].status = "BROADCASTED" /\ job' = [job EXCEPT ![w].status = "CONFIRMED"]
      /\ UNCHANGED <<send, givenUp, signed, pool, mined, price, unsure>>
  BY DEF ConfirmJob
<1>2. job' \in [Jobs -> JobType] /\ job'[w].status = "CONFIRMED" /\ \A v \in Jobs \ {w} : job'[v] = job[v]
  BY <1>1, StatusSet
<1>3. send[w] = NoSend
  BY <1>1 DEF BnbInv, CallsAreOf
<1>4. send' = [send EXCEPT ![w] = NoSend] /\ givenUp' \subseteq CallType
  BY <1>1, <1>3 DEF BnbInv, BnbTypes
<1> QED BY <1>1, <1>2, <1>4, StoppedKeeps

LEMMA RetryJobKeeps == ASSUME BnbInv, NEW w \in Jobs, RetryJob(w) PROVE BnbInv'
<1> DEFINE x == [status |-> "APPROVED", tx |-> None]
<1>1. /\ job[w].status = "FAILED" /\ job' = [job EXCEPT ![w] = x]
      /\ UNCHANGED <<send, givenUp, signed, pool, mined, price, unsure>>
  BY DEF RetryJob
<1>2. x \in JobType
  BY DEF JobType
<1> HIDE DEF x
<1>3. job' \in [Jobs -> JobType] /\ \A v \in Jobs \ {w} : job'[v] = job[v]
  BY <1>1, <1>2 DEF BnbInv, BnbTypes
<1>4. send[w] = NoSend
  BY <1>1 DEF BnbInv, CallsAreOf
<1>5. send' = [send EXCEPT ![w] = NoSend] /\ givenUp' \subseteq CallType
  BY <1>1, <1>4 DEF BnbInv, BnbTypes
<1>6. w \in unsure \/ NoneOf(w, pool \cup mined)
  BY <1>1 DEF BnbInv, NothingTwice
<1> QED BY <1>1, <1>3, <1>5, <1>6, StoppedKeeps

LEMMA MineNextKeeps == ASSUME BnbInv, MineNext PROVE BnbInv'
<1>1. PICK t \in pool : mined' = mined \cup {t} /\ pool' = pool \ {t}
  BY DEF MineNext
<1>2. pool' \cup mined' = pool \cup mined
  BY <1>1
<1>3. IsFiniteSet(pool') /\ IsFiniteSet(mined')
  BY <1>1, FS_AddElement, FS_RemoveElement DEF BnbInv, BnbTypes
<1>4. UNCHANGED <<job, send, givenUp, signed, price, unsure>>
  BY DEF MineNext
<1>5. BnbTypes'
  BY <1>1, <1>3, <1>4 DEF BnbInv, BnbTypes
<1>6. PostedIsSigned' /\ NothingTwice'
  BY <1>2, <1>4 DEF BnbInv, PostedIsSigned, NothingTwice
<1> QED BY <1>4, <1>5, <1>6 DEF BnbInv, CallsAreSigned, CallsAreOf

LEMMA BnbCrashKeeps == ASSUME BnbInv, BnbCrash PROVE BnbInv'
<1>1. /\ send' = [w \in Jobs |-> NoSend] /\ givenUp' = {} /\ UNCHANGED <<job, signed, pool, mined, price, unsure>>
  BY DEF BnbCrash
<1>2. \A w \in Jobs : send'[w] = NoSend
  BY <1>1
<1>3. BnbTypes'
  BY <1>1 DEF BnbInv, BnbTypes
<1>4. PostedIsSigned' /\ SignedIsOf(signed')
  BY <1>1 DEF BnbInv, PostedIsSigned
<1>5. CallsAreSigned' /\ CallsAreOf'
  BY <1>1, <1>2 DEF CallsAreSigned, CallsAreOf
<1>6. NothingTwice'
  BY <1>1, <1>2 DEF BnbInv, NothingTwice
<1> QED BY <1>3, <1>4, <1>5, <1>6 DEF BnbInv

LEMMA BnbStep == BnbInv /\ [BnbNext]_bnbVars => BnbInv'
<1> SUFFICES ASSUME BnbInv, [BnbNext]_bnbVars PROVE BnbInv'
  OBVIOUS
<1>1. CASE Sending
  <2>1. PICK c \in Running : Prepare(c) \/ Sign(c) \/ Post(c)
    BY <1>1 DEF Sending
  <2>2. c \in CallType
    <3>1. c.pc \in {"prepare", "sign", "post", "again"}
      BY <2>1 DEF Prepare, Sign, Post
    <3>2. c \in CallType \cup {NoSend}
      BY DEF Running, BnbInv, BnbTypes
    <3>3. c # NoSend
      BY <3>1 DEF NoSend
    <3> QED BY <3>2, <3>3
  <2> QED BY <2>1, <2>2, PrepareKeeps, SignKeeps, PostKeeps
<1>2. ASSUME NEW w \in Jobs, Worker(w) PROVE BnbInv'
  BY <1>2, TakeJobKeeps, ReturnsKeeps, ThrowsKeeps, JobInterruptedKeeps, ConfirmJobKeeps DEF Worker
<1>3. ASSUME NEW w \in Jobs, GiveUp(w) PROVE BnbInv'
  BY <1>3, GiveUpKeeps
<1>4. ASSUME NEW w \in Jobs, RetryJob(w) PROVE BnbInv'
  BY <1>4, RetryJobKeeps
<1>5. CASE MineNext
  BY <1>5, MineNextKeeps
<1>6. CASE BnbCrash
  BY <1>6, BnbCrashKeeps
<1>7. CASE PriceRises
  <2>1. price' \in Int /\ UNCHANGED <<job, send, givenUp, signed, pool, mined, unsure>>
    BY <1>7 DEF PriceRises, BnbInv, BnbTypes
  <2> QED BY <2>1 DEF BnbInv, BnbTypes, PostedIsSigned, CallsAreSigned, CallsAreOf, NothingTwice
<1>8. CASE UNCHANGED bnbVars
  BY <1>8 DEF bnbVars, BnbInv, BnbTypes, PostedIsSigned, CallsAreSigned, CallsAreOf, NothingTwice
<1> QED BY <1>1, <1>2, <1>3, <1>4, <1>5, <1>6, <1>7, <1>8 DEF BnbNext

\* A withdrawal on BNB chain is paid once, and not after a refund that knew its outcome
\* (sendFromWallet, signAndBroadcastBnbTransaction, handleWithdrawalBroadcastFailure).
THEOREM BnbIsPaidForAlways == BnbSpec => []BnbIsPaidFor
<1> QED BY BnbStarts, BnbStep, BnbInvSays, PTL DEF BnbSpec

-----------------------------------------------------------------------------
(* Withdrawals the platform signs: the helpers on sequences *)

\* A function on 1..n is a sequence of length n.
LEMMA ListIsSeq == ASSUME NEW R, NEW n \in Nat, NEW f \in [1..n -> R] PROVE f \in Seq(R) /\ Len(f) = n
<1>1. f \in Seq(R)
  OBVIOUS
<1>2. DOMAIN f = 1..n
  OBVIOUS
<1> QED BY <1>1, <1>2

\* A queue that has nothing twice.
Queue(q) == q \in Seq(Drafts) /\ \A i, j \in DOMAIN q : q[i] = q[j] => i = j

\* SetToSeq lists a finite set.
LEMMA SetToSeqLists ==
  ASSUME NEW S, IsFiniteSet(S)
  PROVE  /\ SetToSeq(S) \in Seq(S) /\ \A i, j \in DOMAIN SetToSeq(S) : SetToSeq(S)[i] = SetToSeq(S)[j] => i = j
<1>1. Cardinality(S) \in Nat
  BY FS_CardinalityType
<1>2. PICK f : f \in Bijection(1..Cardinality(S), S)
  BY FS_CardinalityType DEF ExistsBijection
<1>3. f \in [1..Cardinality(S) -> S] /\ IsInjective(f)
  BY <1>2 DEF Bijection, Injection, IsInjective
<1>4. SetToSeq(S) \in [1..Cardinality(S) -> S] /\ IsInjective(SetToSeq(S))
  BY <1>3 DEF SetToSeq
<1> QED BY <1>1, <1>4 DEF IsInjective

\* What follows the first is part of the list.
LEMMA TailIsPart ==
  ASSUME NEW S, NEW q \in Seq(S), q # <<>>
  PROVE  /\ Head(q) \in S /\ Tail(q) \in Seq(S) /\ Head(q) \in Range(q)
         /\ Range(Tail(q)) \subseteq Range(q)
<1>1. Len(q) \in Nat /\ Len(q) # 0 /\ DOMAIN q = 1..Len(q) /\ Head(q) = q[1]
  OBVIOUS
<1>2. /\ Tail(q) \in Seq(S) /\ Len(Tail(q)) = Len(q) - 1
      /\ \A i \in 1..(Len(q) - 1) : Tail(q)[i] = q[i + 1]
  OBVIOUS
<1>3. DOMAIN Tail(q) = 1..(Len(q) - 1)
  BY <1>2
<1>4. \A i \in DOMAIN Tail(q) : i + 1 \in DOMAIN q /\ Tail(q)[i] = q[i + 1]
  BY <1>1, <1>2, <1>3
<1> QED BY <1>1, <1>2, <1>4 DEF Range

\* A withdrawal that is not in the queue goes behind the others.
LEMMA AppendQueues ==
  ASSUME NEW q, Queue(q), NEW w \in Drafts, w \notin Range(q)
  PROVE  Queue(Append(q, w)) /\ Range(Append(q, w)) = Range(q) \cup {w}
<1>1. q \in Seq(Drafts) /\ Len(q) \in Nat /\ DOMAIN q = 1..Len(q)
  BY DEF Queue
<1>2. /\ Append(q, w) \in Seq(Drafts) /\ DOMAIN Append(q, w) = 1..(Len(q) + 1)
      /\ \A i \in 1..Len(q) : Append(q, w)[i] = q[i]
      /\ Append(q, w)[Len(q) + 1] = w
  BY <1>1
<1>3. \A i \in 1..Len(q) : q[i] # w
  BY <1>1 DEF Range
<1> HIDE DEF Queue
<1>4. \A i, j \in 1..Len(q) : q[i] = q[j] => i = j
  BY <1>1 DEF Queue
<1>5. Queue(Append(q, w))
  BY <1>1, <1>2, <1>3, <1>4 DEF Queue
<1>6. Range(Append(q, w)) = Range(q) \cup {w}
  BY <1>1, <1>2 DEF Range
<1> QED BY <1>5, <1>6

\* A withdrawal that leaves the queue is no longer in it.
LEMMA WithoutQueues ==
  ASSUME NEW q, Queue(q), NEW w
  PROVE  Queue(Without(q, w)) /\ Range(Without(q, w)) \subseteq Range(q) \ {w}
<1>1. q \in Seq(Drafts) /\ Len(q) \in Nat /\ DOMAIN q = 1..Len(q) /\ \A i, j \in 1..Len(q) : q[i] = q[j] => i = j
  BY DEF Queue
<1>2. CASE \A i \in 1..Len(q) : q[i] # w
  <2>1. Without(q, w) = q
    BY <1>1, <1>2 DEF Without
  <2> QED BY <2>1, <1>1, <1>2 DEF Range
<1>3. CASE \E i \in 1..Len(q) : q[i] = w
  <2> DEFINE k == CHOOSE i \in {i \in DOMAIN q : q[i] = w} : TRUE
  <2>1. k \in 1..Len(q) /\ q[k] = w /\ Without(q, w) = RemoveAt(q, k)
    BY <1>1, <1>3 DEF Without
  <2> HIDE DEF k
  <2> DEFINE a == SubSeq(q, 1, k - 1)
             b == SubSeq(q, k + 1, Len(q))
  <2>0. k \in Int /\ k - 1 \in Int /\ k + 1 \in Int /\ \A i \in 1..Len(q) : q[i] \in Drafts
    BY <2>1, <1>1
  <2>2. a \in Seq(Drafts) /\ Len(a) = k - 1 /\ \A i \in 1..(k - 1) : a[i] = q[i]
    <3>1. \A i \in 1..(k - 1) : q[i] \in Drafts
      BY <2>0, <2>1, <1>1
    <3>2. /\ a \in Seq(Drafts) /\ Len(a) = IF 1 <= k - 1 THEN (k - 1) - 1 + 1 ELSE 0
          /\ \A i \in 1..((k - 1) - 1 + 1) : a[i] = q[1 + i - 1]
      BY <3>1, <2>0, SubSeqProperties
    <3> QED BY <3>2, <2>0, <2>1
  <2>3. b \in Seq(Drafts) /\ Len(b) = Len(q) - k /\ \A i \in 1..(Len(q) - k) : b[i] = q[k + i]
    <3>1. \A i \in (k + 1)..Len(q) : q[i] \in Drafts
      BY <2>0, <2>1, <1>1
    <3>2. /\ b \in Seq(Drafts) /\ Len(b) = IF k + 1 <= Len(q) THEN Len(q) - (k + 1) + 1 ELSE 0
          /\ \A i \in 1..(Len(q) - (k + 1) + 1) : b[i] = q[(k + 1) + i - 1]
      BY <3>1, <2>0, <1>1, SubSeqProperties
    <3>3. \A i \in 1..(Len(q) - k) : b[i] = q[k + i]
      BY <3>2, <2>0, <1>1
    <3> QED BY <3>2, <3>3, <2>0, <2>1, <1>1
  <2>4. Without(q, w) = a \o b
    BY <2>1 DEF RemoveAt
  <2> HIDE DEF a, b
  <2>5. /\ a \o b \in Seq(Drafts) /\ Len(a \o b) = Len(q) - 1
        /\ \A i \in 1..(k - 1) : (a \o b)[i] = q[i]
        /\ \A i \in k..(Len(q) - 1) : (a \o b)[i] = q[i + 1]
    <3>0. /\ a \o b \in Seq(Drafts) /\ Len(a \o b) = Len(a) + Len(b)
          /\ \A i \in 1..(Len(a) + Len(b)) : (a \o b)[i] = IF i <= Len(a) THEN a[i] ELSE b[i - Len(a)]
      BY <2>2, <2>3, ConcatProperties
    <3>1. a \o b \in Seq(Drafts) /\ Len(a \o b) = Len(q) - 1
      BY <3>0, <2>0, <2>2, <2>3, <1>1
    <3>2. ASSUME NEW i \in 1..(k - 1) PROVE (a \o b)[i] = q[i]
      BY <3>0, <3>2, <2>0, <2>1, <2>2, <2>3, <1>1
    <3>3. ASSUME NEW i \in k..(Len(q) - 1) PROVE (a \o b)[i] = q[i + 1]
      <4>1. /\ i \in Int /\ k <= i /\ i <= Len(q) - 1 /\ i \in 1..(Len(a) + Len(b)) /\ ~(i <= Len(a))
            /\ i - Len(a) = i - (k - 1) /\ i - (k - 1) \in 1..(Len(q) - k) /\ k + (i - (k - 1)) = i + 1
        BY <3>3, <2>0, <2>1, <2>2, <2>3, <1>1
      <4>2. (a \o b)[i] = b[i - Len(a)]
        BY <3>0, <4>1
      <4>3. b[i - (k - 1)] = q[k + (i - (k - 1))]
        BY <2>3, <4>1
      <4> QED BY <4>1, <4>2, <4>3
    <3> QED BY <3>1, <3>2, <3>3
  <2>6. PICK s : s = a \o b
    OBVIOUS
  <2>7. /\ s \in Seq(Drafts) /\ DOMAIN s = 1..(Len(q) - 1)
        /\ \A i \in 1..(k - 1) : s[i] = q[i]
        /\ \A i \in k..(Len(q) - 1) : s[i] = q[i + 1]
    <3>1. s \in Seq(Drafts) /\ Len(s) = Len(q) - 1
      BY <2>5, <2>6
    <3>2. DOMAIN s = 1..(Len(q) - 1)
      BY <3>1
    <3> QED BY <3>1, <3>2, <2>5, <2>6
  <2>8. \A i \in DOMAIN s : \E j \in 1..Len(q) : j # k /\ s[i] = q[j] /\ j = IF i < k THEN i ELSE i + 1
    BY <2>7, <2>1, <1>1
  <2>9. Range(s) \subseteq Range(q) \ {w}
    BY <2>8, <2>1, <1>1 DEF Range
  <2>10. ASSUME NEW i \in DOMAIN s, NEW j \in DOMAIN s, s[i] = s[j] PROVE i = j
    BY <2>10, <2>8, <2>7, <2>1, <1>1
  <2> QED BY <2>4, <2>6, <2>7, <2>9, <2>10 DEF Queue
<1> QED BY <1>2, <1>3

-----------------------------------------------------------------------------
(* Withdrawals the platform signs: the inductive invariant *)

DraftType  == [status : {"NONE", "APPROVED", "BROADCASTING", "BROADCASTED", "CONFIRMED", "FAILED"}, attempts : Nat, tx : Nat]
SignerType ==
  [pc : {"idle", "rows", "send", "sent", "confirm"}, todo : Seq(Drafts), rows : [Drafts -> DraftType], w : Drafts \cup {Idle.w}]
Postings   == {"release", "retry reserve", "settle"}

\* A transaction has the fields that are asked for here; coins and fees may be anything.
Drawing(t) == {"of", "state"} \subseteq DOMAIN t /\ t.of \in Drafts
SentShape(s) == s \in Seq(Range(s)) /\ \A t \in DOMAIN s : Drawing(s[t])

SignedTypes ==
  /\ draft \in [Drafts -> DraftType] /\ posted \in [Drafts -> SUBSET Postings] /\ lost \in [Drafts -> Nat]
  /\ signer \in SignerType /\ SentShape(sent)

\* The queue holds approved withdrawals, each once.
QueueIsApproved(q, d) == Queue(q) /\ \A w \in Range(q) : d[w].status = "APPROVED"

\* What row d of withdrawal w says, with its postings p and the transactions s.
RowSays(w, d, p, s) ==
  /\ d.status \in {"NONE", "APPROVED", "BROADCASTING"} => d.tx = 0
  /\ d.status \in {"BROADCASTED", "CONFIRMED"} => d.tx \in DOMAIN s /\ s[d.tx].of = w
  /\ d.status = "CONFIRMED" => s[d.tx].state = "mined"
  /\ d.status = "FAILED" => "release" \in p /\ (d.tx = 0 \/ (d.tx \in DOMAIN s /\ s[d.tx].state = "failed"))
  /\ d.status # "FAILED" => ("release" \in p <=> "retry reserve" \in p)
RowsSay == \A w \in Drafts : RowSays(w, draft[w], posted[w], sent)

\* The pass has read row r of w to ask for its transaction; the operator may have taken w
\* up since, or failed it, as its transaction has.
AskedOf(w, r, d, s) ==
  /\ r.tx \in DOMAIN s /\ s[r.tx].of = w
  /\ \/ d.tx = r.tx /\ d.status \in {"BROADCASTED", "CONFIRMED", "FAILED"}
     \/ d.tx = 0 /\ s[r.tx].state = "failed" /\ d.status \in {"APPROVED", "FAILED"}

\* What pass g of the worker relies on: no row it still has to send has been sent, and its
\* own is claimed.
PassRelies(g, d, s) ==
  /\ g.pc \in {"rows", "send", "sent"} => \A w \in Range(g.todo) : d[w].status \in {"APPROVED", "BROADCASTING", "FAILED"}
  /\ g.pc \in {"send", "sent"} => g.w \in Drafts /\ d[g.w].status = "BROADCASTING" /\ g.todo # <<>>
  /\ g.pc = "sent" => Len(s) \in DOMAIN s /\ s[Len(s)].of = g.w
  /\ g.pc = "confirm" => \A w \in Range(g.todo) : AskedOf(w, g.rows[w], d[w], s)

\* The transactions that pay w, or still may; the one the worker knows of; all others are lost.
Open(w, s) == {t \in DOMAIN s : s[t].of = w /\ s[t].state \in {"live", "mined"}}
Known(w, g, d, s) == IF g.pc = "sent" /\ g.w = w THEN Len(s) ELSE d[w].tx
OthersAreLost == \A w \in Drafts : Cardinality(Open(w, sent) \ {Known(w, signer, draft, sent)}) <= lost[w]

SignedInv ==
  /\ SignedTypes /\ QueueIsApproved(queue, draft) /\ RowsSay /\ PassRelies(signer, draft, sent) /\ OthersAreLost

\* Transactions come to an end and stay as they are.
Later(s, z) ==
  /\ DOMAIN s \subseteq DOMAIN z
  /\ \A t \in DOMAIN s :
       /\ z[t].of = s[t].of
       /\ s[t].state \in {"mined", "failed"} => z[t].state = s[t].state
       /\ z[t].state \in {"live", "mined"} => s[t].state \in {"live", "mined"}

LEMMA SentIs == ASSUME NEW s, SentShape(s) PROVE Len(s) \in Nat /\ DOMAIN s = 1..Len(s) /\ IsFiniteSet(DOMAIN s) /\ 0 \notin DOMAIN s
<1>1. Len(s) \in Nat /\ DOMAIN s = 1..Len(s)
  BY DEF SentShape
<1> QED BY <1>1, FS_Interval

LEMMA OpenIsFinite ==
  ASSUME NEW s, SentShape(s), NEW w, NEW x
  PROVE  IsFiniteSet(Open(w, s) \ {x}) /\ Cardinality(Open(w, s) \ {x}) \in Nat
<1>1. IsFiniteSet(DOMAIN s) /\ Open(w, s) \ {x} \subseteq DOMAIN s
  BY SentIs DEF Open
<1> QED BY <1>1, FS_Subset, FS_CardinalityType

LEMMA RowSaysLater ==
  ASSUME NEW w, NEW d, NEW p, NEW s, NEW z, RowSays(w, d, p, s), Later(s, z)
  PROVE  RowSays(w, d, p, z)
BY DEF RowSays, Later

LEMMA AskedLater ==
  ASSUME NEW w, NEW r, NEW d, NEW s, NEW z, AskedOf(w, r, d, s), Later(s, z)
  PROVE  AskedOf(w, r, d, z)
BY DEF AskedOf, Later

LEMMA SignedStarts == SignedInit => SignedInv
<1> SUFFICES ASSUME SignedInit PROVE SignedInv
  OBVIOUS
<1>1. PICK mix \in Mixes :
        /\ draft = [w \in Drafts |-> [Fresh[w] EXCEPT !.status = IF w \in mix THEN "APPROVED" ELSE "NONE"]]
        /\ queue = SetToSeq(mix)
  BY DEF SignedInit
<1>2. posted = [w \in Drafts |-> {}] /\ sent = <<>> /\ signer = Idle /\ lost = [w \in Drafts |-> 0]
  BY DEF SignedInit
<1>3. ASSUME NEW w \in Drafts PROVE draft[w] \in DraftType /\ draft[w].tx = 0 /\ draft[w].status = IF w \in mix THEN "APPROVED" ELSE "NONE"
  <2>1. Fresh[w] = [status |-> "APPROVED", attempts |-> 0, tx |-> 0]
    BY DEF Fresh
  <2> QED BY <1>1, <2>1 DEF DraftType
<1>4. Fresh \in [Drafts -> DraftType]
  BY DEF Fresh, DraftType
<1>5. Idle \in SignerType /\ Idle.pc = "idle"
  <2>1. <<>> \in Seq(Drafts)
    OBVIOUS
  <2> QED BY <1>4, <2>1 DEF Idle, SignerType
<1>6. SignedTypes
  <2>1. draft \in [Drafts -> DraftType]
    BY <1>1, <1>3
  <2>2. SentShape(sent)
    BY <1>2 DEF SentShape
  <2> QED BY <2>1, <2>2, <1>2, <1>5 DEF SignedTypes
<1>7. QueueIsApproved(queue, draft)
  <2>1. IsFiniteSet(mix) /\ mix \subseteq Drafts
    BY <1>1, SignedAssumption, FS_Subset
  <2>2. queue \in Seq(mix) /\ \A i, j \in DOMAIN queue : queue[i] = queue[j] => i = j
    BY <1>1, <2>1, SetToSeqLists
  <2>3. Range(queue) \subseteq mix /\ queue \in Seq(Drafts)
    BY <2>1, <2>2 DEF Range
  <2> QED BY <2>1, <2>2, <2>3, <1>3 DEF QueueIsApproved, Queue
<1>8. RowsSay
  BY <1>2, <1>3 DEF RowsSay, RowSays
<1>9. PassRelies(signer, draft, sent)
  BY <1>2, <1>5 DEF PassRelies
<1>10. OthersAreLost
  <2> SUFFICES ASSUME NEW w \in Drafts PROVE Cardinality(Open(w, sent) \ {Known(w, signer, draft, sent)}) <= lost[w]
    BY DEF OthersAreLost
  <2>1. Open(w, sent) \ {Known(w, signer, draft, sent)} = {}
    <3>1. DOMAIN sent = {}
      BY <1>2
    <3> QED BY <3>1 DEF Open
  <2>2. lost[w] = 0
    BY <1>2
  <2> QED BY <2>1, <2>2, FS_EmptySet
<1> QED BY <1>6, <1>7, <1>8, <1>9, <1>10 DEF SignedInv

LEMMA ChargedIs ==
  ASSUME NEW w \in Drafts
  PROVE  /\ ("release" \in posted[w] <=> "retry reserve" \in posted[w]) => Charged(w) = 1
         /\ "release" \in posted[w] /\ "retry reserve" \notin posted[w] => Charged(w) = 0
<1> DEFINE r == "release" \in posted[w]
           s == "retry reserve" \in posted[w]
<1>1. Charged(w) = 1 - (IF r THEN 1 ELSE 0) + (IF s THEN 1 ELSE 0)
  BY DEF Charged
<1> HIDE DEF r, s
<1>2. (r <=> s) => Charged(w) = 1
  <2>1. CASE r /\ s
    BY <1>1, <2>1
  <2>2. CASE ~r /\ ~s
    BY <1>1, <2>2
  <2> QED BY <2>1, <2>2
<1>3. r /\ ~s => Charged(w) = 0
  BY <1>1
<1> QED BY <1>2, <1>3 DEF r, s

LEMMA SignedInvSays == SignedInv => PaidAsCharged
<1> SUFFICES ASSUME SignedInv, NEW w \in Drafts
             PROVE  /\ PaidOut(w) <= Charged(w) + lost[w]
                    /\ draft[w].status = "CONFIRMED" => PaidOut(w) >= 1 /\ Charged(w) = 1
                    /\ draft[w].status = "FAILED" /\ "retry reserve" \notin posted[w] => Charged(w) = 0
  BY DEF PaidAsCharged
<1> DEFINE O == Open(w, sent)
           x == Known(w, signer, draft, sent)
           P == {t \in DOMAIN sent : sent[t].of = w /\ sent[t].state = "mined"}
<1>1. SentShape(sent) /\ lost[w] \in Nat /\ draft[w] \in DraftType /\ Cardinality(O \ {x}) <= lost[w]
      /\ RowSays(w, draft[w], posted[w], sent)
  BY DEF SignedInv, SignedTypes, OthersAreLost, RowsSay
<1>2. IsFiniteSet(O) /\ Cardinality(O) \in Nat /\ P \subseteq O /\ IsFiniteSet(P) /\ Cardinality(P) \in Nat /\ Cardinality(P) <= Cardinality(O)
  <2>1. IsFiniteSet(DOMAIN sent) /\ O \subseteq DOMAIN sent /\ P \subseteq O
    BY <1>1, SentIs DEF Open
  <2> QED BY <2>1, FS_Subset, FS_CardinalityType
<1>3. PaidOut(w) = Cardinality(P)
  BY DEF PaidOut
<1>4. draft[w].status = "FAILED" \/ Charged(w) = 1
  BY <1>1, ChargedIs DEF RowSays
<1>5. Charged(w) \in {0, 1}
  BY <1>1, <1>4, ChargedIs DEF RowSays
<1>6. x \in O => Charged(w) = 1
  <2> SUFFICES ASSUME x \in O PROVE draft[w].status # "FAILED"
    BY <1>4
  <2>1. CASE signer.pc = "sent" /\ signer.w = w
    BY <2>1 DEF SignedInv, PassRelies
  <2>2. CASE x = draft[w].tx
    <3>1. x # 0 /\ sent[x].state \in {"live", "mined"}
      BY <1>1, SentIs DEF Open
    <3> QED BY <2>2, <3>1, <1>1 DEF RowSays
  <2> QED BY <2>1, <2>2 DEF Known
<1>7. Cardinality(O) <= Charged(w) + lost[w]
  <2>1. CASE x \in O
    <3>1. Cardinality(O \ {x}) = Cardinality(O) - 1
      BY <2>1, <1>2, FS_RemoveElement
    <3> QED BY <3>1, <2>1, <1>1, <1>2, <1>6
  <2>2. CASE x \notin O
    <3>1. O \ {x} = O
      BY <2>2
    <3>2. Cardinality(O) <= lost[w]
      BY <3>1, <1>1
    <3> HIDE DEF O
    <3> QED BY <3>2, <1>1, <1>2, <1>5
  <2> QED BY <2>1, <2>2
<1>8. ASSUME draft[w].status = "CONFIRMED" PROVE PaidOut(w) >= 1 /\ Charged(w) = 1
  <2>1. draft[w].tx \in P
    BY <1>1, <1>8 DEF RowSays
  <2>2. Cardinality(P) # 0
    BY <2>1, <1>2, FS_EmptySet
  <2> QED BY <2>2, <1>2, <1>3, <1>4, <1>8
<1>9. draft[w].status = "FAILED" /\ "retry reserve" \notin posted[w] => Charged(w) = 0
  BY <1>1, ChargedIs DEF RowSays
<1> HIDE DEF O, x, P
<1>10. PaidOut(w) <= Charged(w) + lost[w]
  BY <1>1, <1>2, <1>3, <1>5, <1>7
<1> QED BY <1>8, <1>9, <1>10

\* The step of one withdrawal w: its row, its postings, its transactions.
LEMMA OneRow ==
  ASSUME SignedInv, NEW w \in Drafts,
         draft' \in [Drafts -> DraftType], posted' \in [Drafts -> SUBSET Postings], lost' \in [Drafts -> Nat],
         signer' \in SignerType, SentShape(sent'), Later(sent, sent'),
         \A v \in Drafts \ {w} :
           /\ draft'[v] = draft[v] /\ posted'[v] = posted[v] /\ lost'[v] = lost[v]
           /\ Open(v, sent') \subseteq Open(v, sent)
           /\ Known(v, signer', draft', sent') = Known(v, signer, draft, sent),
         RowSays(w, draft'[w], posted'[w], sent'),
         Cardinality(Open(w, sent') \ {Known(w, signer', draft', sent')}) <= lost'[w],
         QueueIsApproved(queue', draft'), PassRelies(signer', draft', sent')
  PROVE  SignedInv'
<1>1. SignedTypes'
  BY DEF SignedTypes
<1>2. RowsSay'
  <2> SUFFICES ASSUME NEW v \in Drafts \ {w} PROVE RowSays(v, draft'[v], posted'[v], sent')
    BY DEF RowsSay
  <2>1. RowSays(v, draft[v], posted[v], sent)
    BY DEF SignedInv, RowsSay
  <2>2. RowSays(v, draft[v], posted[v], sent')
    BY <2>1, RowSaysLater
  <2> QED BY <2>2
<1>3. OthersAreLost'
  <2> SUFFICES ASSUME NEW v \in Drafts \ {w}
               PROVE  Cardinality(Open(v, sent') \ {Known(v, signer', draft', sent')}) <= lost'[v]
    BY DEF OthersAreLost
  <2> SUFFICES ASSUME NEW x, x = Known(v, signer, draft, sent) PROVE Cardinality(Open(v, sent') \ {x}) <= lost[v]
    OBVIOUS
  <2>1. Cardinality(Open(v, sent) \ {x}) <= lost[v] /\ lost[v] \in Nat /\ SentShape(sent)
    BY DEF SignedInv, SignedTypes, OthersAreLost
  <2>2. Open(v, sent') \ {x} \subseteq Open(v, sent) \ {x} /\ IsFiniteSet(Open(v, sent) \ {x})
    BY <2>1, OpenIsFinite
  <2>3. Cardinality(Open(v, sent') \ {x}) <= Cardinality(Open(v, sent) \ {x})
    BY <2>2, FS_Subset
  <2>4. Cardinality(Open(v, sent) \ {x}) \in Nat /\ Cardinality(Open(v, sent') \ {x}) \in Nat
    BY <2>1, OpenIsFinite
  <2> QED BY <2>1, <2>3, <2>4
<1> QED BY <1>1, <1>2, <1>3 DEF SignedInv

LEMMA LaterSame == ASSUME NEW s PROVE Later(s, s)
BY DEF Later

\* What is counted for w, when the same or fewer are open.
LEMMA FewerOpen ==
  ASSUME SignedInv, NEW w \in Drafts, SentShape(sent'), Open(w, sent') \subseteq Open(w, sent),
         NEW x, x = Known(w, signer, draft, sent)
  PROVE  Cardinality(Open(w, sent') \ {x}) <= lost[w]
<1>1. Cardinality(Open(w, sent) \ {x}) <= lost[w] /\ lost[w] \in Nat /\ SentShape(sent)
  BY DEF SignedInv, SignedTypes, OthersAreLost
<1>2. Open(w, sent') \ {x} \subseteq Open(w, sent) \ {x} /\ IsFiniteSet(Open(w, sent) \ {x})
  BY <1>1, OpenIsFinite
<1>3. Cardinality(Open(w, sent') \ {x}) <= Cardinality(Open(w, sent) \ {x})
  BY <1>2, FS_Subset
<1>4. Cardinality(Open(w, sent) \ {x}) \in Nat /\ Cardinality(Open(w, sent') \ {x}) \in Nat
  BY <1>1, OpenIsFinite
<1> QED BY <1>1, <1>3, <1>4

LEMMA OneMore ==
  ASSUME NEW A, IsFiniteSet(A), NEW n \in Nat, Cardinality(A) <= n, NEW x, NEW B, B \subseteq A \cup {x}
  PROVE  Cardinality(B) <= n + 1
<1>1. Cardinality(A) \in Nat /\ IsFiniteSet(A \cup {x}) /\ Cardinality(A \cup {x}) \in Nat
      /\ Cardinality(A \cup {x}) <= Cardinality(A) + 1
  <2>1. Cardinality(A) \in Nat /\ IsFiniteSet(A \cup {x})
    BY FS_AddElement, FS_CardinalityType
  <2>2. Cardinality(A \cup {x}) = IF x \in A THEN Cardinality(A) ELSE Cardinality(A) + 1
    BY FS_AddElement
  <2>3. Cardinality(A \cup {x}) \in Nat
    BY <2>1, FS_CardinalityType
  <2> QED BY <2>1, <2>2, <2>3
<1>2. Cardinality(B) \in Nat /\ Cardinality(B) <= Cardinality(A \cup {x})
  BY <1>1, FS_Subset, FS_CardinalityType
<1> QED BY <1>1, <1>2

\* The fields of a row, of its status and of its transaction.
LEMMA RowIs == ASSUME SignedInv, NEW w \in Drafts PROVE draft[w] \in DraftType /\ RowSays(w, draft[w], posted[w], sent)
BY DEF SignedInv, SignedTypes, RowsSay

Statuses == {"NONE", "APPROVED", "BROADCASTING", "BROADCASTED", "CONFIRMED", "FAILED"}

LEMMA StatusWritten ==
  ASSUME SignedInv, NEW w \in Drafts, NEW s \in Statuses, draft' = [draft EXCEPT ![w].status = s]
  PROVE  /\ draft' \in [Drafts -> DraftType] /\ draft'[w].status = s /\ draft'[w].tx = draft[w].tx
         /\ \A v \in Drafts \ {w} : draft'[v] = draft[v]
<1>1. draft \in [Drafts -> DraftType] /\ draft[w] \in DraftType
  BY DEF SignedInv, SignedTypes
<1>2. draft' = [draft EXCEPT ![w] = [draft[w] EXCEPT !.status = s]]
  OBVIOUS
<1> DEFINE r == [draft[w] EXCEPT !.status = s]
<1>3. r \in DraftType /\ r.status = s /\ r.tx = draft[w].tx
  BY <1>1 DEF DraftType, Statuses
<1> HIDE DEF r
<1>4. draft' = [draft EXCEPT ![w] = r]
  BY <1>2 DEF r
<1> QED BY <1>1, <1>3, <1>4

LEMMA PostedMore ==
  ASSUME SignedInv, NEW w \in Drafts, NEW P \in SUBSET Postings, posted' = [posted EXCEPT ![w] = P]
  PROVE  /\ posted' \in [Drafts -> SUBSET Postings] /\ posted'[w] = P /\ \A v \in Drafts \ {w} : posted'[v] = posted[v]
BY DEF SignedInv, SignedTypes

\* A withdrawal that is refunded has nothing on its way that the worker knows of.
Ended(w) == draft[w].tx = 0 \/ (draft[w].tx \in DOMAIN sent /\ sent[draft[w].tx].state = "failed")

LEMMA RefundDoes ==
  ASSUME SignedInv, NEW w \in Drafts, Refund(w), Ended(w)
  PROVE  /\ draft' \in [Drafts -> DraftType] /\ posted' \in [Drafts -> SUBSET Postings]
         /\ \A v \in Drafts \ {w} : draft'[v] = draft[v] /\ posted'[v] = posted[v]
         /\ draft'[w].status = "FAILED" /\ draft'[w].tx = draft[w].tx
         /\ RowSays(w, draft'[w], posted'[w], sent)
         /\ QueueIsApproved(queue', draft')
<1>1. /\ draft' \in [Drafts -> DraftType] /\ posted' \in [Drafts -> SUBSET Postings]
      /\ \A v \in Drafts \ {w} : draft'[v] = draft[v] /\ posted'[v] = posted[v]
      /\ draft'[w].status = "FAILED" /\ draft'[w].tx = draft[w].tx
      /\ "release" \in posted'[w]
  <2>1. CASE draft[w].status = "FAILED"
    <3>1. draft' = draft /\ posted' = posted
      BY <2>1 DEF Refund, Released, PostedRelease
    <3>2. "release" \in posted[w]
      BY <2>1, RowIs DEF RowSays
    <3> QED BY <3>1, <3>2, <2>1 DEF SignedInv, SignedTypes
  <2>2. CASE draft[w].status # "FAILED"
    <3>1. draft' = [draft EXCEPT ![w].status = "FAILED"]
      BY <2>2 DEF Refund, Released
    <3>2. posted' = [posted EXCEPT ![w] = posted[w] \union {"release"}]
      BY <2>2 DEF Refund, PostedRelease
    <3>3. posted[w] \union {"release"} \in SUBSET Postings
      BY DEF SignedInv, SignedTypes, Postings
    <3>4. /\ draft' \in [Drafts -> DraftType] /\ draft'[w].status = "FAILED" /\ draft'[w].tx = draft[w].tx
          /\ \A v \in Drafts \ {w} : draft'[v] = draft[v]
      BY <3>1, StatusWritten DEF Statuses
    <3>5. /\ posted' \in [Drafts -> SUBSET Postings] /\ posted'[w] = posted[w] \union {"release"}
          /\ \A v \in Drafts \ {w} : posted'[v] = posted[v]
      BY <3>2, <3>3, PostedMore
    <3> QED BY <3>4, <3>5
  <2> QED BY <2>1, <2>2
<1>2. RowSays(w, draft'[w], posted'[w], sent)
  BY <1>1 DEF RowSays, Ended
<1>3. QueueIsApproved(queue', draft')
  <2>1. Queue(queue) /\ \A v \in Range(queue) : draft[v].status = "APPROVED" /\ v \in Drafts
    BY DEF SignedInv, QueueIsApproved, Queue, Range
  <2>2. queue' = Without(queue, w)
    BY DEF Refund
  <2>3. Queue(queue') /\ Range(queue') \subseteq Range(queue) \ {w}
    BY <2>1, <2>2, WithoutQueues
  <2> QED BY <2>1, <2>3, <1>1 DEF QueueIsApproved
<1> QED BY <1>1, <1>2, <1>3

\* The pass goes on to the next row.
LEMMA FollowingIs ==
  ASSUME SignedInv, signer.todo # <<>>, signer' = Following(signer)
  PROVE  /\ signer' \in SignerType /\ signer'.pc = "rows" /\ signer'.rows = signer.rows
         /\ Range(signer'.todo) \subseteq Range(signer.todo)
<1>1. signer \in SignerType /\ signer.todo \in Seq(Drafts)
  BY DEF SignedInv, SignedTypes, SignerType
<1>2. Tail(signer.todo) \in Seq(Drafts) /\ Range(Tail(signer.todo)) \subseteq Range(signer.todo)
  BY <1>1, TailIsPart
<1> DEFINE q == Tail(signer.todo)
<1>3. signer' = [signer EXCEPT !.pc = "rows", !.todo = q]
  BY DEF Following
<1> HIDE DEF q
<1>4. signer' \in SignerType /\ signer'.pc = "rows" /\ signer'.rows = signer.rows /\ signer'.todo = q
  BY <1>1, <1>2, <1>3 DEF SignerType, q
<1> QED BY <1>2, <1>4 DEF q

\* A withdrawal of the pass is failed and refunded, and the pass goes on.
LEMMA RefundKeeps ==
  ASSUME SignedInv, NEW w \in Drafts, signer.pc \in {"rows", "send", "sent"}, signer.pc # "rows" => signer.w = w,
         signer.todo # <<>>, signer' = Following(signer), Refund(w), Ended(w),
         SentShape(sent'), Later(sent, sent'), lost' \in [Drafts -> Nat],
         \A v \in Drafts \ {w} : lost'[v] = lost[v] /\ Open(v, sent') \subseteq Open(v, sent),
         Cardinality(Open(w, sent') \ {draft[w].tx}) <= lost'[w]
  PROVE  SignedInv'
<1>1. /\ draft' \in [Drafts -> DraftType] /\ posted' \in [Drafts -> SUBSET Postings]
      /\ \A v \in Drafts \ {w} : draft'[v] = draft[v] /\ posted'[v] = posted[v]
      /\ draft'[w].status = "FAILED" /\ draft'[w].tx = draft[w].tx
      /\ RowSays(w, draft'[w], posted'[w], sent)
      /\ QueueIsApproved(queue', draft')
  BY RefundDoes
<1>2. /\ signer' \in SignerType /\ signer'.pc = "rows" /\ Range(signer'.todo) \subseteq Range(signer.todo)
  BY FollowingIs
<1>3. RowSays(w, draft'[w], posted'[w], sent')
  BY <1>1, RowSaysLater
<1>4. PassRelies(signer', draft', sent')
  <2>1. \A v \in Range(signer.todo) : draft[v].status \in {"APPROVED", "BROADCASTING", "FAILED"} /\ v \in Drafts
    BY DEF SignedInv, SignedTypes, SignerType, PassRelies, Range
  <2> QED BY <2>1, <1>1, <1>2 DEF PassRelies
<1>5. \A v \in Drafts \ {w} : Known(v, signer', draft', sent') = Known(v, signer, draft, sent)
  BY <1>1, <1>2 DEF Known
<1>6. Known(w, signer', draft', sent') = draft[w].tx
  BY <1>1, <1>2 DEF Known
<1> QED BY <1>1, <1>2, <1>3, <1>4, <1>5, <1>6, OneRow

\* The list of a pass goes on, or begins anew; nothing else moves.
LEMMA SignerKeeps ==
  ASSUME SignedInv, signer.pc # "sent", signer'.pc # "sent", signer' \in SignerType,
         PassRelies(signer', draft, sent), UNCHANGED <<draft, queue, posted, sent, lost>>
  PROVE  SignedInv'
<1>1. \A w \in Drafts : Known(w, signer', draft, sent) = Known(w, signer, draft, sent)
  BY DEF Known
<1>2. SignedTypes' /\ QueueIsApproved(queue', draft') /\ RowsSay' /\ PassRelies(signer', draft', sent')
  BY DEF SignedInv, SignedTypes, RowsSay
<1>3. OthersAreLost'
  BY <1>1 DEF SignedInv, OthersAreLost
<1> QED BY <1>2, <1>3 DEF SignedInv

LEMMA IdleIs == Idle \in SignerType /\ Idle.pc = "idle"
<1>1. <<>> \in Seq(Drafts) /\ Fresh \in [Drafts -> DraftType]
  BY DEF Fresh, DraftType
<1> QED BY <1>1 DEF Idle, SignerType

LEMMA TodoIs ==
  ASSUME SignedInv
  PROVE  /\ signer \in SignerType /\ signer.todo \in Seq(Drafts) /\ \A w \in Range(signer.todo) : w \in Drafts
         /\ signer.todo # <<>> => Head(signer.todo) \in Drafts /\ Head(signer.todo) \in Range(signer.todo)
<1>1. signer \in SignerType /\ signer.todo \in Seq(Drafts)
  BY DEF SignedInv, SignedTypes, SignerType
<1> QED BY <1>1, TailIsPart DEF Range

LEMMA PassBeginsKeeps == ASSUME SignedInv, PassBegins PROVE SignedInv'
<1> DEFINE stuck == {w \in Drafts : Interrupted(w)}
<1>1. /\ signer.pc = "idle" /\ UNCHANGED <<queue, sent, lost>>
      /\ draft' = [w \in Drafts |-> IF w \in stuck THEN [draft[w] EXCEPT !.status = "FAILED"] ELSE draft[w]]
      /\ posted' = [w \in Drafts |-> IF w \in stuck THEN posted[w] \union {"release"} ELSE posted[w]]
      /\ signer' = [signer EXCEPT !.pc = "rows", !.todo = queue, !.rows = draft]
  BY DEF PassBegins
<1>2. \A w \in stuck : draft[w].status = "BROADCASTING" /\ draft[w].tx = 0 /\ w \in Drafts
  BY DEF Interrupted
<1> HIDE DEF stuck
<1>3. draft \in [Drafts -> DraftType] /\ posted \in [Drafts -> SUBSET Postings] /\ signer \in SignerType
  BY DEF SignedInv, SignedTypes
<1>4. ASSUME NEW w \in Drafts
      PROVE  /\ draft'[w] \in DraftType /\ draft'[w].tx = draft[w].tx
             /\ draft'[w].status = IF w \in stuck THEN "FAILED" ELSE draft[w].status
             /\ posted'[w] = IF w \in stuck THEN posted[w] \union {"release"} ELSE posted[w]
             /\ posted'[w] \in SUBSET Postings
  <2>1. posted'[w] = (IF w \in stuck THEN posted[w] \union {"release"} ELSE posted[w]) /\ posted'[w] \in SUBSET Postings
    BY <1>1, <1>3 DEF Postings
  <2>2. CASE w \in stuck
    <3>1. draft'[w] = [draft[w] EXCEPT !.status = "FAILED"] /\ draft[w] \in DraftType
      BY <1>1, <1>3, <2>2
    <3> QED BY <3>1, <2>1, <2>2 DEF DraftType
  <2>3. CASE w \notin stuck
    <3>1. draft'[w] = draft[w] /\ draft[w] \in DraftType
      BY <1>1, <1>3, <2>3
    <3> QED BY <3>1, <2>1, <2>3
  <2> QED BY <2>2, <2>3
<1>5. draft' \in [Drafts -> DraftType] /\ posted' \in [Drafts -> SUBSET Postings]
  BY <1>1, <1>4
<1>6. /\ Queue(queue) /\ queue \in Seq(Drafts)
      /\ \A w \in Range(queue) : draft[w].status = "APPROVED" /\ w \in Drafts
  BY DEF SignedInv, QueueIsApproved, Queue, Range
<1>7. signer' \in SignerType /\ signer'.pc = "rows" /\ signer'.todo = queue
  BY <1>1, <1>3, <1>6 DEF SignerType
<1>8. SignedTypes'
  BY <1>1, <1>5, <1>7 DEF SignedInv, SignedTypes
<1>9. \A w \in Range(queue) : draft'[w].status = "APPROVED"
  BY <1>2, <1>4, <1>6
<1>10. QueueIsApproved(queue', draft')
  BY <1>1, <1>6, <1>9 DEF QueueIsApproved
<1>11. RowsSay'
  <2> SUFFICES ASSUME NEW w \in Drafts PROVE RowSays(w, draft'[w], posted'[w], sent)
    BY <1>1 DEF RowsSay
  <2>1. RowSays(w, draft[w], posted[w], sent)
    BY RowIs
  <2> QED BY <2>1, <1>2, <1>4 DEF RowSays
<1>12. PassRelies(signer', draft', sent')
  BY <1>7, <1>9 DEF PassRelies
<1>13. OthersAreLost'
  <2>1. \A w \in Drafts : Known(w, signer', draft', sent) = Known(w, signer, draft, sent)
    BY <1>1, <1>4, <1>7 DEF Known
  <2> QED BY <2>1, <1>1 DEF SignedInv, OthersAreLost
<1> QED BY <1>8, <1>10, <1>11, <1>12, <1>13 DEF SignedInv

LEMMA TakeKeeps == ASSUME SignedInv, Take PROVE SignedInv'
<1>1. signer.pc = "rows" /\ signer.todo # <<>> /\ UNCHANGED <<posted, sent, lost>>
  BY DEF Take, Others
<1>2. PICK w : w = Head(signer.todo)
  OBVIOUS
<1>3. w \in Drafts /\ w \in Range(signer.todo) /\ signer \in SignerType
  BY <1>1, <1>2, TodoIs
<1>4. CASE signer' = Following(signer) /\ UNCHANGED <<draft, queue>>
  <2>1. signer' \in SignerType /\ signer'.pc = "rows" /\ Range(signer'.todo) \subseteq Range(signer.todo)
    BY <1>1, <1>4, FollowingIs
  <2>2. PassRelies(signer', draft, sent)
    BY <1>1, <2>1 DEF SignedInv, PassRelies
  <2> QED BY <1>1, <1>4, <2>1, <2>2, SignerKeeps
<1>5. CASE /\ draft[w].status = "APPROVED"
           /\ draft' = [draft EXCEPT ![w].status = "BROADCASTING", ![w].attempts = @ + 1]
           /\ queue' = Without(queue, w)
           /\ signer' = [signer EXCEPT !.pc = "send", !.w = w]
  <2>1. draft \in [Drafts -> DraftType] /\ draft[w] \in DraftType
    BY <1>3 DEF SignedInv, SignedTypes
  <2>0. PICK n : n = draft[w].attempts + 1
    OBVIOUS
  <2>2. draft' = [draft EXCEPT ![w] = [draft[w] EXCEPT !.status = "BROADCASTING", !.attempts = n]]
    BY <1>5, <2>0, <2>1, <1>3 DEF DraftType
  <2> DEFINE r == [draft[w] EXCEPT !.status = "BROADCASTING", !.attempts = n]
  <2>14. n \in Nat
    BY <2>0, <2>1 DEF DraftType
  <2>3. r \in DraftType /\ r.status = "BROADCASTING" /\ r.tx = draft[w].tx
    BY <2>1, <2>14 DEF DraftType
  <2>4. draft' = [draft EXCEPT ![w] = r]
    BY <2>2
  <2> HIDE DEF r
  <2>5. draft' \in [Drafts -> DraftType] /\ draft'[w] = r /\ \A v \in Drafts \ {w} : draft'[v] = draft[v]
    BY <2>1, <2>3, <2>4, <1>3
  <2>6. signer' \in SignerType /\ signer'.pc = "send" /\ signer'.w = w /\ signer'.todo = signer.todo
    BY <1>3, <1>5 DEF SignerType
  <2>7. QueueIsApproved(queue', draft')
    <3>1. Queue(queue) /\ \A v \in Range(queue) : draft[v].status = "APPROVED" /\ v \in Drafts
      BY DEF SignedInv, QueueIsApproved, Queue, Range
    <3>2. Queue(queue') /\ Range(queue') \subseteq Range(queue) \ {w}
      BY <3>1, <1>5, WithoutQueues
    <3> QED BY <3>1, <3>2, <2>5 DEF QueueIsApproved
  <2>8. PassRelies(signer', draft', sent')
    <3>1. \A v \in Range(signer.todo) : draft[v].status \in {"APPROVED", "BROADCASTING", "FAILED"} /\ v \in Drafts
      BY <1>1, TodoIs DEF SignedInv, PassRelies
    <3> QED BY <3>1, <2>3, <2>5, <2>6, <1>1, <1>3 DEF PassRelies
  <2>9. RowSays(w, draft'[w], posted'[w], sent')
    <3>1. RowSays(w, draft[w], posted[w], sent)
      BY <1>3, RowIs
    <3> QED BY <3>1, <1>1, <1>5, <2>3, <2>5 DEF RowSays
  <2>10. \A v \in Drafts : Known(v, signer', draft', sent') = Known(v, signer, draft, sent)
    BY <1>1, <2>3, <2>5, <2>6 DEF Known
  <2>11. posted' \in [Drafts -> SUBSET Postings] /\ lost' \in [Drafts -> Nat] /\ SentShape(sent')
    BY <1>1 DEF SignedInv, SignedTypes
  <2>12. Cardinality(Open(w, sent') \ {Known(w, signer', draft', sent')}) <= lost'[w]
    BY <2>10, <1>1, <1>3 DEF SignedInv, OthersAreLost
  <2>13. Later(sent, sent')
    BY <1>1, LaterSame
  <2> QED BY <1>1, <1>3, <2>5, <2>6, <2>7, <2>8, <2>9, <2>10, <2>11, <2>12, <2>13, OneRow
<1> QED BY <1>2, <1>4, <1>5 DEF Take

\* What a refund without a transaction needs.
LEMMA RefundAlone ==
  ASSUME SignedInv, NEW w \in Drafts, signer.pc \in {"rows", "send"}, signer.pc # "rows" => signer.w = w,
         signer.todo # <<>>, signer' = Following(signer), Refund(w), Ended(w), UNCHANGED <<sent, lost>>
  PROVE  SignedInv'
<1>1. SentShape(sent) /\ lost \in [Drafts -> Nat] /\ Later(sent, sent)
  BY LaterSame DEF SignedInv, SignedTypes
<1>2. Known(w, signer, draft, sent) = draft[w].tx
  BY DEF Known
<1>3. Cardinality(Open(w, sent) \ {draft[w].tx}) <= lost[w]
  BY <1>2 DEF SignedInv, OthersAreLost
<1> QED BY <1>1, <1>3, RefundKeeps

LEMMA FailUnderfundedKeeps == ASSUME SignedInv, FailUnderfunded PROVE SignedInv'
<1>1. /\ signer.pc = "rows" /\ signer.todo # <<>> /\ Refund(Head(signer.todo)) /\ signer' = Following(signer)
      /\ UNCHANGED <<sent, lost>>
  BY DEF FailUnderfunded, Others
<1>2. PICK w : w = Head(signer.todo)
  OBVIOUS
<1>3. w \in Drafts /\ w \in Range(signer.todo)
  BY <1>1, <1>2, TodoIs
<1>4. draft[w].status \in {"APPROVED", "BROADCASTING", "FAILED"}
  BY <1>1, <1>3 DEF SignedInv, PassRelies
<1>5. Ended(w)
  BY <1>3, <1>4, RowIs DEF RowSays, Ended
<1> QED BY <1>1, <1>2, <1>3, <1>5, RefundAlone

LEMMA ClaimedIs ==
  ASSUME SignedInv, signer.pc \in {"send", "sent"}
  PROVE  /\ signer.w \in Drafts /\ draft[signer.w].status = "BROADCASTING" /\ draft[signer.w].tx = 0
         /\ Ended(signer.w) /\ signer.todo # <<>>
<1>1. signer.w \in Drafts /\ draft[signer.w].status = "BROADCASTING" /\ signer.todo # <<>>
  BY DEF SignedInv, PassRelies
<1> QED BY <1>1, RowIs DEF RowSays, Ended

LEMMA SendFailsKeeps == ASSUME SignedInv, SendFails PROVE SignedInv'
<1>1. signer.pc = "send" /\ Refund(signer.w) /\ signer' = Following(signer) /\ UNCHANGED <<sent, lost>>
  BY DEF SendFails, Others
<1> QED BY <1>1, ClaimedIs, RefundAlone

LEMMA BalanceUnknownKeeps == ASSUME SignedInv, BalanceUnknown PROVE SignedInv'
<1>1. signer.pc = "rows" /\ signer.todo # <<>> /\ signer' \in {Following(signer), Idle} /\ UNCHANGED <<draft, queue, posted, sent, lost>>
  BY DEF BalanceUnknown, Others
<1>2. CASE signer' = Following(signer)
  <2>1. signer' \in SignerType /\ signer'.pc = "rows" /\ Range(signer'.todo) \subseteq Range(signer.todo)
    BY <1>1, <1>2, FollowingIs
  <2>2. PassRelies(signer', draft, sent)
    BY <1>1, <2>1 DEF SignedInv, PassRelies
  <2> QED BY <1>1, <2>1, <2>2, SignerKeeps
<1>3. CASE signer' = Idle
  <2>1. PassRelies(signer', draft, sent)
    BY <1>3, IdleIs DEF PassRelies
  <2> QED BY <1>1, <1>3, <2>1, IdleIs, SignerKeeps
<1> QED BY <1>1, <1>2, <1>3

\* The chain.
LEMMA SentKeeps ==
  ASSUME SignedInv, SentShape(sent'), Later(sent, sent'), Len(sent') = Len(sent),
         \A w \in Drafts : Open(w, sent') \subseteq Open(w, sent),
         UNCHANGED <<draft, queue, posted, signer, lost>>
  PROVE  SignedInv'
<1>1. SignedTypes' /\ QueueIsApproved(queue', draft')
  BY DEF SignedInv, SignedTypes
<1>2. RowsSay'
  <2> SUFFICES ASSUME NEW w \in Drafts PROVE RowSays(w, draft[w], posted[w], sent')
    BY DEF RowsSay
  <2> QED BY RowIs, RowSaysLater
<1>3. PassRelies(signer, draft, sent')
  <2>1. PassRelies(signer, draft, sent)
    BY DEF SignedInv
  <2>2. \A w \in Range(signer.todo) : AskedOf(w, signer.rows[w], draft[w], sent) => AskedOf(w, signer.rows[w], draft[w], sent')
    BY AskedLater
  <2>3. signer.pc = "sent" => Len(sent') \in DOMAIN sent' /\ sent'[Len(sent')].of = signer.w
    BY <2>1 DEF PassRelies, Later
  <2> QED BY <2>1, <2>2, <2>3 DEF PassRelies
<1>4. OthersAreLost'
  <2> SUFFICES ASSUME NEW w \in Drafts PROVE Cardinality(Open(w, sent') \ {Known(w, signer, draft, sent')}) <= lost[w]
    BY DEF OthersAreLost
  <2>1. Known(w, signer, draft, sent') = Known(w, signer, draft, sent)
    BY DEF Known
  <2> QED BY <2>1, FewerOpen
<1> QED BY <1>1, <1>2, <1>3, <1>4 DEF SignedInv

LEMMA StateSet ==
  ASSUME SignedInv, NEW t \in DOMAIN sent, sent[t].state = "live", NEW z, z # "live",
         sent' = [sent EXCEPT ![t].state = z]
  PROVE  /\ SentShape(sent') /\ Later(sent, sent') /\ Len(sent') = Len(sent)
         /\ \A w : Open(w, sent') \subseteq Open(w, sent)
<1>1. /\ SentShape(sent) /\ sent \in Seq(Range(sent)) /\ Len(sent) \in Nat /\ DOMAIN sent = 1..Len(sent)
      /\ \A x \in DOMAIN sent : Drawing(sent[x])
  BY SentIs DEF SignedInv, SignedTypes, SentShape
<1> DEFINE r == [sent[t] EXCEPT !.state = z]
<1>2. Drawing(r) /\ r.of = sent[t].of /\ r.state = z
  <2>1. {"of", "state"} \subseteq DOMAIN sent[t] /\ sent[t].of \in Drafts
    BY <1>1 DEF Drawing
  <2>2. DOMAIN r = DOMAIN sent[t] /\ r.state = z /\ r.of = sent[t].of
    BY <2>1
  <2> QED BY <2>1, <2>2 DEF Drawing
<1>3. sent' = [sent EXCEPT ![t] = r]
  OBVIOUS
<1> HIDE DEF r
<1>4. DOMAIN sent' = DOMAIN sent /\ sent'[t] = r /\ \A x \in DOMAIN sent \ {t} : sent'[x] = sent[x]
  BY <1>1, <1>3
<1>5. sent' \in Seq(Range(sent')) /\ Len(sent') = Len(sent)
  <2>1. sent' = [x \in 1..Len(sent) |-> IF x = t THEN r ELSE sent[x]]
    BY <1>1, <1>3
  <2>2. sent' \in [1..Len(sent) -> Range(sent')]
    BY <2>1 DEF Range
  <2>3. Len(sent) \in Nat
    BY <1>1
  <2> QED BY ONLY <2>2, <2>3, ListIsSeq
<1>6. \A x \in DOMAIN sent' : Drawing(sent'[x])
  BY <1>1, <1>2, <1>4
<1>7. Later(sent, sent')
  BY <1>2, <1>4 DEF Later
<1>8. \A w : Open(w, sent') \subseteq Open(w, sent)
  BY <1>2, <1>4 DEF Open
<1> QED BY <1>5, <1>6, <1>7, <1>8 DEF SentShape

LEMMA MineKeeps == ASSUME SignedInv, NEW t \in DOMAIN sent, Mine(t) PROVE SignedInv'
<1>1. sent[t].state = "live" /\ UNCHANGED <<draft, queue, posted, signer, lost>>
  BY DEF Mine, Live
<1>2. PICK z \in {"mined", "failed"} : sent' = [sent EXCEPT ![t].state = z]
  BY DEF Mine
<1>3. /\ SentShape(sent') /\ Later(sent, sent') /\ Len(sent') = Len(sent)
      /\ \A w : Open(w, sent') \subseteq Open(w, sent)
  BY <1>1, <1>2, StateSet
<1> QED BY <1>1, <1>3, SentKeeps

LEMMA LapseKeeps == ASSUME SignedInv, NEW t \in DOMAIN sent, Lapse(t) PROVE SignedInv'
<1>1. sent[t].state = "live" /\ UNCHANGED <<draft, queue, posted, signer, lost>> /\ sent' = [sent EXCEPT ![t].state = "expired"]
  BY DEF Lapse, Live
<1>3. /\ SentShape(sent') /\ Later(sent, sent') /\ Len(sent') = Len(sent)
      /\ \A w : Open(w, sent') \subseteq Open(w, sent)
  BY <1>1, StateSet
<1> QED BY <1>1, <1>3, SentKeeps

\* A transaction that is accepted is the last one, and live; some others are replaced.
LEMMA AcceptDoes ==
  ASSUME SignedInv, NEW t, Drawing(t), Accept(t)
  PROVE  /\ SentShape(sent') /\ Later(sent, sent') /\ Len(sent') = Len(sent) + 1 /\ Len(sent') \in DOMAIN sent'
         /\ sent'[Len(sent')] = t
         /\ \A w : Open(w, sent') \subseteq Open(w, sent) \cup (IF t.of = w THEN {Len(sent')} ELSE {})
<1>1. /\ SentShape(sent) /\ sent \in Seq(Range(sent)) /\ Len(sent) \in Nat /\ DOMAIN sent = 1..Len(sent)
      /\ \A x \in DOMAIN sent : Drawing(sent[x])
  BY SentIs DEF SignedInv, SignedTypes, SentShape
<1> DEFINE C == Conflicts(t.ins)
           f == [x \in DOMAIN sent |-> IF x \in C THEN [sent[x] EXCEPT !.state = "replaced"] ELSE sent[x]]
<1>2. C \subseteq {x \in DOMAIN sent : sent[x].state = "live"}
  BY DEF Conflicts, LiveOnes, Live
<1>3. sent' = Append(f, t)
  BY DEF Accept
<1> HIDE DEF C
<1>4. ASSUME NEW x \in DOMAIN sent
      PROVE  /\ Drawing(f[x]) /\ f[x].of = sent[x].of
             /\ f[x].state = IF x \in C THEN "replaced" ELSE sent[x].state
  <2>1. {"of", "state"} \subseteq DOMAIN sent[x] /\ sent[x].of \in Drafts
    BY <1>1 DEF Drawing
  <2>2. CASE x \in C
    <3> DEFINE r == [sent[x] EXCEPT !.state = "replaced"]
    <3>1. DOMAIN r = DOMAIN sent[x] /\ r.state = "replaced" /\ r.of = sent[x].of
      BY <2>1
    <3>2. f[x] = r
      BY <2>2
    <3> HIDE DEF r, f
    <3> QED BY <2>1, <2>2, <3>1, <3>2 DEF Drawing
  <2>3. CASE x \notin C
    <3>1. f[x] = sent[x]
      BY <2>3
    <3> HIDE DEF f
    <3> QED BY <2>3, <3>1, <1>1
  <2> QED BY <2>2, <2>3
<1> DEFINE R == Range(f) \cup {t}
<1>5. f \in Seq(R) /\ Len(f) = Len(sent)
  <2>1. f \in [1..Len(sent) -> R]
    BY <1>1 DEF Range
  <2> HIDE DEF f, R
  <2> QED BY <2>1, <1>1, ListIsSeq
<1> HIDE DEF f
<1>6. /\ Append(f, t) \in Seq(R) /\ Len(Append(f, t)) = Len(sent) + 1
      /\ \A x \in 1..Len(sent) : Append(f, t)[x] = f[x]
      /\ Append(f, t)[Len(sent) + 1] = t
  BY <1>5, <1>1, AppendProperties
<1> HIDE DEF R
<1>7. /\ sent' \in Seq(R) /\ Len(sent') = Len(sent) + 1 /\ sent'[Len(sent) + 1] = t
      /\ \A x \in DOMAIN sent : sent'[x] = f[x]
  BY <1>1, <1>3, <1>6
<1>8. DOMAIN sent' = 1..(Len(sent) + 1)
  BY <1>1, <1>7
<1>9. \A x \in DOMAIN sent' : x = Len(sent) + 1 \/ x \in DOMAIN sent
  BY <1>1, <1>8
<1>10. SentShape(sent')
  <2>1. sent' \in Seq(Range(sent'))
    <3>1. sent' \in [1..(Len(sent) + 1) -> Range(sent')]
      BY <1>7, <1>8 DEF Range
    <3> QED BY <3>1, <1>1, ListIsSeq
  <2>2. \A x \in DOMAIN sent' : Drawing(sent'[x])
    BY <1>4, <1>7, <1>9
  <2> QED BY <2>1, <2>2 DEF SentShape
<1>11. Later(sent, sent')
  BY <1>1, <1>2, <1>4, <1>7, <1>8 DEF Later
<1>12. \A w : Open(w, sent') \subseteq Open(w, sent) \cup (IF t.of = w THEN {Len(sent')} ELSE {})
  <2> SUFFICES ASSUME NEW w, NEW x \in Open(w, sent')
               PROVE  x \in Open(w, sent) \/ (t.of = w /\ x = Len(sent'))
    OBVIOUS
  <2>1. x \in DOMAIN sent' /\ sent'[x].of = w /\ sent'[x].state \in {"live", "mined"}
    BY DEF Open
  <2>2. CASE x = Len(sent) + 1
    BY <2>1, <2>2, <1>7
  <2>3. CASE x \in DOMAIN sent
    BY <2>1, <2>3, <1>4, <1>7 DEF Open
  <2> QED BY <2>1, <2>2, <2>3, <1>9
<1> QED BY <1>1, <1>7, <1>8, <1>10, <1>11, <1>12

\* What is drawn for w pays w.
LEMMA DrawnIs == ASSUME NEW w \in Drafts, NEW t \in Drawn(w) PROVE Drawing(t) /\ t.of = w
<1>1. PICK S : t = Draw(w, S)
  BY DEF Drawn
<1>2. {"of", "state"} \subseteq DOMAIN t /\ t.of = w
  BY <1>1 DEF Draw
<1> QED BY <1>2 DEF Drawing

LEMMA SendKeeps == ASSUME SignedInv, Send PROVE SignedInv'
<1>1. signer.pc = "send"
  BY DEF Send
<1>2. PICK w : w = signer.w
  OBVIOUS
<1>3. w \in Drafts /\ draft[w].status = "BROADCASTING" /\ draft[w].tx = 0 /\ Ended(w) /\ signer.todo # <<>>
  BY <1>1, <1>2, ClaimedIs
<1>4. PICK t \in Drawn(w) :
        /\ Accept(t)
        /\ \/ signer' = [signer EXCEPT !.pc = "sent"] /\ UNCHANGED <<draft, queue, posted, lost>>
           \/ /\ lost' = [lost EXCEPT ![w] = lost[w] + 1]
              /\ Refund(w) /\ signer' = Following(signer)
  BY <1>2 DEF Send
<1>5. Drawing(t) /\ t.of = w
  BY <1>3, DrawnIs
<1>6. PICK n : n = Len(sent')
  OBVIOUS
<1>7. /\ SentShape(sent') /\ Later(sent, sent') /\ n \in DOMAIN sent' /\ sent'[n].of = w
      /\ Open(w, sent') \subseteq Open(w, sent) \cup {n}
      /\ \A v \in Drafts \ {w} : Open(v, sent') \subseteq Open(v, sent)
  BY <1>4, <1>5, <1>6, AcceptDoes
<1>8. Known(w, signer, draft, sent) = 0 /\ 0 \notin Open(w, sent) /\ lost \in [Drafts -> Nat] /\ lost[w] \in Nat
  BY <1>1, <1>3, SentIs DEF Known, Open, SignedInv, SignedTypes
<1>9. Cardinality(Open(w, sent)) <= lost[w] /\ IsFiniteSet(Open(w, sent))
  <2>1. Open(w, sent) \ {0} = Open(w, sent)
    BY <1>8
  <2>2. Cardinality(Open(w, sent) \ {0}) <= lost[w]
    BY <1>3, <1>8 DEF SignedInv, OthersAreLost
  <2>3. IsFiniteSet(Open(w, sent) \ {0})
    BY OpenIsFinite DEF SignedInv, SignedTypes
  <2> QED BY <2>1, <2>2, <2>3
<1>10. CASE signer' = [signer EXCEPT !.pc = "sent"] /\ UNCHANGED <<draft, queue, posted, lost>>
  <2>1. /\ signer' \in SignerType /\ signer'.pc = "sent" /\ signer'.w = w /\ signer'.todo = signer.todo
    BY <1>2, <1>10, TodoIs DEF SignerType
  <2>2. Known(w, signer', draft', sent') = n
    BY <2>1, <1>6 DEF Known
  <2>3. \A v \in Drafts \ {w} : Known(v, signer', draft', sent') = Known(v, signer, draft, sent)
    BY <2>1, <1>1, <1>10 DEF Known
  <2>4. Cardinality(Open(w, sent') \ {n}) <= lost'[w]
    <3>1. Open(w, sent') \ {n} \subseteq Open(w, sent)
      BY <1>7
    <3>2. Cardinality(Open(w, sent') \ {n}) <= Cardinality(Open(w, sent)) /\ Cardinality(Open(w, sent) ) \in Nat
          /\ Cardinality(Open(w, sent') \ {n}) \in Nat
      BY <3>1, <1>9, FS_Subset, FS_CardinalityType
    <3>3. lost'[w] = lost[w]
      BY <1>10
    <3> QED BY <3>2, <3>3, <1>8, <1>9
  <2>5. RowSays(w, draft'[w], posted'[w], sent')
    BY <1>3, <1>7, <1>10, RowIs, RowSaysLater
  <2>6. PassRelies(signer', draft', sent')
    <3>1. \A v \in Range(signer.todo) : draft[v].status \in {"APPROVED", "BROADCASTING", "FAILED"}
      BY <1>1 DEF SignedInv, PassRelies
    <3> QED BY <3>1, <2>1, <1>3, <1>6, <1>7, <1>10 DEF PassRelies
  <2>7. /\ draft' \in [Drafts -> DraftType] /\ posted' \in [Drafts -> SUBSET Postings] /\ lost' \in [Drafts -> Nat]
        /\ QueueIsApproved(queue', draft')
    BY <1>10 DEF SignedInv, SignedTypes
  <2>8. \A v \in Drafts \ {w} : draft'[v] = draft[v] /\ posted'[v] = posted[v] /\ lost'[v] = lost[v]
    BY <1>10
  <2>9. Cardinality(Open(w, sent') \ {Known(w, signer', draft', sent')}) <= lost'[w]
    BY <2>2, <2>4
  <2> QED BY <1>3, <1>7, <2>1, <2>3, <2>5, <2>6, <2>7, <2>8, <2>9, OneRow
<1>11. CASE lost' = [lost EXCEPT ![w] = lost[w] + 1] /\ Refund(w) /\ signer' = Following(signer)
  <2>1. lost' \in [Drafts -> Nat] /\ lost'[w] = lost[w] + 1 /\ \A v \in Drafts \ {w} : lost'[v] = lost[v]
    BY <1>3, <1>8, <1>11
  <2>2. Open(w, sent') \ {draft[w].tx} \subseteq Open(w, sent) \cup {n}
    BY <1>7
  <2>3. Cardinality(Open(w, sent') \ {draft[w].tx}) <= lost'[w]
    BY <2>1, <2>2, <1>8, <1>9, OneMore
  <2> QED BY <1>1, <1>2, <1>3, <1>7, <1>11, <2>1, <2>3, RefundKeeps
<1> QED BY <1>4, <1>10, <1>11

LEMMA RecordFailsKeeps == ASSUME SignedInv, RecordFails PROVE SignedInv'
<1>1. signer.pc = "sent" /\ UNCHANGED sent
  BY DEF RecordFails
<1>2. PICK w : w = signer.w
  OBVIOUS
<1>3. w \in Drafts /\ draft[w].status = "BROADCASTING" /\ draft[w].tx = 0 /\ Ended(w) /\ signer.todo # <<>>
  BY <1>1, <1>2, ClaimedIs
<1>4. lost' = [lost EXCEPT ![w] = lost[w] + 1] /\ Refund(w) /\ signer' = Following(signer)
  BY <1>2 DEF RecordFails
<1>5. SentShape(sent) /\ Later(sent, sent) /\ lost \in [Drafts -> Nat] /\ lost[w] \in Nat
  BY <1>3, LaterSame DEF SignedInv, SignedTypes
<1>6. lost' \in [Drafts -> Nat] /\ lost'[w] = lost[w] + 1 /\ \A v \in Drafts \ {w} : lost'[v] = lost[v]
  BY <1>3, <1>4, <1>5
<1>7. PICK n : n = Len(sent)
  OBVIOUS
<1>8. Cardinality(Open(w, sent) \ {n}) <= lost[w] /\ IsFiniteSet(Open(w, sent) \ {n})
  <2>1. Known(w, signer, draft, sent) = n
    BY <1>1, <1>2, <1>7 DEF Known
  <2>2. Cardinality(Open(w, sent) \ {n}) <= lost[w]
    BY <2>1, <1>3 DEF SignedInv, OthersAreLost
  <2> QED BY <2>2, <1>5, OpenIsFinite
<1>9. Cardinality(Open(w, sent) \ {draft[w].tx}) <= lost'[w]
  <2>1. Open(w, sent) \ {draft[w].tx} \subseteq (Open(w, sent) \ {n}) \cup {n}
    OBVIOUS
  <2>2. PICK A : A = Open(w, sent) \ {n}
    OBVIOUS
  <2>3. Cardinality(A) <= lost[w] /\ IsFiniteSet(A) /\ Open(w, sent) \ {draft[w].tx} \subseteq A \cup {n}
    BY <2>1, <2>2, <1>8
  <2>4. Cardinality(Open(w, sent) \ {draft[w].tx}) <= lost[w] + 1
    BY <2>3, <1>5, OneMore
  <2> QED BY <2>4, <1>6
<1> QED BY <1>1, <1>2, <1>3, <1>4, <1>5, <1>6, <1>9, RefundKeeps

LEMMA SendRejectedKeeps == ASSUME SignedInv, SendRejected PROVE SignedInv'
<1>1. signer.pc = "send" /\ UNCHANGED <<posted, sent, lost>> /\ signer' = Following(signer)
  BY DEF SendRejected, Others
<1>2. PICK w : w = signer.w
  OBVIOUS
<1>3. w \in Drafts /\ draft[w].status = "BROADCASTING" /\ draft[w].tx = 0 /\ signer.todo # <<>>
  BY <1>1, <1>2, ClaimedIs
<1>4. draft' = [draft EXCEPT ![w].status = "APPROVED"] /\ queue' = Append(queue, w)
  BY <1>2 DEF SendRejected
<1>5. /\ draft' \in [Drafts -> DraftType] /\ draft'[w].status = "APPROVED" /\ draft'[w].tx = 0
      /\ \A v \in Drafts \ {w} : draft'[v] = draft[v]
  BY <1>3, <1>4, StatusWritten DEF Statuses
<1>6. signer' \in SignerType /\ signer'.pc = "rows" /\ Range(signer'.todo) \subseteq Range(signer.todo)
  BY <1>1, <1>3, FollowingIs
<1>7. QueueIsApproved(queue', draft')
  <2>1. Queue(queue) /\ \A v \in Range(queue) : draft[v].status = "APPROVED" /\ v \in Drafts
    BY DEF SignedInv, QueueIsApproved, Queue, Range
  <2>2. w \notin Range(queue)
    BY <2>1, <1>3
  <2>3. Queue(queue') /\ Range(queue') = Range(queue) \cup {w}
    BY <2>1, <2>2, <1>3, <1>4, AppendQueues
  <2> QED BY <2>1, <2>3, <1>5 DEF QueueIsApproved
<1>8. RowSays(w, draft'[w], posted'[w], sent')
  BY <1>1, <1>3, <1>5, RowIs DEF RowSays
<1>9. PassRelies(signer', draft', sent')
  <2>1. \A v \in Range(signer.todo) : draft[v].status \in {"APPROVED", "BROADCASTING", "FAILED"} /\ v \in Drafts
    BY <1>1, TodoIs DEF SignedInv, PassRelies
  <2> QED BY <2>1, <1>5, <1>6 DEF PassRelies
<1>10. \A v \in Drafts : Known(v, signer', draft', sent') = Known(v, signer, draft, sent)
  BY <1>1, <1>3, <1>5, <1>6 DEF Known
<1>11. posted' \in [Drafts -> SUBSET Postings] /\ lost' \in [Drafts -> Nat] /\ SentShape(sent') /\ Later(sent, sent')
  BY <1>1, LaterSame DEF SignedInv, SignedTypes
<1>12. Cardinality(Open(w, sent') \ {Known(w, signer', draft', sent')}) <= lost'[w]
  BY <1>10, <1>1, <1>3 DEF SignedInv, OthersAreLost
<1> QED BY <1>1, <1>3, <1>5, <1>6, <1>7, <1>8, <1>9, <1>10, <1>11, <1>12, OneRow

LEMMA RecordKeeps == ASSUME SignedInv, Record PROVE SignedInv'
<1>1. signer.pc = "sent" /\ UNCHANGED <<queue, posted, sent, lost>> /\ signer' = [signer EXCEPT !.pc = "rows", !.todo = <<>>]
  BY DEF Record, Others
<1>2. PICK w : w = signer.w
  OBVIOUS
<1>3. w \in Drafts /\ draft[w].status = "BROADCASTING"
  BY <1>1, <1>2, ClaimedIs
<1>4. PICK n : n = Len(sent)
  OBVIOUS
<1>5. n \in DOMAIN sent /\ sent[n].of = w /\ n \in Nat
  BY <1>1, <1>2, <1>4, SentIs DEF SignedInv, SignedTypes, PassRelies
<1>6. draft' = [draft EXCEPT ![w].status = "BROADCASTED", ![w].tx = n]
  BY <1>2, <1>4 DEF Record
<1>7. draft \in [Drafts -> DraftType] /\ draft[w] \in DraftType
  BY <1>3 DEF SignedInv, SignedTypes
<1> DEFINE r == [draft[w] EXCEPT !.status = "BROADCASTED", !.tx = n]
<1>8. r \in DraftType /\ r.status = "BROADCASTED" /\ r.tx = n
  BY <1>5, <1>7 DEF DraftType
<1>9. draft' = [draft EXCEPT ![w] = r]
  BY <1>3, <1>6, <1>7
<1> HIDE DEF r
<1>10. draft' \in [Drafts -> DraftType] /\ draft'[w] = r /\ \A v \in Drafts \ {w} : draft'[v] = draft[v]
  BY <1>3, <1>7, <1>8, <1>9
<1>11. signer' \in SignerType /\ signer'.pc = "rows" /\ signer'.todo = <<>>
  <2>1. <<>> \in Seq(Drafts)
    OBVIOUS
  <2> QED BY <2>1, <1>1, TodoIs DEF SignerType
<1>12. QueueIsApproved(queue', draft')
  <2>1. Queue(queue) /\ \A v \in Range(queue) : draft[v].status = "APPROVED" /\ v \in Drafts
    BY DEF SignedInv, QueueIsApproved, Queue, Range
  <2>2. w \notin Range(queue)
    BY <2>1, <1>3
  <2> QED BY <2>1, <2>2, <1>1, <1>10 DEF QueueIsApproved
<1>13. RowSays(w, draft'[w], posted'[w], sent')
  BY <1>1, <1>3, <1>5, <1>8, <1>10, RowIs DEF RowSays
<1>14. PassRelies(signer', draft', sent')
  <2>1. Range(<<>>) = {}
    BY DEF Range
  <2> QED BY <2>1, <1>11 DEF PassRelies
<1>15. \A v \in Drafts : Known(v, signer', draft', sent') = Known(v, signer, draft, sent)
  BY <1>1, <1>2, <1>4, <1>8, <1>10, <1>11 DEF Known
<1>16. posted' \in [Drafts -> SUBSET Postings] /\ lost' \in [Drafts -> Nat] /\ SentShape(sent') /\ Later(sent, sent')
  BY <1>1, LaterSame DEF SignedInv, SignedTypes
<1>17. Cardinality(Open(w, sent') \ {Known(w, signer', draft', sent')}) <= lost'[w]
  BY <1>15, <1>1, <1>3 DEF SignedInv, OthersAreLost
<1> QED BY <1>1, <1>3, <1>10, <1>11, <1>12, <1>13, <1>14, <1>15, <1>16, <1>17, OneRow

\* The confirmations.
LEMMA ReadSentKeeps == ASSUME SignedInv, ReadSent PROVE SignedInv'
<1> DEFINE S == {w \in Drafts : draft[w].status = "BROADCASTED" /\ draft[w].tx # 0}
<1>1. /\ signer.pc = "rows" /\ UNCHANGED <<draft, queue, posted, sent, lost>>
      /\ signer' = [signer EXCEPT !.pc = "confirm", !.todo = SetToSeq(S), !.rows = draft]
  BY DEF ReadSent, Others
<1>2. IsFiniteSet(S) /\ S \subseteq Drafts /\ \A w \in S : draft[w].status = "BROADCASTED"
  BY SignedAssumption, FS_Subset
<1> HIDE DEF S
<1> DEFINE q == SetToSeq(S)
<1>3. q \in Seq(S)
  BY <1>2, SetToSeqLists
<1>4. signer' = [signer EXCEPT !.pc = "confirm", !.todo = q, !.rows = draft]
  BY <1>1
<1> HIDE DEF q
<1>5. q \in Seq(Drafts) /\ Range(q) \subseteq S
  BY <1>2, <1>3 DEF Range
<1>6. draft \in [Drafts -> DraftType] /\ signer \in SignerType
  BY DEF SignedInv, SignedTypes
<1>7. signer' \in SignerType /\ signer'.pc = "confirm" /\ signer'.todo = q /\ signer'.rows = draft
  BY <1>4, <1>5, <1>6 DEF SignerType
<1>8. PassRelies(signer', draft, sent)
  <2> SUFFICES ASSUME NEW w \in Range(q) PROVE AskedOf(w, draft[w], draft[w], sent)
    BY <1>7 DEF PassRelies
  <2>1. w \in Drafts /\ draft[w].status = "BROADCASTED"
    BY <1>2, <1>5
  <2> QED BY <2>1, RowIs DEF RowSays, AskedOf
<1> QED BY <1>1, <1>7, <1>8, SignerKeeps

\* The next of the list that is asked for.
LEMMA NextAsked ==
  ASSUME SignedInv, signer.pc = "confirm", signer.todo # <<>>, signer' = [signer EXCEPT !.todo = Tail(@)]
  PROVE  /\ signer' \in SignerType /\ signer'.pc = "confirm" /\ signer'.rows = signer.rows
         /\ Range(signer'.todo) \subseteq Range(signer.todo)
<1>1. signer \in SignerType /\ signer.todo \in Seq(Drafts)
  BY TodoIs
<1> DEFINE q == Tail(signer.todo)
<1>2. q \in Seq(Drafts) /\ Range(q) \subseteq Range(signer.todo)
  BY <1>1, TailIsPart
<1>3. signer' = [signer EXCEPT !.todo = q]
  OBVIOUS
<1> HIDE DEF q
<1>4. signer' \in SignerType /\ signer'.pc = "confirm" /\ signer'.rows = signer.rows /\ signer'.todo = q
  BY <1>1, <1>2, <1>3 DEF SignerType
<1> QED BY <1>2, <1>4

LEMMA ConfirmFailsKeeps == ASSUME SignedInv, ConfirmFails PROVE SignedInv'
<1>1. /\ signer.pc = "confirm" /\ signer.todo # <<>> /\ signer' = [signer EXCEPT !.todo = Tail(@)]
      /\ UNCHANGED <<draft, queue, posted, sent, lost>>
  BY DEF ConfirmFails, Others
<1>2. /\ signer' \in SignerType /\ signer'.pc = "confirm" /\ signer'.rows = signer.rows
      /\ Range(signer'.todo) \subseteq Range(signer.todo)
  BY <1>1, NextAsked
<1>3. PassRelies(signer', draft, sent)
  BY <1>1, <1>2 DEF SignedInv, PassRelies
<1> QED BY <1>1, <1>2, <1>3, SignerKeeps

\* One row is written while a pass confirms, or by the operator.
LEMMA WrittenKeeps ==
  ASSUME SignedInv, NEW w \in Drafts, signer' \in SignerType, signer.pc # "sent" \/ signer.w # w,
         signer'.pc = signer.pc /\ signer'.w = signer.w,
         draft' \in [Drafts -> DraftType], posted' \in [Drafts -> SUBSET Postings],
         \A v \in Drafts \ {w} : draft'[v] = draft[v] /\ posted'[v] = posted[v],
         draft'[w].tx = draft[w].tx \/ (draft'[w].tx = 0 /\ Ended(w)),
         RowSays(w, draft'[w], posted'[w], sent), QueueIsApproved(queue', draft'),
         PassRelies(signer', draft', sent), UNCHANGED <<sent, lost>>
  PROVE  SignedInv'
<1>1. SentShape(sent') /\ Later(sent, sent') /\ lost' \in [Drafts -> Nat]
  BY LaterSame DEF SignedInv, SignedTypes
<1>2. \A v \in Drafts \ {w} : Known(v, signer', draft', sent') = Known(v, signer, draft, sent)
  BY DEF Known
<1>3. Known(w, signer', draft', sent') = draft'[w].tx /\ Known(w, signer, draft, sent) = draft[w].tx
  BY DEF Known
<1>4. Cardinality(Open(w, sent) \ {draft[w].tx}) <= lost[w]
  BY <1>3 DEF SignedInv, OthersAreLost
<1>5. Cardinality(Open(w, sent) \ {draft'[w].tx}) <= lost[w]
  <2>1. CASE draft'[w].tx = draft[w].tx
    BY <2>1, <1>4
  <2>2. CASE draft'[w].tx = 0 /\ Ended(w)
    <3>1. 0 \notin Open(w, sent) /\ draft[w].tx \notin Open(w, sent)
      BY <2>2, SentIs DEF Open, Ended, SignedInv, SignedTypes
    <3>2. Open(w, sent) \ {draft'[w].tx} = Open(w, sent) \ {draft[w].tx}
      BY <3>1, <2>2
    <3> QED BY <3>2, <1>4
  <2> QED BY <2>1, <2>2
<1> QED BY <1>1, <1>2, <1>3, <1>5, OneRow

LEMMA ConfirmKeeps == ASSUME SignedInv, Confirm PROVE SignedInv'
<1>1. /\ signer.pc = "confirm" /\ signer.todo # <<>> /\ signer' = [signer EXCEPT !.todo = Tail(@)]
      /\ UNCHANGED <<sent, lost>>
  BY DEF Confirm, Others
<1>2. PICK w : w = Head(signer.todo)
  OBVIOUS
<1>3. /\ signer' \in SignerType /\ signer'.pc = "confirm" /\ signer'.rows = signer.rows /\ signer'.w = signer.w
      /\ Range(signer'.todo) \subseteq Range(signer.todo)
  <2>1. signer'.w = signer.w
    BY <1>1, TodoIs DEF SignerType
  <2> QED BY <2>1, <1>1, NextAsked
<1>4. PICK t : t = signer.rows[w].tx
  OBVIOUS
<1>5. w \in Drafts /\ w \in Range(signer.todo)
  BY <1>1, <1>2, TodoIs
<1>6. /\ t \in DOMAIN sent /\ sent[t].of = w
      /\ \/ draft[w].tx = t /\ draft[w].status \in {"BROADCASTED", "CONFIRMED", "FAILED"}
         \/ draft[w].tx = 0 /\ sent[t].state = "failed" /\ draft[w].status \in {"APPROVED", "FAILED"}
  BY <1>1, <1>4, <1>5 DEF SignedInv, PassRelies, AskedOf
<1>7. PICK outcome : outcome = OutcomeOf(w, t)
  OBVIOUS
<1>8. \A v \in Range(signer.todo) : AskedOf(v, signer.rows[v], draft[v], sent) /\ v \in Drafts
  BY <1>1, TodoIs DEF SignedInv, PassRelies
<1>9. CASE outcome = "failed"
  <2>1. sent[t].state = "failed"
    BY <1>7, <1>9 DEF OutcomeOf
  <2>2. Refund(w) /\ Ended(w)
    BY <1>2, <1>4, <1>6, <1>7, <1>9, <2>1 DEF Confirm, Ended
  <2>3. /\ draft' \in [Drafts -> DraftType] /\ posted' \in [Drafts -> SUBSET Postings]
        /\ \A v \in Drafts \ {w} : draft'[v] = draft[v] /\ posted'[v] = posted[v]
        /\ draft'[w].status = "FAILED" /\ draft'[w].tx = draft[w].tx
        /\ RowSays(w, draft'[w], posted'[w], sent)
        /\ QueueIsApproved(queue', draft')
    BY <2>2, <1>5, RefundDoes
  <2>4. PassRelies(signer', draft', sent)
    <3> SUFFICES ASSUME NEW v \in Range(signer.todo) PROVE AskedOf(v, signer.rows[v], draft'[v], sent)
      BY <1>3 DEF PassRelies
    <3> QED BY <2>3, <1>8 DEF AskedOf
  <2> QED BY <1>1, <1>3, <1>5, <2>3, <2>4, WrittenKeeps
<1>10. CASE outcome = "confirmed"
  <2>1. sent[t].state = "mined"
    BY <1>7, <1>10 DEF OutcomeOf
  <2>2. /\ draft' = [draft EXCEPT ![w].status = "CONFIRMED"]
        /\ posted' = [posted EXCEPT ![w] = posted[w] \union {"settle"}] /\ UNCHANGED queue
    BY <1>2, <1>4, <1>7, <1>10 DEF Confirm
  <2>3. RowSays(w, draft[w], posted[w], sent)
    BY <1>5, RowIs
  <2>4. draft[w].tx = t /\ draft[w].status \in {"BROADCASTED", "CONFIRMED"} /\ 0 \notin DOMAIN sent
    BY <2>1, <2>3, <1>6, SentIs DEF RowSays, SignedInv, SignedTypes
  <2>5. /\ draft' \in [Drafts -> DraftType] /\ draft'[w].status = "CONFIRMED" /\ draft'[w].tx = t
        /\ \A v \in Drafts \ {w} : draft'[v] = draft[v]
    BY <2>2, <2>4, <1>5, StatusWritten DEF Statuses
  <2>6. /\ posted' \in [Drafts -> SUBSET Postings] /\ posted'[w] = posted[w] \union {"settle"}
        /\ \A v \in Drafts \ {w} : posted'[v] = posted[v]
    <3>1. posted[w] \union {"settle"} \in SUBSET Postings
      BY <1>5 DEF SignedInv, SignedTypes, Postings
    <3> QED BY <3>1, <2>2, <1>5, PostedMore
  <2>7. RowSays(w, draft'[w], posted'[w], sent)
    BY <2>1, <2>3, <2>4, <2>5, <2>6, <1>6 DEF RowSays
  <2>8. QueueIsApproved(queue', draft')
    <3>1. Queue(queue) /\ \A v \in Range(queue) : draft[v].status = "APPROVED" /\ v \in Drafts
      BY DEF SignedInv, QueueIsApproved, Queue, Range
    <3>2. w \notin Range(queue)
      BY <3>1, <2>4
    <3> QED BY <3>1, <3>2, <2>2, <2>5 DEF QueueIsApproved
  <2>9. PassRelies(signer', draft', sent)
    <3> SUFFICES ASSUME NEW v \in Range(signer.todo) PROVE AskedOf(v, signer.rows[v], draft'[v], sent)
      BY <1>3 DEF PassRelies
    <3>1. CASE v = w
      BY <3>1, <1>4, <1>6, <2>5 DEF AskedOf
    <3>2. CASE v # w
      BY <3>2, <1>8, <2>5
    <3> QED BY <3>1, <3>2
  <2> QED BY <1>1, <1>3, <1>5, <2>4, <2>5, <2>6, <2>7, <2>8, <2>9, WrittenKeeps
<1>11. CASE outcome \notin {"failed", "confirmed"}
  <2>1. UNCHANGED <<draft, queue, posted>>
    BY <1>2, <1>4, <1>7, <1>11 DEF Confirm
  <2>2. PassRelies(signer', draft, sent)
    BY <1>1, <1>3 DEF SignedInv, PassRelies
  <2> QED BY <2>1, <2>2, <1>1, <1>3, SignerKeeps
<1> QED BY <1>9, <1>10, <1>11

LEMMA PassEndsKeeps == ASSUME SignedInv, PassEnds PROVE SignedInv'
<1>1. signer.pc = "confirm" /\ signer' = Idle /\ UNCHANGED <<draft, queue, posted, sent, lost>>
  BY DEF PassEnds, Others
<1>2. PassRelies(signer', draft, sent)
  BY <1>1, IdleIs DEF PassRelies
<1> QED BY <1>1, <1>2, IdleIs, SignerKeeps

\* A crash after the node took the transaction: nobody has written its hash.
LEMMA CrashKeeps == ASSUME SignedInv, Crash PROVE SignedInv'
<1>1. signer' = Idle /\ UNCHANGED <<draft, queue, posted, sent>>
  BY DEF Crash
<1>2. PassRelies(signer', draft, sent)
  BY <1>1, IdleIs DEF PassRelies
<1>3. CASE signer.pc # "sent"
  <2>1. UNCHANGED lost
    BY <1>3 DEF Crash
  <2> QED BY <2>1, <1>1, <1>2, <1>3, IdleIs, SignerKeeps
<1>4. CASE signer.pc = "sent"
  <2>1. PICK w : w = signer.w
    OBVIOUS
  <2>2. w \in Drafts /\ draft[w].tx = 0
    BY <1>4, <2>1, ClaimedIs
  <2>3. lost' = [lost EXCEPT ![w] = lost[w] + 1]
    BY <1>4, <2>1 DEF Crash
  <2>4. SentShape(sent) /\ Later(sent, sent) /\ lost \in [Drafts -> Nat] /\ lost[w] \in Nat
    BY <2>2, LaterSame DEF SignedInv, SignedTypes
  <2>5. lost' \in [Drafts -> Nat] /\ lost'[w] = lost[w] + 1 /\ \A v \in Drafts \ {w} : lost'[v] = lost[v]
    BY <2>2, <2>3, <2>4
  <2>6. PICK n : n = Len(sent)
    OBVIOUS
  <2>7. PICK A : A = Open(w, sent) \ {n}
    OBVIOUS
  <2>8. Cardinality(A) <= lost[w] /\ IsFiniteSet(A)
    <3>1. Known(w, signer, draft, sent) = n
      BY <1>4, <2>1, <2>6 DEF Known
    <3>2. Cardinality(Open(w, sent) \ {n}) <= lost[w]
      BY <3>1, <2>2 DEF SignedInv, OthersAreLost
    <3> QED BY <3>2, <2>4, <2>7, OpenIsFinite
  <2>9. Known(w, signer', draft', sent') = 0
    BY <1>1, <2>2, IdleIs DEF Known
  <2>10. Cardinality(Open(w, sent) \ {0}) <= lost'[w]
    <3>1. Open(w, sent) \ {0} \subseteq A \cup {n}
      BY <2>7
    <3>2. Cardinality(Open(w, sent) \ {0}) <= lost[w] + 1
      BY <3>1, <2>4, <2>8, OneMore
    <3> QED BY <3>2, <2>5
  <2>11. \A v \in Drafts \ {w} : Known(v, signer', draft', sent') = Known(v, signer, draft, sent)
    BY <1>1, <2>1, IdleIs DEF Known
  <2>12. RowSays(w, draft[w], posted[w], sent)
    BY <2>2, RowIs
  <2>13. /\ draft' \in [Drafts -> DraftType] /\ posted' \in [Drafts -> SUBSET Postings] /\ QueueIsApproved(queue', draft')
    BY <1>1 DEF SignedInv, SignedTypes
  <2>14. Cardinality(Open(w, sent') \ {Known(w, signer', draft', sent')}) <= lost'[w]
    BY <2>9, <2>10, <1>1
  <2> QED BY <1>1, <1>2, <2>2, <2>4, <2>5, <2>11, <2>12, <2>13, <2>14, IdleIs, OneRow
<1> QED BY <1>3, <1>4

\* The operator's scripts.
LEMMA RetryKeeps == ASSUME SignedInv, NEW w \in Drafts, Retry(w) PROVE SignedInv'
<1>1. /\ draft[w].status = "FAILED" /\ UNCHANGED <<sent, signer, lost>>
      /\ posted' = [posted EXCEPT ![w] = ReservedRetry(w)] /\ queue' = Append(queue, w)
      /\ draft' = [draft EXCEPT ![w].status = "APPROVED", ![w].tx = 0]
  BY DEF Retry
<1>2. draft \in [Drafts -> DraftType] /\ draft[w] \in DraftType /\ RowSays(w, draft[w], posted[w], sent)
  BY RowIs DEF SignedInv, SignedTypes
<1> DEFINE r == [draft[w] EXCEPT !.status = "APPROVED", !.tx = 0]
<1>3. r \in DraftType /\ r.status = "APPROVED" /\ r.tx = 0
  BY <1>2 DEF DraftType
<1>4. draft' = [draft EXCEPT ![w] = r]
  BY <1>1, <1>2
<1> HIDE DEF r
<1>5. draft' \in [Drafts -> DraftType] /\ draft'[w] = r /\ \A v \in Drafts \ {w} : draft'[v] = draft[v]
  BY <1>2, <1>3, <1>4
<1>6. /\ posted' \in [Drafts -> SUBSET Postings] /\ posted'[w] = posted[w] \union {"retry reserve"}
      /\ \A v \in Drafts \ {w} : posted'[v] = posted[v]
  <2>1. posted[w] \union {"retry reserve"} \in SUBSET Postings
    BY DEF SignedInv, SignedTypes, Postings
  <2> QED BY <2>1, <1>1, PostedMore DEF ReservedRetry
<1>7. Ended(w) /\ "release" \in posted[w]
  BY <1>1, <1>2 DEF RowSays, Ended
<1>8. RowSays(w, draft'[w], posted'[w], sent)
  BY <1>3, <1>5, <1>6, <1>7 DEF RowSays
<1>9. QueueIsApproved(queue', draft')
  <2>1. Queue(queue) /\ \A v \in Range(queue) : draft[v].status = "APPROVED" /\ v \in Drafts
    BY DEF SignedInv, QueueIsApproved, Queue, Range
  <2>2. w \notin Range(queue)
    BY <2>1, <1>1
  <2>3. Queue(queue') /\ Range(queue') = Range(queue) \cup {w}
    BY <2>1, <2>2, <1>1, AppendQueues
  <2> QED BY <2>1, <2>3, <1>3, <1>5 DEF QueueIsApproved
<1>10. PassRelies(signer, draft', sent)
  <2>1. PassRelies(signer, draft, sent) /\ \A v \in Range(signer.todo) : v \in Drafts
    BY TodoIs DEF SignedInv
  <2>2. ASSUME NEW v \in Range(signer.todo), AskedOf(v, signer.rows[v], draft[v], sent)
        PROVE  AskedOf(v, signer.rows[v], draft'[v], sent)
    <3>1. CASE v = w
      <4>1. sent[signer.rows[w].tx].state = "failed" /\ signer.rows[w].tx \in DOMAIN sent /\ sent[signer.rows[w].tx].of = w
        <5>1. 0 \notin DOMAIN sent
          BY SentIs DEF SignedInv, SignedTypes
        <5> QED BY <5>1, <2>2, <3>1, <1>7 DEF AskedOf, Ended
      <4> QED BY <4>1, <3>1, <1>3, <1>5 DEF AskedOf
    <3>2. CASE v # w
      BY <3>2, <2>1, <2>2, <1>5
    <3> QED BY <3>1, <3>2
  <2>3. signer.pc \in {"send", "sent"} => signer.w # w
    BY <2>1, <1>1 DEF PassRelies
  <2> QED BY <2>1, <2>2, <2>3, <1>3, <1>5 DEF PassRelies
<1>11. signer.pc # "sent" \/ signer.w # w
  BY <1>1 DEF SignedInv, PassRelies
<1>12. signer' \in SignerType
  BY <1>1, TodoIs
<1> QED BY <1>1, <1>3, <1>5, <1>6, <1>7, <1>8, <1>9, <1>10, <1>11, <1>12, WrittenKeeps

LEMMA RecoverTronKeeps == ASSUME SignedInv, NEW w \in Drafts, RecoverTron(w) PROVE SignedInv'
<1>1. /\ draft[w].status \in {"BROADCASTED", "CONFIRMED"} /\ sent[draft[w].tx].state = "failed"
      /\ UNCHANGED <<queue, sent, signer, lost>>
      /\ posted' = [posted EXCEPT ![w] = (posted[w] \ {"settle"}) \union {"release"}]
      /\ draft' = [draft EXCEPT ![w].status = "FAILED"]
  BY DEF RecoverTron
<1>2. RowSays(w, draft[w], posted[w], sent)
  BY RowIs
<1>3. /\ draft' \in [Drafts -> DraftType] /\ draft'[w].status = "FAILED" /\ draft'[w].tx = draft[w].tx
      /\ \A v \in Drafts \ {w} : draft'[v] = draft[v]
  BY <1>1, StatusWritten DEF Statuses
<1>4. /\ posted' \in [Drafts -> SUBSET Postings] /\ "release" \in posted'[w]
      /\ \A v \in Drafts \ {w} : posted'[v] = posted[v]
  <2>1. (posted[w] \ {"settle"}) \union {"release"} \in SUBSET Postings
    BY DEF SignedInv, SignedTypes, Postings
  <2> QED BY <2>1, <1>1, PostedMore
<1>5. RowSays(w, draft'[w], posted'[w], sent)
  BY <1>1, <1>2, <1>3, <1>4 DEF RowSays
<1>6. QueueIsApproved(queue', draft')
  <2>1. Queue(queue) /\ \A v \in Range(queue) : draft[v].status = "APPROVED" /\ v \in Drafts
    BY DEF SignedInv, QueueIsApproved, Queue, Range
  <2>2. w \notin Range(queue)
    BY <2>1, <1>1
  <2> QED BY <2>1, <2>2, <1>1, <1>3 DEF QueueIsApproved
<1>7. PassRelies(signer, draft', sent)
  <2>1. PassRelies(signer, draft, sent) /\ \A v \in Range(signer.todo) : v \in Drafts
    BY TodoIs DEF SignedInv
  <2>2. ASSUME NEW v \in Range(signer.todo), AskedOf(v, signer.rows[v], draft[v], sent)
        PROVE  AskedOf(v, signer.rows[v], draft'[v], sent)
    BY <2>1, <2>2, <1>3 DEF AskedOf
  <2>3. signer.pc \in {"send", "sent"} => signer.w # w
    BY <2>1, <1>1 DEF PassRelies
  <2> QED BY <2>1, <2>2, <2>3, <1>3 DEF PassRelies
<1>8. signer.pc # "sent" \/ signer.w # w
  BY <1>1 DEF SignedInv, PassRelies
<1>9. signer' \in SignerType
  BY <1>1, TodoIs
<1> QED BY <1>1, <1>3, <1>4, <1>5, <1>6, <1>7, <1>8, <1>9, WrittenKeeps

LEMMA SignedStep == SignedInv /\ [SignedNext]_signedVars => SignedInv'
<1> SUFFICES ASSUME SignedInv, [SignedNext]_signedVars PROVE SignedInv'
  OBVIOUS
<1>1. CASE WorkerStep
  BY <1>1, PassBeginsKeeps, TakeKeeps, FailUnderfundedKeeps, BalanceUnknownKeeps, SendKeeps, SendRejectedKeeps, SendFailsKeeps,
     RecordKeeps, RecordFailsKeeps, ReadSentKeeps, ConfirmKeeps, ConfirmFailsKeeps, PassEndsKeeps DEF WorkerStep
<1>2. CASE Crash
  BY <1>2, CrashKeeps
<1>3. ASSUME NEW t \in DOMAIN sent, Mine(t) \/ Lapse(t) PROVE SignedInv'
  BY <1>3, MineKeeps, LapseKeeps
<1>4. ASSUME NEW w \in Drafts, Retry(w) \/ RecoverTron(w) PROVE SignedInv'
  BY <1>4, RetryKeeps, RecoverTronKeeps
<1>5. CASE UNCHANGED signedVars
  BY <1>5 DEF signedVars, SignedInv, SignedTypes, RowsSay, OthersAreLost
<1> QED BY <1>1, <1>2, <1>3, <1>4, <1>5 DEF SignedNext

\* A withdrawal the platform signs is paid as often as its user is charged, and once more
\* for each send that was accepted and not recorded (broadcastNextApproved,
\* confirmBroadcasted, recoverInterruptedBroadcasting and the operator's scripts).
THEOREM PaidAsChargedAlways == SignedSpec => []PaidAsCharged
<1> QED BY SignedStarts, SignedStep, SignedInvSays, PTL DEF SignedSpec

\* Both kinds: nothing is paid that was not charged, whatever is lost, retried or replaced.
THEOREM SignedIsPaidForAlways == SignedSpec /\ BnbSpec => []SignedIsPaidFor
<1>1. PaidAsCharged /\ BnbIsPaidFor => SignedIsPaidFor
  BY DEF SignedIsPaidFor
<1> QED BY PaidAsChargedAlways, BnbIsPaidForAlways, <1>1, PTL

-----------------------------------------------------------------------------
(* The overview of an account *)

CONSTANTS Deposits, DepositScope, Readers, ViewMixes
VARIABLES mix, deposit, spent, mainnetOnly, pushed, unsaid, kept, chainKept, timer, reading, socket, shown, errors

View == INSTANCE Overviews WITH Scope <- DepositScope, Calls <- Readers, Mixes <- ViewMixes,
                                posted <- pushed, call <- reading

\* What was credited in a scope.
CreditedIn(scope) == {d \in Deposits : DepositScope[d] = scope /\ deposit[d] \in {"credited", "swept"}}

\* What came in on mainnet and was not spent by withdrawals there or by conversions.
MainOnly == View!Full - (View!Credited("test") - spent.test)

ViewTypes ==
  /\ spent \in [View!Kinds -> Nat]
  /\ deposit \in [Deposits -> {"none", "onchain", "pending", "crediting", "credited", "swept"}]
  /\ mainnetOnly \in BOOLEAN

\* An update was read after it was due.
ReadingsOk ==
  /\ DOMAIN reading = Readers
  /\ \A c \in Readers : reading[c] # View!Idle =>
       /\ DOMAIN reading[c] = {"pc", "for", "visit", "current", "chain", "value", "onChain"}
       /\ reading[c].for = "update" => reading[c].current

\* What was withdrawn on test networks may be ahead of what came in there, and then all of the
\* balance may be overdrawn; otherwise what is left of mainnet may.  Never both.
NotOverdrawn == View!Full >= 0 \/ MainOnly >= 0

ViewInv == ViewTypes /\ ReadingsOk /\ NotOverdrawn

LEMMA SameCardinality == \A S : View!Cardinality(S) = Cardinality(S)
  BY Zenon DEF View!Cardinality, Cardinality

LEMMA SameFinite == \A S : View!IsFiniteSet(S) <=> IsFiniteSet(S)
  BY Zenon DEF View!IsFiniteSet, IsFiniteSet

LEMMA CreditedType ==
  ASSUME IsFiniteSet(Deposits), NEW scope
  PROVE  IsFiniteSet(CreditedIn(scope)) /\ Cardinality(CreditedIn(scope)) \in Nat
<1>1. CreditedIn(scope) \subseteq Deposits
  BY DEF CreditedIn
<1> QED
  BY <1>1, FS_Subset, FS_CardinalityType

LEMMA CreditedIs == \A scope : View!Credited(scope) = Cardinality(CreditedIn(scope))
  BY SameCardinality DEF View!Credited, View!In, CreditedIn

LEMMA FullIs ==
  View!Full = View!Credited("main") + View!Credited("test") + spent.gain - spent.main - spent.test - spent.convert
  BY DEF View!Full, View!Both

\* The balances as sums.
LEMMA Balances ==
  ASSUME ViewTypes, IsFiniteSet(Deposits)
  PROVE  /\ View!Credited("main") \in Nat /\ View!Credited("test") \in Nat
         /\ \A kind \in View!Kinds : spent[kind] \in Nat
         /\ View!Full \in Int /\ MainOnly \in Int
         /\ MainOnly = View!Credited("main") + spent.gain - spent.main - spent.convert
<1>1. View!Credited("main") \in Nat /\ View!Credited("test") \in Nat
  BY CreditedType, CreditedIs
<1>2. \A kind \in View!Kinds : spent[kind] \in Nat
  BY DEF ViewTypes
<1>3. spent.main \in Nat /\ spent.test \in Nat /\ spent.convert \in Nat /\ spent.gain \in Nat
  BY <1>2 DEF View!Kinds
<1> QED
  BY <1>1, <1>2, <1>3, FullIs DEF MainOnly

\* A deposit may be credited; nothing else about credits changes.
LEMMA CreditStep ==
  ASSUME ViewTypes, ViewTypes', IsFiniteSet(Deposits), NotOverdrawn, spent' = spent,
         \A d \in Deposits : deposit[d] \in {"credited", "swept"} => deposit'[d] \in {"credited", "swept"}
  PROVE  NotOverdrawn'
<1>1. ASSUME NEW scope
      PROVE  View!Credited(scope) <= View!Credited(scope)'
  <2>1. CreditedIn(scope) \subseteq CreditedIn(scope)'
    BY DEF CreditedIn
  <2>2. IsFiniteSet(CreditedIn(scope)')
    <3>1. CreditedIn(scope)' \subseteq Deposits
      BY DEF CreditedIn
    <3> QED
      BY <3>1, FS_Subset
  <2>3. Cardinality(CreditedIn(scope)) <= Cardinality(CreditedIn(scope)')
    BY <2>1, <2>2, FS_Subset
  <2>4. View!Credited(scope)' = Cardinality(CreditedIn(scope)')
    BY SameCardinality DEF View!Credited, View!In, CreditedIn
  <2> QED
    BY <2>3, <2>4, CreditedIs
<1>2. /\ View!Credited("main") \in Nat /\ View!Credited("test") \in Nat
      /\ View!Credited("main")' \in Nat /\ View!Credited("test")' \in Nat
  <2>1. \A scope : View!Credited(scope)' = Cardinality(CreditedIn(scope)')
    BY SameCardinality DEF View!Credited, View!In, CreditedIn
  <2>2. \A scope : CreditedIn(scope)' \subseteq Deposits
    BY DEF CreditedIn
  <2> QED
    BY <2>1, <2>2, Balances, FS_Subset, FS_CardinalityType
<1>3. /\ View!Full' = View!Credited("main")' + View!Credited("test")' + spent.gain - spent.main - spent.test - spent.convert
      /\ MainOnly' = View!Full' - (View!Credited("test")' - spent.test)
  BY DEF View!Full, View!Both, MainOnly
<1>4. spent.main \in Nat /\ spent.test \in Nat /\ spent.convert \in Nat /\ spent.gain \in Nat
  BY Balances DEF View!Kinds
<1> QED
  BY <1>1, <1>2, <1>3, <1>4, FullIs DEF NotOverdrawn, MainOnly

\* A withdrawal or a conversion looks at one of the two balances.
LEMMA SpendStep ==
  ASSUME ViewInv, IsFiniteSet(Deposits), NEW kind \in View!Kinds, View!Spend(kind)
  PROVE  ViewTypes' /\ NotOverdrawn'
<1>t. ViewTypes /\ NotOverdrawn
  BY DEF ViewInv
<1>1. /\ spent' = [spent EXCEPT ![kind] = @ + 1] /\ deposit' = deposit /\ mainnetOnly' = mainnetOnly
      /\ kind = "convert" => View!Mainnet >= 1
      /\ kind \in {"main", "test"} => View!Available >= 1
      /\ kind = "test" => ~mainnetOnly
  BY DEF View!Spend, View!Unchanged
<1>2. ViewTypes'
  BY <1>t, <1>1 DEF ViewTypes
<1>3. PICK full \in Int, main \in Int, tin \in Nat : full = View!Full /\ main = MainOnly /\ tin = View!Credited("test")
  BY <1>t, Balances
<1>4. PICK came \in Int : came = View!Credited("main") + View!Gained
  BY <1>t, Balances DEF View!Gained, View!Kinds
<1>5. spent.test \in Nat /\ main = full - (tin - spent.test)
  BY <1>t, <1>3, Balances DEF MainOnly, View!Kinds
<1>6. View!Mainnet = IF main >= 0 THEN main
                     ELSE IF (IF came > full THEN full ELSE came) < 0 THEN 0 ELSE IF came > full THEN full ELSE came
  BY <1>3, <1>4, <1>5 DEF View!Mainnet, View!MainnetPart, View!TestWithdrawn
<1>7. View!Mainnet >= 1 => main >= 1 \/ full >= 1
  BY <1>6
<1>8. View!Available \in {View!Mainnet, full} /\ (kind = "test" => View!Available = full)
  BY <1>1, <1>3 DEF View!Available
<1>9. \A scope : View!Credited(scope)' = View!Credited(scope)
  BY <1>1 DEF View!Credited, View!In
<1>10. /\ View!Full' = View!Credited("main") + View!Credited("test") + spent'.gain - spent'.main - spent'.test - spent'.convert
       /\ MainOnly' = View!Full' - (View!Credited("test") - spent'.test)
  BY <1>9 DEF View!Full, View!Both, MainOnly
<1>11. /\ spent.main \in Nat /\ spent.convert \in Nat /\ spent.gain \in Nat
       /\ View!Credited("main") \in Nat /\ View!Credited("test") \in Nat
  BY <1>t, Balances DEF View!Kinds
<1>12. /\ full = View!Credited("main") + View!Credited("test") + spent.gain - spent.main - spent.test - spent.convert
       /\ main = View!Credited("main") + spent.gain - spent.main - spent.convert
  BY <1>t, <1>3, FullIs, Balances
<1>13. full >= 0 \/ main >= 0
  BY <1>t, <1>3 DEF NotOverdrawn
<1>14. DOMAIN spent = {"main", "test", "convert", "gain"}
  BY <1>t DEF ViewTypes, View!Kinds
<1>15. CASE kind = "gain"
  <2>1. View!Full' = full + 1
    BY <1>1, <1>5, <1>10, <1>11, <1>12, <1>14, <1>15
  <2>2. MainOnly' = main + 1
    BY <1>1, <1>3, <1>5, <1>10, <1>14, <1>15, <2>1
  <2> QED
    BY <1>2, <1>3, <1>13, <2>1, <2>2 DEF NotOverdrawn
<1>16. CASE kind \in {"main", "convert"}
  <2>1. View!Full' = full - 1
    BY <1>1, <1>5, <1>10, <1>11, <1>12, <1>14, <1>16
  <2>2. MainOnly' = main - 1
    BY <1>1, <1>3, <1>5, <1>10, <1>14, <1>16, <2>1
  <2>3. main >= 1 \/ full >= 1
    BY <1>1, <1>7, <1>8, <1>16
  <2> QED
    BY <1>2, <1>3, <2>1, <2>2, <2>3 DEF NotOverdrawn
<1>17. CASE kind = "test"
  <2>1. View!Full' = full - 1
    BY <1>1, <1>5, <1>10, <1>11, <1>12, <1>14, <1>17
  <2>2. full >= 1
    BY <1>1, <1>8, <1>17
  <2> QED
    BY <1>2, <1>3, <2>1, <2>2 DEF NotOverdrawn
<1> QED
  BY <1>15, <1>16, <1>17 DEF View!Kinds

\* Nothing but a posting moves the balances.
LEMMA BalancesStay ==
  ASSUME ViewInv, UNCHANGED <<deposit, spent, mainnetOnly>>
  PROVE  ViewTypes' /\ NotOverdrawn'
<1>1. ViewTypes' /\ \A scope : View!Credited(scope)' = View!Credited(scope)
  BY DEF ViewInv, ViewTypes, View!Credited, View!In
<1>2. View!Full' = View!Full /\ MainOnly' = MainOnly
  BY <1>1 DEF View!Full, View!Both, MainOnly
<1> QED
  BY <1>1, <1>2 DEF ViewInv, NotOverdrawn

\* A reading starts.
LEMMA StartStep ==
  ASSUME ReadingsOk, NEW c \in Readers, NEW for, NEW visit, View!Start(c, for, visit)
  PROVE  ReadingsOk'
<1>1. PICK r : /\ reading' = [reading EXCEPT ![c] = r]
               /\ DOMAIN r = {"pc", "for", "visit", "current", "chain", "value", "onChain"}
               /\ r.for = for /\ (for = "update" => r.current)
  <2> DEFINE new == View!Read(for, visit)
             old == [View!Read(for, visit) EXCEPT !.pc = "reply", !.value = kept.value, !.current = kept.value.at = pushed]
  <2>1. /\ DOMAIN new = {"pc", "for", "visit", "current", "chain", "value", "onChain"}
        /\ new.for = for /\ new.current
    BY DEF View!Read
  <2>2. DOMAIN old = DOMAIN new /\ old.for = for
    BY <2>1
  <2> HIDE DEF new, old
  <2>3. \/ reading' = [reading EXCEPT ![c] = old] /\ for # "update"
        \/ reading' = [reading EXCEPT ![c] = new]
    BY DEF View!Start, View!FromCache, new, old
  <2> QED
    BY <2>1, <2>2, <2>3
<1> QED
  BY <1>1 DEF ReadingsOk

\* A reading goes on or ends.
LEMMA ReadStep ==
  ASSUME ReadingsOk, NEW c \in Readers, View!Overview(c) \/ View!ReadFails(c)
  PROVE  ReadingsOk'
<1>1. CASE View!ReadChain(c)
  <2>1. PICK amount : reading' = [reading EXCEPT ![c].chain = TRUE, ![c].onChain = amount]
    BY <1>1 DEF View!ReadChain
  <2>2. reading[c] # View!Idle
    BY <1>1 DEF View!ReadChain, View!Idle
  <2> QED
    BY <2>1, <2>2 DEF ReadingsOk
<1>2. CASE View!Finish(c)
  <2>1. reading[c] # View!Idle
    BY <1>2 DEF View!Finish, View!Idle
  <2>2. \/ reading' = [reading EXCEPT ![c] = View!Idle]
        \/ reading' = [reading EXCEPT ![c] = [reading[c] EXCEPT !.pc = "reply", !.value = View!Combined(reading[c])]]
    BY <1>2 DEF View!Finish
  <2>3. PICK v : v = View!Combined(reading[c])
    OBVIOUS
  <2>4. CASE reading' = [reading EXCEPT ![c] = View!Idle]
    BY <2>4 DEF ReadingsOk
  <2>5. CASE reading' = [reading EXCEPT ![c] = [reading[c] EXCEPT !.pc = "reply", !.value = v]]
    BY <2>1, <2>5 DEF ReadingsOk
  <2> QED
    BY <2>2, <2>3, <2>4, <2>5
<1>3. CASE View!Reply(c) \/ View!ReadFails(c)
  BY <1>3 DEF ReadingsOk, View!Reply, View!ReadFails
<1> QED
  BY <1>1, <1>2, <1>3 DEF View!Overview

LEMMA ViewStart == View!OverviewAssumption /\ View!OverviewInit => ViewInv
<1> SUFFICES ASSUME View!OverviewAssumption, View!OverviewInit PROVE ViewInv
  OBVIOUS
<1>1. IsFiniteSet(Deposits)
  BY SameFinite DEF View!OverviewAssumption
<1>2. ViewTypes
  BY DEF View!OverviewInit, View!OverviewAssumption, ViewTypes
<1>3. ReadingsOk
  BY DEF View!OverviewInit, ReadingsOk
<1>4. \A kind \in View!Kinds : spent[kind] = 0
  BY DEF View!OverviewInit
<1>5. View!Full >= 0
  BY <1>1, <1>2, <1>4, FullIs, Balances DEF View!Kinds
<1> QED
  BY <1>2, <1>3, <1>5 DEF ViewInv, NotOverdrawn

LEMMA ViewStep == View!OverviewAssumption /\ ViewInv /\ [View!OverviewNext]_(View!overviewVars) => ViewInv'
<1> SUFFICES ASSUME View!OverviewAssumption, ViewInv, [View!OverviewNext]_(View!overviewVars) PROVE ViewInv'
  OBVIOUS
<1>t. ViewTypes /\ ReadingsOk /\ NotOverdrawn /\ IsFiniteSet(Deposits)
  BY SameFinite DEF ViewInv, View!OverviewAssumption
<1>1. ASSUME NEW d \in Deposits,
             View!Arrive(d) \/ View!Detect(d) \/ View!SweepOut(d) \/ View!AnnounceCredit(d) \/ View!CommitCredit(d)
      PROVE  ViewInv'
  <2>1. PICK state \in {"onchain", "pending", "crediting", "credited", "swept"} :
          /\ deposit' = [deposit EXCEPT ![d] = state]
          /\ deposit[d] \in {"credited", "swept"} => state = "swept"
    BY <1>1 DEF View!Arrive, View!Detect, View!SweepOut, View!AnnounceCredit, View!CommitCredit
  <2>2. UNCHANGED <<spent, mainnetOnly, reading>>
    BY <1>1 DEF View!Arrive, View!Detect, View!SweepOut, View!AnnounceCredit, View!CommitCredit, View!Unchanged
  <2>3. ViewTypes'
    BY <1>t, <2>1, <2>2 DEF ViewTypes
  <2>4. \A e \in Deposits : deposit[e] \in {"credited", "swept"} => deposit'[e] \in {"credited", "swept"}
    BY <1>t, <2>1 DEF ViewTypes
  <2>5. NotOverdrawn'
    BY <1>t, <2>2, <2>3, <2>4, CreditStep
  <2>6. ReadingsOk'
    BY <1>t, <2>2 DEF ReadingsOk
  <2> QED
    BY <2>3, <2>5, <2>6 DEF ViewInv
<1>2. ASSUME NEW kind \in View!Kinds, View!Spend(kind)
      PROVE  ViewInv'
  <2>1. reading' = reading
    BY <1>2 DEF View!Spend, View!Unchanged
  <2>2. ReadingsOk'
    BY <1>t, <2>1 DEF ReadingsOk
  <2> QED
    BY <1>t, <1>2, <2>2, SpendStep DEF ViewInv
<1>3. ASSUME NEW c \in Readers, View!Overview(c) \/ View!ReadFails(c)
      PROVE  ViewInv'
  <2>1. UNCHANGED <<deposit, spent, mainnetOnly>>
    BY <1>3 DEF View!Overview, View!ReadFails, View!ReadChain, View!Finish, View!Reply
  <2> QED
    BY <1>t, <1>3, <2>1, ReadStep, BalancesStay DEF ViewInv
<1>4. ASSUME NEW c \in Readers, View!Gateway(c)
      PROVE  ViewInv'
  <2>1. UNCHANGED <<deposit, spent, mainnetOnly>>
    BY <1>4 DEF View!Gateway, View!Update, View!Connect, View!Fallback
  <2>2. \E for, visit : View!Start(c, for, visit)
    BY <1>4 DEF View!Gateway, View!Update, View!Connect, View!Fallback
  <2> QED
    BY <1>t, <2>1, <2>2, StartStep, BalancesStay DEF ViewInv
<1>5. ASSUME \/ \E n \in unsaid : View!Announce(n)
             \/ View!Disconnect \/ View!Expire \/ View!ExpireChain \/ UNCHANGED View!overviewVars
      PROVE  ViewInv'
  <2>1. UNCHANGED <<deposit, spent, mainnetOnly, reading>>
    BY <1>5 DEF View!Announce, View!Disconnect, View!Expire, View!ExpireChain, View!overviewVars
  <2>2. ReadingsOk'
    BY <1>t, <2>1 DEF ReadingsOk
  <2> QED
    BY <2>1, <2>2, BalancesStay DEF ViewInv
<1> QED
  BY <1>1, <1>2, <1>3, <1>4, <1>5 DEF View!OverviewNext, View!Services

\* getUserMainnetSpotBalance, assertSufficientUserSpotBalance: withdrawals and conversions that look
\* at different balances do not together spend more than was credited, as long as no more
\* was withdrawn on test networks than came in there.
THEOREM OnlyOwnIsSpentAlways ==
  ASSUME View!OverviewAssumption PROVE View!OverviewSpec => []View!OnlyOwnIsSpent
<1>1. ViewInv => View!OnlyOwnIsSpent
  <2> SUFFICES ASSUME ViewInv, spent.test <= View!Credited("test") PROVE View!Full >= 0 /\ View!Mainnet <= View!Full
    BY DEF View!OnlyOwnIsSpent
  <2>t. ViewTypes /\ NotOverdrawn /\ IsFiniteSet(Deposits)
    BY SameFinite DEF ViewInv, View!OverviewAssumption
  <2>1. PICK full \in Int, main \in Int, tin \in Nat : full = View!Full /\ main = MainOnly /\ tin = View!Credited("test")
    BY <2>t, Balances
  <2>2. PICK came \in Int : came = View!Credited("main") + View!Gained
    BY <2>t, Balances DEF View!Gained, View!Kinds
  <2>3. spent.test \in Nat /\ main = full - (tin - spent.test)
    BY <2>t, <2>1, Balances DEF MainOnly, View!Kinds
  <2>4. View!Mainnet = IF main >= 0 THEN main
                       ELSE IF (IF came > full THEN full ELSE came) < 0 THEN 0 ELSE IF came > full THEN full ELSE came
    BY <2>1, <2>2, <2>3 DEF View!Mainnet, View!MainnetPart, View!TestWithdrawn
  <2> QED
    BY <2>t, <2>1, <2>2, <2>3, <2>4 DEF NotOverdrawn
<1> QED
  BY <1>1, ViewStart, ViewStep, PTL DEF View!OverviewSpec

\* emitUserUpdate: what an update pushes was read after the update was due.
THEOREM PushesAreCurrentAlways ==
  ASSUME View!OverviewAssumption PROVE View!OverviewSpec => []View!PushesAreCurrent
<1>1. ViewInv => View!PushesAreCurrent
  BY DEF ViewInv, ReadingsOk, View!PushesAreCurrent
<1> QED
  BY <1>1, ViewStart, ViewStep, PTL DEF View!OverviewSpec

===============================================================================
