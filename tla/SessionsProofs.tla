--------------------------- MODULE SessionsProofs ---------------------------
(***************************************************************************)
(* What every run of Sessions preserves, proved for any number of tabs, of *)
(* requests under way, of tokens and of mishaps.                           *)
(*                                                                         *)
(* The argument: a refresh claims a token in the transaction that revokes  *)
(* it and inserts its successor, so a live token has none yet; and a token *)
(* is known to nobody until the one answer that carries it arrives, so the *)
(* cookie never goes back to a token it has left.                          *)
(***************************************************************************)
EXTENDS Sessions, SequenceTheorems, TLAPS

\* The part of the invariant that holds while nothing has gone astray.
Untroubled == OrphanHasNoCookie /\ OneRefreshEach /\ SuccessorIsTheAnswer

Whole == [pc: {"sent", "found", "claimed", "reused", "revoking", "ok", "refused"},
          op: {"login", "refresh", "logout"}, by: Tabs, tab: Tabs \cup {Nobody},
          token: Nat, fresh: Nat, seen: SUBSET Nat]

\* A request that is under way has all its fields.
LEMMA ActiveIsWhole == ASSUME TypeOK, NEW q \in Requests, Active(q) PROVE req[q] \in Whole
BY DEF TypeOK, Request, Idle, Active, Whole

\* A request that has all its fields is one that is under way.
LEMMA WholeIsActive ==
  ASSUME NEW x \in Whole PROVE x \in Request /\ x.pc # "idle"
BY DEF Whole, Request

\* Before anything is sent the invariant holds.
LEMMA InitInductive == Init => Inductive
<1> SUFFICES ASSUME Init PROVE Inductive
  OBVIOUS
<1> USE DEF Init
<1>1. \A q \in Requests : ~Active(q) /\ req[q].pc = "idle"
  BY DEF Active, Idle
<1>2. DOMAIN tokens = {} /\ Len(tokens) = 0
  OBVIOUS
<1>3. TypeOK
  BY <1>1, <1>2, SessionAssumption DEF TypeOK, Request
<1>4. OneSuccessor /\ ReplacedIsRevoked /\ SignOutRevokes
  BY <1>1, <1>2 DEF OneSuccessor, ReplacedIsRevoked, SignOutRevokes
<1>5. RequestsNameTokens /\ AnswerBringsToken
  BY <1>1, <1>2 DEF RequestsNameTokens, AnswerBringsToken
<1>6. OrphanHasNoCookie /\ OneRefreshEach /\ SuccessorIsTheAnswer
  BY <1>1, <1>2 DEF OrphanHasNoCookie, OneRefreshEach, SuccessorIsTheAnswer
<1> QED BY <1>3, <1>4, <1>5, <1>6 DEF Inductive

(***************************************************************************)
(* The server works on a request.                                          *)
(***************************************************************************)
\* Request r goes on to place; who sent it, and what it asks for, stay.
Moved(r, place) ==
  /\ req' \in [Requests -> Request]
  /\ req'[r] \in Whole /\ req'[r].pc = place /\ req'[r].op = req[r].op /\ req'[r].by = req[r].by
  /\ req'[r].tab = req[r].tab /\ req'[r].token = req[r].token
  /\ \A q \in Requests \ {r} : req'[q] = req[q]

\* The rows in ids are revoked; nothing else about the sessions changes.
Revoked(ids) ==
  /\ tokens' \in Seq(Token) /\ Len(tokens') = Len(tokens)
  /\ \A t \in DOMAIN tokens :
       /\ tokens'[t].parent = tokens[t].parent /\ tokens'[t].tab = tokens[t].tab
       /\ (tokens'[t].revoked <=> tokens[t].revoked \/ t \in ids)

Becomes(r, y) == req' = [req EXCEPT ![r] = y]
Places == {"sent", "found", "claimed", "reused", "revoking", "ok", "refused"}
AdvanceWithToken(r, fresh) == req' = [req EXCEPT ![r].pc = "ok", ![r].fresh = fresh]
AdvanceWithSeen(r, place, seen) == req' = [req EXCEPT ![r].pc = place, ![r].seen = seen]

\* The fields of a request that goes on.
LEMMA RequestGoesOn ==
  ASSUME TypeOK, NEW r \in Requests, NEW y \in Whole,
         y.op = req[r].op /\ y.by = req[r].by /\ y.tab = req[r].tab /\ y.token = req[r].token,
         Becomes(r, y)
  PROVE  Moved(r, y.pc) /\ req'[r] = y
BY WholeIsActive DEF TypeOK, Moved, Becomes

\* As it was,
LEMMA AdvanceMoves ==
  ASSUME TypeOK, NEW r \in Requests, Active(r), NEW place \in Places, Advance(r, place)
  PROVE  Moved(r, place) /\ req'[r].fresh = req[r].fresh /\ req'[r].seen = req[r].seen
<1>1. req[r] \in Whole
  BY ActiveIsWhole
<1>2. PICK y \in Whole :
        /\ Becomes(r, y)
        /\ y.pc = place /\ y.op = req[r].op /\ y.by = req[r].by /\ y.tab = req[r].tab
        /\ y.token = req[r].token /\ y.fresh = req[r].fresh /\ y.seen = req[r].seen
  <2>1. PICK x \in Whole : x = req[r]
    BY <1>1
  <2>2. PICK y : y = [x EXCEPT !.pc = place]
    OBVIOUS
  <2>3. /\ y \in Whole /\ y.pc = place /\ y.op = x.op /\ y.by = x.by /\ y.tab = x.tab
        /\ y.token = x.token /\ y.fresh = x.fresh /\ y.seen = x.seen
    BY <2>2 DEF Whole, Places
  <2>4. Becomes(r, y)
    BY <2>1, <2>2 DEF Advance, Becomes, TypeOK
  <2> QED BY <2>1, <2>3, <2>4
<1>3. Moved(r, y.pc) /\ req'[r] = y
  BY <1>2, RequestGoesOn
<1> QED BY <1>2, <1>3

\* with the token it has obtained,
LEMMA TokenMoves ==
  ASSUME TypeOK, NEW r \in Requests, Active(r), NEW fresh \in Nat, AdvanceWithToken(r, fresh)
  PROVE  Moved(r, "ok") /\ req'[r].fresh = fresh /\ req'[r].seen = req[r].seen
<1>1. req[r] \in Whole
  BY ActiveIsWhole
<1>2. PICK y \in Whole :
        /\ Becomes(r, y)
        /\ y.pc = "ok" /\ y.op = req[r].op /\ y.by = req[r].by /\ y.tab = req[r].tab
        /\ y.token = req[r].token /\ y.fresh = fresh /\ y.seen = req[r].seen
  <2>1. PICK x \in Whole : x = req[r]
    BY <1>1
  <2>2. PICK y : y = [x EXCEPT !.pc = "ok", !.fresh = fresh]
    OBVIOUS
  <2>3. /\ y \in Whole /\ y.pc = "ok" /\ y.op = x.op /\ y.by = x.by /\ y.tab = x.tab
        /\ y.token = x.token /\ y.fresh = fresh /\ y.seen = x.seen
    BY <2>2 DEF Whole, Places
  <2>4. Becomes(r, y)
    BY <2>1, <2>2 DEF AdvanceWithToken, Becomes, TypeOK
  <2> QED BY <2>1, <2>3, <2>4
<1>3. Moved(r, y.pc) /\ req'[r] = y
  BY <1>2, RequestGoesOn
<1> QED BY <1>2, <1>3

\* or with what its statement has seen.
LEMMA SeenMoves ==
  ASSUME TypeOK, NEW r \in Requests, Active(r), NEW place \in Places,
         NEW seen \in SUBSET Nat, AdvanceWithSeen(r, place, seen)
  PROVE  Moved(r, place) /\ req'[r].fresh = req[r].fresh /\ req'[r].seen = seen
<1>1. req[r] \in Whole
  BY ActiveIsWhole
<1>2. PICK y \in Whole :
        /\ Becomes(r, y)
        /\ y.pc = place /\ y.op = req[r].op /\ y.by = req[r].by /\ y.tab = req[r].tab
        /\ y.token = req[r].token /\ y.fresh = req[r].fresh /\ y.seen = seen
  <2>1. PICK x \in Whole : x = req[r]
    BY <1>1
  <2>2. PICK y : y = [x EXCEPT !.pc = place, !.seen = seen]
    OBVIOUS
  <2>3. /\ y \in Whole /\ y.pc = place /\ y.op = x.op /\ y.by = x.by /\ y.tab = x.tab
        /\ y.token = x.token /\ y.fresh = x.fresh /\ y.seen = seen
    BY <2>2 DEF Whole, Places
  <2>4. Becomes(r, y)
    BY <2>1, <2>2 DEF AdvanceWithSeen, Becomes, TypeOK
  <2> QED BY <2>1, <2>3, <2>4
<1>3. Moved(r, y.pc) /\ req'[r] = y
  BY <1>2, RequestGoesOn
<1> QED BY <1>2, <1>3

\* Revoke keeps the table and its rows, but for their revoked.
LEMMA RevokeTable ==
  ASSUME TypeOK, NEW ids, NEW table, table = Revoke(tokens, ids)
  PROVE  /\ table \in Seq(Token) /\ Len(table) = Len(tokens)
         /\ \A t \in DOMAIN tokens :
              /\ table[t].parent = tokens[t].parent /\ table[t].tab = tokens[t].tab
              /\ (table[t].revoked <=> tokens[t].revoked \/ t \in ids)
<1>1. tokens \in Seq(Token) /\ DOMAIN tokens = 1..Len(tokens) /\ Len(tokens) \in Nat
  BY DEF TypeOK
<1>2. \A t \in DOMAIN tokens : tokens[t] \in Token
  BY <1>1
<1>3. \A t \in DOMAIN tokens :
        table[t] = IF t \in ids THEN [tokens[t] EXCEPT !.revoked = TRUE] ELSE tokens[t]
  BY DEF Revoke
<1>4. \A t \in DOMAIN tokens :
        /\ table[t] \in Token
        /\ table[t].parent = tokens[t].parent /\ table[t].tab = tokens[t].tab
        /\ (table[t].revoked <=> tokens[t].revoked \/ t \in ids)
  <2> TAKE t \in DOMAIN tokens
  <2>1. CASE t \in ids
    BY <1>2, <1>3, <2>1 DEF Token
  <2>2. CASE t \notin ids
    BY <1>2, <1>3, <2>2
  <2> QED BY <2>1, <2>2
<1>5. table \in [1..Len(tokens) -> Token]
  BY <1>1, <1>4 DEF Revoke
<1>6. table \in Seq(Token) /\ Len(table) = Len(tokens)
  BY <1>1, <1>5, SeqDef
<1> QED BY <1>4, <1>6

\* Revoking tokens leaves them revoked.
LEMMA RevokeRevokes ==
  ASSUME TypeOK, NEW ids, tokens' = Revoke(tokens, ids)
  PROVE  Revoked(ids)
BY RevokeTable DEF Revoked

\* The server decides about a request, and revokes the sessions in ids: what held of
\* the sessions before holds after, for a revoked session stays revoked.
LEMMA ServerDecides ==
  ASSUME Inductive, NEW r \in Requests, NEW place, NEW ids,
         req[r].pc \notin {"idle", "claimed", "ok"}, place # "idle",
         Moved(r, place), Revoked(ids), UNCHANGED browser,
         req'[r].fresh = req[r].fresh, req'[r].seen \subseteq DOMAIN tokens,
         place \in {"claimed", "reused", "revoking"} => req[r].op = "refresh" /\ req[r].token # 0,
         place = "claimed" => req[r].token \in Live /\ ids = {} /\ ~Locked(req[r].token),
         \A t \in ids : ~Locked(t),
         place = "ok" /\ req[r].op = "logout" => req[r].token \notin Live \/ req[r].token \in ids
  PROVE  Inductive'
<1> USE DEF Inductive
<1>0. /\ DOMAIN tokens = 1..Len(tokens) /\ Len(tokens) \in Nat
      /\ DOMAIN tokens' = DOMAIN tokens /\ Len(tokens') = Len(tokens)
      /\ \A t \in DOMAIN tokens : tokens[t] \in Token
  BY DEF TypeOK, Revoked
<1>1. /\ req'[r].pc = place /\ Active(r) /\ Active(r)'
      /\ \A q \in Requests \ {r} : req'[q] = req[q]
      /\ \A q \in Requests : /\ Active(q)' <=> Active(q)
                             /\ req'[q].op = req[q].op /\ req'[q].by = req[q].by /\ req'[q].tab = req[q].tab
                             /\ req'[q].token = req[q].token /\ req'[q].fresh = req[q].fresh
  BY DEF Moved, Active
<1>2. Live' = Live \ ids
  BY <1>0 DEF Live, Revoked
<1>3. \A q \in Requests : req'[q].pc = "claimed" => req'[q].token \in Live'
  BY <1>1, <1>2 DEF TypeOK, Locked
<1>4. \A p, q \in Requests :
        req'[p].pc = "claimed" /\ req'[q].pc = "claimed" /\ req'[p].token = req'[q].token => p = q
  BY <1>1 DEF TypeOK, Locked
<1>5. TypeOK'
  BY <1>0, <1>3, <1>4 DEF TypeOK, browser, Moved, Revoked
<1>6. OneSuccessor' /\ ReplacedIsRevoked'
  BY <1>0 DEF OneSuccessor, ReplacedIsRevoked, Revoked, RequestsNameTokens, Token
<1>7. SignOutRevokes'
  BY <1>1, <1>2 DEF SignOutRevokes
<1>8. RequestsNameTokens'
  BY <1>0, <1>1 DEF RequestsNameTokens, Revoked
<1>9. req[r].fresh = 0
  BY <1>1 DEF AnswerBringsToken
<1>10. AnswerBringsToken'
  BY <1>0, <1>1, <1>9 DEF AnswerBringsToken, Revoked, browser
<1>11. mishaps' = 0 => OrphanHasNoCookie' /\ OneRefreshEach'
  BY <1>0, <1>1 DEF OrphanHasNoCookie, OneRefreshEach, Refreshes, browser
<1>12. mishaps' = 0 => SuccessorIsTheAnswer'
  BY <1>0, <1>1 DEF SuccessorIsTheAnswer, Refreshes, Revoked, browser
<1> QED BY <1>5, <1>6, <1>7, <1>8, <1>10, <1>11, <1>12

\* The steps of the server that insert no token.
LEMMA ServeInductive ==
  ASSUME Inductive, NEW r \in Requests,
         Claim(r) \/ BeginRevokeAll(r) \/ RevokeAll(r) \/ FindSession(r) \/ RevokeSession(r)
  PROVE  Inductive'
<1>0. TypeOK /\ RequestsNameTokens
  BY DEF Inductive
<1>1. /\ req[r].pc \in {"sent", "found", "reused", "revoking"} /\ Active(r) /\ UNCHANGED browser
  BY DEF Claim, BeginRevokeAll, RevokeAll, FindSession, RevokeSession, Serving, browser, Active
<1>2. /\ req[r].fresh \in Nat /\ req[r].seen \in SUBSET Nat /\ req[r].seen \subseteq DOMAIN tokens
      /\ req[r].token \in 0..Len(tokens) /\ DOMAIN tokens = 1..Len(tokens)
  BY <1>0, <1>1, ActiveIsWhole DEF Whole, RequestsNameTokens, TypeOK
<1>3. tokens' = tokens => Revoked({})
  BY <1>0 DEF Revoked, TypeOK
<1> USE DEF Serving
<1>4. CASE Claim(r)
  <2>1. PICK place \in {"refused", "claimed", "reused"} :
          /\ Advance(r, place)
          /\ place # "refused" => req[r].token # 0
          /\ place = "claimed" => req[r].token \in Live /\ ~Locked(req[r].token)
    BY <1>4 DEF Claim, Presentable
  <2>2. Moved(r, place) /\ req'[r].fresh = req[r].fresh /\ req'[r].seen = req[r].seen
    BY <1>0, <1>1, <2>1, AdvanceMoves DEF Places
  <2>3. req[r].op = "refresh" /\ tokens' = tokens
    BY <1>4 DEF Claim
  <2> QED BY <1>1, <1>2, <1>3, <2>1, <2>2, <2>3, ServerDecides
<1>5. CASE BeginRevokeAll(r)
  <2>1. Live \in SUBSET Nat /\ Live \subseteq DOMAIN tokens
    BY <1>2 DEF Live
  <2>2. Moved(r, "revoking") /\ req'[r].fresh = req[r].fresh /\ req'[r].seen = Live
    BY <1>0, <1>1, <1>5, <2>1, SeenMoves DEF BeginRevokeAll, AdvanceWithSeen, Places
  <2>3. req[r].op = "refresh" /\ tokens' = tokens /\ req[r].token # 0
    BY <1>0, <1>1, <1>5 DEF BeginRevokeAll, RequestsNameTokens
  <2> QED BY <1>1, <1>3, <2>1, <2>2, <2>3, ServerDecides
<1>6. CASE RevokeAll(r)
  <2>1. Moved(r, "refused") /\ req'[r].fresh = req[r].fresh /\ req'[r].seen = {}
    BY <1>0, <1>1, <1>6, SeenMoves DEF RevokeAll, AdvanceWithSeen, Places
  <2>2. Revoked(req[r].seen)
    BY <1>0, <1>6, RevokeRevokes DEF RevokeAll
  <2>3. \A t \in req[r].seen : ~Locked(t)
    BY <1>6 DEF RevokeAll
  <2> QED BY <1>1, <2>1, <2>2, <2>3, ServerDecides
<1>7. CASE FindSession(r)
  <2>1. PICK place \in {"found", "ok"} : Advance(r, place) /\ (place = "ok" => req[r].token \notin Live)
    BY <1>7 DEF FindSession
  <2>2. Moved(r, place) /\ req'[r].fresh = req[r].fresh /\ req'[r].seen = req[r].seen
    BY <1>0, <1>1, <2>1, AdvanceMoves DEF Places
  <2>3. tokens' = tokens
    BY <1>7 DEF FindSession
  <2> QED BY <1>1, <1>2, <1>3, <2>1, <2>2, <2>3, ServerDecides
<1>8. CASE RevokeSession(r)
  <2>1. Moved(r, "ok") /\ req'[r].fresh = req[r].fresh /\ req'[r].seen = req[r].seen
    BY <1>0, <1>1, <1>8, AdvanceMoves DEF RevokeSession, Places
  <2>2. Revoked({req[r].token})
    BY <1>0, <1>8, RevokeRevokes DEF RevokeSession
  <2>3. ~Locked(req[r].token)
    BY <1>8 DEF RevokeSession
  <2> QED BY <1>1, <1>2, <2>1, <2>2, <2>3, ServerDecides
<1> QED BY <1>4, <1>5, <1>6, <1>7, <1>8

\* A new token: its parent has none yet, being live, and nobody names it.
LEMMA IssueInductive ==
  ASSUME Inductive, NEW r \in Requests, Login(r) \/ Issue(r)
  PROVE  Inductive'
<1> USE DEF Inductive
<1>1. PICK ids, parent :
        /\ tokens' = Append(Revoke(tokens, ids), Issued(parent, req[r].by))
        /\ req' = [req EXCEPT ![r].pc = "ok", ![r].fresh = Len(tokens) + 1]
        /\ UNCHANGED browser
        /\ \/ req[r].pc = "sent" /\ req[r].op = "login" /\ ids = {} /\ parent = 0
           \/ req[r].pc = "claimed" /\ req[r].op = "refresh" /\ ids = {parent} /\ parent = req[r].token
  <2>1. Revoke(tokens, {}) = tokens
    BY DEF Revoke, TypeOK
  <2>2. CASE Login(r)
    BY <2>1, <2>2 DEF Login, Serving, browser
  <2>3. CASE Issue(r)
    BY <2>3 DEF Issue, Serving, browser
  <2> QED BY <2>2, <2>3
<1> DEFINE new == Len(tokens) + 1
<1>2. /\ DOMAIN tokens = 1..Len(tokens) /\ Len(tokens) \in Nat /\ new \notin DOMAIN tokens
      /\ Active(r) /\ req[r] \in Whole
      /\ \A t \in DOMAIN tokens : tokens[t] \in Token
  BY <1>1, ActiveIsWhole DEF Active, TypeOK
<1>3. req[r].fresh = 0 /\ \A q \in Requests : Active(q) => req[q].token # new /\ req[q].fresh # new
  BY <1>1, <1>2 DEF AnswerBringsToken, RequestsNameTokens
<1>4. Moved(r, "ok") /\ req'[r].fresh = new /\ req'[r].seen = req[r].seen
  <2>1. AdvanceWithToken(r, new) /\ new \in Nat
    BY <1>1, <1>2 DEF AdvanceWithToken
  <2> HIDE DEF new
  <2> QED BY <1>2, <2>1, TokenMoves
<1>5. /\ tokens' \in Seq(Token) /\ Len(tokens') = new /\ DOMAIN tokens' = DOMAIN tokens \cup {new}
      /\ tokens'[new].parent = parent /\ tokens'[new].tab = req[r].by /\ ~tokens'[new].revoked
      /\ \A t \in DOMAIN tokens :
           /\ tokens'[t].parent = tokens[t].parent /\ tokens'[t].tab = tokens[t].tab
           /\ (tokens'[t].revoked <=> tokens[t].revoked \/ t \in ids)
  <2>1. PICK table : tokens' = Append(table, Issued(parent, req[r].by)) /\ table = Revoke(tokens, ids)
    BY <1>1
  <2>2. /\ table \in Seq(Token) /\ Len(table) = Len(tokens)
        /\ \A t \in DOMAIN tokens :
             /\ table[t].parent = tokens[t].parent /\ table[t].tab = tokens[t].tab
             /\ (table[t].revoked <=> tokens[t].revoked \/ t \in ids)
    BY <2>1, RevokeTable
  <2>3. PICK x : x = Issued(parent, req[r].by)
    OBVIOUS
  <2>4. x \in Token /\ x.parent = parent /\ x.tab = req[r].by /\ ~x.revoked
    BY <1>1, <1>2, <2>3 DEF Issued, Token, Whole
  <2>5. tokens' = Append(table, x)
    BY <2>1, <2>3
  <2>6. /\ tokens' \in Seq(Token) /\ Len(tokens') = new /\ tokens'[new] = x
        /\ \A t \in DOMAIN tokens : tokens'[t] = table[t]
    BY <1>2, <2>2, <2>4, <2>5
  <2>7. DOMAIN tokens' = 1..new
    BY <2>6
  <2> QED BY <1>2, <2>2, <2>4, <2>6, <2>7
<1> HIDE DEF new

<1>6. \A t \in DOMAIN tokens : t # new /\ t < new /\ tokens[t].parent # new /\ tokens[t].parent < t
  BY <1>2 DEF RequestsNameTokens, new, Token
<1>7. /\ req'[r].pc = "ok" /\ Active(r)' /\ parent \in 0..Len(tokens) /\ (parent # 0 => parent \in Live)
      /\ \A q \in Requests \ {r} : req'[q] = req[q]
      /\ \A q \in Requests : /\ Active(q)' <=> Active(q)
                             /\ req'[q].op = req[q].op /\ req'[q].by = req[q].by /\ req'[q].tab = req[q].tab
                             /\ req'[q].token = req[q].token
  BY <1>1, <1>2, <1>4 DEF Moved, Active, RequestsNameTokens, TypeOK
<1>8. Live' = (Live \ ids) \cup {new}
  BY <1>2, <1>5 DEF Live
<1>9. TypeOK'
  <2>1. \A q \in Requests : req'[q].pc = "claimed" => req'[q].token \in Live'
    BY <1>1, <1>7, <1>8 DEF TypeOK
  <2>2. \A p, q \in Requests :
          req'[p].pc = "claimed" /\ req'[q].pc = "claimed" /\ req'[p].token = req'[q].token => p = q
    BY <1>7 DEF TypeOK
  <2>3. cookie' \in 0..Len(tokens')
    BY <1>1, <1>2, <1>5 DEF TypeOK, browser, new
  <2> QED BY <1>1, <1>4, <1>5, <2>1, <2>2, <2>3 DEF TypeOK, Moved, browser
<1>10. \A t \in DOMAIN tokens : parent # 0 => tokens[t].parent # parent
  BY <1>7 DEF ReplacedIsRevoked, Live
<1>11. OneSuccessor'
  BY <1>5, <1>6, <1>10 DEF OneSuccessor
<1>12. ReplacedIsRevoked'
  <2>1. \A t \in DOMAIN tokens' : tokens'[t].parent # 0 => tokens'[t].parent \in DOMAIN tokens
    BY <1>2, <1>5, <1>6, <1>7 DEF Live, Token
  <2> QED BY <1>1, <1>5, <2>1 DEF ReplacedIsRevoked
<1>13. SignOutRevokes'
  <2> SUFFICES ASSUME NEW q \in Requests, req'[q].pc = "ok" /\ req'[q].op = "logout"
               PROVE  req'[q].token \notin Live'
    BY DEF SignOutRevokes
  <2>1. q # r /\ req'[q] = req[q] /\ Active(q)
    BY <1>1, <1>7 DEF Active
  <2>2. req[q].token \notin Live /\ req[q].token # new
    BY <1>3, <2>1 DEF SignOutRevokes
  <2> QED BY <1>8, <2>1, <2>2
<1>14. RequestsNameTokens'
  <2>1. \A t \in DOMAIN tokens' : tokens'[t].parent < t
    BY <1>2, <1>5, <1>6, <1>7 DEF new
  <2>2. 0..Len(tokens) \subseteq 0..Len(tokens')
    BY <1>2, <1>5 DEF new
  <2> QED BY <1>4, <1>5, <1>7, <2>1, <2>2 DEF RequestsNameTokens
<1>15. AnswerBringsToken'
  <2>1. cookie' # new /\ cookie' = cookie
    BY <1>1, <1>2 DEF TypeOK, browser, new
  <2>2. \A t \in DOMAIN tokens' : tokens'[t].parent # new
    BY <1>2, <1>5, <1>6, <1>7 DEF new
  <2>3. \A p \in Requests \ {r} : Active(p) /\ req[p].fresh # 0 => parent # req[p].fresh
    BY <1>1, <1>2 DEF AnswerBringsToken
  <2>4. \A q \in Requests : Active(q) => req'[q].token # new /\ (q # r => req'[q].fresh # new)
    BY <1>3, <1>7
  <2>5. ASSUME NEW p \in Requests \ {r}, Active(p), req[p].fresh # 0
        PROVE  /\ req[p].pc = "ok" /\ req[p].op # "logout"
               /\ req[p].fresh \in DOMAIN tokens' /\ req[p].fresh # cookie'
               /\ \A t \in DOMAIN tokens' : tokens'[t].parent # req[p].fresh
               /\ \A q \in Requests : Active(q)' => req'[q].token # req[p].fresh /\ (q # p => req'[q].fresh # req[p].fresh)
    <3>1. /\ req[p].pc = "ok" /\ req[p].op # "logout"
          /\ req[p].fresh \in DOMAIN tokens /\ req[p].fresh # cookie
          /\ \A t \in DOMAIN tokens : tokens[t].parent # req[p].fresh
          /\ \A q \in Requests : Active(q) => req[q].token # req[p].fresh /\ (q # p => req[q].fresh # req[p].fresh)
      BY <2>5 DEF AnswerBringsToken
    <3>2. \A q \in Requests : Active(q)' => req'[q].token # req[p].fresh /\ (q # p => req'[q].fresh # req[p].fresh)
      BY <1>2, <1>4, <1>7, <3>1
    <3> QED BY <1>5, <2>1, <2>3, <2>5, <3>1, <3>2
  <2>6. ASSUME NEW p \in Requests, Active(p)', req'[p].fresh # 0
        PROVE  /\ req'[p].pc = "ok" /\ req'[p].op # "logout"
               /\ req'[p].fresh \in DOMAIN tokens' /\ req'[p].fresh # cookie'
               /\ \A t \in DOMAIN tokens' : tokens'[t].parent # req'[p].fresh
               /\ \A q \in Requests : Active(q)' => req'[q].token # req'[p].fresh /\ (q # p => req'[q].fresh # req'[p].fresh)
    <3>1. CASE p = r
      <4>1. req[r].op # "logout"
        BY <1>1
      <4> QED BY <1>4, <1>5, <1>7, <2>1, <2>2, <2>4, <3>1, <4>1
    <3>2. CASE p # r
      BY <1>7, <2>5, <2>6, <3>2
    <3> QED BY <3>1, <3>2
  <2> HIDE DEF Inductive
  <2> QED BY <2>6 DEF AnswerBringsToken
<1>16. mishaps' = 0 => Untroubled'
  <2> SUFFICES ASSUME mishaps = 0 PROVE Untroubled'
    BY <1>1 DEF browser
  <2>1. OrphanHasNoCookie'
    BY <1>1, <1>7 DEF OrphanHasNoCookie, browser
  <2>2. OneRefreshEach'
    BY <1>3, <1>5, <1>7 DEF OneRefreshEach, Refreshes
  <2>3. ASSUME NEW t \in DOMAIN tokens, tokens[t].parent # 0
        PROVE  /\ \A q \in Requests : Refreshes(q, tokens[t].parent, tokens[t].tab)' => req'[q].pc = "ok"
               /\ cookie' = tokens[t].parent =>
                    \E q \in Requests : req'[q].pc = "ok" /\ req'[q].op = "refresh" /\ req'[q].tab = tokens[t].tab
    <3>1. /\ \A q \in Requests : Refreshes(q, tokens[t].parent, tokens[t].tab) => req[q].pc = "ok"
          /\ cookie = tokens[t].parent =>
               \E q \in Requests : req[q].pc = "ok" /\ req[q].op = "refresh" /\ req[q].tab = tokens[t].tab
      BY <2>3 DEF SuccessorIsTheAnswer
    <3>2. \A q \in Requests : req[q].pc = "ok" => q # r /\ req'[q] = req[q]
      BY <1>1, <1>7
    <3>3. \A q \in Requests : Refreshes(q, tokens[t].parent, tokens[t].tab)'
                               => Refreshes(q, tokens[t].parent, tokens[t].tab)
      BY <1>5, <1>7 DEF Refreshes
    <3>4. cookie' = cookie
      BY <1>1 DEF browser
    <3> HIDE DEF Inductive
    <3> QED BY <3>1, <3>2, <3>3, <3>4
  <2>4. ASSUME parent # 0
        PROVE  /\ \A q \in Requests : Refreshes(q, parent, req[r].by)' => q = r
               /\ cookie' = parent => req[r].op = "refresh" /\ req[r].tab = req[r].by
    <3>1. parent = req[r].token /\ req[r].op = "refresh" /\ parent \in DOMAIN tokens /\ req[r].by \in Tabs
      BY <1>1, <1>2, <1>7, <2>4 DEF Whole, Live
    <3>2. \A q \in Requests : Refreshes(q, parent, req[r].by)' => q = r
      BY <1>2, <1>7, <3>1 DEF OneRefreshEach, Refreshes
    <3>3. cookie = parent => req[r].tab = req[r].by
      BY <1>2, <2>4, <3>1 DEF OrphanHasNoCookie, RequestsNameTokens
    <3> QED BY <1>1, <3>1, <3>2, <3>3 DEF browser
  <2>5. SuccessorIsTheAnswer'
    BY <1>5, <1>7, <2>3, <2>4 DEF SuccessorIsTheAnswer, Refreshes, Active
  <2> QED BY <2>1, <2>2, <2>5 DEF Untroubled
<1> QED BY <1>9, <1>11, <1>12, <1>13, <1>14, <1>15, <1>16 DEF Untroubled

\* A token that expires is the same session.
LEMMA ExpireInductive ==
  ASSUME Inductive, NEW s \in DOMAIN tokens, Expire(s)
  PROVE  Inductive'
<1> USE DEF Inductive
<1>1. UNCHANGED <<req, cookie, mode, mishaps>> /\ \A q \in Requests : Active(q)' <=> Active(q)
  BY DEF Expire, browser, Active
<1>2. Revoked({})
  <2>1. tokens \in [1..Len(tokens) -> Token] /\ Len(tokens) \in Nat /\ DOMAIN tokens = 1..Len(tokens)
    BY DEF TypeOK
  <2>2. PICK x \in Token : x = tokens[s]
    BY <2>1
  <2>3. PICK y \in Token : /\ tokens' = [tokens EXCEPT ![s] = y]
                           /\ y.parent = x.parent /\ y.tab = x.tab /\ (y.revoked <=> x.revoked)
    <3>1. PICK y : y = [x EXCEPT !.expired = TRUE]
      OBVIOUS
    <3>2. y \in Token /\ y.parent = x.parent /\ y.tab = x.tab /\ (y.revoked <=> x.revoked)
      BY <3>1 DEF Token
    <3>3. tokens' = [tokens EXCEPT ![s] = y]
      BY <2>1, <2>2, <3>1 DEF Expire
    <3> QED BY <3>2, <3>3
  <2>5. tokens' \in [1..Len(tokens) -> Token]
    BY <2>1, <2>3
  <2>6. tokens' \in Seq(Token) /\ Len(tokens') = Len(tokens)
    BY <2>1, <2>5, SeqDef
  <2>7. tokens'[s] = y /\ \A t \in DOMAIN tokens \ {s} : tokens'[t] = tokens[t]
    BY <2>1, <2>3
  <2> QED BY <2>1, <2>2, <2>3, <2>6, <2>7 DEF Revoked
<1>3. /\ DOMAIN tokens = 1..Len(tokens) /\ DOMAIN tokens' = DOMAIN tokens /\ Len(tokens') = Len(tokens)
      /\ Live' = Live
  BY <1>2 DEF TypeOK, Revoked, Live
<1>4. TypeOK'
  BY <1>1, <1>2, <1>3 DEF TypeOK, Revoked
<1>5. OneSuccessor' /\ SignOutRevokes'
  BY <1>1, <1>2, <1>3 DEF OneSuccessor, SignOutRevokes, Revoked
<1>6. ReplacedIsRevoked'
  <2>1. \A t \in DOMAIN tokens : tokens[t].parent # 0 => tokens[t].parent \in DOMAIN tokens
    <3>1. \A t \in 1..Len(tokens) : tokens[t] \in Token
      BY DEF TypeOK
    <3>2. \A t \in 1..Len(tokens) : tokens[t].parent \in Nat /\ tokens[t].parent < t
      BY <1>3, <3>1 DEF RequestsNameTokens, Token
    <3>3. Len(tokens) \in Nat
      BY DEF TypeOK
    <3> HIDE DEF Inductive
    <3> QED BY <1>3, <3>2, <3>3
  <2> QED BY <1>2, <1>3, <2>1 DEF ReplacedIsRevoked, Revoked
<1>7. RequestsNameTokens' /\ AnswerBringsToken'
  BY <1>1, <1>2, <1>3 DEF RequestsNameTokens, AnswerBringsToken, Revoked
<1>8. mishaps' = 0 => Untroubled'
  <2> SUFFICES ASSUME mishaps = 0 PROVE Untroubled'
    BY <1>1
  <2>1. OrphanHasNoCookie' /\ OneRefreshEach'
    BY <1>1, <1>3 DEF OrphanHasNoCookie, OneRefreshEach, Refreshes
  <2>2. SuccessorIsTheAnswer'
    BY <1>1, <1>2, <1>3 DEF SuccessorIsTheAnswer, Refreshes, Revoked
  <2> QED BY <2>1, <2>2 DEF Untroubled
<1> QED BY <1>4, <1>5, <1>6, <1>7, <1>8 DEF Untroubled

\* A request is sent: it takes the cookie, which is no token that is still on its way;
\* and no refresh with this token has this page as its sender.
LEMMA SendInductive ==
  ASSUME Inductive, NEW r \in Requests, NEW tab \in Tabs, NEW op \in {"login", "refresh", "logout"},
         Send(r, tab, op), op = "refresh" => ~UnderWay(tab, "refresh")
  PROVE  Inductive'
<1> USE DEF Inductive
<1>1. PICK x : /\ req' = [req EXCEPT ![r] = x]
               /\ x = [pc |-> "sent", op |-> op, by |-> tab, tab |-> tab,
                       token |-> cookie, fresh |-> 0, seen |-> {}]
  BY DEF Send
<1>2. cookie \in 0..Len(tokens) /\ cookie \in Nat /\ Len(tokens) \in Nat /\ DOMAIN tokens = 1..Len(tokens)
  BY DEF TypeOK
<1>3. /\ x \in Whole /\ x.pc = "sent" /\ x.op = op /\ x.by = tab /\ x.tab = tab
      /\ x.token = cookie /\ x.fresh = 0 /\ x.seen = {}
  BY <1>1, <1>2 DEF Whole
<1>4. req'[r] = x /\ \A q \in Requests \ {r} : req'[q] = req[q] /\ (Active(q)' <=> Active(q))
  BY <1>1 DEF TypeOK, Active
<1>5. UNCHANGED <<tokens, cookie, mode, mishaps>> /\ ~Active(r) /\ Active(r)' /\ Live' = Live
  BY <1>3, <1>4 DEF Send, browser, Active, Live
<1>6. TypeOK'
  <2>1. req' \in [Requests -> Request]
    BY <1>1, <1>3, WholeIsActive DEF TypeOK
  <2> QED BY <1>3, <1>4, <1>5, <2>1 DEF TypeOK
<1>7. OneSuccessor' /\ ReplacedIsRevoked'
  BY <1>5 DEF OneSuccessor, ReplacedIsRevoked
<1>8. SignOutRevokes'
  BY <1>3, <1>4, <1>5 DEF SignOutRevokes
<1>9. RequestsNameTokens'
  BY <1>2, <1>3, <1>4, <1>5 DEF RequestsNameTokens
<1>10. AnswerBringsToken'
  <2> SUFFICES ASSUME NEW p \in Requests, Active(p)', req'[p].fresh # 0
               PROVE  /\ req'[p].pc = "ok" /\ req'[p].op # "logout"
                      /\ req'[p].fresh \in DOMAIN tokens' /\ req'[p].fresh # cookie'
                      /\ \A t \in DOMAIN tokens' : tokens'[t].parent # req'[p].fresh
                      /\ \A q \in Requests : Active(q)' => req'[q].token # req'[p].fresh
                                                           /\ (q # p => req'[q].fresh # req'[p].fresh)
    BY DEF AnswerBringsToken
  <2>1. p # r /\ Active(p) /\ req'[p] = req[p]
    BY <1>3, <1>4
  <2>2. \A q \in Requests : Active(q)' => req'[q].token # req[p].fresh /\ (q # p => req'[q].fresh # req[p].fresh)
    BY <1>3, <1>4, <2>1 DEF AnswerBringsToken
  <2> QED BY <1>5, <2>1, <2>2 DEF AnswerBringsToken
<1>11. mishaps' = 0 => Untroubled'
  <2> SUFFICES ASSUME mishaps = 0 PROVE Untroubled'
    BY <1>5
  <2>1. OrphanHasNoCookie'
    BY <1>3, <1>4, <1>5, SessionAssumption DEF OrphanHasNoCookie
  <2>2. \A q \in Requests \ {r} : op = "refresh" => ~Refreshes(q, cookie, tab) \/ cookie = 0
    BY DEF UnderWay, OrphanHasNoCookie, RequestsNameTokens, Refreshes, Active
  <2>3. \A q \in Requests \ {r} : \A b, k : Refreshes(q, k, b)' <=> Refreshes(q, k, b)
    BY <1>4 DEF Refreshes
  <2>4. \A b, k : Refreshes(r, k, b)' => b = tab /\ k = cookie /\ op = "refresh"
    BY <1>3, <1>4 DEF Refreshes
  <2>5. OneRefreshEach'
    BY <1>2, <1>5, <2>2, <2>3, <2>4 DEF OneRefreshEach
  <2>6. SuccessorIsTheAnswer'
    <3> SUFFICES ASSUME NEW t \in DOMAIN tokens, tokens[t].parent # 0
                 PROVE  /\ \A q \in Requests : Refreshes(q, tokens[t].parent, tokens[t].tab)' => req'[q].pc = "ok"
                        /\ cookie = tokens[t].parent =>
                             \E q \in Requests : req'[q].pc = "ok" /\ req'[q].op = "refresh" /\ req'[q].tab = tokens[t].tab
      BY <1>5 DEF SuccessorIsTheAnswer, Refreshes
    <3>1. /\ \A q \in Requests : Refreshes(q, tokens[t].parent, tokens[t].tab) => req[q].pc = "ok"
          /\ cookie = tokens[t].parent =>
               \E q \in Requests : req[q].pc = "ok" /\ req[q].op = "refresh" /\ req[q].tab = tokens[t].tab
      BY DEF SuccessorIsTheAnswer
    <3>2. \A q \in Requests : req[q].pc = "ok" => q # r
      BY <1>5 DEF Active
    <3>3. op = "refresh" => ~(cookie = tokens[t].parent /\ tab = tokens[t].tab)
      BY <3>1 DEF UnderWay
    <3>4. \A q \in Requests : Refreshes(q, tokens[t].parent, tokens[t].tab)' => req'[q].pc = "ok"
      <4> SUFFICES ASSUME NEW q \in Requests, Refreshes(q, tokens[t].parent, tokens[t].tab)'
                   PROVE  req'[q].pc = "ok"
        OBVIOUS
      <4>1. q # r
        BY <1>5, <2>4, <3>3 DEF Refreshes
      <4> QED BY <1>4, <1>5, <3>1, <4>1 DEF Refreshes
    <3> QED BY <1>4, <3>1, <3>2, <3>4
  <2> QED BY <2>1, <2>5, <2>6 DEF Untroubled
<1> QED BY <1>6, <1>7, <1>8, <1>9, <1>10, <1>11 DEF Untroubled

(***************************************************************************)
(* The browser receives.                                                   *)
(***************************************************************************)
\* A request that is still under way is as it was, but may have lost its page.
Remains(q) ==
  Active(q)' =>
    /\ Active(q)
    /\ req'[q].pc = req[q].pc /\ req'[q].op = req[q].op /\ req'[q].by = req[q].by
    /\ req'[q].token = req[q].token /\ req'[q].fresh = req[q].fresh /\ req'[q].seen = req[q].seen
    /\ req'[q].tab \in {req[q].tab, Nobody}

\* An answer arrives, or does not: the server is not concerned.
LEMMA BrowserReceives ==
  ASSUME Inductive, tokens' = tokens,
         req' \in [Requests -> Request], \A q \in Requests : Remains(q),
         cookie' \in 0..Len(tokens), mode' \in [Tabs -> {"booting", "in", "out", "unreachable"}],
         mishaps' \in 0..MaxMishaps,
         \A p \in Requests : Active(p)' => req[p].fresh = 0 \/ req[p].fresh # cookie',
         mishaps' = 0 => Untroubled'
  PROVE  Inductive'
<1> USE DEF Inductive
<1>1. Live' = Live /\ \A q \in Requests : req'[q].pc # "idle" => Active(q)'
  BY DEF Live, Active
<1>2. TypeOK'
  BY <1>1 DEF TypeOK, Remains
<1>3. OneSuccessor' /\ ReplacedIsRevoked'
  BY DEF OneSuccessor, ReplacedIsRevoked
<1>4. SignOutRevokes'
  BY <1>1 DEF SignOutRevokes, Remains
<1>5. RequestsNameTokens'
  BY DEF RequestsNameTokens, Remains
<1>6. AnswerBringsToken'
  BY DEF AnswerBringsToken, Remains
<1> QED BY <1>2, <1>3, <1>4, <1>5, <1>6 DEF Untroubled

\* Without a mishap: either the cookie is gone, or the pages are all there; then it is
\* as it was, and the answers to refreshes are still to come, or is a new token.
LEMMA StaysUntroubled ==
  ASSUME Inductive, mishaps = 0, tokens' = tokens, \A q \in Requests : Remains(q),
         \/ cookie' = 0
         \/ /\ \A q \in Requests : Active(q)' => req'[q] = req[q]
            /\ \/ \E r \in Requests : Active(r) /\ cookie' = req[r].fresh
               \/ /\ cookie' = cookie
                  /\ \A q \in Requests : req[q].pc = "ok" /\ req[q].tab # Nobody => req'[q] = req[q]
  PROVE  Untroubled'
<1>1. /\ OrphanHasNoCookie /\ OneRefreshEach /\ SuccessorIsTheAnswer
      /\ AnswerBringsToken /\ TypeOK
  BY DEF Inductive
<1>2. \A q \in Requests : \A k, b : Refreshes(q, k, b)' => Refreshes(q, k, b) /\ req'[q].pc = req[q].pc
  BY DEF Remains, Refreshes
<1>3. OneRefreshEach'
  BY <1>1, <1>2 DEF OneRefreshEach
<1>4. CASE cookie' = 0
  <2>1. OrphanHasNoCookie'
    BY <1>4 DEF OrphanHasNoCookie
  <2>2. SuccessorIsTheAnswer'
    BY <1>1, <1>2, <1>4 DEF SuccessorIsTheAnswer
  <2> QED BY <1>3, <2>1, <2>2 DEF Untroubled
<1>5. ASSUME \A q \in Requests : Active(q)' => req'[q] = req[q],
             NEW r \in Requests, Active(r), cookie' = req[r].fresh, cookie' # 0
      PROVE  Untroubled'
  <2>1. /\ \A t \in DOMAIN tokens : tokens[t].parent # cookie'
        /\ \A q \in Requests : Active(q) => req[q].token # cookie'
    BY <1>1, <1>5 DEF AnswerBringsToken
  <2>2. OrphanHasNoCookie'
    BY <2>1 DEF OrphanHasNoCookie, Remains
  <2>3. SuccessorIsTheAnswer'
    BY <1>1, <1>2, <2>1 DEF SuccessorIsTheAnswer
  <2> QED BY <1>3, <2>2, <2>3 DEF Untroubled
<1>6. ASSUME \A q \in Requests : Active(q)' => req'[q] = req[q], cookie' = cookie,
             \A q \in Requests : req[q].pc = "ok" /\ req[q].tab # Nobody => req'[q] = req[q]
      PROVE  Untroubled'
  <2>1. OrphanHasNoCookie'
    BY <1>1, <1>6 DEF OrphanHasNoCookie, Remains
  <2>2. \A t \in DOMAIN tokens : tokens[t].tab # Nobody
    <3>1. \A t \in DOMAIN tokens : tokens[t] \in Token
      BY <1>1 DEF TypeOK
    <3> QED BY <3>1, SessionAssumption DEF Token
  <2>3. SuccessorIsTheAnswer'
    <3> SUFFICES ASSUME NEW t \in DOMAIN tokens, tokens[t].parent # 0
                 PROVE  /\ \A q \in Requests : Refreshes(q, tokens[t].parent, tokens[t].tab)' => req'[q].pc = "ok"
                        /\ cookie = tokens[t].parent =>
                             \E q \in Requests : req'[q].pc = "ok" /\ req'[q].op = "refresh" /\ req'[q].tab = tokens[t].tab
      BY <1>6 DEF SuccessorIsTheAnswer
    <3>1. /\ \A q \in Requests : Refreshes(q, tokens[t].parent, tokens[t].tab) => req[q].pc = "ok"
          /\ cookie = tokens[t].parent =>
               \E q \in Requests : req[q].pc = "ok" /\ req[q].op = "refresh" /\ req[q].tab = tokens[t].tab
      BY <1>1 DEF SuccessorIsTheAnswer
    <3>2. \A q \in Requests : Refreshes(q, tokens[t].parent, tokens[t].tab)' => req'[q].pc = "ok"
      BY <1>2, <3>1 DEF Refreshes
    <3> QED BY <1>6, <2>2, <3>1, <3>2
  <2> QED BY <1>3, <2>1, <2>3 DEF Untroubled
<1> QED BY <1>4, <1>5, <1>6

\* One request is over, the others are as they were.
LEMMA OneIsOver ==
  ASSUME TypeOK, NEW r \in Requests, req' = [req EXCEPT ![r] = Idle]
  PROVE  /\ req' \in [Requests -> Request] /\ ~Active(r)'
         /\ \A q \in Requests \ {r} : req'[q] = req[q] /\ (Active(q)' <=> Active(q))
         /\ \A q \in Requests : Remains(q)
<1>1. /\ req' \in [Requests -> Request] /\ req'[r] = Idle
      /\ \A q \in Requests \ {r} : req'[q] = req[q]
  BY DEF TypeOK, Request
<1>2. ~Active(r)' /\ \A q \in Requests \ {r} : Active(q)' <=> Active(q)
  BY <1>1 DEF Active, Idle
<1> QED BY <1>1, <1>2 DEF Remains

\* A page goes: its requests go on without a reader.
LEMMA PageGoes ==
  ASSUME TypeOK, NEW tab \in Tabs, NEW requests \in [Requests -> Request],
         req' = Orphan(requests, tab),
         \A q \in Requests : requests[q] = req[q] \/ requests[q] = Idle
  PROVE  req' \in [Requests -> Request] /\ \A q \in Requests : Remains(q)
<1>1. ASSUME NEW q \in Requests
      PROVE  req'[q] \in Request /\ Remains(q)
  <2>1. CASE requests[q].pc # "idle" /\ requests[q].tab = tab
    <3>1. requests[q] = req[q] /\ Active(q)
      BY <2>1 DEF Idle, Active
    <3>2. PICK x \in Whole : x = req[q]
      BY <3>1, ActiveIsWhole
    <3>3. PICK y : /\ y \in Whole /\ y.pc = x.pc /\ y.op = x.op /\ y.by = x.by /\ y.tab = Nobody
                   /\ y.token = x.token /\ y.fresh = x.fresh /\ y.seen = x.seen
                   /\ req'[q] = y
      <4>1. PICK y : y = [x EXCEPT !.tab = Nobody]
        OBVIOUS
      <4>2. /\ y \in Whole /\ y.pc = x.pc /\ y.op = x.op /\ y.by = x.by /\ y.tab = Nobody
            /\ y.token = x.token /\ y.fresh = x.fresh /\ y.seen = x.seen
        BY <4>1 DEF Whole
      <4>3. req'[q] = y
        BY <2>1, <3>1, <3>2, <4>1 DEF Orphan
      <4> QED BY <4>2, <4>3
    <3> QED BY <3>1, <3>2, <3>3, WholeIsActive DEF Remains
  <2>2. CASE ~(requests[q].pc # "idle" /\ requests[q].tab = tab)
    <3>1. req'[q] = requests[q]
      BY <2>2 DEF Orphan
    <3>2. Active(q)' => req'[q] = req[q]
      BY <3>1 DEF Active, Idle
    <3>3. req'[q] = req[q] => (Active(q)' <=> Active(q))
      BY DEF Active
    <3> QED BY <3>1, <3>2, <3>3 DEF Remains
  <2> QED BY <2>1, <2>2
<1>2. req' = [q \in Requests |-> req'[q]]
  BY DEF Orphan
<1> QED BY <1>1, <1>2

\* Whatever the browser receives, a request is over or remains.
LEMMA ReceivedRemains ==
  ASSUME TypeOK,
         \/ \E r \in Requests : Renewed(r) \/ Expired(r) \/ SignedOut(r) \/ Dropped(r) \/ Lose(r)
         \/ \E tab \in Tabs : Reload(tab)
  PROVE  req' \in [Requests -> Request] /\ \A q \in Requests : Remains(q)
<1>1. ASSUME NEW tab \in Tabs, Reload(tab)
      PROVE  req' \in [Requests -> Request] /\ \A q \in Requests : Remains(q)
  BY <1>1, PageGoes DEF Reload, TypeOK
<1>2. ASSUME NEW r \in Requests, Renewed(r) \/ Expired(r) \/ Dropped(r)
      PROVE  req' \in [Requests -> Request] /\ \A q \in Requests : Remains(q)
  BY <1>2, OneIsOver DEF Renewed, Expired, Dropped
<1>3. ASSUME NEW r \in Requests, SignedOut(r) \/ Lose(r)
      PROVE  req' \in [Requests -> Request] /\ \A q \in Requests : Remains(q)
  <2>1. Active(r) /\ req[r].tab \in Tabs
    <3>1. Active(r) /\ req[r].tab # Nobody
      BY <1>3 DEF SignedOut, Lose, Active
    <3> QED BY <3>1, ActiveIsWhole DEF Whole
  <2>2. PICK requests : requests = [req EXCEPT ![r] = Idle] /\ (req' = requests \/ req' = Orphan(requests, req[r].tab))
    BY <1>3 DEF SignedOut, Lose
  <2>3. requests \in [Requests -> Request] /\ \A q \in Requests : requests[q] = req[q] \/ requests[q] = Idle
    BY <2>2 DEF TypeOK, Request
  <2>4. CASE req' = Orphan(requests, req[r].tab)
    BY <2>1, <2>3, <2>4, PageGoes
  <2>5. CASE req' = requests
    BY <2>2, <2>5, OneIsOver
  <2> QED BY <2>2, <2>4, <2>5
<1> QED BY <1>1, <1>2, <1>3

\* The answers a page or the browser receives.
LEMMA AnswerInductive ==
  ASSUME Inductive, NEW r \in Requests, Renewed(r) \/ Expired(r) \/ SignedOut(r) \/ Dropped(r)
  PROVE  Inductive'
<1>0. TypeOK /\ AnswerBringsToken /\ tokens' = tokens /\ mishaps' = mishaps /\ cookie \in 0..Len(tokens)
      /\ mishaps' \in 0..MaxMishaps
  BY DEF Inductive, Renewed, Expired, SignedOut, Dropped, TypeOK
<1>1. Active(r) /\ req[r].pc \in {"ok", "refused"}
  BY DEF Renewed, Expired, SignedOut, Dropped, Active
<1>2. req[r].fresh \in 0..Len(tokens) /\ req[r].tab \in Tabs \cup {Nobody}
  <2>1. req[r].fresh \in Nat /\ req[r].tab \in Tabs \cup {Nobody}
    BY <1>0, <1>1, ActiveIsWhole DEF Whole
  <2>2. req[r].fresh # 0 => req[r].fresh \in 1..Len(tokens)
    BY <1>0, <1>1 DEF AnswerBringsToken, TypeOK
  <2> QED BY <1>0, <2>1, <2>2 DEF TypeOK
<1>3. mode' \in [Tabs -> {"booting", "in", "out", "unreachable"}]
  BY <1>0 DEF Renewed, Expired, SignedOut, Dropped, Show, TypeOK
<1>4. CASE SignedOut(r)
  <2>4. req' \in [Requests -> Request] /\ \A q \in Requests : Remains(q)
    BY <1>0, <1>4, ReceivedRemains
  <2>5. cookie' = 0 /\ 0 \in 0..Len(tokens)
    BY <1>0, <1>4 DEF SignedOut, TypeOK
  <2>6. mishaps' = 0 => Untroubled'
    BY <1>0, <2>4, <2>5, StaysUntroubled
  <2> QED BY <1>0, <1>3, <2>4, <2>5, <2>6, BrowserReceives
<1>5. CASE Renewed(r) \/ Expired(r) \/ Dropped(r)
  <2>1. req' = [req EXCEPT ![r] = Idle]
    BY <1>5 DEF Renewed, Expired, Dropped
  <2>2. /\ req' \in [Requests -> Request] /\ ~Active(r)'
        /\ \A q \in Requests \ {r} : req'[q] = req[q] /\ (Active(q)' <=> Active(q))
        /\ \A q \in Requests : Remains(q)
    BY <1>0, <2>1, OneIsOver
  <2>3. cookie' = req[r].fresh \/ (cookie' = cookie /\ (req[r].pc = "refused" \/ req[r].tab = Nobody))
    BY <1>5 DEF Renewed, Expired, Dropped
  <2>4. cookie' \in 0..Len(tokens)
    BY <1>0, <1>2, <2>3
  <2>5. \A p \in Requests : Active(p)' => req[p].fresh = 0 \/ req[p].fresh # cookie'
    <3> SUFFICES ASSUME NEW p \in Requests, Active(p)', req[p].fresh # 0 PROVE req[p].fresh # cookie'
      OBVIOUS
    <3>1. p # r /\ Active(p)
      BY <2>2
    <3>2. req[p].fresh # cookie /\ req[r].fresh # req[p].fresh
      BY <1>0, <1>1, <3>1 DEF AnswerBringsToken
    <3> QED BY <2>3, <3>2
  <2>6. mishaps' = 0 => Untroubled'
    <3>1. \A q \in Requests : Active(q)' => req'[q] = req[q]
      BY <2>2
    <3>2. cookie' = cookie /\ (req[r].pc = "refused" \/ req[r].tab = Nobody) =>
            \A q \in Requests : req[q].pc = "ok" /\ req[q].tab # Nobody => req'[q] = req[q]
      BY <2>2
    <3> QED BY <1>0, <1>1, <2>2, <2>3, <3>1, <3>2, StaysUntroubled
  <2> QED BY <1>0, <1>3, <2>2, <2>4, <2>5, <2>6, BrowserReceives
<1> QED BY <1>4, <1>5

\* An answer is lost, or a page reloaded.
LEMMA MishapInductive ==
  ASSUME Inductive, (\E r \in Requests : Lose(r)) \/ (\E tab \in Tabs : Reload(tab))
  PROVE  Inductive'
<1>0. TypeOK /\ AnswerBringsToken /\ UNCHANGED <<tokens, cookie>> /\ cookie \in 0..Len(tokens)
  BY DEF Inductive, Lose, Reload, TypeOK
<1>1. mishaps' \in 0..MaxMishaps /\ mishaps' # 0
  <2>1. mishaps \in 0..MaxMishaps /\ mishaps < MaxMishaps /\ mishaps' = mishaps + 1
    BY <1>0 DEF Lose, Reload, Mishap, TypeOK
  <2> QED BY <2>1, SessionAssumption
<1>2. req' \in [Requests -> Request] /\ \A q \in Requests : Remains(q)
  BY <1>0, ReceivedRemains
<1>3. mode' \in [Tabs -> {"booting", "in", "out", "unreachable"}]
  <2>1. ASSUME NEW r \in Requests, Lose(r) PROVE mode' \in [Tabs -> {"booting", "in", "out", "unreachable"}]
    BY <1>0, <2>1 DEF Lose, TypeOK
  <2>2. ASSUME NEW tab \in Tabs, Reload(tab) PROVE mode' \in [Tabs -> {"booting", "in", "out", "unreachable"}]
    BY <1>0, <2>2 DEF Reload, Show, TypeOK
  <2> QED BY <2>1, <2>2
<1>4. \A p \in Requests : Active(p)' => req[p].fresh = 0 \/ req[p].fresh # cookie'
  BY <1>0, <1>2 DEF AnswerBringsToken, Remains
<1> QED BY <1>0, <1>1, <1>2, <1>3, <1>4, BrowserReceives

\* Every step keeps the invariant.
LEMMA NextInductive == Inductive /\ [Next]_vars => Inductive'
<1> SUFFICES ASSUME Inductive, [Next]_vars PROVE Inductive'
  OBVIOUS
<1>1. ASSUME NEW r \in Requests, NEW tab \in Tabs, Refresh(r, tab) \/ SignIn(r, tab) \/ SignOut(r, tab)
      PROVE  Inductive'
  <2>1. CASE Refresh(r, tab)
    BY <2>1, SendInductive DEF Refresh
  <2>2. CASE SignIn(r, tab)
    BY <2>2, SendInductive DEF SignIn
  <2>3. CASE SignOut(r, tab)
    BY <2>3, SendInductive DEF SignOut
  <2> QED BY <1>1, <2>1, <2>2, <2>3
<1>2. ASSUME NEW r \in Requests, Serve(r) PROVE Inductive'
  <2>1. CASE Login(r) \/ Issue(r)
    BY <2>1, IssueInductive
  <2>2. CASE Claim(r) \/ BeginRevokeAll(r) \/ RevokeAll(r) \/ FindSession(r) \/ RevokeSession(r)
    BY <2>2, ServeInductive
  <2>3. CASE Renewed(r) \/ Expired(r) \/ SignedOut(r) \/ Dropped(r)
    BY <2>3, AnswerInductive
  <2> QED BY <1>2, <2>1, <2>2, <2>3 DEF Serve
<1>3. ASSUME NEW r \in Requests, Lose(r) PROVE Inductive'
  BY <1>3, MishapInductive
<1>4. ASSUME NEW t \in DOMAIN tokens, Expire(t) PROVE Inductive'
  BY <1>4, ExpireInductive
<1>5. ASSUME NEW tab \in Tabs, Reload(tab) PROVE Inductive'
  BY <1>5, MishapInductive
<1>6. CASE UNCHANGED vars
  <2>1. \A q \in Requests : Remains(q)
    BY <1>6 DEF vars, Remains, Active
  <2>2. mishaps' = 0 => Untroubled'
    BY <1>6 DEF vars, Inductive, Untroubled, OrphanHasNoCookie, OneRefreshEach, SuccessorIsTheAnswer,
                Refreshes, Active
  <2> QED BY <1>6, <2>1, <2>2, BrowserReceives DEF vars, Inductive, TypeOK, AnswerBringsToken, Active
<1> QED BY <1>1, <1>2, <1>3, <1>4, <1>5, <1>6 DEF Next

\* The inductive invariant holds in every reachable state.
THEOREM AlwaysInductive == Spec => []Inductive
BY InitInductive, NextInductive, PTL DEF Spec

\* The sessions, the requests under way and the cookie are always of their types, and
\* of the requests that hold a claimed token's row there is one.
THEOREM TypeCorrect == Spec => []TypeOK
<1>1. Inductive => TypeOK
  BY DEF Inductive
<1> QED BY <1>1, AlwaysInductive, PTL

\* Of any number of refreshes that present one token one obtains a new session, however
\* their requests and answers are ordered, lost or left by their pages.
THEOREM RotationIsUnique == Spec => []OneSuccessor
<1>1. Inductive => OneSuccessor
  BY DEF Inductive
<1> QED BY <1>1, AlwaysInductive, PTL

\* A token and its successor are never both good.
THEOREM RotationRevokes == Spec => []ReplacedIsRevoked
<1>1. Inductive => ReplacedIsRevoked
  BY DEF Inductive
<1> QED BY <1>1, AlwaysInductive, PTL

\* A sign-out that was answered has ended its session, whatever was rotated between
\* its read and its write.
THEOREM SignOutIsEffective == Spec => []SignOutRevokes
<1>1. Inductive => SignOutRevokes
  BY DEF Inductive
<1> QED BY <1>1, AlwaysInductive, PTL

\* A page that shares its refresh, and loses no answer, never presents a token it has
\* itself replaced.
THEOREM NoFalseAlarm == Spec => []NoSelfInflictedReuse
<1>1. Inductive => NoSelfInflictedReuse
  <2> SUFFICES ASSUME Inductive, mishaps = 0, NEW r \in Requests, req[r].pc = "reused",
                      NEW t \in DOMAIN tokens, tokens[t].parent = req[r].token, tokens[t].tab = req[r].by
               PROVE  FALSE
    BY DEF NoSelfInflictedReuse
  <2>1. Active(r) /\ req[r].op = "refresh" /\ req[r].token # 0
    BY DEF Inductive, RequestsNameTokens, Active
  <2> QED BY <2>1 DEF Inductive, SuccessorIsTheAnswer, Refreshes
<1> QED BY <1>1, AlwaysInductive, PTL

\* The statement that answers a reuse has revoked every session it saw, those that
\* another transaction was working on included.
THEOREM ReuseIsAnswered == Spec => ReuseEndsSessions
<1>1. ASSUME Inductive, [Next]_vars, NEW r \in Requests, req[r].pc = "revoking", req'[r].pc = "refused"
      PROVE  \A t \in req[r].seen : tokens'[t].revoked
  <2>1. TypeOK /\ req[r].seen \subseteq DOMAIN tokens
    BY <1>1 DEF Inductive, RequestsNameTokens, Active
  <2>2. req' # req /\ Active(r) /\ Active(r)'
    BY <1>1 DEF Active
  <2>3. RevokeAll(r)
    <3>1. \A q \in Requests, tab \in Tabs : ~(Refresh(q, tab) \/ SignIn(q, tab) \/ SignOut(q, tab))
      BY <1>1, <2>1 DEF Refresh, SignIn, SignOut, Send, TypeOK
    <3>2. \A q \in Requests : ~(Renewed(q) \/ Expired(q) \/ SignedOut(q) \/ Dropped(q) \/ Lose(q))
      BY <1>1, <2>1, <2>2, ReceivedRemains DEF Remains
    <3>3. \A tab \in Tabs : ~Reload(tab)
      BY <1>1, <2>1, <2>2, ReceivedRemains DEF Remains
    <3>4. \A q \in Requests : ~(Login(q) \/ Issue(q))
      BY <1>1, <2>1 DEF Login, Issue, Serving, TypeOK
    <3>5. \A q \in Requests : ~(Claim(q) \/ FindSession(q) \/ RevokeSession(q) \/ BeginRevokeAll(q))
      BY <1>1, <2>1 DEF Claim, FindSession, RevokeSession, BeginRevokeAll, Advance, Serving, TypeOK
    <3>6. \A q \in Requests : RevokeAll(q) => q = r
      BY <1>1, <2>1 DEF RevokeAll, TypeOK
    <3>7. ~(\E t \in DOMAIN tokens : Expire(t)) /\ ~UNCHANGED vars
      BY <2>2 DEF Expire, vars
    <3>8. \E q \in Requests : RevokeAll(q)
      BY <1>1, <3>1, <3>2, <3>3, <3>4, <3>5, <3>7 DEF Next, Serve
    <3> QED BY <3>6, <3>8
  <2>4. Revoked(req[r].seen)
    BY <2>1, <2>3, RevokeRevokes DEF RevokeAll
  <2> QED BY <2>1, <2>4 DEF Revoked
<1>2. Inductive /\ [Next]_vars =>
        [\A r \in Requests : req[r].pc = "revoking" /\ req'[r].pc = "refused" =>
           \A t \in req[r].seen : tokens'[t].revoked]_vars
  BY <1>1
<1> QED BY <1>2, AlwaysInductive, PTL DEF Spec, ReuseEndsSessions

=============================================================================
