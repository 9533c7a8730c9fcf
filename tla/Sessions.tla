------------------------------ MODULE Sessions ------------------------------
(***************************************************************************)
(* The sessions of one user: rotating refresh tokens on the server         *)
(* (services/auth.py), and the tabs of one browser that refresh them       *)
(* (lib/apiClient.ts, lib/session.ts, hooks/useSessionRestore.ts).         *)
(*                                                                         *)
(* The browser keeps one refresh cookie for all its tabs.  A request takes *)
(* the cookie with it when it is sent, is served by a thread of its own in *)
(* READ COMMITTED transactions, and its answer comes back in any order, or *)
(* never.  A tab sends at most one refresh at a time (refreshInFlight).    *)
(***************************************************************************)
EXTENDS Integers, Sequences, FiniteSets

CONSTANTS Slots,         \* bound: how many requests may be under way at once
          Tabs, Nobody,  \* Nobody: the page that sent the request is gone
          MaxTokens,     \* bound: no sign-in and no refresh starts beyond
          MaxMishaps     \* bound: how many answers get lost and pages reloaded

ASSUME SessionAssumption ==
  Nobody \notin Tabs /\ Slots \in Nat /\ MaxTokens \in Nat /\ MaxMishaps \in Nat

VARIABLES tokens,        \* the refresh_token rows, in the order of their inserts
          req,           \* the requests under way
          cookie,        \* the refresh cookie: a token, 0 for none
          mode,          \* what each tab shows
          mishaps

vars == <<tokens, req, cookie, mode, mishaps>>
browser == <<cookie, mode, mishaps>>

\* parent: the token this one replaced, 0 for a sign-in; tab: who asked for it.
Token == [parent: Nat, tab: Tabs, revoked: BOOLEAN, expired: BOOLEAN]

Requests == 1..Slots
Idle == [pc |-> "idle"]
Request ==
  {Idle} \cup
  [pc: {"sent", "found", "claimed", "reused", "revoking", "ok", "refused"},
   op: {"login", "refresh", "logout"}, by: Tabs, tab: Tabs \cup {Nobody},
   token: Nat, fresh: Nat, seen: SUBSET Nat]

Live == {t \in DOMAIN tokens : ~tokens[t].revoked}

\* An uncommitted claim holds the token's row until it commits.
Locked(t) == \E q \in Requests : req[q].pc = "claimed" /\ req[q].token = t

TypeOK ==
  /\ tokens \in Seq(Token)
  /\ req \in [Requests -> Request]
  /\ cookie \in 0..Len(tokens)
  /\ mode \in [Tabs -> {"booting", "in", "out", "unreachable"}]
  /\ mishaps \in 0..MaxMishaps
  /\ \A q \in Requests : req[q].pc = "claimed" => req[q].token \in Live
  /\ \A p, q \in Requests : req[p].pc = "claimed" /\ req[q].pc = "claimed" /\ req[p].token = req[q].token => p = q

Init ==
  /\ tokens = <<>>
  /\ req = [r \in Requests |-> Idle]
  /\ cookie = 0
  /\ mode = [t \in Tabs |-> "booting"]
  /\ mishaps = 0

-----------------------------------------------------------------------------
(***************************************************************************)
(* The browser sends.                                                      *)
(***************************************************************************)
UnderWay(tab, op) == \E q \in Requests : req[q].pc # "idle" /\ req[q].tab = tab /\ req[q].op = op

Send(r, tab, op) ==
  /\ req[r].pc = "idle" /\ \A q \in 1..(r - 1) : req[q].pc # "idle"
  /\ req' = [req EXCEPT ![r] = [pc |-> "sent", op |-> op, by |-> tab, tab |-> tab,
                                token |-> cookie, fresh |-> 0, seen |-> {}]]
  /\ UNCHANGED <<tokens, browser>>

\* The bound: a sign-in or a refresh starts only while its token would fit.
Fits == Len(tokens) + Cardinality({q \in Requests : req[q].pc \in {"sent", "claimed"}}) < MaxTokens

NeedsRefresh(tab) == mode[tab] = "booting" \/ (mode[tab] = "in" /\ Fits)

\* Mutant of Refresh: every caller starts a refresh of its own.
RefreshUnshared(r, tab) == NeedsRefresh(tab) /\ Send(r, tab, "refresh")

\* refreshSession, called on a 401 or at boot: a caller that finds a refresh in
\* flight waits for that one.
Refresh(r, tab) == NeedsRefresh(tab) /\ ~UnderWay(tab, "refresh") /\ Send(r, tab, "refresh")

SignIn(r, tab) ==
  /\ mode[tab] = "out" /\ ~UnderWay(tab, "login") /\ Fits
  /\ Send(r, tab, "login")

SignOut(r, tab) == mode[tab] = "in" /\ ~UnderWay(tab, "logout") /\ Send(r, tab, "logout")

-----------------------------------------------------------------------------
(***************************************************************************)
(* The server.                                                             *)
(***************************************************************************)
Serving(r, place, op) == req[r].pc = place /\ req[r].op = op
Advance(r, place) == req' = [req EXCEPT ![r].pc = place]

Issued(parent, tab) == [parent |-> parent, tab |-> tab, revoked |-> FALSE, expired |-> FALSE]
Revoke(table, ids) == [t \in DOMAIN table |-> IF t \in ids THEN [table[t] EXCEPT !.revoked = TRUE] ELSE table[t]]

\* issue_session after a password was accepted.
Login(r) ==
  /\ Serving(r, "sent", "login")
  /\ tokens' = Append(tokens, Issued(0, req[r].by))
  /\ req' = [req EXCEPT ![r].pc = "ok", ![r].fresh = Len(tokens) + 1]
  /\ UNCHANGED browser

\* rotate_session: without a cookie, or with an expired token, it is refused.
Presentable(r) == req[r].token # 0 /\ ~tokens[req[r].token].expired

\* Mutant of Claim: read, then write.
ClaimUnconditionally(r) ==
  /\ Serving(r, "sent", "refresh")
  /\ Advance(r, IF Presentable(r) THEN "claimed" ELSE "refused")
  /\ UNCHANGED <<tokens, browser>>

\* The conditional UPDATE: it waits for the row, and matches a live token only.
\* The SELECT before it reads nothing that changes.
Claim(r) ==
  /\ Serving(r, "sent", "refresh")
  /\ Presentable(r) => ~Locked(req[r].token)
  /\ Advance(r, CASE ~Presentable(r) -> "refused"
                  [] Presentable(r) /\ req[r].token \in Live -> "claimed"
                  [] OTHER -> "reused")
  /\ UNCHANGED <<tokens, browser>>

\* Mutant of Issue: the new token is there before the old one is gone.
IssueBesideOld(r) ==
  /\ Serving(r, "claimed", "refresh")
  /\ tokens' = Append(tokens, Issued(req[r].token, req[r].by))
  /\ req' = [req EXCEPT ![r].pc = "ok", ![r].fresh = Len(tokens) + 1]
  /\ UNCHANGED browser

\* issue_session: the claim and the new token in one commit.
Issue(r) ==
  /\ Serving(r, "claimed", "refresh")
  /\ tokens' = Append(Revoke(tokens, {req[r].token}), Issued(req[r].token, req[r].by))
  /\ req' = [req EXCEPT ![r].pc = "ok", ![r].fresh = Len(tokens) + 1]
  /\ UNCHANGED browser

\* _revoke_all_for_user is one statement: it changes the rows that were live and
\* committed when it began, and waits for those that another transaction holds.
BeginRevokeAll(r) ==
  /\ Serving(r, "reused", "refresh")
  /\ req' = [req EXCEPT ![r].pc = "revoking", ![r].seen = Live]
  /\ UNCHANGED <<tokens, browser>>

\* Mutant of RevokeAll: only the token that came back is revoked.
RevokeOnlyReused(r) ==
  /\ Serving(r, "revoking", "refresh")
  /\ tokens' = Revoke(tokens, {req[r].token})
  /\ req' = [req EXCEPT ![r].pc = "refused", ![r].seen = {}]
  /\ UNCHANGED browser

RevokeAll(r) ==
  /\ Serving(r, "revoking", "refresh")
  /\ ~\E t \in req[r].seen : Locked(t)
  /\ tokens' = Revoke(tokens, req[r].seen)
  /\ req' = [req EXCEPT ![r].pc = "refused", ![r].seen = {}]
  /\ UNCHANGED browser

\* revoke_session reads, then writes; silent when there is nothing to revoke.
FindSession(r) ==
  /\ Serving(r, "sent", "logout")
  /\ Advance(r, IF req[r].token \in Live THEN "found" ELSE "ok")
  /\ UNCHANGED <<tokens, browser>>

\* Mutant of RevokeSession: only the cookie is cleared.
CookieOnly(r) ==
  /\ Serving(r, "found", "logout")
  /\ Advance(r, "ok")
  /\ UNCHANGED <<tokens, browser>>

RevokeSession(r) ==
  /\ Serving(r, "found", "logout")
  /\ ~Locked(req[r].token)
  /\ tokens' = Revoke(tokens, {req[r].token})
  /\ Advance(r, "ok")
  /\ UNCHANGED browser

\* Time passes: a token reaches expires_at, which is in the order of the inserts.
Expire(t) ==
  /\ ~tokens[t].expired
  /\ \A s \in DOMAIN tokens : s < t => tokens[s].expired
  /\ tokens' = [tokens EXCEPT ![t].expired = TRUE]
  /\ UNCHANGED <<req, browser>>

-----------------------------------------------------------------------------
(***************************************************************************)
(* The browser receives, or does not.                                      *)
(***************************************************************************)
\* The page of a tab goes, by navigation or reload: its requests have no reader.
Orphan(requests, tab) ==
  [q \in Requests |-> IF requests[q].pc # "idle" /\ requests[q].tab = tab
                      THEN [requests[q] EXCEPT !.tab = Nobody] ELSE requests[q]]

Mishap == mishaps < MaxMishaps /\ mishaps' = mishaps + 1

Show(tab, what) == mode' = [mode EXCEPT ![tab] = what]

\* A new session: the browser stores the cookie, the page stores the session.
Renewed(r) ==
  /\ req[r].pc = "ok" /\ req[r].op # "logout" /\ req[r].tab # Nobody
  /\ cookie' = req[r].fresh
  /\ Show(req[r].tab, "in")
  /\ req' = [req EXCEPT ![r] = Idle]
  /\ UNCHANGED <<tokens, mishaps>>

\* Mutant of Expired: the restore waits for an answer it accepts.
ExpiredIgnoredAtBoot(r) ==
  /\ req[r].pc = "refused" /\ req[r].tab # Nobody
  /\ Show(req[r].tab, IF mode[req[r].tab] = "booting" THEN "booting" ELSE "out")
  /\ req' = [req EXCEPT ![r] = Idle]
  /\ UNCHANGED <<tokens, cookie, mishaps>>

\* The refresh was refused: the session is over for this tab; the cookie stays.
Expired(r) ==
  /\ req[r].pc = "refused" /\ req[r].tab # Nobody
  /\ Show(req[r].tab, "out")
  /\ req' = [req EXCEPT ![r] = Idle]
  /\ UNCHANGED <<tokens, cookie, mishaps>>

\* signOut: the cookie is deleted, and the page navigates to the login screen.
SignedOut(r) ==
  /\ req[r].pc = "ok" /\ req[r].op = "logout" /\ req[r].tab # Nobody
  /\ cookie' = 0
  /\ Show(req[r].tab, "out")
  /\ req' = Orphan([req EXCEPT ![r] = Idle], req[r].tab)
  /\ UNCHANGED <<tokens, mishaps>>

\* The answer to a page that is gone: its cookie may still have been stored.
Dropped(r) ==
  /\ req[r].pc \in {"ok", "refused"} /\ req[r].tab = Nobody
  /\ cookie' \in {cookie, IF req[r].pc = "refused" THEN cookie ELSE req[r].fresh}
  /\ req' = [req EXCEPT ![r] = Idle]
  /\ UNCHANGED <<tokens, mode, mishaps>>

\* The request or its answer is lost, and fetch rejects.  A refresh reports
\* "unreachable" and a page that has a session keeps it; a page that was restoring
\* one says so.  A sign-out is over all the same (finally).
Lose(r) ==
  /\ req[r].pc \in {"sent", "ok", "refused"} /\ req[r].tab # Nobody
  /\ Mishap
  /\ LET tab == req[r].tab
         gone == [req EXCEPT ![r] = Idle]
     IN  /\ mode' = [mode EXCEPT ![tab] = IF req[r].op = "logout" THEN "out"
                                           ELSE IF @ = "booting" THEN "unreachable" ELSE @]
         /\ req' = IF req[r].op = "logout" THEN Orphan(gone, tab) ELSE gone
  /\ UNCHANGED <<tokens, cookie>>

\* The user reloads or reopens a page: the access token is gone, a restore begins.
Reload(tab) ==
  /\ Mishap
  /\ Show(tab, "booting")
  /\ req' = Orphan(req, tab)
  /\ UNCHANGED <<tokens, cookie>>

-----------------------------------------------------------------------------
Serve(r) ==
  \/ Login(r) \/ Claim(r) \/ Issue(r) \/ BeginRevokeAll(r) \/ RevokeAll(r)
  \/ FindSession(r) \/ RevokeSession(r)
  \/ Renewed(r) \/ Expired(r) \/ SignedOut(r) \/ Dropped(r)

Next ==
  \/ \E r \in Requests, tab \in Tabs : Refresh(r, tab) \/ SignIn(r, tab) \/ SignOut(r, tab)
  \/ \E r \in Requests : Serve(r) \/ Lose(r)
  \/ \E t \in DOMAIN tokens : Expire(t)
  \/ \E tab \in Tabs : Reload(tab)

\* A request that was sent is served and answered; a page that boots does ask.
Restore(tab) == mode[tab] = "booting" /\ \E r \in Requests : Refresh(r, tab)
Fairness ==
  /\ \A r \in Requests : WF_vars(Serve(r))
  /\ \A tab \in Tabs : WF_vars(Restore(tab))

Spec == Init /\ [][Next]_vars /\ Fairness

-----------------------------------------------------------------------------
(***************************************************************************)
(* Properties.                                                             *)
(***************************************************************************)

\* "exactly one UPDATE matches": of any number of refreshes that present one token
\* only one obtains a new session (rotate_session).
OneSuccessor ==
  \A s, t \in DOMAIN tokens : s # t /\ tokens[s].parent # 0 => tokens[s].parent # tokens[t].parent

\* A token and its successor are never both good: not even for a moment.
ReplacedIsRevoked == \A t \in DOMAIN tokens : tokens[t].parent # 0 => tokens[tokens[t].parent].revoked

\* A token that comes back ends every session that existed when it was noticed.
ReuseEndsSessions ==
  [][\A r \in Requests : req[r].pc = "revoking" /\ req'[r].pc = "refused" =>
       \A t \in req[r].seen : tokens'[t].revoked]_vars

\* A sign-out that was answered has ended the session it was sent with.
SignOutRevokes ==
  \A r \in Requests : req[r].pc = "ok" /\ req[r].op = "logout" => req[r].token \notin Live

\* Sharing the refresh, one page never takes its own rotation for theft: a reuse
\* comes from another tab, from a sign-out, or from a page or an answer that went
\* astray (refreshSession).
NoSelfInflictedReuse ==
  mishaps = 0 =>
    \A r \in Requests : req[r].pc = "reused" =>
      ~\E t \in DOMAIN tokens : tokens[t].parent = req[r].token /\ tokens[t].tab = req[r].by

(***************************************************************************)
(* The inductive invariant of the proofs: it implies the safety invariants *)
(* above.                                                                  *)
(***************************************************************************)
Active(q) == req[q].pc # "idle"

\* A request names tokens that were inserted, and belongs to the page that sent it
\* or to none; only a refresh claims a token, or finds it reused.
RequestsNameTokens ==
  /\ \A t \in DOMAIN tokens : tokens[t].parent < t
  /\ \A q \in Requests : Active(q) =>
       /\ req[q].token \in 0..Len(tokens) /\ req[q].seen \subseteq DOMAIN tokens
       /\ req[q].tab \in {req[q].by, Nobody}
       /\ req[q].pc \in {"claimed", "reused", "revoking"} => req[q].op = "refresh" /\ req[q].token # 0

\* A new token travels in one answer, and nobody has it before that answer arrives.
AnswerBringsToken ==
  \A p \in Requests : Active(p) /\ req[p].fresh # 0 =>
    /\ req[p].pc = "ok" /\ req[p].op # "logout"
    /\ req[p].fresh \in DOMAIN tokens /\ req[p].fresh # cookie
    /\ \A t \in DOMAIN tokens : tokens[t].parent # req[p].fresh
    /\ \A q \in Requests : Active(q) => req[q].token # req[p].fresh /\ (q # p => req[q].fresh # req[p].fresh)

\* Without a mishap a page is left by a sign-out only, which takes the cookie away; a
\* page has one refresh with a token, and its successor came in the answer to that.
OrphanHasNoCookie ==
  \A q \in Requests : Active(q) /\ req[q].tab = Nobody /\ req[q].token # 0 => cookie # req[q].token
Refreshes(q, token, tab) ==
  Active(q) /\ req[q].op = "refresh" /\ req[q].token = token /\ req[q].by = tab
OneRefreshEach ==
  \A p, q \in Requests, tab \in Tabs, token \in DOMAIN tokens :
    Refreshes(p, token, tab) /\ Refreshes(q, token, tab) => p = q
SuccessorIsTheAnswer ==
  \A t \in DOMAIN tokens : tokens[t].parent # 0 =>
    /\ \A q \in Requests : Refreshes(q, tokens[t].parent, tokens[t].tab) => req[q].pc = "ok"
    /\ cookie = tokens[t].parent =>
         \E q \in Requests : req[q].pc = "ok" /\ req[q].op = "refresh" /\ req[q].tab = tokens[t].tab

Inductive ==
  /\ TypeOK
  /\ OneSuccessor /\ ReplacedIsRevoked
  /\ SignOutRevokes
  /\ RequestsNameTokens
  /\ AnswerBringsToken
  /\ mishaps = 0 => OrphanHasNoCookie /\ OneRefreshEach /\ SuccessorIsTheAnswer

\* The restore attempt at boot comes to an end (useSessionRestore).
RestoreCompletes == \A tab \in Tabs : mode[tab] = "booting" ~> mode[tab] # "booting"

\* "Every token of that user is revoked" (rotate_session): once the reuse is
\* answered, no token that came out of a rotation is live.
EveryTokenRevoked ==
  [][\A r \in Requests : req[r].pc = "revoking" /\ req'[r].pc = "refused" =>
       \A t \in DOMAIN tokens' : tokens'[t].parent # 0 => tokens'[t].revoked]_vars
=============================================================================
