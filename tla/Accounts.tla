------------------------------ MODULE Accounts ------------------------------
(***************************************************************************)
(* Login, refresh and logout.  A login issues a refresh token; a refresh   *)
(* revokes the token it is given and issues the next one; a logout revokes *)
(* it.  A token is named by the request that issues it.                    *)
(*                                                                         *)
(* Requests are split at their SELECTs.  What they write becomes visible   *)
(* with their commit, so that one step makes all of it.  One person, on    *)
(* several devices; the roles copied into an access token and the expiry   *)
(* of that token are left out: no operation here depends on them.          *)
(***************************************************************************)
EXTENDS Naturals, FiniteSets

CONSTANTS
  Callers,      \* requests to come, numbered as they arrive, each for one operation
  NoToken

ASSUME AccountsAssumption == NoToken \notin Callers

VARIABLES
  account,      \* the user row: {} or {the request that inserted it}
  tokens,       \* committed refresh tokens: state, and the login they go back to
  audit,        \* committed audit events: the logins they record
  call,         \* the requests: place in the code, and what they have read
  shared        \* auxiliary: logins with a token that overlapping requests presented

accountVars == <<account, tokens, audit, call, shared>>

Stored == {"valid", "expired", "revoked"}
Unissued == [state |-> "none", login |-> NoToken]
Uncalled == [pc |-> "new", op |-> "none", token |-> NoToken, newUser |-> FALSE, revoke |-> FALSE]

Arrives(s) == call[s].pc = "new" /\ \A o \in Callers : o < s => call[o].pc # "new"
InProgress(s) == call[s].pc \notin {"new", "done", "failed"}
Proceeds(s, c) == call' = [call EXCEPT ![s] = c]
Ends(s, pc) == Proceeds(s, [Uncalled EXCEPT !.pc = pc])

------------------------------------------------------------------------------

AccountsInit ==
  /\ account = {}
  /\ tokens = [s \in Callers |-> Unissued]
  /\ audit = {}
  /\ call = [s \in Callers |-> Uncalled]
  /\ shared = {}

\* exchange_code asks GitHub for a token, the profile, and an address if the
\* profile keeps it private.  Any answer may be a refusal.
Answers == [token : BOOLEAN, profile : BOOLEAN, address : {"public", "listed", "none"}]
Identifies(answer) == answer.token /\ answer.profile /\ answer.address # "none"

\* login: the code is exchanged, and only then the user is looked up.
Login(s) ==
  /\ \E answer \in Answers :
       IF Identifies(answer)
       THEN Proceeds(s, [Uncalled EXCEPT !.pc = "issue", !.op = "login", !.newUser = (account = {})])
       ELSE Ends(s, "failed")
  /\ UNCHANGED <<account, tokens, audit, shared>>

\* refresh and logout: the token is looked up by its hash.  Refresh answers
\* 401 when it is not valid, logout has nothing to do.
PresentToken(s, op, t) ==
  /\ tokens[t].state \in Stored
  /\ IF tokens[t].state = "valid"
     THEN /\ Proceeds(s, [Uncalled EXCEPT !.pc = "load", !.op = op, !.token = t])
          /\ shared' = IF \E o \in Callers : InProgress(o) /\ call[o].token = t
                       THEN shared \cup {tokens[t].login} ELSE shared
     ELSE /\ Ends(s, IF op = "refresh" THEN "failed" ELSE "done")
          /\ UNCHANGED shared
  /\ UNCHANGED <<account, tokens, audit>>

Refresh(s, t) == PresentToken(s, "refresh", t)
Logout(s, t) == PresentToken(s, "logout", t)

\* The endpoints.  A service's error ends the request: 401, 404 or 422.
PostLogin(s) == Arrives(s) /\ Login(s)
PostRefresh(s, t) == Arrives(s) /\ Refresh(s, t)
PostLogout(s, t) == Arrives(s) /\ Logout(s, t)

\* A faulty variant, as in TaskStates.
LoadTokenToLogOut(s) ==
  /\ call[s].pc = "load"
  /\ Proceeds(s, [call[s] EXCEPT !.revoke = (call[s].op = "logout"),
                              !.pc = IF call[s].op = "refresh" THEN "issue" ELSE "commit"])
  /\ UNCHANGED <<account, tokens, audit, shared>>

\* revoke loads the row anew, and writes unless it is revoked by now.
LoadToken(s) ==
  /\ call[s].pc = "load"
  /\ Proceeds(s, [call[s] EXCEPT !.revoke = tokens[call[s].token].state # "revoked",
                              !.pc = IF call[s].op = "refresh" THEN "issue" ELSE "commit"])
  /\ UNCHANGED <<account, tokens, audit, shared>>

\* _issue_refresh_token.
IssueRefreshToken(s) ==
  /\ call[s].pc = "issue"
  /\ Proceeds(s, [call[s] EXCEPT !.pc = "commit"])
  /\ UNCHANGED <<account, tokens, audit, shared>>

\* The commit makes the writes of the request visible: the revoked token, the
\* new one, and for a login the user and the audit event.
CommitCall(s) ==
  LET c == call[s]
      login == IF c.op = "login" THEN s ELSE tokens[c.token].login
  IN
  /\ c.pc = "commit"
  /\ c.newUser => account = {}
  /\ tokens' = [t \in Callers |->
       IF t = s /\ c.op # "logout" THEN [state |-> "valid", login |-> login]
       ELSE IF t = c.token /\ c.revoke THEN [tokens[t] EXCEPT !.state = "revoked"]
       ELSE tokens[t]]
  /\ account' = IF c.newUser THEN {s} ELSE account
  /\ audit' = IF c.op = "login" THEN audit \cup {s} ELSE audit
  /\ Ends(s, "done")
  /\ UNCHANGED shared

\* Another first login has committed: (auth_provider, auth_subject) is unique.
UserTaken(s) ==
  /\ call[s].pc \in {"issue", "commit"}
  /\ call[s].newUser
  /\ account # {}
  /\ Ends(s, "failed")
  /\ UNCHANGED <<account, tokens, audit, shared>>

CallFails(s) ==
  /\ InProgress(s)
  /\ Ends(s, "failed")
  /\ UNCHANGED <<account, tokens, audit, shared>>

Expire(t) ==
  /\ tokens[t].state = "valid"
  /\ tokens' = [tokens EXCEPT ![t].state = "expired"]
  /\ UNCHANGED <<account, audit, call, shared>>

AccountsNext ==
  \E s \in Callers :
    \/ PostLogin(s)
    \/ \E t \in Callers : PostRefresh(s, t) \/ PostLogout(s, t)
    \/ LoadToken(s) \/ IssueRefreshToken(s) \/ CommitCall(s)
    \/ UserTaken(s) \/ CallFails(s) \/ Expire(s)

AccountsSpec == AccountsInit /\ [][AccountsNext]_accountVars

------------------------------------------------------------------------------
(***************************************************************************)
(* Properties                                                              *)
(***************************************************************************)

AccountsTypeOK ==
  /\ account \in SUBSET Callers /\ Cardinality(account) <= 1
  /\ tokens \in [Callers -> [state : Stored, login : Callers] \cup {Unissued}]
  /\ audit \subseteq Callers
  /\ shared \subseteq Callers

\* A login is one chain of tokens: at most one of them can be used at any
\* time, and every token that has been replaced or logged out stays unusable,
\* however refreshes, logouts, expiry and failures follow each other.  Two
\* requests that present one token at the same time are excepted: both may
\* be given a successor.  And a login leaves its user, its token and its
\* audit event, or nothing.
TokensAreAChain ==
  /\ \A l \in audit \ shared :
       Cardinality({t \in Callers : tokens[t].login = l /\ tokens[t].state = "valid"}) <= 1
  /\ audit = {t \in Callers : tokens[t].login = t}
  /\ (audit = {}) <=> (account = {})

==============================================================================
