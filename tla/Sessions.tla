------------------------------ MODULE Sessions ------------------------------
(* The sessions of one account (services/auth.py) while administrators      *)
(* change the accounts (UserAdmin).                                         *)
(*                                                                          *)
(* A refresh token counts as long as Redis holds its jti.  Redis is outside *)
(* the database transaction: every get, delete and setex takes effect at    *)
(* once and other requests run in between.  A login and the tokens it was   *)
(* rotated to are one session, named by its first token.                    *)
EXTENDS UserAdmin

CONSTANTS
    Holder,       \* the account whose sessions are followed
    Tokens,       \* the refresh tokens it can be given
    NoToken,
    Refreshes     \* slots for its login and refresh requests in flight

ASSUME SessionsAssumption == Holder \in Accounts /\ NoToken \notin Tokens

VARIABLES
    token,        \* the jti in Redis: not issued yet, live, or gone
    session,      \* token -> the session it belongs to
    refresh,      \* slot -> the login or refresh in flight there, or Idle
    ended,        \* history: sessions logged out with their live token
    overlapped    \* history: sessions one token of which was used by a refresh
                  \* and by another request at the same time

sessionVars == <<token, session, refresh, ended, overlapped>>

TokenStates == {"unissued", "live", "gone"}

\* old: the token presented, none at a login; stale: the account stopped
\* being active after the request was admitted.
Presenting == [phase: {"found", "admitted", "deleted"}, old: Tokens \cup {NoToken},
               stale: BOOLEAN]

\* The requests in flight that present t.
UsersOf(t) == {r \in Refreshes : refresh[r] # Idle /\ refresh[r].old = t}

-----------------------------------------------------------------------------
SessionInit ==
    /\ Init
    /\ token = [t \in Tokens |-> "unissued"]
    /\ session = [t \in Tokens |-> NoToken]
    /\ refresh = [r \in Refreshes |-> Idle]
    /\ ended = {}
    /\ overlapped = {}

\* authenticate_user looks at both columns.
Authenticate(r) ==
    /\ refresh[r] = Idle
    /\ user[Holder].is_active /\ user[Holder].account_status = "active"
    /\ refresh' = [refresh EXCEPT ![r] =
          [phase |-> "deleted", old |-> NoToken, stale |-> FALSE]]
    /\ UNCHANGED <<user, request, token, session, ended, overlapped>>

\* refresh_tokens: redis.get
Find(r, t) ==
    /\ refresh[r] = Idle
    /\ token[t] = "live"
    /\ refresh' = [refresh EXCEPT ![r] =
          [phase |-> "found", old |-> t, stale |-> FALSE]]
    /\ overlapped' = IF UsersOf(t) = {} THEN overlapped ELSE overlapped \cup {session[t]}
    /\ UNCHANGED <<user, request, token, session, ended>>

\* The account lookup, which looks at is_active only.
Admit(r) ==
    /\ refresh[r].phase = "found"
    /\ refresh' = [refresh EXCEPT ![r] =
          IF user[Holder].is_active THEN [@ EXCEPT !.phase = "admitted"] ELSE Idle]
    /\ UNCHANGED <<user, request, token, session, ended, overlapped>>

\* Mutant: the old token stays usable.
DeleteNothing(r) ==
    /\ refresh[r].phase = "admitted"
    /\ refresh' = [refresh EXCEPT ![r].phase = "deleted"]
    /\ UNCHANGED <<user, request, token, session, ended, overlapped>>

\* redis.delete of the old token
Delete(r) ==
    /\ refresh[r].phase = "admitted"
    /\ refresh' = [refresh EXCEPT ![r].phase = "deleted"]
    /\ token' = [token EXCEPT ![refresh[r].old] = "gone"]
    /\ UNCHANGED <<user, request, session, ended, overlapped>>

\* redis.setex of the new one
Issue(r, new) ==
    /\ refresh[r].phase = "deleted"
    /\ token[new] = "unissued"
    /\ token' = [token EXCEPT ![new] = "live"]
    /\ session' = [session EXCEPT ![new] =
          IF refresh[r].old = NoToken THEN new ELSE session[refresh[r].old]]
    /\ refresh' = [refresh EXCEPT ![r] = Idle]
    /\ UNCHANGED <<user, request, ended, overlapped>>

\* logout deletes whatever token it is given and never fails.
Logout(t) ==
    /\ token[t] # "unissued"
    /\ token' = [token EXCEPT ![t] = "gone"]
    /\ ended' = IF token[t] = "live" THEN ended \cup {session[t]} ELSE ended
    /\ overlapped' = IF UsersOf(t) = {} THEN overlapped ELSE overlapped \cup {session[t]}
    /\ UNCHANGED <<user, request, session, refresh>>

Expire(t) ==
    /\ token[t] = "live"
    /\ token' = [token EXCEPT ![t] = "gone"]
    /\ UNCHANGED <<user, request, session, refresh, ended, overlapped>>

\* A failing call or a lost client: what Redis has been told stays.
Break(r) ==
    /\ refresh[r] # Idle
    /\ refresh' = [refresh EXCEPT ![r] = Idle]
    /\ UNCHANGED <<user, request, token, session, ended, overlapped>>

\* Administration leaves the tokens alone, those of a disabled account too.
Administer ==
    /\ Next
    /\ refresh' = [r \in Refreshes |->
          IF /\ refresh[r] # Idle
             /\ refresh[r].phase \in {"admitted", "deleted"}
             /\ user'[Holder].account_status # "active"
          THEN [refresh[r] EXCEPT !.stale = TRUE]
          ELSE refresh[r]]
    /\ UNCHANGED <<token, session, ended, overlapped>>

SessionNext ==
    \/ Administer
    \/ \E r \in Refreshes :
          \/ Authenticate(r)
          \/ \E t \in Tokens : Find(r, t)
          \/ Admit(r)
          \/ Delete(r)
          \/ \E new \in Tokens : Issue(r, new)
          \/ Break(r)
    \/ \E t \in Tokens : Logout(t) \/ Expire(t)

SessionSpec == SessionInit /\ [][SessionNext]_<<vars, sessionVars>>
-----------------------------------------------------------------------------
SessionTypeOK ==
    /\ token \in [Tokens -> TokenStates]
    /\ session \in [Tokens -> Tokens \cup {NoToken}]
    /\ refresh \in [Refreshes -> {Idle} \cup Presenting]
    /\ ended \subseteq Tokens
    /\ overlapped \subseteq Tokens

(* A session has one token that counts, and none once it is logged out      *)
(* (test_refresh_rotates_token, test_logout_revokes_refresh_token), however *)
(* its requests fail half way; only a token that two requests use at the    *)
(* same time can be rotated twice or outlive the logout.                    *)
SessionsAreSingle ==
    \A t \in Tokens : token[t] = "live" /\ session[t] \notin overlapped =>
        /\ session[t] \notin ended
        /\ \A u \in Tokens : token[u] = "live" /\ session[u] = session[t] => u = t

(* No session starts or goes on for an account that is not active, although *)
(* disabling leaves its tokens in Redis and refresh_tokens reads is_active  *)
(* only: a token is issued to a disabled account by a request that was      *)
(* admitted before, or never.                                               *)
IssuedToActive ==
    [][(\E t \in Tokens : token[t] # "live" /\ token'[t] = "live") =>
          \/ user[Holder].account_status = "active"
          \/ \E r \in Refreshes : refresh[r] # Idle /\ refresh[r].stale /\ refresh'[r] = Idle
      ]_<<vars, sessionVars>>
=============================================================================
