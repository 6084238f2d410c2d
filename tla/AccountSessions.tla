--------------------------- MODULE AccountSessions ---------------------------
(***************************************************************************)
(* One account: its password, its sessions and trusted devices, and the    *)
(* recovery of the password (customer-auth.js, account-security.js,        *)
(* session-security.js, password-recovery.js).                             *)
(*                                                                         *)
(* A password is the number of times it was set.  Of last_seen_at, by      *)
(* which every cap and every list of the code sorts the sessions, only the *)
(* order is kept: the session that was seen longest ago is the first.  How *)
(* many days ago a session was seen is left open: the stale sessions are   *)
(* any beginning of that order.                                            *)
(* The rate limits and the security events are left out: neither is read   *)
(* by anything else.                                                       *)
(***************************************************************************)
EXTENDS Naturals, FiniteSets, Sequences, Functions

CONSTANTS
    Logins,      \* ids of sign-ins; each opens at most one session
    Devices,     \* fingerprints: user agent and address
    Tokens,      \* ids of requests to reset the password
    SessionCap,  \* maxActiveSessions of the maintenance command
    MaxPassword  \* bound of the model: passwords of the account

ASSUME SessionsAssumption ==
    /\ IsFiniteSet(Logins) /\ IsFiniteSet(Tokens)
    /\ SessionCap \in Nat \ {0} /\ MaxPassword \in Nat \ {0}

VARIABLES
    password,   \* password_hash of app_users; 0 before the signup
    login,      \* login[l]: where a sign-in is, and the password it has verified
    lastSeen,   \* user_sessions: the place of each session by last_seen_at, 0 of none
    expired,    \* the sessions whose expires_at has passed
    trusted,    \* account_trusted_devices
    acting,     \* acting[l]: a request that has authenticated with session l
    overflow,   \* the sessions a run of enforceSessionCap has selected
    token,      \* token[t]: a row of password_reset_tokens and its request
    spent,      \* history: the tokens that have set a password
    overtaken   \* history: the sign-ins under way when a password was set

sessionVars == <<password, login, lastSeen, expired, trusted, acting, overflow, token,
                 spent, overtaken>>

-----------------------------------------------------------------------------
Sessions == {l \in Logins : lastSeen[l] # 0}

Login == [phase: {"none", "verified", "opened"}, password: 0 .. MaxPassword, device: Devices]

\* A transaction of a request sees the tokens that were live when it began.
Token == [state: {"none", "requested", "live", "expired", "consumed"}, sees: SUBSET Tokens]

SessionsTypeOK ==
    /\ password \in 0 .. MaxPassword
    /\ login \in [Logins -> Login]
    /\ lastSeen \in [Logins -> 0 .. Cardinality(Logins)]
    /\ \A l, k \in Sessions : lastSeen[l] = lastSeen[k] => l = k
    /\ \A l \in Sessions : login[l].phase = "opened"
    /\ expired \subseteq Sessions
    /\ trusted \subseteq Devices
    /\ acting \in [Logins -> BOOLEAN]
    /\ overflow \subseteq Logins
    /\ token \in [Tokens -> Token]
    /\ spent \in Seq(Tokens)
    /\ overtaken \subseteq Logins

SessionsInit ==
    /\ password = 0
    /\ login \in [Logins -> {[phase |-> "none", password |-> 0, device |-> d] : d \in Devices}]
    /\ lastSeen = [l \in Logins |-> 0]
    /\ expired = {}
    /\ trusted = {}
    /\ acting = [l \in Logins |-> FALSE]
    /\ overflow = {}
    /\ token = [t \in Tokens |-> [state |-> "none", sees |-> {}]]
    /\ spent = <<>>
    /\ overtaken = {}

-----------------------------------------------------------------------------
\* The sessions that are kept, in the order they had.
Kept(ids) ==
    [l \in Logins |-> IF l \in ids THEN Cardinality({k \in ids : lastSeen[k] <= lastSeen[l]}) ELSE 0]

Without(gone) ==
    /\ lastSeen' = Kept(Sessions \ gone)
    /\ expired' = expired \ gone

\* No session was seen later than l.
SeenNow(l) ==
    lastSeen' = [Kept(Sessions \ {l}) EXCEPT ![l] = Cardinality(Sessions \ {l}) + 1]

Verified(l, p) == login' = [login EXCEPT ![l].phase = "verified", ![l].password = p]

\* POST /signup: user, workspace and membership in one transaction, the session
\* after it.
SignUp(l) ==
    /\ password = 0
    /\ password' = 1
    /\ Verified(l, 1)
    /\ UNCHANGED <<lastSeen, expired, trusted, acting, overflow, token, spent, overtaken>>

\* POST /login: the password is verified against the row as it was read ...
VerifyPassword(l) ==
    /\ password > 0 /\ login[l].phase = "none"
    /\ Verified(l, password)
    /\ UNCHANGED <<password, lastSeen, expired, trusted, acting, overflow, token, spent,
                   overtaken>>

\* ... and the session is inserted by a statement of its own.
CreateSession(l) ==
    /\ login[l].phase = "verified"
    /\ login' = [login EXCEPT ![l].phase = "opened"]
    /\ SeenNow(l)
    /\ UNCHANGED <<password, expired, trusted, acting, overflow, token, spent, overtaken>>

\* The API dies, or the database refuses the INSERT.
LoginFails(l) ==
    /\ login[l].phase = "verified"
    /\ login' = [login EXCEPT ![l].phase = "opened"]
    /\ UNCHANGED <<password, lastSeen, expired, trusted, acting, overflow, token, spent,
                   overtaken>>

-----------------------------------------------------------------------------
Live(l) == l \in Sessions \ expired

\* loadContext: a request with a live session; the session was seen now.
LoadContext(l) ==
    /\ Live(l)
    /\ SeenNow(l)
    /\ UNCHANGED <<password, login, expired, trusted, acting, overflow, token, spent, overtaken>>

\* requireAccountSession: the handler runs after it, whatever happens meanwhile.
RequireAccountSession(l) ==
    /\ Live(l) /\ ~acting[l]
    /\ acting' = [acting EXCEPT ![l] = TRUE]
    /\ UNCHANGED <<password, login, lastSeen, expired, trusted, overflow, token, spent,
                   overtaken>>

Acted(l) ==
    /\ acting[l]
    /\ acting' = [acting EXCEPT ![l] = FALSE]
    /\ UNCHANGED <<password, login, overflow, token, spent, overtaken>>

\* DELETE /sessions/:sessionId, never the session in use.
RevokeSession(l, k) ==
    /\ Acted(l)
    /\ k # l /\ Without({k})
    /\ UNCHANGED trusted

\* DELETE /sessions/stale: those seen before some moment, but the one in use.
RevokeStale(l, n) ==
    /\ Acted(l)
    /\ Without({k \in Sessions : lastSeen[k] <= n} \ {l})
    /\ UNCHANGED trusted

\* DELETE /sessions.
RevokeOthers(l) ==
    /\ Acted(l)
    /\ Without(Logins \ {l})
    /\ UNCHANGED trusted

\* POST /devices/trust-current, if the session is still there.
TrustCurrent(l) ==
    /\ Acted(l)
    /\ trusted' = IF Live(l) THEN trusted \cup {login[l].device} ELSE trusted
    /\ UNCHANGED <<lastSeen, expired>>

\* DELETE /devices/:deviceId: the sessions of the device go on.
RevokeDevice(l, d) ==
    /\ Acted(l)
    /\ trusted' = trusted \ {d}
    /\ UNCHANGED <<lastSeen, expired>>

\* POST /logout.
LogOut(l) ==
    /\ l \in Sessions
    /\ Without({l})
    /\ UNCHANGED <<password, login, trusted, acting, overflow, token, spent, overtaken>>

SessionExpires(l) ==
    /\ Live(l)
    /\ expired' = expired \cup {l}
    /\ UNCHANGED <<password, login, lastSeen, trusted, acting, overflow, token, spent,
                   overtaken>>

-----------------------------------------------------------------------------
(* The maintenance command (bin/session-security.js)                       *)

PruneExpired ==
    /\ expired # {}
    /\ Without(expired)
    /\ UNCHANGED <<password, login, trusted, acting, overflow, token, spent, overtaken>>

RevokeUserSessions ==
    /\ Without(Logins)
    /\ UNCHANGED <<password, login, trusted, acting, overflow, token, spent, overtaken>>

LiveSessions == {l \in Sessions : Live(l)}

\* The live sessions past the cap, counted from the one seen last.
PastCap ==
    {l \in LiveSessions : Cardinality({k \in LiveSessions : lastSeen[k] > lastSeen[l]}) >= SessionCap}

\* enforceSessionCap selects and deletes in two statements ...
SelectOverflow ==
    /\ overflow = {}
    /\ overflow' = PastCap
    /\ UNCHANGED <<password, login, lastSeen, expired, trusted, acting, token, spent, overtaken>>

DeleteOverflow ==
    /\ overflow # {}
    /\ Without(overflow)
    /\ overflow' = {}
    /\ UNCHANGED <<password, login, trusted, acting, token, spent, overtaken>>

\* ... enforceAllSessionCaps in one, in batches.
EnforceAllCaps(batch) ==
    /\ Without({l \in PastCap : Cardinality({k \in PastCap : lastSeen[k] <= lastSeen[l]}) <= batch})
    /\ UNCHANGED <<password, login, trusted, acting, overflow, token, spent, overtaken>>

-----------------------------------------------------------------------------
(* Recovery of the password                                                *)

LiveTokens == {t \in Tokens : token[t].state = "live"}

TokensChange(to) ==
    /\ token' = to
    /\ UNCHANGED <<login, trusted, acting, overflow>>

\* POST /password/forgot: a transaction that consumes the tokens it sees ...
BeginForgot(t) ==
    /\ password > 0 /\ token[t].state = "none"
    /\ TokensChange([token EXCEPT ![t] = [state |-> "requested", sees |-> LiveTokens]])
    /\ UNCHANGED <<password, lastSeen, expired, spent, overtaken>>

\* ... and inserts its own: of two at once each leaves the other's alone.
CommitForgot(t) ==
    /\ token[t].state = "requested"
    /\ TokensChange([u \in Tokens |->
          CASE u = t -> [state |-> "live", sees |-> {}]
            [] u \in token[t].sees -> [token[u] EXCEPT !.state = "consumed"]
            [] OTHER -> token[u]])
    /\ UNCHANGED <<password, lastSeen, expired, spent, overtaken>>

\* The mail is refused: the token is consumed; or its 30 minutes are over.
TokenEnds(t) ==
    /\ token[t].state = "live"
    /\ \E end \in {"consumed", "expired"} : TokensChange([token EXCEPT ![t].state = end])
    /\ UNCHANGED <<password, lastSeen, expired, spent, overtaken>>

\* Faulty variant of Revoked: the sessions survive the new password.
NotRevoked == UNCHANGED <<lastSeen, expired>>

\* DELETE FROM user_sessions WHERE user_id = $1.
Revoked == Without(Logins)

\* POST /password/reset: one transaction, which only a live token lets through.
ResetPassword(t) ==
    /\ token[t].state = "live"
    /\ password < MaxPassword
    /\ password' = password + 1
    /\ Revoked
    /\ TokensChange([u \in Tokens |-> IF u \in LiveTokens
                                        THEN [token[u] EXCEPT !.state = "consumed"]
                                        ELSE token[u]])
    /\ spent' = Append(spent, t)
    /\ overtaken' = overtaken \cup {l \in Logins : login[l].phase = "verified"}

-----------------------------------------------------------------------------
SessionsNext ==
    \/ \E l \in Logins :
         \/ SignUp(l) \/ VerifyPassword(l) \/ CreateSession(l) \/ LoginFails(l)
         \/ LoadContext(l) \/ RequireAccountSession(l)
         \/ \E k \in Logins : RevokeSession(l, k)
         \/ \E n \in 1 .. Cardinality(Sessions) : RevokeStale(l, n)
         \/ RevokeOthers(l) \/ TrustCurrent(l)
         \/ \E d \in Devices : RevokeDevice(l, d)
         \/ LogOut(l) \/ SessionExpires(l)
    \/ PruneExpired \/ RevokeUserSessions
    \/ SelectOverflow \/ DeleteOverflow
    \/ \E batch \in 1 .. Cardinality(Logins) : EnforceAllCaps(batch)
    \/ \E t \in Tokens : \/ BeginForgot(t) \/ CommitForgot(t)
                         \/ TokenEnds(t) \/ ResetPassword(t)

SessionsSpec == SessionsInit /\ [][SessionsNext]_sessionVars

-----------------------------------------------------------------------------
(* Properties                                                              *)

\* "Sign in again on every device": a session of an earlier password is only
\* that of a sign-in that had verified it, and had not yet inserted its row,
\* when the password was set.  And every password but the first was set with a
\* token of its own, also when two requests overlapped or a link was used twice.
SessionsFollowPassword ==
    /\ \A l \in Sessions : login[l].password = password \/ l \in overtaken
    /\ IsInjective(spent)
    /\ password > 0 => Len(spent) = password - 1
=============================================================================
