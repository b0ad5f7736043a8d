------------------------------- MODULE Panel --------------------------------
(***************************************************************************)
(* The web panel's door: the sessions, the rate limiter and the admin      *)
(* token of web_auth.py, and the handlers of web_server.py that use them,  *)
(* each request a thread of its own.  Checking a token takes about a tenth *)
(* of a second, so requests overlap there, and a failure's time is read    *)
(* before the limiter's lock is taken.  Times are whole seconds.           *)
(***************************************************************************)
EXTENDS Integers, FiniteSets

CONSTANTS
    Requests,           \* threads that serve /auth
    Addresses,
    MaxFailures, Window, Lockout,   \* the limiter's
    Ttl,                \* a session's life
    MaxTime, MaxLogins

ASSUME PanelAssumption ==
    /\ MaxFailures \in Nat \ {0} /\ Window \in Nat \ {0} /\ Lockout \in Nat
    /\ Ttl \in Nat /\ MaxTime \in Nat /\ MaxLogins \in Nat

VARIABLES
    clock,
    token,          \* the admin token on disk, a number; it is drawn anew
    hits,           \* the limiter's failures, per address: a set of numbered times
    lockedUntil,    \* and its lockouts
    sessions,       \* expiry of each session; sessions are numbered
    logins,         \* sessions created so far
    request,        \* each /auth request: what it does, its address and token, and the
                    \* time of its failure
    failedAt        \* history: all failures of each address since it succeeded last
panelVars == <<clock, token, hits, lockedUntil, sessions, logins, request,
               failedAt>>

Waiting == [at |-> "waiting"]

PanelInit ==
    /\ clock = 1 /\ token = 1
    /\ hits = [a \in Addresses |-> {}] /\ lockedUntil = [a \in Addresses |-> 0]
    /\ sessions = <<>> /\ logins = 0
    /\ request = [r \in Requests |-> Waiting]
    /\ failedAt = [a \in Addresses |-> {}]

PassTime ==
    /\ clock < MaxTime /\ clock' = clock + 1
    /\ UNCHANGED <<token, hits, lockedUntil, sessions, logins, request,
                   failedAt>>
\* generate_and_store_token; the sessions of before go on.
NewToken ==
    /\ token < 2 /\ token' = token + 1
    /\ UNCHANGED <<clock, hits, lockedUntil, sessions, logins, request,
                   failedAt>>

-----------------------------------------------------------------------------
(* RateLimiter *)

RetryAfter(a) == IF lockedUntil[a] > clock THEN lockedUntil[a] - clock ELSE 0
\* A defect: failures never leave the window.
RecentAlways(a, now) == hits[a]
\* The failures within the window; nothing reads the order of the list.
Recent(a, now) == {h \in hits[a] : h.at > now - Window}
\* now was read before the lock: other threads' failures may be later.
RegisterFailure(a, now) ==
    LET failure == [number |-> Cardinality(failedAt[a]) + 1, at |-> now]
        all == Recent(a, now) \cup {failure}
        enough == Cardinality(all) >= MaxFailures IN
    /\ hits' = [hits EXCEPT ![a] = IF enough THEN {} ELSE all]
    /\ lockedUntil' = IF enough THEN [lockedUntil EXCEPT ![a] = now + Lockout] ELSE lockedUntil
    /\ failedAt' = [failedAt EXCEPT ![a] = @ \cup {failure}]
\* reset
ResetLimiter(a) ==
    hits' = [hits EXCEPT ![a] = {}] /\ lockedUntil' = [lockedUntil EXCEPT ![a] = 0]

-----------------------------------------------------------------------------
(* /auth: the gate, the token's check, the outcome *)

AuthBegins(r) ==
    /\ request[r] = Waiting
    /\ \E a \in Addresses, t \in 0..token :
        /\ RetryAfter(a) = 0
        /\ request' = [request EXCEPT ![r] =
                            [at |-> "checking", from |-> a, token |-> t, now |-> 0]]
    /\ UNCHANGED <<clock, token, hits, lockedUntil, sessions, logins, failedAt>>
\* verify_token read the file: the token of that moment decides.
TokenChecked(r) ==
    /\ request[r].at = "checking"
    /\ request' = [request EXCEPT ![r].at = IF request[r].token = token THEN "good" ELSE "bad"]
    /\ UNCHANGED <<clock, token, hits, lockedUntil, sessions, logins, failedAt>>
\* register_failure reads the clock, then takes the lock.
FailureIsTimed(r) ==
    /\ request[r].at = "bad"
    /\ request' = [request EXCEPT ![r].at = "failed", ![r].now = clock]
    /\ UNCHANGED <<clock, token, hits, lockedUntil, sessions, logins, failedAt>>
AuthFails(r) ==
    /\ request[r].at = "failed"
    /\ RegisterFailure(request[r].from, request[r].now)
    /\ request' = [request EXCEPT ![r] = Waiting]
    /\ UNCHANGED <<clock, token, sessions, logins>>
AuthSucceeds(r) ==
    /\ request[r].at = "good" /\ logins < MaxLogins
    /\ ResetLimiter(request[r].from)
    /\ failedAt' = [failedAt EXCEPT ![request[r].from] = {}]
    /\ logins' = logins + 1
    /\ sessions' = [s \in (DOMAIN sessions) \cup {logins'} |->
                        IF s = logins' THEN clock + Ttl ELSE sessions[s]]
    /\ request' = [request EXCEPT ![r] = Waiting]
    /\ UNCHANGED <<clock, token>>

-----------------------------------------------------------------------------
(* SessionStore *)

Drop(dead) == sessions' = [s \in (DOMAIN sessions) \ dead |-> sessions[s]]
Valid(s) == s \in DOMAIN sessions /\ sessions[s] >= clock
\* _handle_api and _handle_events: a session that expired goes at its first use.
UseExpired(s) ==
    /\ s \in DOMAIN sessions /\ ~Valid(s)
    /\ Drop({s})
    /\ UNCHANGED <<clock, token, hits, lockedUntil, logins, request, failedAt>>
\* _handle_logout
LogOut(s) ==
    /\ s \in DOMAIN sessions
    /\ Drop({s})
    /\ UNCHANGED <<clock, token, hits, lockedUntil, logins, request, failedAt>>
\* purge_expired, every five minutes
Purge ==
    /\ \E s \in DOMAIN sessions : sessions[s] < clock
    /\ Drop({s \in DOMAIN sessions : sessions[s] < clock})
    /\ UNCHANGED <<clock, token, hits, lockedUntil, logins, request, failedAt>>
\* The daemon starts again; the sessions and the limiter were in memory.
PanelRestart ==
    /\ sessions # <<>> \/ \E a \in Addresses : hits[a] # {} \/ lockedUntil[a] # 0
    /\ Drop(DOMAIN sessions)
    /\ hits' = [a \in Addresses |-> {}] /\ lockedUntil' = [a \in Addresses |-> 0]
    /\ failedAt' = [a \in Addresses |-> {}]
    /\ request' = [r \in Requests |-> Waiting]
    /\ UNCHANGED <<clock, token, logins>>

PanelNext ==
    \/ PassTime \/ NewToken \/ Purge \/ PanelRestart
    \/ \E r \in Requests : \/ AuthBegins(r) \/ TokenChecked(r) \/ FailureIsTimed(r)
                          \/ AuthFails(r) \/ AuthSucceeds(r)
    \/ \E s \in 1..logins : UseExpired(s) \/ LogOut(s)
PanelSpec == PanelInit /\ [][PanelNext]_panelVars

-----------------------------------------------------------------------------
(* Properties *)

\* An address waits only for what it did: a lockout that runs was begun by
\* MaxFailures failures within the window, none of them counted before a success
\* (RateLimiter, whatever requests overlap while their tokens are checked and
\* between the reading of the clock and the lock).
LockoutIsEarned ==
    \A a \in Addresses : RetryAfter(a) > 0 =>
        LET since == lockedUntil[a] - Lockout
        IN  Cardinality({f \in failedAt[a] : f.at > since - Window}) >= MaxFailures
=============================================================================
