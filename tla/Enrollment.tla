----------------------------- MODULE Enrollment -----------------------------
(***************************************************************************)
(* How a client gets on and off a server: the token store (enrollment.py), *)
(* the operations of the administrator (operations.py) and the listener    *)
(* that redeems tokens (enroll_server.py).                                 *)
(*                                                                         *)
(* All of them are processes that load a file, compute, and save it, with  *)
(* nothing held in between: the lock on the token store is a lock between  *)
(* threads of one process, and the listener's lock keeps apart its own     *)
(* requests only.  A step below is one access to a file or to the          *)
(* interface.  What is saved is computed from what was loaded.             *)
(*                                                                         *)
(* A key is a client's public key with its preshared key.  Pruning after a *)
(* week is left out: it removes tokens that are refused with or without an *)
(* entry.  The rate limiter is left out: it only delays requests.          *)
(***************************************************************************)
EXTENDS Naturals

CONSTANTS Admins,       \* processes that run the administrator's commands
          Listener,     \* the process that redeems tokens
          Names, NoName,    \* client names
          Keys, NoKey,      \* NoKey: the empty public key of a reserved slot
          Tokens, NoToken,
          PoolSize,     \* addresses of the subnet a client can get
          MaxCommands,  \* bound: commands of administrators
          MaxFaults     \* bound: crashes and failed platform calls

ASSUME EnrollmentAssumption ==
    /\ Listener \notin Admins
    /\ NoName \notin Names
    /\ NoKey \notin Keys
    /\ NoToken \notin Tokens
    /\ PoolSize \in Nat \ {0}
    /\ MaxCommands \in Nat
    /\ MaxFaults \in Nat

Processes == Admins \cup {Listener}
Addresses == 1..PoolSize

Clients == [name: Names, key: Keys \cup {NoKey}, addr: Addresses]  \* ClientEntry
Entries == [token: Tokens, name: Names, used: BOOLEAN]             \* EnrollmentToken
Routes == [Addresses -> Keys \cup {NoKey}]  \* which peer owns an address

Commands == {"add", "embed", "revoke", "rotate", "restart"}
Jobs == [op: Commands \cup {"enroll", "none"}, name: Names \cup {NoName},
         key: Keys \cup {NoKey}, token: Tokens \cup {NoToken}]

VARIABLES
    store,    \* enrollment_tokens.json
    config,   \* the clients of server_config.json
    conf,     \* the peers of the WireGuard configuration file
    live,     \* the peers of the running interface
    pc, job,
    view,     \* view[p]: the clients process p has loaded
    seen,     \* seen[p]: the tokens process p has loaded
    expired,  \* tokens whose time is over
    handed,   \* tokens whose profile has been written
    usedKeys, usedTokens,  \* keys and tokens that have been generated
    admitted, \* history: enrolments the client was told of
    dropped,  \* history: clients that a revocation or a rotation took out
    stale,    \* history: processes that loaded a configuration, or none, before another
              \* process saved one
    crossed,  \* history: a save overwrote what its process had not seen, or the
              \* services were restarted beside another operation
    torn,     \* history: an operation ended before its last step
    astray,   \* history: a step failed since the interface last took its file
    commands, faults

files == <<store, config, conf, live>>
procVars == <<pc, job, view, seen>>
worldVars == <<expired, handed, usedKeys, usedTokens>>
historyVars == <<admitted, dropped, stale, crossed, torn, astray>>
boundVars == <<commands, faults>>
vars == <<files, procVars, worldVars, historyVars, boundVars>>

Steps == {"idle", "ready", "store", "mark", "load", "peer", "save", "persist",
          "sync", "bounce", "hand"}

TypeOK ==
    /\ store \subseteq Entries
    /\ config \subseteq Clients
    /\ conf \in Routes
    /\ live \in Routes
    /\ pc \in [Processes -> Steps]
    /\ job \in [Processes -> Jobs]
    /\ view \in [Processes -> SUBSET Clients]
    /\ seen \in [Processes -> SUBSET Entries]
    /\ expired \subseteq Tokens
    /\ handed \subseteq Tokens
    /\ usedKeys \subseteq Keys
    /\ usedTokens \subseteq Tokens
    /\ admitted \subseteq [token: Tokens, name: Names, key: Keys]
    /\ dropped \subseteq [name: Names, key: Keys \cup {NoKey}]
    /\ stale \subseteq Processes
    /\ crossed \in BOOLEAN
    /\ torn \in BOOLEAN
    /\ astray \in BOOLEAN
    /\ commands \in 0..MaxCommands
    /\ faults \in 0..MaxFaults

NoJob == [op |-> "none", name |-> NoName, key |-> NoKey, token |-> NoToken]
NoPeers == [a \in Addresses |-> NoKey]

Init ==
    /\ store = {}
    /\ config = {}
    /\ conf = NoPeers
    /\ live = NoPeers
    /\ pc = [p \in Processes |-> "idle"]
    /\ job = [p \in Processes |-> NoJob]
    /\ view = [p \in Processes |-> {}]
    /\ seen = [p \in Processes |-> {}]
    /\ expired = {}
    /\ handed = {}
    /\ usedKeys = {}
    /\ usedTokens = {}
    /\ admitted = {}
    /\ dropped = {}
    /\ stale = {}
    /\ crossed = FALSE
    /\ torn = FALSE
    /\ astray = FALSE
    /\ commands = 0
    /\ faults = 0

-----------------------------------------------------------------------------
(* The configuration, and what is computed from it.                        *)

Named(c) == {s.name : s \in c}
Slot(c, n) == CHOOSE s \in c : s.name = n

\* Variant: an address is free until its client has enrolled.
FreeUntilEnrolled(c) == Addresses \ {s.addr : s \in {r \in c : r.key # NoKey}}

Free(c) == Addresses \ {s.addr : s \in c}

\* Variant: the address of the network itself is handed out.
NextAvailableFromNetwork(c) ==
    CHOOSE a \in (0..PoolSize) \ {s.addr : s \in c} : \A b \in Free(c) : a <= b

\* next_available_ip: the lowest address no client has.
NextAvailable(c) == CHOOSE a \in Free(c) : \A b \in Free(c) : a <= b

\* build_server_wg_conf: a slot without a key is left out.
Peers(c) ==
    [a \in Addresses |-> IF \E s \in c : s.addr = a
                         THEN (CHOOSE s \in c : s.addr = a).key
                         ELSE NoKey]

\* The entry that the operation of process p writes.
Entry(p) ==
    LET j == job[p] IN
    [name |-> j.name, key |-> j.key,
     addr |-> IF j.name \in Named(view[p]) THEN Slot(view[p], j.name).addr
                                           ELSE NextAvailable(view[p])]

\* Variant: the other clients are not carried over.
UpdatedAfresh(p) ==
    CASE job[p].op = "restart" -> view[p]
      [] job[p].op = "revoke" -> {s \in view[p] : s.name # job[p].name}
      [] OTHER -> {Entry(p)}

\* The configuration it saves, from the one it loaded.
Updated(p) ==
    LET others == {s \in view[p] : s.name # job[p].name} IN
    CASE job[p].op = "restart" -> view[p]
      [] job[p].op = "revoke" -> others
      [] OTHER -> others \cup {Entry(p)}

Removed(routes, k) == [a \in Addresses |-> IF routes[a] = k THEN NoKey ELSE routes[a]]

\* "wg set ... allowed-ips": the address moves to the peer.
Added(routes, k, addr) == [Removed(routes, k) EXCEPT ![addr] = k]

\* One of the processes is in the middle of an operation.
Busy(ps) == \E p \in ps : pc[p] \notin {"idle", "ready"}

-----------------------------------------------------------------------------
Step(p, from, to) ==
    /\ pc[p] = from
    /\ pc' = [pc EXCEPT ![p] = to]

\* Process p is through with its operation.
Ends(p) ==
    /\ pc' = [pc EXCEPT ![p] = "idle"]
    /\ job' = [job EXCEPT ![p] = NoJob]
    /\ view' = [view EXCEPT ![p] = {}]
    /\ seen' = [seen EXCEPT ![p] = {}]

(* A command starts.  The command line loads the configuration first thing; *)
(* the terminal interface works on a copy it has had on the screen.         *)

Loads(a) ==
    /\ pc[a] \in {"idle", "ready"}
    /\ pc' = [pc EXCEPT ![a] = "ready"]
    /\ view' = [view EXCEPT ![a] = config]
    /\ stale' = stale \ {a}
    /\ UNCHANGED <<files, job, seen, worldVars, admitted, dropped, crossed, torn, astray, boundVars>>

Begins(a, to, j) ==
    /\ commands < MaxCommands
    /\ commands' = commands + 1
    /\ Step(a, "ready", to)
    /\ job' = [job EXCEPT ![a] = j]
    /\ UNCHANGED <<files, view, seen, expired, handed, usedTokens, historyVars, faults>>

\* add_client(enroll=True); it raises for a name that is taken or a full pool.
AddReserves(a, n) ==
    /\ n \notin Named(view[a]) /\ Free(view[a]) # {}
    /\ Begins(a, "store", [op |-> "add", name |-> n, key |-> NoKey, token |-> NoToken])
    /\ UNCHANGED usedKeys

\* add_client(enroll=False): the server generates the key.
AddEmbeds(a, n, k) ==
    /\ n \notin Named(view[a]) /\ Free(view[a]) # {}
    /\ k \notin usedKeys
    /\ Begins(a, "peer", [op |-> "embed", name |-> n, key |-> k, token |-> NoToken])
    /\ usedKeys' = usedKeys \cup {k}

RevokeBegins(a, n) ==
    /\ n \in Named(view[a])
    /\ Begins(a, "store", [op |-> "revoke", name |-> n, key |-> NoKey, token |-> NoToken])
    /\ UNCHANGED usedKeys

RotateBegins(a, n, k) ==
    /\ n \in Named(view[a])
    /\ k \notin usedKeys
    /\ Begins(a, "peer", [op |-> "rotate", name |-> n, key |-> k, token |-> NoToken])
    /\ usedKeys' = usedKeys \cup {k}

RestartBegins(a) ==
    /\ Begins(a, "persist", [NoJob EXCEPT !.op = "restart"])
    /\ UNCHANGED usedKeys

Command(a) ==
    \/ RestartBegins(a)
    \/ \E n \in Names : AddReserves(a, n) \/ RevokeBegins(a, n)
    \/ \E n \in Names, k \in Keys : AddEmbeds(a, n, k) \/ RotateBegins(a, n, k)

-----------------------------------------------------------------------------
(* The token store: enrollment.issue, revoke and redeem load, then save.   *)

\* A client posts a token; one request at a time gets past the listener's lock.
Requests(t) ==
    /\ t \in handed
    /\ Step(Listener, "idle", "store")
    /\ job' = [job EXCEPT ![Listener] = [NoJob EXCEPT !.op = "enroll", !.token = t]]
    /\ UNCHANGED <<files, view, seen, worldVars, historyVars, boundVars>>

ReadsStore(p) ==
    /\ Step(p, "store", "mark")
    /\ seen' = [seen EXCEPT ![p] = store]
    /\ UNCHANGED <<files, job, view, worldVars, historyVars, boundVars>>

SavesStore(p, tokens) ==
    /\ store' = tokens
    /\ crossed' = (crossed \/ store # seen[p])
    /\ UNCHANGED <<config, conf, live, view, seen, expired, handed,
                   admitted, dropped, stale, torn, astray, boundVars>>

\* Variant: every token that waits is dropped, whoever it was for.
OutstandingForAnyone(tokens, n) == {e \in tokens : ~e.used}

Outstanding(tokens, n) == {e \in tokens : e.name = n /\ ~e.used}

Issues(a, t) ==
    LET n == job[a].name IN
    /\ job[a].op = "add"
    /\ t \notin usedTokens
    /\ Step(a, "mark", "save")
    /\ SavesStore(a, (seen[a] \ Outstanding(seen[a], n))
                      \cup {[token |-> t, name |-> n, used |-> FALSE]})
    /\ usedTokens' = usedTokens \cup {t}
    /\ job' = [job EXCEPT ![a].token = t]
    /\ UNCHANGED usedKeys

\* Variant: the client goes, its token stays.
RevokesKeyOnly(a) ==
    /\ job[a].op = "revoke"
    /\ Step(a, "mark", "peer")
    /\ UNCHANGED <<files, job, view, seen, worldVars, historyVars, boundVars>>

RevokesTokens(a) ==
    LET gone == Outstanding(seen[a], job[a].name) IN
    /\ job[a].op = "revoke"
    /\ Step(a, "mark", "peer")
    /\ IF gone = {}
       THEN UNCHANGED <<files, view, seen, worldVars, historyVars, boundVars>>
       ELSE SavesStore(a, seen[a] \ gone) /\ UNCHANGED <<usedKeys, usedTokens>>
    /\ UNCHANGED job

\* Variant: a spent token is good again.
RedeemableTwice(e) == e.token \notin expired

Redeemable(e) == ~e.used /\ e.token \notin expired

\* The token is spent before the client is admitted.  The key comes with the request.
Redeems(k) ==
    \E e \in seen[Listener] :
        /\ e.token = job[Listener].token
        /\ Redeemable(e)
        /\ k \notin usedKeys
        /\ Step(Listener, "mark", "load")
        /\ SavesStore(Listener, (seen[Listener] \ {e}) \cup {[e EXCEPT !.used = TRUE]})
        /\ usedKeys' = usedKeys \cup {k}
        /\ job' = [job EXCEPT ![Listener].name = e.name, ![Listener].key = k]
        /\ UNCHANGED usedTokens

\* 403: unknown, spent or expired.
RefusesToken ==
    /\ pc[Listener] = "mark"
    /\ \A e \in seen[Listener] : e.token = job[Listener].token => ~Redeemable(e)
    /\ Ends(Listener)
    /\ UNCHANGED <<files, worldVars, historyVars, boundVars>>

-----------------------------------------------------------------------------
(* complete_enrollment begins with what the file says now.                 *)

Pending(c, n) == n \in Named(c) /\ Slot(c, n).key = NoKey

LoadsSlot ==
    /\ Pending(config, job[Listener].name)
    /\ Step(Listener, "load", "peer")
    /\ view' = [view EXCEPT ![Listener] = config]
    /\ stale' = stale \ {Listener}
    /\ UNCHANGED <<files, job, seen, worldVars, admitted, dropped, crossed, torn, astray, boundVars>>

\* 409: the slot is gone or has a key.  The token is spent all the same.
RefusesSlot ==
    /\ pc[Listener] = "load"
    /\ ~Pending(config, job[Listener].name)
    /\ Ends(Listener)
    /\ UNCHANGED <<files, worldVars, historyVars, boundVars>>

-----------------------------------------------------------------------------
(* The interface, the configuration, the WireGuard file, the profile.      *)

OldKey(p) == IF job[p].name \in Named(view[p]) THEN Slot(view[p], job[p].name).key ELSE NoKey

\* add_peer_live, remove_peer_live, or both for a rotation.
HotChange(p) ==
    /\ Step(p, "peer", "save")
    /\ live' = IF job[p].op = "revoke" THEN Removed(live, OldKey(p))
                ELSE Added(Removed(live, OldKey(p)), job[p].key, Entry(p).addr)
    /\ UNCHANGED <<store, config, conf, job, view, seen, worldVars, historyVars, boundVars>>

SavesConfig(p) ==
    /\ Step(p, "save", "persist")
    /\ config' = Updated(p)
    /\ crossed' = (crossed \/ p \in stale)
    /\ stale' = Processes \ {p}
    /\ dropped' = IF job[p].op \in {"revoke", "rotate"}
                  THEN dropped \cup {[name |-> job[p].name, key |-> OldKey(p)]}
                  ELSE dropped
    /\ UNCHANGED <<store, conf, live, job, view, seen, worldVars, admitted, torn, astray, boundVars>>

\* Variant: the file keeps its old peers until the next restart.
PersistsNothing(p) ==
    /\ Step(p, "persist", "sync")
    /\ UNCHANGED <<files, job, view, seen, worldVars, historyVars, boundVars>>

\* install_wg_config writes the file, then has the interface take it.
Persists(p) ==
    /\ Step(p, "persist", "sync")
    /\ conf' = Peers(Updated(p))
    /\ crossed' = (crossed \/ p \in stale)
    /\ UNCHANGED <<store, config, live, job, view, seen, worldVars,
                   admitted, dropped, stale, torn, astray, boundVars>>

AfterSync(p) == IF job[p].op = "restart" THEN "bounce" ELSE "hand"

\* Variant: "wg addconf", which removes no peer.
SyncsByAdding(p) ==
    /\ Step(p, "sync", AfterSync(p))
    /\ live' = [a \in Addresses |-> IF conf[a] = NoKey THEN live[a] ELSE conf[a]]
    /\ astray' = (astray /\ conf # Peers(config))
    /\ crossed' = (crossed \/ p \in stale)
    /\ UNCHANGED <<store, config, conf, job, view, seen, worldVars,
                   admitted, dropped, stale, torn, boundVars>>

\* reload_wg reads the file back and hands it to "wg syncconf": what it read may have
\* been replaced by another process since.  A file that is up to date repairs what a
\* step that failed before has left.
Syncs(p) ==
    /\ Step(p, "sync", AfterSync(p))
    /\ live' \in {conf, Peers(Updated(p))}
    /\ astray' = (astray /\ conf # Peers(config))
    /\ crossed' = (crossed \/ p \in stale)
    /\ UNCHANGED <<store, config, conf, job, view, seen, worldVars,
                   admitted, dropped, stale, torn, boundVars>>

\* restart_services takes the interface down and up again.  A peer that another
\* operation added meanwhile is on the interface no more.
Bounces(a) ==
    /\ pc[a] = "bounce"
    /\ live' = conf
    /\ astray' = (astray /\ conf # Peers(config))
    /\ crossed' = (crossed \/ a \in stale \/ Busy(Processes \ {a}))
    /\ Ends(a)
    /\ UNCHANGED <<store, config, conf, worldVars, admitted, dropped, stale, torn, boundVars>>

\* The profile is written, or the client told that it is in.
Finishes(p) ==
    LET j == job[p] IN
    /\ pc[p] = "hand"
    /\ handed' = IF j.op = "add" THEN handed \cup {j.token} ELSE handed
    /\ admitted' = IF j.op = "enroll"
                   THEN admitted \cup {[token |-> j.token, name |-> j.name, key |-> j.key]}
                   ELSE admitted
    /\ Ends(p)
    /\ UNCHANGED <<files, expired, usedKeys, usedTokens, dropped, stale, crossed, torn, astray,
                   boundVars>>

-----------------------------------------------------------------------------
(* Time and faults.                                                        *)

Expires(t) ==
    /\ t \in usedTokens \ expired
    /\ expired' = expired \cup {t}
    /\ UNCHANGED <<files, procVars, handed, usedKeys, usedTokens, historyVars, boundVars>>

Faulty ==
    /\ faults < MaxFaults
    /\ faults' = faults + 1
    /\ astray' = TRUE
    /\ UNCHANGED <<store, config, conf, worldVars, admitted, dropped, stale, crossed, commands>>

\* The process dies, or an exception ends the operation.
Crash(p) ==
    /\ pc[p] \notin {"idle", "ready"}
    /\ Ends(p)
    /\ Faulty
    /\ torn' = TRUE
    /\ UNCHANGED live

\* WireGuard does not answer: the operation warns and goes on.  A rotation makes two
\* calls, each of which can fail alone.
HotChangeFails(p) ==
    /\ Step(p, "peer", "save")
    /\ Faulty
    /\ live' \in IF job[p].op = "rotate"
                 THEN {live, Removed(live, OldKey(p)), Added(live, job[p].key, Entry(p).addr)}
                 ELSE {live}
    /\ UNCHANGED <<job, view, seen, torn>>

\* The file cannot be written, or the interface does not take it: a restart gives up,
\* the others warn and go on.
PersistFails(p) ==
    /\ job[p].op # "restart"
    /\ Step(p, "persist", "hand") \/ Step(p, "sync", "hand")
    /\ Faulty
    /\ UNCHANGED <<live, job, view, seen, torn>>

\* The machine restarts; the interface comes up from its file.
Reboot ==
    /\ pc' = [p \in Processes |-> "idle"]
    /\ job' = [p \in Processes |-> NoJob]
    /\ view' = [p \in Processes |-> {}]
    /\ seen' = [p \in Processes |-> {}]
    /\ live' = conf
    /\ faults < MaxFaults
    /\ faults' = faults + 1
    /\ torn' = (torn \/ Busy(Processes))
    /\ astray' = (astray \/ Busy(Processes))
    /\ UNCHANGED <<store, config, conf, worldVars, admitted, dropped, stale, crossed, commands>>

-----------------------------------------------------------------------------
AdminStep(a) ==
    \/ Loads(a) \/ Command(a)
    \/ RevokesTokens(a) \/ Bounces(a)
    \/ \E t \in Tokens : Issues(a, t)

ListenerStep ==
    \/ RefusesToken \/ LoadsSlot \/ RefusesSlot
    \/ \E t \in Tokens : Requests(t)
    \/ \E k \in Keys : Redeems(k)

ProcessStep(p) ==
    ReadsStore(p) \/ HotChange(p) \/ SavesConfig(p) \/ Persists(p)
    \/ Syncs(p) \/ Finishes(p)

World ==
    \/ \E t \in Tokens : Expires(t)
    \/ \E p \in Processes : Crash(p) \/ HotChangeFails(p) \/ PersistFails(p)
    \/ Reboot

Next ==
    \/ \E a \in Admins : AdminStep(a)
    \/ ListenerStep
    \/ \E p \in Processes : ProcessStep(p)
    \/ World

Spec == Init /\ [][Next]_vars

-----------------------------------------------------------------------------
(* Properties.  crossed tells whether two processes worked on the same     *)
(* files at once, torn whether an operation ended half-way.                *)

AtRest == ~Busy(Processes)

\* Two clients never share an address or a name, whichever save overtook which: every
\* configuration that is saved was computed from one complete configuration.
ClientsApart ==
    \A s, r \in config : s # r => s.name # r.name /\ s.addr # r.addr

\* A token admits one client: a second use is refused, and so is the use of a token
\* that was replaced.
OneClientPerToken ==
    ~crossed => \A x, y \in admitted : x.token = y.token => x = y

\* When nothing is under way the running interface and the file it is started from
\* admit exactly the clients of the configuration; the next operation that gets to its
\* end repairs what a failure left behind.
InStep == AtRest /\ ~crossed /\ ~astray => live = Peers(config) /\ conf = Peers(config)

\* A token that can still be redeemed belongs to a client that exists, and no client
\* has two of them.
TokensHaveSlots ==
    AtRest /\ ~crossed /\ ~torn =>
        LET open == {e \in store : Redeemable(e)} IN
        /\ \A e \in open : e.name \in Named(config)
        /\ \A e, f \in open : e.name = f.name => e = f

\* A client that waits for its enrolment has a token to enrol with.
PendingCanEnroll ==
    AtRest /\ ~crossed /\ ~torn =>
        \A s \in config : s.key = NoKey => \E e \in store : e.name = s.name /\ ~e.used

\* Once a revocation or a rotation has been applied, the old key opens the interface no
\* more, whatever the other processes do and over restarts of the machine.
GoneIsOff ==
    ~crossed /\ ~astray =>
        \A d \in dropped :
            \/ d.key = NoKey
            \/ \E p \in Processes : pc[p] \in {"persist", "sync"} /\ job[p].name = d.name
            \/ \A a \in Addresses : live[a] # d.key

\* A client that was told it is enrolled is in the configuration, with its key, until
\* a revocation or a rotation takes it out.
EnrolledIsKept ==
    ~crossed => \A x \in admitted :
        \/ [name |-> x.name, key |-> x.key] \in dropped
        \/ \E s \in config : s.name = x.name /\ s.key = x.key

\* No write loses another client's peer: an enrolled client that no command named is
\* in the configuration (the comment on enroll_lock in enroll_server.py).
NoPeerIsLost ==
    \A x \in admitted :
        \/ \E d \in dropped : d.name = x.name
        \/ \E s \in config : s.name = x.name /\ s.key = x.key
=============================================================================
