-------------------------- MODULE AdmissionProofs --------------------------
(* Theorems about Enrollment: what a token admits, which keys the interface *)
(* takes, and how the tokens, the clients and the peers stay in step when   *)
(* no save overwrote what its process had not seen.  For every set of       *)
(* administrators, names, keys and tokens, and any number of commands and   *)
(* faults.                                                                  *)
EXTENDS EnrollmentProofs

-----------------------------------------------------------------------------
(* The inductive invariant.                                                *)

Working(p, op, n) == job[p].op = op /\ job[p].name = n

\* A process that nobody overtook knows the configuration.
LoadedAt(p) == {"peer", "save"} \cup IF p = Listener THEN {} ELSE {"ready", "store", "mark"}
Knows(p) ==
    p \notin stale =>
        /\ pc[p] \in LoadedAt(p) => view[p] = config
        /\ pc[p] \in {"persist", "sync"} => Updated(p) = config

\* Keys are used once: no two clients share one, one that went does not come back, and
\* the key of an operation under way is its own, and new until it is saved.
KeysOnce ==
    /\ \A s \in config : s.key \in usedKeys \cup {NoKey}
    /\ \A s, r \in config : s.key = r.key /\ s.key # NoKey => s = r
    /\ \A d \in dropped : d.key # NoKey => d.key \in usedKeys /\ \A s \in config : s.key # d.key
    /\ \A p \in Processes :
        /\ job[p].key \in usedKeys \cup {NoKey}
        /\ \A q \in Processes : job[p].key = job[q].key /\ job[p].key # NoKey => p = q
        /\ pc[p] \in {"load", "peer", "save"} /\ job[p].key # NoKey =>
            /\ \A s \in config : s.key # job[p].key
            /\ \A d \in dropped : d.key # job[p].key

\* What the operations say of their keys and their tokens.  A token is handed out by the
\* operation that issued it, at its end.
JobKeys ==
    /\ handed \subseteq usedTokens
    /\ \A p \in Processes :
        /\ job[p].op \in {"embed", "rotate"} => job[p].key # NoKey
        /\ job[p].op \notin {"embed", "rotate", "enroll"} => job[p].key = NoKey
        /\ job[p].op = "enroll" /\ pc[p] \in Redeemed => job[p].key # NoKey
        /\ job[p].op = "enroll" => job[p].token \in handed
        /\ job[p].op = "add" => pc[p] # "peer"
        /\ job[p].op = "add" /\ pc[p] \in Admitting =>
            /\ job[p].token \in usedTokens \ handed
            /\ \A q \in Processes : job[q].op = "add" /\ pc[q] \in Admitting
                                        /\ job[q].token = job[p].token => p = q

\* A spent token is spent for good, and the listener holds it for one client.
Spent(t) == t \in usedTokens /\ \A e \in store : e.token = t => e.used
TokensOnce ==
    /\ \A e \in store : e.token \in usedTokens
    /\ \A e, f \in store : e.token = f.token => e = f
    /\ \A x \in admitted : Spent(x.token)
    /\ \A x, y \in admitted : x.token = y.token => x = y
    /\ pc[Listener] \in Redeemed =>
        /\ Spent(job[Listener].token)
        /\ \A x \in admitted : x.token # job[Listener].token

\* A client that enrolled is there, or went by a command.
Kept(n, k) == \/ [name |-> n, key |-> k] \in dropped
              \/ \E s \in config : s.name = n /\ s.key = k
EnrolledKept ==
    /\ \A x \in admitted : Kept(x.name, x.key)
    /\ pc[Listener] \in {"persist", "sync", "hand"} => Kept(job[Listener].name, job[Listener].key)
    /\ pc[Listener] \in {"peer", "save"} =>
        \A s \in view[Listener] : s.name = job[Listener].name => s.key = NoKey

\* Whoever saved a configuration has still to write the WireGuard file, and whoever
\* wrote it to have the interface take it.
Syncing == {"save", "persist", "sync"}
FileFollows == conf = Peers(config) \/ \E p \in Processes : pc[p] = "persist"
LiveFollows == live = Peers(config) \/ \E p \in Processes : pc[p] \in Syncing
GoneFollows ==
    \A d \in dropped : d.key # NoKey =>
        /\ \/ \E p \in Processes : pc[p] = "persist" /\ job[p].name = d.name
           \/ \A a \in Addresses : conf[a] # d.key
        /\ \/ \E p \in Processes : pc[p] \in {"persist", "sync"} /\ job[p].name = d.name
           \/ \A a \in Addresses : live[a] # d.key

\* The token of n is under way to its client; the client is about to go.
Open(n) == {e \in store : e.name = n /\ ~e.used}
Issuing(p, n) == pc[p] = "save" /\ Working(p, "add", n)
Adding(n) == \E p \in Processes : Issuing(p, n)
Going(n) == \E p \in Processes : pc[p] \in {"peer", "save"} /\ Working(p, "revoke", n)
Entering(n) == pc[Listener] \in {"load", "peer", "save"} /\ job[Listener].name = n

OneOpenToken == \A e, f \in store : ~e.used /\ ~f.used /\ e.name = f.name => e = f
TokensNamed == \A e \in store : ~e.used => e.name \in Named(config) \/ Adding(e.name)
\* A revocation that nobody overtook leaves no token behind.
RevocationsThorough ==
    \A p \in Processes \ stale : job[p].op = "revoke" =>
        /\ pc[p] = "mark" => Open(job[p].name) \subseteq seen[p] \/ Adding(job[p].name)
        /\ pc[p] \in {"peer", "save"} => Open(job[p].name) = {} \/ Adding(job[p].name)
PendingKept ==
    \A s \in config : s.key = NoKey => Open(s.name) # {} \/ Going(s.name) \/ Entering(s.name)
\* A slot that is about to be saved has a token that nobody was handed yet.
ReservedKept ==
    \A p \in Processes \ stale, n \in Names : Issuing(p, n) =>
        \/ Going(n)
        \/ \E e \in Open(n), q \in Processes : Issuing(q, n) /\ e.token = job[q].token

SlotsOK == /\ OneOpenToken /\ TokensNamed /\ RevocationsThorough
           /\ PendingKept /\ ReservedKept

AInv ==
    /\ \A p \in Processes : Knows(p)
    /\ JobKeys
    /\ ~crossed => KeysOnce /\ TokensOnce /\ EnrolledKept
    /\ ~crossed /\ ~astray => FileFollows /\ LiveFollows /\ GoneFollows
    /\ ~crossed /\ ~torn => SlotsOK

-----------------------------------------------------------------------------
(* What the steps do, process by process.                                  *)

LEMMA IssuesEffect ==
  ASSUME IInv, NEW a \in Admins, NEW t \in Tokens, Issues(a, t)
  PROVE  /\ a \in Processes /\ a # Listener
         /\ pc[a] = "mark" /\ pc'[a] = "save"
         /\ \A q \in Processes : q # a => pc'[q] = pc[q] /\ job'[q] = job[q]
         /\ job[a].op = "add" /\ job'[a].op = "add"
         /\ job'[a].name = job[a].name /\ job'[a].key = job[a].key /\ job'[a].token = t
         /\ t \in usedTokens' /\ t \notin usedTokens /\ usedTokens' = usedTokens \cup {t}
         /\ UNCHANGED <<view, seen, config, conf, live, handed, usedKeys, admitted, dropped,
                        stale, torn, astray>>
         /\ crossed' = (crossed \/ store # seen[a])
         /\ store' = (seen[a] \ Outstanding(seen[a], job[a].name))
                       \cup {[token |-> t, name |-> job[a].name, used |-> FALSE]}
<1>1. a \in Processes /\ a # Listener /\ job[a] \in Jobs
  BY ProcessesSplit DEF IInv, TypeOK
<1> QED
  BY <1>1 DEF IInv, TypeOK, Jobs, Issues, SavesStore, Step

LEMMA RevokesTokensEffect ==
  ASSUME IInv, NEW a \in Admins, RevokesTokens(a)
  PROVE  /\ a \in Processes /\ a # Listener /\ job[a].op = "revoke"
         /\ pc[a] = "mark" /\ pc'[a] = "peer"
         /\ \A q \in Processes : q # a => pc'[q] = pc[q]
         /\ UNCHANGED <<job, view, seen, config, conf, live, handed, usedKeys, usedTokens,
                        admitted, dropped, stale, torn, astray>>
         /\ \/ /\ Outstanding(seen[a], job[a].name) = {}
               /\ store' = store /\ crossed' = crossed
            \/ /\ store' = seen[a] \ Outstanding(seen[a], job[a].name)
               /\ crossed' = (crossed \/ store # seen[a])
<1>1. a \in Processes /\ a # Listener
  BY ProcessesSplit
<1>2. pc[a] = "mark" /\ pc'[a] = "peer" /\ \A q \in Processes : q # a => pc'[q] = pc[q]
  BY <1>1 DEF IInv, TypeOK, RevokesTokens, Step
<1> QED
  BY <1>1, <1>2 DEF RevokesTokens, SavesStore, files, worldVars, historyVars, boundVars

LEMMA RedeemsEffect ==
  ASSUME IInv, NEW k \in Keys, Redeems(k)
  PROVE  \E e \in seen[Listener], r \in Entries :
         /\ r.token = e.token /\ r.name = e.name /\ r.used
         /\ Listener \in Processes /\ e \in Entries
         /\ pc[Listener] = "mark" /\ pc'[Listener] = "load"
         /\ \A q \in Processes : q # Listener => pc'[q] = pc[q] /\ job'[q] = job[q]
         /\ e.token = job[Listener].token /\ ~e.used /\ e.token \notin expired
         /\ k \notin usedKeys /\ usedKeys' = usedKeys \cup {k}
         /\ job'[Listener].op = job[Listener].op /\ job'[Listener].token = job[Listener].token
         /\ job'[Listener].name = e.name /\ job'[Listener].key = k
         /\ UNCHANGED <<view, seen, config, conf, live, handed, usedTokens, admitted, dropped,
                        stale, torn, astray>>
         /\ crossed' = (crossed \/ store # seen[Listener])
         /\ store' = (seen[Listener] \ {e}) \cup {r}
<1> DEFINE L == Listener
<1>1. PICK e \in seen[L] :
        /\ e.token = job[L].token
        /\ Redeemable(e)
        /\ k \notin usedKeys
        /\ Step(L, "mark", "load")
        /\ SavesStore(L, (seen[L] \ {e}) \cup {[e EXCEPT !.used = TRUE]})
        /\ usedKeys' = usedKeys \cup {k}
        /\ job' = [job EXCEPT ![L].name = e.name, ![L].key = k]
        /\ UNCHANGED usedTokens
  BY DEF Redeems
<1>2. L \in Processes /\ job[L] \in Jobs /\ e \in Entries
  BY <1>1, ProcessesSplit DEF IInv, TypeOK
<1>3. /\ [e EXCEPT !.used = TRUE] \in Entries /\ [e EXCEPT !.used = TRUE].used
      /\ [e EXCEPT !.used = TRUE].token = e.token /\ [e EXCEPT !.used = TRUE].name = e.name
  BY <1>2 DEF Entries
<1>4. pc[L] = "mark" /\ pc'[L] = "load" /\ \A q \in Processes : q # L => pc'[q] = pc[q]
  BY <1>1, <1>2 DEF IInv, TypeOK, Step
<1>5. /\ job'[L].op = job[L].op /\ job'[L].token = job[L].token
      /\ job'[L].name = e.name /\ job'[L].key = k
      /\ \A q \in Processes : q # L => job'[q] = job[q]
  BY <1>1, <1>2 DEF IInv, TypeOK, Jobs
<1> QED
  BY <1>1, <1>2, <1>3, <1>4, <1>5 DEF Redeemable, SavesStore

LEMMA SavesConfigEffect ==
  ASSUME IInv, AInv, NEW p \in Processes, SavesConfig(p)
  PROVE  /\ pc[p] = "save" /\ pc'[p] = "persist"
         /\ \A q \in Processes : q # p => pc'[q] = pc[q]
         /\ UNCHANGED <<job, view, seen, store, conf, live, handed, usedKeys, usedTokens,
                        admitted, torn, astray>>
         /\ crossed' = (crossed \/ p \in stale) /\ stale' = Processes \ {p}
         /\ config' = Updated(p)
         /\ p \notin stale => view[p] = config
         /\ dropped' = IF job[p].op \in {"revoke", "rotate"}
                       THEN dropped \cup {[name |-> job[p].name, key |-> OldKey(p)]}
                       ELSE dropped
<1>1. /\ pc[p] = "save" /\ pc'[p] = "persist"
      /\ \A q \in Processes : q # p => pc'[q] = pc[q]
  BY DEF IInv, TypeOK, SavesConfig, Step
<1>2. p \notin stale => view[p] = config
  BY <1>1 DEF AInv, Knows, LoadedAt
<1> QED
  BY <1>1, <1>2 DEF SavesConfig, worldVars, boundVars

\* An operation that saves changes one client.
LEMMA UpdatedClient ==
  ASSUME IInv, NEW p \in Processes, pc[p] = "save"
  PROVE  /\ job[p].op = "restart" => Updated(p) = view[p]
         /\ job[p].op = "revoke" => Updated(p) = {s \in view[p] : s.name # job[p].name}
         /\ job[p].op \notin {"revoke", "restart"} =>
            \E s : /\ s.name = job[p].name /\ s.key = job[p].key /\ s \in Clients
                   /\ Updated(p) = {r \in view[p] : r.name # job[p].name} \cup {s}
         /\ \A s \in view[p] : s.name # job[p].name => s \in Updated(p)
<1>1. CASE job[p].op \in {"revoke", "restart"}
  BY <1>1 DEF Updated
<1>2. CASE job[p].op \notin {"revoke", "restart"}
  <2>1. /\ job[p].name \in Names
        /\ job[p].name \in Named(view[p]) \/ Free(view[p]) # {}
    BY <1>2 DEF IInv, JobOK, Resting, Redeemed, Admitting, TypeOK, Jobs, Commands
  <2>2. Entry(p) \in Clients /\ Entry(p).name = job[p].name
    BY <2>1, EntryIsClient DEF IInv
  <2>3. Entry(p).key = job[p].key
    BY DEF Entry
  <2>4. Updated(p) = {r \in view[p] : r.name # job[p].name} \cup {Entry(p)}
    BY <1>2 DEF Updated
  <2> QED
    BY <1>2, <2>2, <2>3, <2>4
<1> QED
  BY <1>1, <1>2

\* What a revocation or a rotation takes out is the client it found.
LEMMA OldKeyFound ==
  ASSUME IInv, NEW p \in Processes, job[p].name \in Named(view[p])
  PROVE  \E s \in view[p] : s.name = job[p].name /\ s.key = OldKey(p)
  BY SlotFound DEF OldKey

LEMMA FinishesEffect ==
  ASSUME IInv, NEW p \in Processes, Finishes(p)
  PROVE  /\ pc[p] = "hand" /\ pc'[p] = "idle" /\ job'[p] = NoJob
         /\ \A q \in Processes : q # p => pc'[q] = pc[q] /\ job'[q] = job[q] /\ view'[q] = view[q]
         /\ handed' = IF job[p].op = "add" THEN handed \cup {job[p].token} ELSE handed
         /\ admitted' = IF job[p].op = "enroll"
                        THEN admitted \cup {[token |-> job[p].token, name |-> job[p].name,
                                             key |-> job[p].key]}
                        ELSE admitted
         /\ UNCHANGED <<store, config, conf, live, usedKeys, usedTokens, dropped, stale, crossed,
                        torn, astray>>
         /\ (job[p].op = "enroll") <=> (p = Listener)
<1>1. JobOK(p) /\ pc[p] = "hand"
  BY DEF IInv, Finishes
<1> QED
  BY <1>1 DEF IInv, TypeOK, Finishes, Ends, files, boundVars, JobOK, Resting

LEMMA KnowsKept ==
  ASSUME IInv, \A q \in Processes : Knows(q), Next
  PROVE  \A q \in Processes : Knows(q)'
<1>1. ASSUME NEW a \in Admins, Loads(a)
      PROVE  \A q \in Processes : Knows(q)'
  BY <1>1 DEF Loads, Knows, Updated, Entry, IInv, TypeOK, files, worldVars, boundVars
<1>2. ASSUME NEW a \in Admins, RestartBegins(a)
      PROVE  \A q \in Processes : Knows(q)'
  BY <1>2, ProcessesSplit
     DEF RestartBegins, Begins, Step, NoJob, Knows, LoadedAt, Updated, Entry, IInv, TypeOK,
         files, historyVars
<1>3. ASSUME NEW a \in Admins, NEW n \in Names, AddReserves(a, n)
      PROVE  \A q \in Processes : Knows(q)'
  BY <1>3 DEF AddReserves, Begins, Step, Knows, LoadedAt, Updated, Entry, files, historyVars
<1>4. ASSUME NEW a \in Admins, NEW n \in Names, RevokeBegins(a, n)
      PROVE  \A q \in Processes : Knows(q)'
  BY <1>4
     DEF RevokeBegins, Begins, Step, Knows, LoadedAt, Updated, Entry, files, historyVars
<1>5. ASSUME NEW a \in Admins, NEW n \in Names, NEW k \in Keys, AddEmbeds(a, n, k)
      PROVE  \A q \in Processes : Knows(q)'
  BY <1>5, ProcessesSplit
     DEF AddEmbeds, Begins, Step, Knows, LoadedAt, Updated, Entry, files, historyVars
<1>6. ASSUME NEW a \in Admins, NEW n \in Names, NEW k \in Keys, RotateBegins(a, n, k)
      PROVE  \A q \in Processes : Knows(q)'
  BY <1>6, ProcessesSplit
     DEF RotateBegins, Begins, Step, Knows, LoadedAt, Updated, Entry, files, historyVars
<1>7. ASSUME NEW a \in Admins, RevokesTokens(a)
      PROVE  \A q \in Processes : Knows(q)'
  BY <1>7
     DEF RevokesTokens, SavesStore, Step, Knows, LoadedAt, Updated, Entry, JobOK, Resting,
         IInv, files, worldVars, historyVars, boundVars
<1>8. ASSUME NEW a \in Admins, Bounces(a)
      PROVE  \A q \in Processes : Knows(q)'
  BY <1>8 DEF Bounces, Ends, NoJob, Knows, LoadedAt, Updated, Entry, worldVars, boundVars
<1>9. ASSUME NEW a \in Admins, NEW t \in Tokens, Issues(a, t)
      PROVE  \A q \in Processes : Knows(q)'
  BY <1>9
     DEF Issues, SavesStore, Step, Knows, LoadedAt, Updated, Entry, JobOK, Resting, IInv,
         boundVars
<1>10. CASE RefusesToken
  BY <1>10
     DEF RefusesToken, Ends, NoJob, Knows, LoadedAt, Updated, Entry, files, worldVars,
         historyVars, boundVars
<1>11. CASE LoadsSlot
  BY <1>11
     DEF LoadsSlot, Step, Knows, Updated, Entry, IInv, TypeOK, files, worldVars, boundVars
<1>12. CASE RefusesSlot
  BY <1>12
     DEF RefusesSlot, Ends, NoJob, Knows, LoadedAt, Updated, Entry, files, worldVars,
         historyVars, boundVars
<1>13. ASSUME NEW t \in Tokens, Requests(t)
      PROVE  \A q \in Processes : Knows(q)'
  BY <1>13
     DEF Requests, Step, NoJob, Knows, LoadedAt, Updated, Entry, files, worldVars,
         historyVars, boundVars
<1>14. ASSUME NEW k \in Keys, Redeems(k)
      PROVE  \A q \in Processes : Knows(q)'
  BY <1>14
     DEF Redeems, SavesStore, Step, Knows, LoadedAt, Updated, Entry, IInv, TypeOK, boundVars
<1>15. ASSUME NEW p \in Processes, ReadsStore(p)
      PROVE  \A q \in Processes : Knows(q)'
  BY <1>15
     DEF ReadsStore, Step, Knows, LoadedAt, Updated, Entry, files, worldVars, historyVars,
         boundVars
<1>16. ASSUME NEW p \in Processes, HotChange(p)
      PROVE  \A q \in Processes : Knows(q)'
  BY <1>16
     DEF HotChange, Step, Knows, LoadedAt, Updated, Entry, worldVars, historyVars, boundVars
<1>17. ASSUME NEW p \in Processes, SavesConfig(p)
      PROVE  \A q \in Processes : Knows(q)'
  <2>1. /\ pc'[p] = "persist" /\ config' = Updated(p) /\ stale' = Processes \ {p}
        /\ UNCHANGED <<job, view>>
    BY <1>17 DEF SavesConfig, Step, IInv, TypeOK
  <2>2. Updated(p)' = Updated(p)
    BY <2>1 DEF Updated, Entry
  <2> QED
    BY <2>1, <2>2 DEF Knows, LoadedAt
<1>18. ASSUME NEW p \in Processes, Persists(p)
      PROVE  \A q \in Processes : Knows(q)'
  BY <1>18 DEF Persists, Step, Knows, LoadedAt, Updated, Entry, worldVars, boundVars
<1>19. ASSUME NEW p \in Processes, Syncs(p)
      PROVE  \A q \in Processes : Knows(q)'
  BY <1>19 DEF Syncs, Step, AfterSync, Knows, LoadedAt, Updated, Entry, worldVars, boundVars
<1>20. ASSUME NEW p \in Processes, Finishes(p)
      PROVE  \A q \in Processes : Knows(q)'
  BY <1>20 DEF Finishes, Ends, NoJob, Knows, LoadedAt, Updated, Entry, files, boundVars
<1>21. ASSUME NEW t \in Tokens, Expires(t)
      PROVE  \A q \in Processes : Knows(q)'
  BY <1>21 DEF Expires, procVars, Knows, Updated, Entry, files, historyVars, boundVars
<1>22. ASSUME NEW p \in Processes, Crash(p)
      PROVE  \A q \in Processes : Knows(q)'
  BY <1>22
     DEF Crash, Faulty, Ends, NoJob, Knows, LoadedAt, Updated, Entry, IInv, TypeOK,
         worldVars
<1>23. ASSUME NEW p \in Processes, HotChangeFails(p)
      PROVE  \A q \in Processes : Knows(q)'
  BY <1>23 DEF HotChangeFails, Faulty, Step, Knows, LoadedAt, Updated, Entry, worldVars
<1>24. ASSUME NEW p \in Processes, PersistFails(p)
      PROVE  \A q \in Processes : Knows(q)'
  BY <1>24
     DEF PersistFails, Faulty, Step, Knows, LoadedAt, Updated, Entry, IInv, TypeOK,
         worldVars
<1>25. CASE Reboot
  BY <1>25 DEF Reboot, NoJob, Knows, LoadedAt, worldVars
<1> QED
  BY <1>1, <1>2, <1>3, <1>4, <1>5, <1>6, <1>7, <1>8, <1>9, <1>10, <1>11, <1>12, <1>13,
     <1>14, <1>15, <1>16, <1>17, <1>18, <1>19, <1>20, <1>21, <1>22, <1>23, <1>24, <1>25
     DEF Next, AdminStep, Command, ListenerStep, ProcessStep, World

LEMMA JobKeysKept ==
  ASSUME IInv, JobKeys, Next
  PROVE  JobKeys'
<1>1. ASSUME NEW a \in Admins, Loads(a)
      PROVE  JobKeys'
  BY <1>1 DEF Loads, JobKeys, Redeemed, Admitting, files, worldVars, boundVars
<1>2. ASSUME NEW a \in Admins, RestartBegins(a)
      PROVE  JobKeys'
  BY <1>2 DEF RestartBegins, Begins, Step, NoJob, JobKeys, IInv, TypeOK, files, historyVars
<1>3. ASSUME NEW a \in Admins, NEW n \in Names, AddReserves(a, n)
      PROVE  JobKeys'
  BY <1>3
     DEF AddReserves, Begins, Step, JobKeys, Admitting, IInv, TypeOK, files, historyVars
<1>4. ASSUME NEW a \in Admins, NEW n \in Names, RevokeBegins(a, n)
      PROVE  JobKeys'
  BY <1>4 DEF RevokeBegins, Begins, Step, JobKeys, IInv, TypeOK, files, historyVars
<1>5. ASSUME NEW a \in Admins, NEW n \in Names, NEW k \in Keys, AddEmbeds(a, n, k)
      PROVE  JobKeys'
  BY <1>5, EnrollmentAssumption
     DEF AddEmbeds, Begins, Step, JobKeys, IInv, TypeOK, files, historyVars
<1>6. ASSUME NEW a \in Admins, NEW n \in Names, NEW k \in Keys, RotateBegins(a, n, k)
      PROVE  JobKeys'
  BY <1>6, EnrollmentAssumption
     DEF RotateBegins, Begins, Step, JobKeys, IInv, TypeOK, files, historyVars
<1>7. ASSUME NEW a \in Admins, RevokesTokens(a)
      PROVE  JobKeys'
  BY <1>7, RevokesTokensEffect DEF JobKeys, Redeemed, Admitting, JobOK
<1>8. ASSUME NEW a \in Admins, Bounces(a)
      PROVE  JobKeys'
  BY <1>8 DEF Bounces, Ends, NoJob, JobKeys, IInv, TypeOK, worldVars, boundVars
<1>9. ASSUME NEW a \in Admins, NEW t \in Tokens, Issues(a, t)
      PROVE  JobKeys'
  BY <1>9, IssuesEffect DEF JobKeys, Redeemed, Admitting, JobOK
<1>10. CASE RefusesToken
  BY <1>10
     DEF RefusesToken, Ends, NoJob, JobKeys, IInv, TypeOK, files, worldVars, historyVars,
         boundVars
<1>11. CASE LoadsSlot
  BY <1>11
     DEF LoadsSlot, Step, JobKeys, Redeemed, JobOK, Resting, IInv, files, worldVars,
         boundVars
<1>12. CASE RefusesSlot
  BY <1>12
     DEF RefusesSlot, Ends, NoJob, JobKeys, IInv, TypeOK, files, worldVars, historyVars,
         boundVars
<1>13. ASSUME NEW t \in Tokens, Requests(t)
      PROVE  JobKeys'
  BY <1>13
     DEF Requests, Step, NoJob, JobKeys, Redeemed, IInv, TypeOK, files, worldVars,
         historyVars, boundVars
<1>14. ASSUME NEW k \in Keys, Redeems(k)
      PROVE  JobKeys'
  BY <1>14, EnrollmentAssumption
     DEF Redeems, SavesStore, Step, JobKeys, JobOK, Resting, IInv, TypeOK, boundVars
<1>15. ASSUME NEW p \in Processes, ReadsStore(p)
      PROVE  JobKeys'
  BY <1>15
     DEF ReadsStore, Step, JobKeys, Redeemed, Admitting, files, worldVars, historyVars,
         boundVars
<1>16. ASSUME NEW p \in Processes, HotChange(p)
      PROVE  JobKeys'
  BY <1>16 DEF HotChange, Step, JobKeys, Redeemed, worldVars, historyVars, boundVars
<1>17. ASSUME NEW p \in Processes, SavesConfig(p)
      PROVE  JobKeys'
  BY <1>17 DEF SavesConfig, Step, JobKeys, Redeemed, Admitting, worldVars, boundVars
<1>18. ASSUME NEW p \in Processes, Persists(p)
      PROVE  JobKeys'
  BY <1>18 DEF Persists, Step, JobKeys, Redeemed, Admitting, worldVars, boundVars
<1>19. ASSUME NEW p \in Processes, Syncs(p)
      PROVE  JobKeys'
  BY <1>19 DEF Syncs, Step, AfterSync, JobKeys, Redeemed, Admitting, worldVars, boundVars
<1>20. ASSUME NEW p \in Processes, Finishes(p)
      PROVE  JobKeys'
  BY <1>20 DEF Finishes, Ends, NoJob, JobKeys, Admitting, IInv, TypeOK, files, boundVars
<1>21. ASSUME NEW t \in Tokens, Expires(t)
      PROVE  JobKeys'
  BY <1>21 DEF Expires, procVars, JobKeys, files, historyVars, boundVars
<1>22. ASSUME NEW p \in Processes, Crash(p)
      PROVE  JobKeys'
  BY <1>22 DEF Crash, Faulty, Ends, NoJob, JobKeys, IInv, TypeOK, worldVars
<1>23. ASSUME NEW p \in Processes, HotChangeFails(p)
      PROVE  JobKeys'
  BY <1>23 DEF HotChangeFails, Faulty, Step, JobKeys, Redeemed, worldVars
<1>24. ASSUME NEW p \in Processes, PersistFails(p)
      PROVE  JobKeys'
  BY <1>24
     DEF PersistFails, Faulty, Step, JobKeys, Redeemed, Admitting, IInv, TypeOK, worldVars
<1>25. CASE Reboot
  BY <1>25 DEF Reboot, NoJob, JobKeys, worldVars
<1> QED
  BY <1>1, <1>2, <1>3, <1>4, <1>5, <1>6, <1>7, <1>8, <1>9, <1>10, <1>11, <1>12, <1>13,
     <1>14, <1>15, <1>16, <1>17, <1>18, <1>19, <1>20, <1>21, <1>22, <1>23, <1>24, <1>25
     DEF Next, AdminStep, Command, ListenerStep, ProcessStep, World

LEMMA KeysOnceKept ==
  ASSUME IInv, AInv, ~crossed', Next
  PROVE  KeysOnce'
<1>1. ASSUME NEW a \in Admins, Loads(a)
      PROVE  KeysOnce'
  BY <1>1 DEF Loads, AInv, KeysOnce, files, worldVars, boundVars
<1>2. ASSUME NEW a \in Admins, RestartBegins(a)
      PROVE  KeysOnce'
  BY <1>2 DEF RestartBegins, Begins, Step, NoJob, AInv, KeysOnce, files, historyVars
<1>3. ASSUME NEW a \in Admins, NEW n \in Names, AddReserves(a, n)
      PROVE  KeysOnce'
  BY <1>3 DEF AddReserves, Begins, Step, AInv, KeysOnce, files, historyVars
<1>4. ASSUME NEW a \in Admins, NEW n \in Names, RevokeBegins(a, n)
      PROVE  KeysOnce'
  BY <1>4 DEF RevokeBegins, Begins, Step, AInv, KeysOnce, files, historyVars
<1>5. ASSUME NEW a \in Admins, NEW n \in Names, NEW k \in Keys, AddEmbeds(a, n, k)
      PROVE  KeysOnce'
  BY <1>5 DEF AddEmbeds, Begins, Step, AInv, KeysOnce, IInv, TypeOK, files, historyVars
<1>6. ASSUME NEW a \in Admins, NEW n \in Names, NEW k \in Keys, RotateBegins(a, n, k)
      PROVE  KeysOnce'
  BY <1>6 DEF RotateBegins, Begins, Step, AInv, KeysOnce, IInv, TypeOK, files, historyVars
<1>7. ASSUME NEW a \in Admins, RevokesTokens(a)
      PROVE  KeysOnce'
  <2>1. KeysOnce /\ JobKeys /\ UNCHANGED <<config, dropped, usedKeys>>
    BY <1>7, RevokesTokensEffect DEF AInv
  <2>2. \A q \in Processes :
            /\ job'[q].key = job[q].key
            /\ pc'[q] \in {"load", "peer", "save"} => pc'[q] = pc[q] \/ job[q].key = NoKey
    BY <1>7, <2>1, RevokesTokensEffect DEF JobKeys
  <2> QED
    BY <2>1, <2>2 DEF KeysOnce
<1>8. ASSUME NEW a \in Admins, Bounces(a)
      PROVE  KeysOnce'
  BY <1>8 DEF Bounces, Ends, NoJob, AInv, KeysOnce, IInv, TypeOK, worldVars, boundVars
<1>9. ASSUME NEW a \in Admins, NEW t \in Tokens, Issues(a, t)
      PROVE  KeysOnce'
  <2>1. KeysOnce /\ JobKeys /\ UNCHANGED <<config, dropped, usedKeys>>
    BY <1>9, IssuesEffect DEF AInv
  <2>2. \A q \in Processes :
            /\ job'[q].key = job[q].key
            /\ pc'[q] \in {"load", "peer", "save"} => pc'[q] = pc[q] \/ job[q].key = NoKey
    BY <1>9, <2>1, IssuesEffect DEF JobKeys
  <2> QED
    BY <2>1, <2>2 DEF KeysOnce
<1>10. CASE RefusesToken
  BY <1>10
     DEF RefusesToken, Ends, NoJob, AInv, KeysOnce, files, worldVars, historyVars, boundVars
<1>11. CASE LoadsSlot
  BY <1>11 DEF LoadsSlot, Step, AInv, KeysOnce, files, worldVars, boundVars
<1>12. CASE RefusesSlot
  BY <1>12
     DEF RefusesSlot, Ends, NoJob, AInv, KeysOnce, files, worldVars, historyVars, boundVars
<1>13. ASSUME NEW t \in Tokens, Requests(t)
      PROVE  KeysOnce'
  BY <1>13
     DEF Requests, Step, NoJob, AInv, KeysOnce, files, worldVars, historyVars, boundVars
<1>14. ASSUME NEW k \in Keys, Redeems(k)
      PROVE  KeysOnce'
  BY <1>14 DEF Redeems, SavesStore, Step, AInv, KeysOnce, IInv, TypeOK, boundVars
<1>15. ASSUME NEW p \in Processes, ReadsStore(p)
      PROVE  KeysOnce'
  BY <1>15 DEF ReadsStore, Step, AInv, KeysOnce, files, worldVars, historyVars, boundVars
<1>16. ASSUME NEW p \in Processes, HotChange(p)
      PROVE  KeysOnce'
  BY <1>16 DEF HotChange, Step, AInv, KeysOnce, worldVars, historyVars, boundVars
<1>17. ASSUME NEW p \in Processes, SavesConfig(p)
      PROVE  KeysOnce'
  <2>1. p \notin stale /\ view[p] = config /\ pc[p] = "save" /\ config' = Updated(p)
    BY <1>17, SavesConfigEffect
  <2>2. KeysOnce /\ JobKeys
    BY <2>1, <1>17, SavesConfigEffect DEF AInv
  <2>3. OldKey(p) # NoKey => \E s \in config : s.name = job[p].name /\ s.key = OldKey(p)
    BY <2>1, OldKeyFound DEF OldKey
  <2>4. \A s \in config' :
            \/ s \in config /\ (s.name = job[p].name => job[p].op = "restart")
            \/ s.name = job[p].name /\ s.key = job[p].key
    <3>1. CASE job[p].op = "restart"
      BY <2>1, <3>1, UpdatedClient
    <3>2. CASE job[p].op = "revoke"
      BY <2>1, <3>2, UpdatedClient
    <3>3. CASE job[p].op \notin {"revoke", "restart"}
      BY <2>1, <3>3, UpdatedClient
    <3> QED
      BY <3>1, <3>2, <3>3
  <2>5. \A s, r \in config' :
            s \notin config /\ r \notin config => s = r
    BY <2>1, UpdatedClient
  <2>6. \A d \in dropped' :
            \/ d \in dropped
            \/ d.name = job[p].name /\ d.key = OldKey(p) /\ job[p].op # "restart"
    <3>1. dropped' \subseteq dropped \cup {[name |-> job[p].name, key |-> OldKey(p)]}
          /\ (job[p].op = "restart" => dropped' = dropped)
      BY <1>17, SavesConfigEffect
    <3> QED
      BY <3>1
  <2>7. UNCHANGED <<job, usedKeys>>
        /\ \A q \in Processes : pc'[q] \in {"load", "peer", "save"} => q # p /\ pc'[q] = pc[q]
    BY <1>17, SavesConfigEffect
  <2>8. \A s \in config' : s.key \in usedKeys' \cup {NoKey}
    BY <2>2, <2>4, <2>7 DEF KeysOnce
  <2>9. \A s, r \in config' : s.key = r.key /\ s.key # NoKey => s = r
    BY <2>1, <2>2, <2>4, <2>5, UpdatedClient DEF KeysOnce
  <2>10. \A d \in dropped' :
            d.key # NoKey => d.key \in usedKeys' /\ \A s \in config' : s.key # d.key
    BY <2>1, <2>2, <2>3, <2>4, <2>6, <2>7 DEF KeysOnce
  <2> QED
    BY <2>1, <2>2, <2>3, <2>4, <2>6, <2>7, <2>8, <2>9, <2>10 DEF KeysOnce
<1>18. ASSUME NEW p \in Processes, Persists(p)
      PROVE  KeysOnce'
  BY <1>18 DEF Persists, Step, AInv, KeysOnce, IInv, TypeOK, worldVars, boundVars
<1>19. ASSUME NEW p \in Processes, Syncs(p)
      PROVE  KeysOnce'
  BY <1>19 DEF Syncs, Step, AfterSync, AInv, KeysOnce, IInv, TypeOK, worldVars, boundVars
<1>20. ASSUME NEW p \in Processes, Finishes(p)
      PROVE  KeysOnce'
  BY <1>20 DEF Finishes, Ends, NoJob, AInv, KeysOnce, files, boundVars
<1>21. ASSUME NEW t \in Tokens, Expires(t)
      PROVE  KeysOnce'
  BY <1>21 DEF Expires, procVars, AInv, KeysOnce, files, historyVars, boundVars
<1>22. ASSUME NEW p \in Processes, Crash(p)
      PROVE  KeysOnce'
  BY <1>22 DEF Crash, Faulty, Ends, NoJob, AInv, KeysOnce, worldVars
<1>23. ASSUME NEW p \in Processes, HotChangeFails(p)
      PROVE  KeysOnce'
  BY <1>23 DEF HotChangeFails, Faulty, Step, AInv, KeysOnce, worldVars
<1>24. ASSUME NEW p \in Processes, PersistFails(p)
      PROVE  KeysOnce'
  BY <1>24 DEF PersistFails, Faulty, Step, AInv, KeysOnce, IInv, TypeOK, worldVars
<1>25. CASE Reboot
  BY <1>25 DEF Reboot, NoJob, AInv, KeysOnce, worldVars
<1> QED
  BY <1>1, <1>2, <1>3, <1>4, <1>5, <1>6, <1>7, <1>8, <1>9, <1>10, <1>11, <1>12, <1>13,
     <1>14, <1>15, <1>16, <1>17, <1>18, <1>19, <1>20, <1>21, <1>22, <1>23, <1>24, <1>25
     DEF Next, AdminStep, Command, ListenerStep, ProcessStep, World

LEMMA TokensOnceKept ==
  ASSUME IInv, AInv, ~crossed', Next
  PROVE  TokensOnce'
<1>1. ASSUME NEW a \in Admins, Loads(a)
      PROVE  TokensOnce'
  BY <1>1 DEF Loads, AInv, TokensOnce, Spent, Redeemed, files, worldVars, boundVars
<1>2. ASSUME NEW a \in Admins, RestartBegins(a)
      PROVE  TokensOnce'
  BY <1>2, ProcessesSplit
     DEF RestartBegins, Begins, Step, NoJob, AInv, TokensOnce, Spent, files, historyVars
<1>3. ASSUME NEW a \in Admins, NEW n \in Names, AddReserves(a, n)
      PROVE  TokensOnce'
  BY <1>3
     DEF AddReserves, Begins, Step, AInv, TokensOnce, Spent, Redeemed, files, historyVars
<1>4. ASSUME NEW a \in Admins, NEW n \in Names, RevokeBegins(a, n)
      PROVE  TokensOnce'
  BY <1>4
     DEF RevokeBegins, Begins, Step, AInv, TokensOnce, Spent, Redeemed, files, historyVars
<1>5. ASSUME NEW a \in Admins, NEW n \in Names, NEW k \in Keys, AddEmbeds(a, n, k)
      PROVE  TokensOnce'
  BY <1>5, ProcessesSplit
     DEF AddEmbeds, Begins, Step, AInv, TokensOnce, Spent, files, historyVars
<1>6. ASSUME NEW a \in Admins, NEW n \in Names, NEW k \in Keys, RotateBegins(a, n, k)
      PROVE  TokensOnce'
  BY <1>6, ProcessesSplit
     DEF RotateBegins, Begins, Step, AInv, TokensOnce, Spent, files, historyVars
<1>7. ASSUME NEW a \in Admins, RevokesTokens(a)
      PROVE  TokensOnce'
  <2>1. store' \subseteq store /\ pc'[Listener] = pc[Listener]
        /\ UNCHANGED <<job, usedTokens, admitted>> /\ ~crossed
    BY <1>7, ProcessesSplit, RevokesTokensEffect
  <2> QED
    BY <2>1 DEF AInv, TokensOnce, Spent
<1>8. ASSUME NEW a \in Admins, Bounces(a)
      PROVE  TokensOnce'
  BY <1>8
     DEF Bounces, Ends, NoJob, AInv, TokensOnce, Spent, Redeemed, IInv, TypeOK, worldVars,
         boundVars
<1>9. ASSUME NEW a \in Admins, NEW t \in Tokens, Issues(a, t)
      PROVE  TokensOnce'
  <2>1. /\ store = seen[a] /\ ~crossed /\ UNCHANGED admitted
        /\ t \notin usedTokens /\ usedTokens' = usedTokens \cup {t}
        /\ pc'[Listener] = pc[Listener] /\ job'[Listener] = job[Listener]
    BY <1>9, ProcessesSplit, ProcessesSplit, IssuesEffect
  <2>2. TokensOnce
    BY <2>1 DEF AInv
  <2>3. \A e \in store' : e \in store \/ e = [token |-> t, name |-> job[a].name, used |-> FALSE]
    BY <1>9, ProcessesSplit, <2>1, IssuesEffect
  <2>4. \A e \in store' :
            \/ e \in store /\ e.token # t
            \/ e = [token |-> t, name |-> job[a].name, used |-> FALSE] /\ e.token = t
    BY <2>1, <2>2, <2>3 DEF TokensOnce
  <2>5. \A u : Spent(u) => Spent(u)'
    BY <2>1, <2>4 DEF Spent
  <2> QED
    BY <2>1, <2>2, <2>4, <2>5 DEF TokensOnce
<1>10. CASE RefusesToken
  BY <1>10
     DEF RefusesToken, Ends, NoJob, AInv, TokensOnce, Spent, Redeemed, files, worldVars,
         historyVars, boundVars
<1>11. CASE LoadsSlot
  BY <1>11
     DEF LoadsSlot, Step, AInv, TokensOnce, Spent, Redeemed, files, worldVars, boundVars
<1>12. CASE RefusesSlot
  BY <1>12
     DEF RefusesSlot, Ends, NoJob, AInv, TokensOnce, Spent, Redeemed, IInv, TypeOK, files,
         worldVars, historyVars, boundVars
<1>13. ASSUME NEW t \in Tokens, Requests(t)
      PROVE  TokensOnce'
  BY <1>13
     DEF Requests, Step, NoJob, AInv, TokensOnce, Spent, Redeemed, files, worldVars,
         historyVars, boundVars
<1>14. ASSUME NEW k \in Keys, Redeems(k)
      PROVE  TokensOnce'
  <2>1. PICK e \in seen[Listener], r \in Entries :
            /\ r.token = e.token /\ r.name = e.name /\ r.used
            /\ pc'[Listener] = "load" /\ ~e.used /\ e.token = job[Listener].token
            /\ job'[Listener].token = job[Listener].token
            /\ UNCHANGED <<usedTokens, admitted>>
            /\ crossed' = (crossed \/ store # seen[Listener])
            /\ store' = (seen[Listener] \ {e}) \cup {r}
    BY <1>14, ProcessesSplit, RedeemsEffect
  <2>2. ~crossed /\ store = seen[Listener]
    BY <2>1
  <2>3. TokensOnce /\ e \in store
    BY <2>1, <2>2 DEF AInv
  <2>4. \A x \in admitted : x.token # e.token
    BY <2>1, <2>3 DEF TokensOnce, Spent
  <2>5. ASSUME NEW f \in store', f # r
        PROVE  f \in store /\ f.token # r.token
    <3>1. f \in store /\ f # e
      BY <2>1, <2>2, <2>5
    <3> QED
      BY <2>1, <2>3, <3>1 DEF TokensOnce
  <2>6. e.token \in usedTokens
    BY <2>3 DEF TokensOnce
  <2>7. \A x \in admitted : Spent(x.token)'
    BY <2>1, <2>3, <2>5 DEF TokensOnce, Spent
  <2>8. Spent(job[Listener].token)'
    BY <2>1, <2>5, <2>6 DEF Spent
  <2>9. \A f, g \in store' : f.token = g.token => f = g
    BY <2>3, <2>5 DEF TokensOnce
  <2> QED
    BY <2>1, <2>3, <2>4, <2>5, <2>6, <2>7, <2>8, <2>9 DEF TokensOnce
<1>15. ASSUME NEW p \in Processes, ReadsStore(p)
      PROVE  TokensOnce'
  BY <1>15
     DEF ReadsStore, Step, AInv, TokensOnce, Spent, Redeemed, files, worldVars, historyVars,
         boundVars
<1>16. ASSUME NEW p \in Processes, HotChange(p)
      PROVE  TokensOnce'
  BY <1>16
     DEF HotChange, Step, AInv, TokensOnce, Spent, Redeemed, worldVars, historyVars,
         boundVars
<1>17. ASSUME NEW p \in Processes, SavesConfig(p)
      PROVE  TokensOnce'
  BY <1>17
     DEF SavesConfig, Step, AInv, TokensOnce, Spent, Redeemed, IInv, TypeOK, worldVars,
         boundVars
<1>18. ASSUME NEW p \in Processes, Persists(p)
      PROVE  TokensOnce'
  BY <1>18
     DEF Persists, Step, AInv, TokensOnce, Spent, Redeemed, IInv, TypeOK, worldVars,
         boundVars
<1>19. ASSUME NEW p \in Processes, Syncs(p)
      PROVE  TokensOnce'
  BY <1>19
     DEF Syncs, Step, AfterSync, AInv, TokensOnce, Spent, Redeemed, IInv, TypeOK, worldVars,
         boundVars
<1>20. ASSUME NEW p \in Processes, Finishes(p)
      PROVE  TokensOnce'
  <2>1. TokensOnce /\ JobKeys /\ UNCHANGED <<store, usedTokens>>
    BY <1>20, FinishesEffect DEF AInv
  <2>2. CASE p = Listener
    <3>1. job[Listener].op = "enroll" /\ pc[Listener] \in Redeemed /\ pc'[Listener] = "idle"
      BY <1>20, <2>2, FinishesEffect DEF Redeemed
    <3>2. admitted' = admitted \cup {[token |-> job[Listener].token, name |-> job[Listener].name,
                                     key |-> job[Listener].key]}
      BY <1>20, <2>2, <3>1, FinishesEffect
    <3> QED
      BY <2>1, <3>1, <3>2 DEF TokensOnce, Spent, Redeemed
  <2>3. CASE p # Listener
    <3>1. admitted' = admitted /\ pc'[Listener] = pc[Listener] /\ job'[Listener] = job[Listener]
      BY <1>20, <2>3, ProcessesSplit, FinishesEffect
    <3> QED
      BY <2>1, <3>1 DEF TokensOnce, Spent
  <2> QED
    BY <2>2, <2>3
<1>21. ASSUME NEW t \in Tokens, Expires(t)
      PROVE  TokensOnce'
  BY <1>21 DEF Expires, procVars, AInv, TokensOnce, Spent, files, historyVars, boundVars
<1>22. ASSUME NEW p \in Processes, Crash(p)
      PROVE  TokensOnce'
  BY <1>22
     DEF Crash, Faulty, Ends, NoJob, AInv, TokensOnce, Spent, Redeemed, IInv, TypeOK,
         worldVars
<1>23. ASSUME NEW p \in Processes, HotChangeFails(p)
      PROVE  TokensOnce'
  BY <1>23 DEF HotChangeFails, Faulty, Step, AInv, TokensOnce, Spent, Redeemed, worldVars
<1>24. ASSUME NEW p \in Processes, PersistFails(p)
      PROVE  TokensOnce'
  BY <1>24, ProcessesSplit
     DEF PersistFails, Faulty, Step, AInv, TokensOnce, Spent, Redeemed, IInv, TypeOK,
         worldVars
<1>25. CASE Reboot
  BY <1>25, ProcessesSplit DEF Reboot, NoJob, AInv, TokensOnce, Spent, Redeemed, worldVars
<1> QED
  BY <1>1, <1>2, <1>3, <1>4, <1>5, <1>6, <1>7, <1>8, <1>9, <1>10, <1>11, <1>12, <1>13,
     <1>14, <1>15, <1>16, <1>17, <1>18, <1>19, <1>20, <1>21, <1>22, <1>23, <1>24, <1>25
     DEF Next, AdminStep, Command, ListenerStep, ProcessStep, World

LEMMA EnrolledKeptKept ==
  ASSUME IInv, AInv, ~crossed', Next
  PROVE  EnrolledKept'
<1>1. ASSUME NEW a \in Admins, Loads(a)
      PROVE  EnrolledKept'
  BY <1>1 DEF Loads, AInv, EnrolledKept, Kept, files, worldVars, boundVars
<1>2. ASSUME NEW a \in Admins, RestartBegins(a)
      PROVE  EnrolledKept'
  BY <1>2, ProcessesSplit
     DEF RestartBegins, Begins, Step, NoJob, AInv, EnrolledKept, Kept, files, historyVars
<1>3. ASSUME NEW a \in Admins, NEW n \in Names, AddReserves(a, n)
      PROVE  EnrolledKept'
  BY <1>3 DEF AddReserves, Begins, Step, AInv, EnrolledKept, Kept, files, historyVars
<1>4. ASSUME NEW a \in Admins, NEW n \in Names, RevokeBegins(a, n)
      PROVE  EnrolledKept'
  BY <1>4 DEF RevokeBegins, Begins, Step, AInv, EnrolledKept, Kept, files, historyVars
<1>5. ASSUME NEW a \in Admins, NEW n \in Names, NEW k \in Keys, AddEmbeds(a, n, k)
      PROVE  EnrolledKept'
  BY <1>5, ProcessesSplit
     DEF AddEmbeds, Begins, Step, AInv, EnrolledKept, Kept, files, historyVars
<1>6. ASSUME NEW a \in Admins, NEW n \in Names, NEW k \in Keys, RotateBegins(a, n, k)
      PROVE  EnrolledKept'
  BY <1>6, ProcessesSplit
     DEF RotateBegins, Begins, Step, AInv, EnrolledKept, Kept, files, historyVars
<1>7. ASSUME NEW a \in Admins, RevokesTokens(a)
      PROVE  EnrolledKept'
  BY <1>7, ProcessesSplit
     DEF RevokesTokens, SavesStore, Step, AInv, EnrolledKept, Kept, IInv, TypeOK, files,
         worldVars, historyVars, boundVars
<1>8. ASSUME NEW a \in Admins, Bounces(a)
      PROVE  EnrolledKept'
  BY <1>8
     DEF Bounces, Ends, NoJob, AInv, EnrolledKept, Kept, IInv, TypeOK, worldVars, boundVars
<1>9. ASSUME NEW a \in Admins, NEW t \in Tokens, Issues(a, t)
      PROVE  EnrolledKept'
  BY <1>9, ProcessesSplit
     DEF Issues, SavesStore, Step, AInv, EnrolledKept, Kept, IInv, TypeOK, boundVars
<1>10. CASE RefusesToken
  <2>1. pc'[Listener] = "idle" /\ UNCHANGED <<admitted, dropped, config>>
    BY <1>10, ProcessesSplit DEF RefusesToken, Ends, IInv, TypeOK, files, historyVars
  <2>2. \A n, k : Kept(n, k) => Kept(n, k)'
    BY <2>1 DEF Kept
  <2> QED
    BY <1>10, <2>1, <2>2 DEF AInv, EnrolledKept, RefusesToken, historyVars
<1>11. CASE LoadsSlot
  <2>1. /\ pc'[Listener] = "peer" /\ UNCHANGED <<admitted, dropped, config, job>>
        /\ view'[Listener] = config /\ Pending(config, job[Listener].name) /\ Apart(config)
    BY <1>11, ProcessesSplit DEF LoadsSlot, Step, IInv, TypeOK, Separate, files
  <2>2. \A s \in config : s.name = job[Listener].name => s.key = NoKey
    BY <2>1, SlotFound DEF Pending, Apart
  <2>3. \A n, k : Kept(n, k) => Kept(n, k)'
    BY <2>1 DEF Kept
  <2> QED
    BY <1>11, <2>1, <2>2, <2>3 DEF AInv, EnrolledKept, LoadsSlot
<1>12. CASE RefusesSlot
  BY <1>12
     DEF RefusesSlot, Ends, NoJob, AInv, EnrolledKept, Kept, files, worldVars, historyVars,
         boundVars
<1>13. ASSUME NEW t \in Tokens, Requests(t)
      PROVE  EnrolledKept'
  BY <1>13
     DEF Requests, Step, NoJob, AInv, EnrolledKept, Kept, files, worldVars, historyVars,
         boundVars
<1>14. ASSUME NEW k \in Keys, Redeems(k)
      PROVE  EnrolledKept'
  BY <1>14 DEF Redeems, SavesStore, Step, AInv, EnrolledKept, Kept, IInv, TypeOK, boundVars
<1>15. ASSUME NEW p \in Processes, ReadsStore(p)
      PROVE  EnrolledKept'
  BY <1>15
     DEF ReadsStore, Step, AInv, EnrolledKept, Kept, files, worldVars, historyVars,
         boundVars
<1>16. ASSUME NEW p \in Processes, HotChange(p)
      PROVE  EnrolledKept'
  BY <1>16 DEF HotChange, Step, AInv, EnrolledKept, Kept, worldVars, historyVars, boundVars
<1>17. ASSUME NEW p \in Processes, SavesConfig(p)
      PROVE  EnrolledKept'
  <2>1. /\ p \notin stale /\ view[p] = config /\ pc[p] = "save" /\ config' = Updated(p)
        /\ JobOK(p) /\ EnrolledKept /\ Apart(view[p]) /\ job[p] \in Jobs
    BY <1>17, SavesConfigEffect DEF AInv, IInv, TypeOK, Separate
  <2>2. ASSUME NEW n, NEW k, k # NoKey, Kept(n, k)
        PROVE  Kept(n, k)'
    <3>1. CASE [name |-> n, key |-> k] \in dropped
      BY <1>17, <3>1, SavesConfigEffect DEF Kept
    <3>2. CASE \E s \in config : s.name = n /\ s.key = k
      <4>1. PICK s \in config : s.name = n /\ s.key = k
        BY <3>2
      <4>2. CASE n # job[p].name \/ job[p].op = "restart"
        BY <2>1, <4>1, <4>2, UpdatedClient DEF Kept
      <4>3. CASE n = job[p].name /\ job[p].op \in {"revoke", "rotate"}
        <5>1. PICK r \in view[p] : r.name = n /\ r.key = OldKey(p)
          BY <2>1, <4>1, <4>3, OldKeyFound DEF Named
        <5>2. OldKey(p) = k
          BY <2>1, <4>1, <4>3, <5>1 DEF Apart
        <5> QED
          BY <1>17, <4>3, <5>2, SavesConfigEffect DEF Kept
      <4>4. job[p].op \in {"revoke", "rotate", "restart"} \/ n # job[p].name
        <5>1. n = job[p].name => job[p].name \in Named(view[p])
          BY <2>1, <4>1 DEF Named
        <5>2. job[p].op = "enroll" => n # job[p].name
          BY <2>1, <2>2, <4>1 DEF JobOK, Resting, EnrolledKept
        <5>3. job[p].op \in {"add", "embed"} => n # job[p].name
          BY <2>1, <5>1 DEF JobOK
        <5>4. job[p].op \in Commands \cup {"enroll"}
          BY <2>1 DEF JobOK, Resting, Jobs
        <5> QED
          BY <5>2, <5>3, <5>4 DEF Commands
      <4> QED
        BY <4>2, <4>3, <4>4
    <3> QED
      BY <2>2, <3>1, <3>2 DEF Kept
  <2>3. \A x \in admitted' : Kept(x.name, x.key)'
    <3>1. \A x \in admitted : x.key # NoKey
      BY EnrollmentAssumption DEF IInv, TypeOK
    <3> QED
      BY <1>17, <2>1, <2>2, <3>1, SavesConfigEffect DEF EnrolledKept
  <2>4. CASE p = Listener
    <3>1. job[p].op = "enroll" /\ pc'[p] = "persist" /\ UNCHANGED job
      BY <1>17, <2>1, <2>4, SavesConfigEffect DEF JobOK, Resting
    <3>2. \E s \in config' : s.name = job[p].name /\ s.key = job[p].key
      BY <2>1, <3>1, UpdatedClient
    <3> QED
      BY <2>3, <2>4, <3>1, <3>2 DEF EnrolledKept, Kept
  <2>5. CASE p # Listener
    <3>1. pc'[Listener] = pc[Listener] /\ UNCHANGED <<job, view>>
      BY <1>17, <2>5, ProcessesSplit, SavesConfigEffect
    <3>2. pc[Listener] \in {"persist", "sync", "hand"} => job[Listener].key # NoKey
      BY ProcessesSplit DEF IInv, AInv, JobKeys, JobOK, Resting, Redeemed
    <3> QED
      BY <2>1, <2>2, <2>3, <3>1, <3>2 DEF EnrolledKept
  <2> QED
    BY <2>4, <2>5
<1>18. ASSUME NEW p \in Processes, Persists(p)
      PROVE  EnrolledKept'
  BY <1>18 DEF Persists, Step, AInv, EnrolledKept, Kept, IInv, TypeOK, worldVars, boundVars
<1>19. ASSUME NEW p \in Processes, Syncs(p)
      PROVE  EnrolledKept'
  BY <1>19
     DEF Syncs, Step, AfterSync, AInv, EnrolledKept, Kept, IInv, TypeOK, worldVars,
         boundVars
<1>20. ASSUME NEW p \in Processes, Finishes(p)
      PROVE  EnrolledKept'
  <2>1. UNCHANGED <<config, dropped>> /\ EnrolledKept /\ ~crossed
    BY <1>20, FinishesEffect DEF AInv
  <2>2. \A n, k : Kept(n, k) => Kept(n, k)'
    BY <2>1 DEF Kept
  <2>3. CASE p = Listener
    <3>1. pc[Listener] = "hand" /\ pc'[Listener] = "idle"
      BY <1>20, <2>3, FinishesEffect
    <3>2. \A x \in admitted' :
                \/ x \in admitted
                \/ x.name = job[Listener].name /\ x.key = job[Listener].key
      BY <1>20, <2>3, FinishesEffect
    <3> QED
      BY <2>1, <2>2, <3>1, <3>2 DEF EnrolledKept
  <2>4. CASE p # Listener
    <3>1. /\ admitted' = admitted /\ pc'[Listener] = pc[Listener]
          /\ job'[Listener] = job[Listener] /\ view'[Listener] = view[Listener]
      BY <1>20, <2>4, ProcessesSplit, FinishesEffect
    <3> QED
      BY <2>1, <2>2, <3>1 DEF EnrolledKept
  <2> QED
    BY <2>3, <2>4
<1>21. ASSUME NEW t \in Tokens, Expires(t)
      PROVE  EnrolledKept'
  BY <1>21 DEF Expires, procVars, AInv, EnrolledKept, Kept, files, historyVars, boundVars
<1>22. ASSUME NEW p \in Processes, Crash(p)
      PROVE  EnrolledKept'
  BY <1>22 DEF Crash, Faulty, Ends, NoJob, AInv, EnrolledKept, Kept, IInv, TypeOK, worldVars
<1>23. ASSUME NEW p \in Processes, HotChangeFails(p)
      PROVE  EnrolledKept'
  BY <1>23 DEF HotChangeFails, Faulty, Step, AInv, EnrolledKept, Kept, worldVars
<1>24. ASSUME NEW p \in Processes, PersistFails(p)
      PROVE  EnrolledKept'
  BY <1>24, ProcessesSplit
     DEF PersistFails, Faulty, Step, AInv, EnrolledKept, Kept, IInv, TypeOK, worldVars
<1>25. CASE Reboot
  BY <1>25, ProcessesSplit DEF Reboot, NoJob, AInv, EnrolledKept, Kept, worldVars
<1> QED
  BY <1>1, <1>2, <1>3, <1>4, <1>5, <1>6, <1>7, <1>8, <1>9, <1>10, <1>11, <1>12, <1>13,
     <1>14, <1>15, <1>16, <1>17, <1>18, <1>19, <1>20, <1>21, <1>22, <1>23, <1>24, <1>25
     DEF Next, AdminStep, Command, ListenerStep, ProcessStep, World

-----------------------------------------------------------------------------
(* The interface and its file follow the configuration.                    *)

Follows == FileFollows /\ LiveFollows /\ GoneFollows

\* A route goes to a client of the configuration it was computed from.
LEMMA PeersAreClients ==
  ASSUME NEW c, NEW a \in Addresses, Peers(c)[a] # NoKey
  PROVE  \E s \in c : s.key = Peers(c)[a]
<1>1. \E s \in c : s.addr = a
  BY DEF Peers
<1>2. (CHOOSE s \in c : s.addr = a) \in c
  BY <1>1
<1> QED
  BY <1>1, <1>2 DEF Peers

LEMMA PeersUnchanged ==
  ASSUME UNCHANGED config PROVE UNCHANGED Peers(config)
  BY DEF Peers

\* The old key is on no route of the configuration.
LEMMA GoneFromPeers ==
  ASSUME KeysOnce, NEW d \in dropped, d.key # NoKey, NEW a \in Addresses
  PROVE  Peers(config)[a] # d.key
<1>1. \A s \in config : s.key # d.key
  BY DEF KeysOnce
<1> QED
  BY <1>1, PeersAreClients

LEMMA FollowsQuietly ==
  ASSUME Follows, UNCHANGED <<config, conf, live, dropped>>,
         \A p \in Processes : pc[p] \in Syncing => pc'[p] = pc[p] /\ job'[p].name = job[p].name
  PROVE  Follows'
<1>1. UNCHANGED Peers(config)
  BY PeersUnchanged
<1>2. FileFollows'
  BY <1>1 DEF Follows, FileFollows, Syncing
<1>3. LiveFollows'
  BY <1>1 DEF Follows, LiveFollows, Syncing
<1>4. GoneFollows'
  BY DEF Follows, GoneFollows, Syncing
<1> QED
  BY <1>2, <1>3, <1>4 DEF Follows

LEMMA HotChangeFollows ==
  ASSUME IInv, KeysOnce, Follows, NEW p \in Processes, HotChange(p)
  PROVE  Follows'
<1>1. /\ pc[p] = "peer" /\ pc'[p] = "save"
      /\ \A q \in Processes : q # p => pc'[q] = pc[q]
      /\ UNCHANGED <<config, conf, dropped, job>>
  BY DEF IInv, TypeOK, HotChange, Step, historyVars
<1>2. UNCHANGED Peers(config)
  BY <1>1, PeersUnchanged
<1>3. \A a \in Addresses : live'[a] \in {live[a], NoKey, job[p].key}
  BY DEF HotChange, Added, Removed
<1>4. \A d \in dropped : d.key # NoKey => d.key # job[p].key
  BY <1>1 DEF KeysOnce
<1>5. \A d \in dropped : d.key # NoKey =>
         \A a \in Addresses : live[a] # d.key => live'[a] # d.key
  BY <1>3, <1>4
<1>6. FileFollows' /\ LiveFollows'
  BY <1>1, <1>2 DEF Follows, FileFollows, LiveFollows, Syncing
<1>7. GoneFollows'
  BY <1>1, <1>5 DEF Follows, GoneFollows
<1> QED
  BY <1>6, <1>7 DEF Follows

LEMMA SavesConfigFollows ==
  ASSUME IInv, AInv, Follows, NEW p \in Processes, SavesConfig(p)
  PROVE  Follows'
<1>1. /\ pc[p] = "save" /\ pc'[p] = "persist"
      /\ \A q \in Processes : q # p => pc'[q] = pc[q]
      /\ UNCHANGED <<conf, live, job>>
      /\ \A d \in dropped' : d \in dropped \/ d.name = job[p].name
  BY SavesConfigEffect
<1>2. FileFollows' /\ LiveFollows'
  BY <1>1 DEF FileFollows, LiveFollows, Syncing
<1>3. GoneFollows'
  BY <1>1 DEF Follows, GoneFollows
<1> QED
  BY <1>2, <1>3 DEF Follows

LEMMA PersistsFollows ==
  ASSUME IInv, KeysOnce, Follows, NEW p \in Processes, Persists(p), Updated(p) = config
  PROVE  Follows'
<1>1. /\ pc[p] = "persist" /\ pc'[p] = "sync"
      /\ \A q \in Processes : q # p => pc'[q] = pc[q]
      /\ UNCHANGED <<config, live, dropped, job>>
      /\ conf' = Peers(config)
  BY DEF IInv, TypeOK, Persists, Step
<1>2. UNCHANGED Peers(config)
  BY <1>1, PeersUnchanged
<1>3. FileFollows' /\ LiveFollows'
  BY <1>1, <1>2 DEF FileFollows, LiveFollows, Syncing
<1>4. GoneFollows'
  BY <1>1, GoneFromPeers DEF Follows, GoneFollows
<1> QED
  BY <1>3, <1>4 DEF Follows

\* A file that is up to date brings everything in step, whatever failed before.
LEMMA UpToDateFollows ==
  ASSUME IInv, KeysOnce, UNCHANGED <<config, conf, dropped>>,
         conf = Peers(config), live' = Peers(config)
  PROVE  Follows'
<1>1. UNCHANGED Peers(config)
  BY PeersUnchanged
<1>2. FileFollows' /\ LiveFollows'
  BY <1>1 DEF FileFollows, LiveFollows
<1>3. GoneFollows'
  BY GoneFromPeers DEF GoneFollows
<1> QED
  BY <1>2, <1>3 DEF Follows

LEMMA SyncsFollows ==
  ASSUME IInv, KeysOnce, NEW p \in Processes, Syncs(p), Updated(p) = config, ~astray',
         ~astray => Follows
  PROVE  Follows'
<1>1. /\ pc[p] = "sync"
      /\ \A q \in Processes : q # p => pc'[q] = pc[q]
      /\ UNCHANGED <<config, conf, dropped, job>>
      /\ live' \in {conf, Peers(config)}
      /\ astray' = (astray /\ conf # Peers(config))
  BY DEF IInv, TypeOK, Syncs, Step
<1>2. UNCHANGED Peers(config)
  BY <1>1, PeersUnchanged
<1>3. CASE conf = Peers(config)
  BY <1>1, <1>3, UpToDateFollows
<1>4. CASE conf # Peers(config)
  <2>1. Follows
    BY <1>1, <1>4
  <2>2. \E q \in Processes : pc[q] = "persist" /\ pc'[q] = "persist"
    BY <1>1, <1>4, <2>1 DEF Follows, FileFollows
  <2>3. FileFollows' /\ LiveFollows'
    BY <2>2 DEF FileFollows, LiveFollows, Syncing
  <2>4. ASSUME NEW d \in dropped, d.key # NoKey
        PROVE  \/ \E q \in Processes : pc'[q] = "persist" /\ job'[q].name = d.name
               \/ \A a \in Addresses : conf'[a] # d.key
    BY <1>1, <2>1, <2>4 DEF Follows, GoneFollows
  <2>5. GoneFollows'
    BY <1>1, <2>4, GoneFromPeers DEF GoneFollows
  <2> QED
    BY <2>3, <2>5 DEF Follows
<1> QED
  BY <1>3, <1>4

LEMMA BouncesFollows ==
  ASSUME IInv, KeysOnce, NEW p \in Admins, Bounces(p), ~crossed', ~astray',
         ~astray => Follows
  PROVE  Follows'
<1>1. /\ pc[p] = "bounce" /\ p \in Processes
      /\ UNCHANGED <<config, conf, dropped>>
      /\ live' = conf
      /\ astray' = (astray /\ conf # Peers(config))
      /\ \A q \in Processes : q # p => pc[q] \in {"idle", "ready"}
  BY ProcessesSplit DEF Bounces, Busy
<1>2. conf = Peers(config)
  BY <1>1 DEF Follows, FileFollows
<1> QED
  BY <1>1, <1>2, UpToDateFollows

LEMMA RebootFollows ==
  ASSUME IInv, KeysOnce, Reboot, ~astray', ~astray => Follows
  PROVE  Follows'
<1>1. /\ UNCHANGED <<config, conf, dropped>>
      /\ live' = conf
      /\ ~astray
      /\ \A q \in Processes : pc[q] \in {"idle", "ready"}
  BY DEF Reboot, Busy
<1>2. conf = Peers(config)
  BY <1>1 DEF Follows, FileFollows
<1> QED
  BY <1>1, <1>2, UpToDateFollows

\* A command begins: nothing of the interface or its file changes.
LEMMA BeginsFollows ==
  ASSUME IInv, NEW p \in Admins, NEW to, NEW j, Begins(p, to, j)
  PROVE  /\ UNCHANGED <<config, conf, live, dropped, crossed, astray>>
         /\ \A q \in Processes : pc[q] \in Syncing => pc'[q] = pc[q] /\ job'[q].name = job[q].name
  BY ProcessesSplit DEF IInv, TypeOK, Begins, Step, Syncing, files, historyVars

LEMMA LiveKept ==
  ASSUME IInv, AInv, ~crossed', ~astray', Next
  PROVE  Follows'
<1>1. ~crossed => KeysOnce
  BY DEF AInv
<1>2. ~crossed /\ ~astray => Follows
  BY DEF AInv, Follows
<1>3. ASSUME UNCHANGED <<config, conf, live, dropped, astray>>, ~crossed,
             \A q \in Processes :
                pc[q] \in Syncing => pc'[q] = pc[q] /\ job'[q].name = job[q].name
      PROVE  Follows'
  BY <1>2, <1>3, FollowsQuietly
<1>4. ASSUME NEW a \in Admins, AdminStep(a)
      PROVE  Follows'
  <2>1. CASE Loads(a)
    BY <1>3, <2>1, ProcessesSplit DEF Loads, IInv, TypeOK, Syncing, files
  <2>2. CASE Command(a)
    <3>1. \E to, j : Begins(a, to, j)
      BY <2>2 DEF Command, RestartBegins, AddReserves, AddEmbeds, RevokeBegins, RotateBegins
    <3> QED
      BY <1>3, <3>1, BeginsFollows
  <2>3. CASE RevokesTokens(a)
    BY <1>3, <2>3, RevokesTokensEffect DEF Syncing
  <2>4. CASE Bounces(a)
    <3>1. ~crossed
      BY <2>4, ProcessesSplit DEF Bounces, IInv, TypeOK
    <3> QED
      BY <1>1, <1>2, <2>4, <3>1, BouncesFollows
  <2>5. ASSUME NEW t \in Tokens, Issues(a, t) PROVE Follows'
    BY <1>3, <2>5, IssuesEffect DEF Syncing
  <2> QED
    BY <1>4, <2>1, <2>2, <2>3, <2>4, <2>5 DEF AdminStep
<1>5. CASE ListenerStep
  <2>1. CASE RefusesToken
    BY <1>3, <2>1, ProcessesSplit DEF RefusesToken, Ends, IInv, TypeOK, Syncing, files, historyVars
  <2>2. CASE LoadsSlot
    BY <1>3, <2>2, ProcessesSplit DEF LoadsSlot, Step, IInv, TypeOK, Syncing, files
  <2>3. CASE RefusesSlot
    BY <1>3, <2>3, ProcessesSplit DEF RefusesSlot, Ends, IInv, TypeOK, Syncing, files, historyVars
  <2>4. ASSUME NEW t \in Tokens, Requests(t) PROVE Follows'
    BY <1>3, <2>4, ProcessesSplit
       DEF Requests, Step, IInv, TypeOK, Syncing, files, historyVars
  <2>5. ASSUME NEW k \in Keys, Redeems(k) PROVE Follows'
    BY <1>3, <2>5, RedeemsEffect, ZenonT(60) DEF Syncing
  <2> QED
    BY <1>5, <2>1, <2>2, <2>3, <2>4, <2>5 DEF ListenerStep
<1>6. ASSUME NEW p \in Processes, ProcessStep(p)
      PROVE  Follows'
  <2>1. CASE ReadsStore(p)
    BY <1>3, <2>1 DEF ReadsStore, Step, IInv, TypeOK, Syncing, files, historyVars
  <2>2. CASE HotChange(p)
    <3>1. ~crossed /\ ~astray
      BY <2>2 DEF HotChange, historyVars
    <3> QED
      BY <1>1, <1>2, <2>2, <3>1, HotChangeFollows
  <2>3. CASE SavesConfig(p)
    BY <1>2, <2>3, SavesConfigEffect, SavesConfigFollows
  <2>4. CASE Persists(p)
    <3>1. ~crossed /\ ~astray /\ p \notin stale /\ pc[p] = "persist"
      BY <2>4 DEF Persists, Step, IInv, TypeOK
    <3>2. Updated(p) = config
      BY <3>1 DEF AInv, Knows
    <3> QED
      BY <1>1, <1>2, <2>4, <3>1, <3>2, PersistsFollows
  <2>5. CASE Syncs(p)
    <3>1. ~crossed /\ p \notin stale /\ pc[p] = "sync"
      BY <2>5 DEF Syncs, Step, IInv, TypeOK
    <3>2. Updated(p) = config
      BY <3>1 DEF AInv, Knows
    <3> QED
      BY <1>1, <1>2, <2>5, <3>1, <3>2, SyncsFollows
  <2>6. CASE Finishes(p)
    BY <1>3, <2>6, FinishesEffect DEF Syncing
  <2> QED
    BY <1>6, <2>1, <2>2, <2>3, <2>4, <2>5, <2>6 DEF ProcessStep
<1>7. CASE World
  <2>1. ASSUME NEW t \in Tokens, Expires(t) PROVE Follows'
    BY <1>3, <2>1 DEF Expires, files, procVars, historyVars
  <2>2. CASE Reboot
    <3>1. ~crossed
      BY <2>2 DEF Reboot
    <3> QED
      BY <1>1, <1>2, <2>2, <3>1, RebootFollows
  <2>3. ASSUME NEW p \in Processes, Crash(p) \/ HotChangeFails(p) \/ PersistFails(p)
        PROVE  Follows'
    BY <2>3 DEF Crash, HotChangeFails, PersistFails, Faulty
  <2> QED
    BY <1>7, <2>1, <2>2, <2>3 DEF World
<1> QED
  BY <1>4, <1>5, <1>6, <1>7 DEF Next

-----------------------------------------------------------------------------
(* The tokens and the slots stay together.                                 *)

LEMMA SlotsQuietly ==
  ASSUME SlotsOK, UNCHANGED <<store, config>>,
         \A q \in Processes :
            /\ pc'[q] = "mark" =>
                \/ store \subseteq seen'[q]
                \/ /\ pc[q] = "mark" /\ seen'[q] = seen[q] /\ job'[q] = job[q]
                   /\ q \in stale => q \in stale'
            /\ pc[q] \in {"peer", "save"} /\ job[q].op \in {"add", "revoke"} =>
                /\ pc'[q] \in {"peer", "save"} /\ job'[q] = job[q]
                /\ job[q].op = "add" => pc'[q] = pc[q]
            /\ pc'[q] \in {"peer", "save"} /\ job'[q].op \in {"add", "revoke"} =>
                /\ pc[q] \in {"peer", "save"} /\ job'[q] = job[q]
                /\ job[q].op = "add" => pc'[q] = pc[q]
                /\ q \in stale => q \in stale',
         \A s \in config : s.key = NoKey /\ Entering(s.name) => Entering(s.name)'
  PROVE  SlotsOK'
<1>1. \A n : UNCHANGED Open(n)
  BY DEF Open
<1>2. \A n : \A q \in Processes : Issuing(q, n)' <=> Issuing(q, n)
  BY DEF Issuing, Working
<1>3. \A n : \A q \in Processes : Issuing(q, n) => job'[q] = job[q] /\ (q \in stale => q \in stale')
  BY <1>2 DEF Issuing, Working
<1>4. \A n : (Going(n) => Going(n)') /\ (Adding(n)' <=> Adding(n))
  BY <1>2 DEF Going, Adding, Working
<1>5. OneOpenToken' /\ TokensNamed'
  BY <1>4 DEF SlotsOK, OneOpenToken, TokensNamed, Named
<1>6. ASSUME NEW q \in Processes \ stale', job'[q].op = "revoke"
      PROVE  ( /\ pc[q] = "mark" => Open(job[q].name) \subseteq seen[q] \/ Adding(job[q].name)
               /\ pc[q] \in {"peer", "save"} => Open(job[q].name) = {} \/ Adding(job[q].name) )'
  <2>1. CASE pc'[q] = "mark"
    <3>1. CASE store \subseteq seen'[q]
      BY <2>1, <3>1 DEF Open
    <3>2. CASE ~ (store \subseteq seen'[q])
      BY <1>1, <1>4, <1>6, <2>1, <3>2 DEF SlotsOK, RevocationsThorough
    <3> QED
      BY <3>1, <3>2
  <2>2. CASE pc'[q] \in {"peer", "save"}
    BY <1>1, <1>4, <1>6, <2>2 DEF SlotsOK, RevocationsThorough
  <2> QED
    BY <2>1, <2>2
<1>7. RevocationsThorough'
  BY <1>6 DEF RevocationsThorough
<1>8. PendingKept'
  BY <1>1, <1>4 DEF SlotsOK, PendingKept
<1>9. ReservedKept'
  BY <1>1, <1>2, <1>3, <1>4 DEF SlotsOK, ReservedKept
<1> QED
  BY <1>5, <1>7, <1>8, <1>9 DEF SlotsOK

LEMMA IssuesSlots ==
  ASSUME IInv, SlotsOK, NEW a \in Admins, NEW t \in Tokens, Issues(a, t), ~crossed'
  PROVE  SlotsOK'
<1>n. PICK n : n = job[a].name
  OBVIOUS
<1> DEFINE new == [token |-> t, name |-> n, used |-> FALSE]
<1>1. /\ a \in Processes /\ a # Listener /\ Listener \in Processes
      /\ pc[a] = "mark" /\ pc'[a] = "save" /\ job[a].op = "add"
      /\ job'[a].op = "add" /\ job'[a].name = n /\ job'[a].token = t
      /\ \A q \in Processes : q # a => pc'[q] = pc[q] /\ job'[q] = job[q]
      /\ UNCHANGED <<config, seen, stale>>
  BY <1>n, ProcessesSplit, IssuesEffect
<1>2. store' = (store \ Open(n)) \cup {new}
  BY <1>n, IssuesEffect DEF Outstanding, Open
<1>3. \A m : IF m = n THEN Open(m)' = {new} ELSE Open(m)' = Open(m)
  BY <1>2 DEF Open
<1>4. /\ Adding(n)' /\ Issuing(a, n)'
      /\ \A m : \A q \in Processes : Issuing(q, m) => Issuing(q, m)' /\ job'[q] = job[q]
      /\ \A m : \A q \in Processes : Issuing(q, m)' => m = n \/ Issuing(q, m)
  BY <1>1 DEF Adding, Issuing, Working
<1>5. \A m : (Going(m) => Going(m)') /\ (Adding(m) => Adding(m)') /\ (Entering(m) => Entering(m)')
  BY <1>1, <1>4 DEF Going, Adding, Entering, Working
<1>6. OneOpenToken'
  <2>1. \A f \in store' : ~f.used => f = new \/ (f \in store /\ f.name # n)
    BY <1>2 DEF Open
  <2>2. new.name = n
    OBVIOUS
  <2>3. \A e, f \in store : ~e.used /\ ~f.used /\ e.name = f.name => e = f
    BY DEF SlotsOK, OneOpenToken
  <2> HIDE DEF new
  <2> QED
    BY <2>1, <2>2, <2>3 DEF OneOpenToken
<1>7. TokensNamed'
  BY <1>1, <1>2, <1>4, <1>5 DEF SlotsOK, TokensNamed, Named
<1>8. RevocationsThorough'
  BY <1>1, <1>3, <1>4, <1>5 DEF SlotsOK, RevocationsThorough
<1>9. PendingKept'
  BY <1>1, <1>3, <1>5 DEF SlotsOK, PendingKept
<1>10. ASSUME NEW p \in Processes \ stale', NEW m \in Names, Issuing(p, m)'
       PROVE  \/ Going(m)'
              \/ \E e \in Open(m)', q \in Processes : Issuing(q, m)' /\ e.token = job'[q].token
  <2>1. CASE m = n
    <3>1. new \in Open(m)' /\ new.token = job'[a].token
      BY <1>1, <1>3, <2>1
    <3> QED
      BY <1>1, <1>4, <2>1, <3>1
  <2>2. CASE m # n
    <3>1. \/ Going(m)
          \/ \E e \in Open(m), q \in Processes : Issuing(q, m) /\ e.token = job[q].token
      BY <1>1, <1>4, <1>10, <2>2 DEF SlotsOK, ReservedKept
    <3> QED
      BY <1>3, <1>4, <1>5, <2>2, <3>1
  <2> QED
    BY <2>1, <2>2
<1>11. ReservedKept'
  BY <1>10 DEF ReservedKept
<1> QED
  BY <1>6, <1>7, <1>8, <1>9, <1>11 DEF SlotsOK

LEMMA RevokesTokensSlots ==
  ASSUME IInv, SlotsOK, NEW a \in Admins, RevokesTokens(a), ~crossed'
  PROVE  SlotsOK'
<1>n. PICK n : n = job[a].name
  OBVIOUS
<1>1. /\ a \in Processes /\ a # Listener /\ Listener \in Processes
      /\ job[a].op = "revoke" /\ pc[a] = "mark" /\ pc'[a] = "peer"
      /\ \A q \in Processes : q # a => pc'[q] = pc[q]
      /\ job[a].name = n
      /\ UNCHANGED <<job, config, seen, stale>>
  BY <1>n, ProcessesSplit, RevokesTokensEffect
<1>2. \/ store' = store /\ Outstanding(seen[a], n) = {}
      \/ store' = store \ Open(n)
  BY <1>n, RevokesTokensEffect DEF Outstanding, Open
<1>3. store' \subseteq store /\ \A m : m # n => Open(m)' = Open(m)
  BY <1>2 DEF Open
<1>4. \A m : Open(m)' \subseteq Open(m)
  BY <1>2 DEF Open
<1>5. /\ \A m : \A q \in Processes : Issuing(q, m)' <=> Issuing(q, m)
      /\ \A m : /\ Going(m) => Going(m)'
                /\ Adding(m)' <=> Adding(m)
                /\ Entering(m) => Entering(m)'
      /\ Going(n)'
  BY <1>1 DEF Going, Adding, Entering, Issuing, Working
<1>6. a \notin stale => Open(n)' = {} \/ Adding(n)
  <2>1. CASE store' = store /\ Outstanding(seen[a], n) = {}
    <3>1. Open(n) \subseteq seen[a] => Open(n) = {}
      BY <2>1 DEF Open, Outstanding
    <3> QED
      BY <1>1, <1>4, <3>1 DEF SlotsOK, RevocationsThorough
  <2>2. CASE store' = store \ Open(n)
    BY <2>2 DEF Open
  <2> QED
    BY <1>2, <2>1, <2>2
<1>7. OneOpenToken' /\ TokensNamed'
  BY <1>1, <1>3, <1>5 DEF SlotsOK, OneOpenToken, TokensNamed, Named
<1>8. RevocationsThorough'
  BY <1>1, <1>4, <1>5, <1>6 DEF SlotsOK, RevocationsThorough
<1>9. PendingKept'
  BY <1>1, <1>3, <1>5 DEF SlotsOK, PendingKept
<1>10. ReservedKept'
  BY <1>1, <1>3, <1>5 DEF SlotsOK, ReservedKept
<1> QED
  BY <1>7, <1>8, <1>9, <1>10 DEF SlotsOK

\* The token that is redeemed was handed out, so it is not one of an addition under way.
LEMMA RedeemsSlots ==
  ASSUME IInv, JobKeys, SlotsOK, NEW k \in Keys, Redeems(k), ~crossed'
  PROVE  SlotsOK'
<1>1. PICK e \in seen[Listener], r \in Entries :
        /\ r.token = e.token /\ r.used /\ ~e.used
        /\ pc[Listener] = "mark" /\ pc'[Listener] = "load"
        /\ \A q \in Processes : q # Listener => pc'[q] = pc[q] /\ job'[q] = job[q]
        /\ e.token = job[Listener].token
        /\ job'[Listener].op = job[Listener].op /\ job'[Listener].name = e.name
        /\ UNCHANGED <<config, seen, stale>>
        /\ crossed' = (crossed \/ store # seen[Listener])
        /\ store' = (seen[Listener] \ {e}) \cup {r}
  BY RedeemsEffect
<1>2. /\ store = seen[Listener] /\ Listener \in Processes
      /\ job[Listener].op = "enroll" /\ job[Listener].token \in handed
  BY <1>1, ProcessesSplit DEF IInv, JobOK, Resting, JobKeys
<1>3. \A m : Open(m)' = Open(m) \ {e}
  BY <1>1, <1>2 DEF Open
<1>4. \A m : m # e.name => Open(m)' = Open(m)
  BY <1>1, <1>2 DEF Open
<1>5. /\ \A m : \A q \in Processes : Issuing(q, m)' <=> Issuing(q, m)
      /\ \A m : \A q \in Processes : Issuing(q, m) => job'[q] = job[q] /\ job[q].token \notin handed
  BY <1>1, <1>2 DEF Issuing, Working, JobKeys, Admitting
<1>6. /\ \A m : (Going(m) => Going(m)') /\ (Adding(m)' <=> Adding(m))
      /\ \A m : ~Entering(m)
      /\ Entering(e.name)'
  BY <1>1, <1>2, <1>5 DEF Going, Adding, Entering, Working
<1>7. \A f \in store' : ~f.used => f \in store
  BY <1>1, <1>2
<1>8. OneOpenToken' /\ TokensNamed'
  BY <1>1, <1>6, <1>7 DEF SlotsOK, OneOpenToken, TokensNamed, Named
<1>9. RevocationsThorough'
  BY <1>1, <1>2, <1>3, <1>6 DEF SlotsOK, RevocationsThorough
<1>10. PendingKept'
  BY <1>1, <1>4, <1>6 DEF SlotsOK, PendingKept
<1>11. ReservedKept'
  BY <1>1, <1>2, <1>3, <1>5, <1>6 DEF SlotsOK, ReservedKept
<1> QED
  BY <1>8, <1>9, <1>10, <1>11 DEF SlotsOK

LEMMA SavesConfigSlots ==
  ASSUME IInv, AInv, SlotsOK, NEW p \in Processes, SavesConfig(p), ~crossed'
  PROVE  SlotsOK'
<1>n. PICK n : n = job[p].name
  OBVIOUS
<1>1. /\ p \notin stale /\ view[p] = config /\ pc[p] = "save" /\ pc'[p] = "persist"
      /\ \A q \in Processes : q # p => pc'[q] = pc[q]
      /\ UNCHANGED <<job, seen, store>>
      /\ stale' = Processes \ {p}
      /\ config' = Updated(p)
  BY SavesConfigEffect
<1>2. /\ job[p].op = "restart" => config' = config
      /\ job[p].op = "revoke" => config' = {s \in config : s.name # n}
      /\ job[p].op \notin {"revoke", "restart"} =>
         \E s : /\ s.name = n /\ s.key = job[p].key
                /\ config' = {r \in config : r.name # n} \cup {s}
      /\ \A s \in config : s.name # n => s \in config'
  BY <1>n, <1>1, UpdatedClient
<1>3. UNCHANGED <<OneOpenToken>> /\ \A m : UNCHANGED Open(m)
  BY <1>1 DEF OneOpenToken, Open
<1>4. \A m : /\ Adding(m) => Adding(m)' \/ (m = n /\ job[p].op = "add")
             /\ Going(m) => Going(m)' \/ (m = n /\ job[p].op = "revoke")
             /\ Entering(m) => Entering(m)' \/ (m = n /\ p = Listener)
  BY <1>n, <1>1, ProcessesSplit DEF Adding, Going, Entering, Issuing, Working
<1>5. ASSUME NEW e \in store', ~e.used
      PROVE  e.name \in Named(config)' \/ Adding(e.name)'
  <2>1. e \in Open(e.name) /\ (e.name \in Named(config) \/ Adding(e.name))
    BY <1>1, <1>5 DEF SlotsOK, TokensNamed, Open
  <2>2. CASE job[p].op = "revoke" /\ e.name = n
    <3>1. Adding(n)
      BY <1>n, <1>1, <2>1, <2>2 DEF SlotsOK, RevocationsThorough
    <3> QED
      BY <1>4, <2>2, <3>1
  <2>3. CASE job[p].op \notin {"revoke", "restart"} /\ e.name = n
    BY <1>2, <2>3 DEF Named
  <2>4. CASE e.name # n \/ job[p].op = "restart"
    BY <1>2, <1>4, <2>1, <2>4 DEF Named
  <2> QED
    BY <2>2, <2>3, <2>4
<1>6. TokensNamed'
  BY <1>5 DEF TokensNamed
<1>7. RevocationsThorough' /\ ReservedKept'
  BY <1>1 DEF RevocationsThorough, ReservedKept, Issuing
<1>8. ASSUME NEW s \in config', s.key = NoKey
      PROVE  Open(s.name)' # {} \/ Going(s.name)' \/ Entering(s.name)'
  <2>1. CASE s \in config /\ (s.name # n \/ job[p].op = "restart")
    <3>1. Open(s.name) # {} \/ Going(s.name) \/ Entering(s.name)
      BY <1>8, <2>1 DEF SlotsOK, PendingKept
    <3>2. job[p].op = "restart" => p # Listener
      BY <1>1 DEF IInv, JobOK, Resting
    <3> QED
      BY <1>3, <1>4, <2>1, <3>1, <3>2
  <2>2. CASE ~(s \in config /\ (s.name # n \/ job[p].op = "restart"))
    <3>1. s.name = n /\ s.key = job[p].key /\ job[p].op \notin {"revoke", "restart"}
      BY <1>2, <2>2
    <3>2. job[p].op = "add" /\ n \in Names
      BY <1>n, <1>1, <1>8, <3>1, EnrollmentAssumption
         DEF AInv, JobKeys, Redeemed, IInv, JobOK, Resting, TypeOK, Jobs, Commands
    <3>3. Issuing(p, n)
      BY <1>n, <1>1, <3>2 DEF Issuing, Working
    <3>4. Going(n) \/ Open(n) # {}
      BY <1>1, <3>2, <3>3 DEF SlotsOK, ReservedKept
    <3> QED
      BY <1>3, <1>4, <3>1, <3>2, <3>4
  <2> QED
    BY <2>1, <2>2
<1>9. PendingKept'
  BY <1>8 DEF PendingKept
<1> QED
  BY <1>3, <1>6, <1>7, <1>9 DEF SlotsOK

\* The slot that was refused is not one that waits.
LEMMA RefusesSlotSlots ==
  ASSUME IInv, SlotsOK, RefusesSlot
  PROVE  SlotsOK'
<1>1. /\ pc[Listener] = "load" /\ pc'[Listener] = "idle" /\ job'[Listener] = NoJob
      /\ \A q \in Processes : q # Listener =>
            pc'[q] = pc[q] /\ job'[q] = job[q] /\ seen'[q] = seen[q]
      /\ UNCHANGED <<store, config, stale>>
      /\ ~Pending(config, job[Listener].name)
      /\ Listener \in Processes /\ job[Listener].op = "enroll"
  BY ProcessesSplit DEF RefusesSlot, Ends, IInv, TypeOK, JobOK, Resting, files, historyVars
<1>2. ASSUME NEW s \in config, s.key = NoKey
      PROVE  s.name # job[Listener].name
  <2>1. s.name \in Named(config)
    BY DEF Named
  <2>2. Slot(config, s.name) = s
    BY <2>1, SlotFound DEF IInv, Separate, Apart
  <2> QED
    BY <1>1, <1>2, <2>1, <2>2 DEF Pending
<1>3. \A s \in config : s.key = NoKey /\ Entering(s.name) => Entering(s.name)'
  BY <1>2 DEF Entering
<1> QED
  BY <1>1, <1>3, SlotsQuietly

\* A command begins, or ends, or an operation goes on: no token and no slot changes.
LEMMA BeginsSlots ==
  ASSUME IInv, SlotsOK, NEW p \in Admins, NEW to, NEW j, Begins(p, to, j),
         to = "store" \/ to = "persist" \/ (to = "peer" /\ j.op \in {"embed", "rotate"})
  PROVE  SlotsOK'
<1>1. /\ p \in Processes /\ p # Listener /\ Listener \in Processes
      /\ pc[p] = "ready" /\ pc'[p] = to /\ job'[p] = j
      /\ \A q \in Processes : q # p => pc'[q] = pc[q] /\ job'[q] = job[q]
      /\ UNCHANGED <<store, config, seen, stale>>
  BY ProcessesSplit DEF Begins, Step, IInv, TypeOK, files, historyVars
<1>2. \A s \in config : s.key = NoKey /\ Entering(s.name) => Entering(s.name)'
  BY <1>1 DEF Entering
<1> QED
  BY <1>1, <1>2, SlotsQuietly

\* An operation takes a step that leaves the tokens and the clients alone.
LEMMA GoesOnSlots ==
  ASSUME IInv, SlotsOK, NEW p \in Processes, UNCHANGED <<store, config, job, stale>>,
         \A q \in Processes : q # p => pc'[q] = pc[q] /\ seen'[q] = seen[q],
         pc[p] \notin {"mark", "peer", "save", "load"},
         pc'[p] = "mark" => seen'[p] = store,
         pc'[p] \notin {"peer", "save", "load"}
  PROVE  SlotsOK'
<1>1. \A s \in config : s.key = NoKey /\ Entering(s.name) => Entering(s.name)'
  BY ProcessesSplit DEF Entering
<1> QED
  BY <1>1, SlotsQuietly

LEMMA EndsSlots ==
  ASSUME IInv, SlotsOK, NEW p \in Processes, UNCHANGED <<store, config, stale>>, Ends(p),
         pc[p] \notin {"peer", "save", "load"}
  PROVE  SlotsOK'
<1>1. /\ pc'[p] = "idle"
      /\ \A q \in Processes : q # p => pc'[q] = pc[q] /\ job'[q] = job[q] /\ seen'[q] = seen[q]
  BY DEF Ends, IInv, TypeOK
<1>2. \A s \in config : s.key = NoKey /\ Entering(s.name) => Entering(s.name)'
  BY <1>1, ProcessesSplit DEF Entering
<1> QED
  BY <1>1, <1>2, SlotsQuietly

\* From "peer" to "save", whether WireGuard answered or not.
LEMMA HotChangeSlots ==
  ASSUME IInv, JobKeys, SlotsOK, NEW p \in Processes, Step(p, "peer", "save"),
         UNCHANGED <<store, config, job, seen, stale>>
  PROVE  SlotsOK'
<1>1. /\ pc[p] = "peer" /\ pc'[p] = "save" /\ job[p].op # "add"
      /\ \A q \in Processes : q # p => pc'[q] = pc[q]
  BY DEF Step, IInv, TypeOK, JobKeys
<1>2. \A s \in config : s.key = NoKey /\ Entering(s.name) => Entering(s.name)'
  BY <1>1, ProcessesSplit DEF Entering
<1> QED
  BY <1>1, <1>2, SlotsQuietly

LEMMA LoadsSlotSlots ==
  ASSUME IInv, SlotsOK, LoadsSlot
  PROVE  SlotsOK'
<1>1. /\ Listener \in Processes /\ pc[Listener] = "load" /\ pc'[Listener] = "peer"
      /\ job[Listener].op = "enroll"
      /\ \A q \in Processes : q # Listener => pc'[q] = pc[q] /\ (q \in stale => q \in stale')
      /\ UNCHANGED <<store, config, job, seen>>
  BY ProcessesSplit DEF LoadsSlot, Step, IInv, TypeOK, JobOK, Resting, files
<1>2. \A s \in config : s.key = NoKey /\ Entering(s.name) => Entering(s.name)'
  BY <1>1 DEF Entering
<1> QED
  BY <1>1, <1>2, SlotsQuietly

LEMMA LoadsSlots ==
  ASSUME IInv, SlotsOK, NEW p \in Admins, Loads(p)
  PROVE  SlotsOK'
<1>1. /\ p \in Processes /\ p # Listener /\ Listener \in Processes
      /\ pc[p] \in {"idle", "ready"} /\ pc'[p] = "ready"
      /\ \A q \in Processes : q # p => pc'[q] = pc[q] /\ (q \in stale => q \in stale')
      /\ UNCHANGED <<store, config, job, seen>>
  BY ProcessesSplit DEF Loads, IInv, TypeOK, files
<1>2. \A s \in config : s.key = NoKey /\ Entering(s.name) => Entering(s.name)'
  BY <1>1 DEF Entering
<1> QED
  BY <1>1, <1>2, SlotsQuietly

\* Nothing was under way when the machine restarted.
LEMMA RebootSlots ==
  ASSUME IInv, SlotsOK, Reboot, ~torn'
  PROVE  SlotsOK'
<1>1. /\ \A q \in Processes : pc[q] \in {"idle", "ready"} /\ pc'[q] = "idle"
      /\ UNCHANGED <<store, config, stale>>
  BY DEF Reboot, Busy
<1>2. \A s \in config : s.key = NoKey /\ Entering(s.name) => Entering(s.name)'
  BY <1>1, ProcessesSplit DEF Entering
<1> QED
  BY <1>1, <1>2, SlotsQuietly

LEMMA SlotsKept ==
  ASSUME IInv, AInv, ~crossed', ~torn', Next
  PROVE  SlotsOK'
<1>1. (~crossed /\ ~torn => SlotsOK) /\ JobKeys
  BY DEF AInv
<1>2. ASSUME NEW a \in Admins, AdminStep(a)
      PROVE  SlotsOK'
  <2>1. CASE Loads(a)
    BY <1>1, <2>1, LoadsSlots DEF Loads
  <2>2. CASE Command(a)
    <3>1. ASSUME NEW to, NEW j, Begins(a, to, j),
                 to = "store" \/ to = "persist" \/ (to = "peer" /\ j.op \in {"embed", "rotate"})
          PROVE  SlotsOK'
      <4>1. ~crossed /\ ~torn
        BY <3>1 DEF Begins, historyVars
      <4> QED
        BY <1>1, <3>1, <4>1, BeginsSlots
    <3>2. CASE RestartBegins(a)
      BY <3>1, <3>2 DEF RestartBegins
    <3>3. ASSUME NEW n \in Names, AddReserves(a, n) PROVE SlotsOK'
      BY <3>1, <3>3 DEF AddReserves
    <3>4. ASSUME NEW n \in Names, RevokeBegins(a, n) PROVE SlotsOK'
      BY <3>1, <3>4 DEF RevokeBegins
    <3>5. ASSUME NEW n \in Names, NEW k \in Keys, AddEmbeds(a, n, k) PROVE SlotsOK'
      BY <3>1, <3>5 DEF AddEmbeds
    <3>6. ASSUME NEW n \in Names, NEW k \in Keys, RotateBegins(a, n, k) PROVE SlotsOK'
      BY <3>1, <3>6 DEF RotateBegins
    <3> QED
      BY <2>2, <3>2, <3>3, <3>4, <3>5, <3>6 DEF Command
  <2>3. CASE RevokesTokens(a)
    BY <1>1, <2>3, RevokesTokensEffect, RevokesTokensSlots
  <2>4. CASE Bounces(a)
    BY <1>1, <2>4, ProcessesSplit, EndsSlots DEF Bounces, IInv, TypeOK
  <2>5. ASSUME NEW t \in Tokens, Issues(a, t) PROVE SlotsOK'
    BY <1>1, <2>5, IssuesEffect, IssuesSlots
  <2> QED
    BY <1>2, <2>1, <2>2, <2>3, <2>4, <2>5 DEF AdminStep
<1>3. CASE ListenerStep
  <2>1. CASE RefusesToken
    BY <1>1, <2>1, ProcessesSplit, EndsSlots DEF RefusesToken, files, historyVars
  <2>2. CASE LoadsSlot
    BY <1>1, <2>2, LoadsSlotSlots DEF LoadsSlot
  <2>3. CASE RefusesSlot
    BY <1>1, <2>3, RefusesSlotSlots DEF RefusesSlot, historyVars
  <2>4. ASSUME NEW t \in Tokens, Requests(t) PROVE SlotsOK'
    <3>1. /\ Listener \in Processes /\ pc[Listener] = "idle" /\ pc'[Listener] = "store"
          /\ \A q \in Processes : q # Listener => pc'[q] = pc[q] /\ job'[q] = job[q]
          /\ UNCHANGED <<store, config, seen, stale>>
          /\ ~crossed /\ ~torn
      BY <2>4, ProcessesSplit DEF Requests, Step, IInv, TypeOK, files, historyVars
    <3>2. \A s \in config : s.key = NoKey /\ Entering(s.name) => Entering(s.name)'
      BY <3>1 DEF Entering
    <3> QED
      BY <1>1, <3>1, <3>2, SlotsQuietly
  <2>5. ASSUME NEW k \in Keys, Redeems(k) PROVE SlotsOK'
    BY <1>1, <2>5, RedeemsEffect, RedeemsSlots
  <2> QED
    BY <1>3, <2>1, <2>2, <2>3, <2>4, <2>5 DEF ListenerStep
<1>4. ASSUME NEW p \in Processes, ProcessStep(p)
      PROVE  SlotsOK'
  <2>1. CASE ReadsStore(p)
    BY <1>1, <2>1, GoesOnSlots DEF ReadsStore, Step, IInv, TypeOK, files, historyVars
  <2>2. CASE HotChange(p)
    BY <1>1, <2>2, HotChangeSlots DEF HotChange, historyVars
  <2>3. CASE SavesConfig(p)
    BY <1>1, <2>3, SavesConfigEffect, SavesConfigSlots
  <2>4. CASE Persists(p)
    BY <1>1, <2>4, GoesOnSlots DEF Persists, Step, IInv, TypeOK
  <2>5. CASE Syncs(p)
    BY <1>1, <2>5, GoesOnSlots DEF Syncs, AfterSync, Step, IInv, TypeOK
  <2>6. CASE Finishes(p)
    BY <1>1, <2>6, EndsSlots, FinishesEffect DEF Finishes
  <2> QED
    BY <1>4, <2>1, <2>2, <2>3, <2>4, <2>5, <2>6 DEF ProcessStep
<1>5. CASE World
  <2>1. ASSUME NEW t \in Tokens, Expires(t) PROVE SlotsOK'
    <3>1. UNCHANGED <<store, config, pc, job, seen, stale, crossed, torn>>
      BY <2>1 DEF Expires, files, procVars, historyVars
    <3>2. \A s \in config : s.key = NoKey /\ Entering(s.name) => Entering(s.name)'
      BY <3>1 DEF Entering
    <3> QED
      BY <1>1, <3>1, <3>2, SlotsQuietly
  <2>2. CASE Reboot
    BY <1>1, <2>2, RebootSlots DEF Reboot, IInv, TypeOK
  <2>3. ASSUME NEW p \in Processes, Crash(p) PROVE SlotsOK'
    BY <2>3 DEF Crash
  <2>4. ASSUME NEW p \in Processes, HotChangeFails(p) PROVE SlotsOK'
    BY <1>1, <2>4, HotChangeSlots DEF HotChangeFails, Faulty
  <2>5. ASSUME NEW p \in Processes, PersistFails(p) PROVE SlotsOK'
    <3>1. /\ pc[p] \in {"persist", "sync"} /\ pc'[p] = "hand"
          /\ \A q \in Processes : q # p => pc'[q] = pc[q]
      BY <2>5 DEF PersistFails, Step, IInv, TypeOK
    <3>2. UNCHANGED <<store, config, job, seen, stale, crossed, torn>>
      BY <2>5 DEF PersistFails, Faulty
    <3> QED
      BY <1>1, <3>1, <3>2, GoesOnSlots
  <2> QED
    BY <1>5, <2>1, <2>2, <2>3, <2>4, <2>5 DEF World
<1> QED
  BY <1>2, <1>3, <1>4, <1>5 DEF Next

-----------------------------------------------------------------------------
LEMMA AdmissionStarts == Init => AInv
<1> SUFFICES ASSUME Init PROVE AInv
  OBVIOUS
<1>1. \A p \in Processes : pc[p] = "idle" /\ job[p] = NoJob
  BY DEF Init
<1>2. \A p \in Processes : Knows(p)
  BY <1>1 DEF Knows, LoadedAt
<1>3. JobKeys
  BY <1>1 DEF Init, JobKeys, NoJob
<1>4. KeysOnce /\ TokensOnce /\ EnrolledKept
  BY <1>1, ProcessesSplit DEF Init, KeysOnce, TokensOnce, EnrolledKept, Redeemed, NoJob
<1>5. Peers(config) = NoPeers
  BY DEF Init, Peers, NoPeers
<1>6. Follows
  BY <1>1, <1>5 DEF Init, Follows, FileFollows, LiveFollows, GoneFollows
<1>7. SlotsOK
  BY <1>1 DEF Init, SlotsOK, OneOpenToken, TokensNamed, RevocationsThorough, PendingKept,
              ReservedKept, Issuing, NoJob
<1> QED
  BY <1>2, <1>3, <1>4, <1>6, <1>7 DEF AInv, Follows

LEMMA AdmissionStutters == ASSUME AInv, UNCHANGED vars PROVE AInv'
<1> USE DEF vars, files, procVars, worldVars, historyVars, boundVars
<1>1. (\A p \in Processes : Knows(p)) => (\A p \in Processes : Knows(p))'
  BY DEF Knows, LoadedAt, Updated, Entry
<1>2. (JobKeys => JobKeys') /\ (KeysOnce => KeysOnce')
  BY DEF JobKeys, KeysOnce
<1>3. (TokensOnce => TokensOnce') /\ (EnrolledKept => EnrolledKept')
  BY DEF TokensOnce, Spent, EnrolledKept, Kept
<1>4. UNCHANGED Peers(config)
  BY PeersUnchanged
<1>5. Follows => Follows'
  BY FollowsQuietly
<1>6. SlotsOK => SlotsOK'
  BY SlotsQuietly DEF Entering
<1> QED
  BY <1>1, <1>2, <1>3, <1>5, <1>6 DEF AInv, Follows

LEMMA AdmissionContinues == IInv /\ AInv /\ [Next]_vars => AInv'
<1>1. ASSUME IInv, AInv, Next PROVE AInv'
  <2>1. (\A p \in Processes : Knows(p))' /\ JobKeys'
    BY <1>1, KnowsKept, JobKeysKept DEF AInv
  <2>2. ASSUME ~crossed' PROVE KeysOnce' /\ TokensOnce' /\ EnrolledKept'
    BY <1>1, <2>2, KeysOnceKept, TokensOnceKept, EnrolledKeptKept
  <2>3. ASSUME ~crossed', ~astray' PROVE FileFollows' /\ LiveFollows' /\ GoneFollows'
    BY <1>1, <2>3, LiveKept DEF Follows
  <2>4. ASSUME ~crossed', ~torn' PROVE SlotsOK'
    BY <1>1, <2>4, SlotsKept
  <2> QED
    BY <2>1, <2>2, <2>3, <2>4 DEF AInv
<1> QED
  BY <1>1, AdmissionStutters

\* What the properties below rest on: what every process knows of the files, and what the
\* configuration, the tokens, the WireGuard file and the interface say of each other while
\* operations are under way.
THEOREM Admission == Spec => []AInv
<1>1. Spec => []IInv
  BY Invariant
<1> QED
  BY <1>1, AdmissionStarts, AdmissionContinues, PTL DEF Spec

\* A token admits one client, however its redemption interleaves with the administrators'
\* commands, unless one process overwrote what it had not seen.
THEOREM TokenAdmitsOne == Spec => []OneClientPerToken
<1>1. AInv => OneClientPerToken
  BY DEF AInv, TokensOnce, OneClientPerToken
<1> QED
  BY <1>1, Admission, PTL

\* A client that was told it is enrolled keeps its place until a command takes it out.
THEOREM EnrolledStays == Spec => []EnrolledIsKept
<1>1. AInv => EnrolledIsKept
  BY DEF AInv, EnrolledKept, Kept, EnrolledIsKept
<1> QED
  BY <1>1, Admission, PTL

\* A revoked or rotated key opens the interface no more once its operation is through.
THEOREM GoneStaysOff == Spec => []GoneIsOff
<1>1. AInv => GoneIsOff
  BY DEF AInv, GoneFollows, GoneIsOff
<1> QED
  BY <1>1, Admission, PTL

\* The interface and its file hold the clients of the configuration whenever nothing is
\* under way.
THEOREM RestIsInStep == Spec => []InStep
<1>1. AInv => InStep
  BY DEF AInv, FileFollows, LiveFollows, Syncing, InStep, AtRest, Busy
<1> QED
  BY <1>1, Admission, PTL

\* At rest nobody is at a step that excuses a token without a slot, or a slot without one.
LEMMA RestExcusesNothing ==
  ASSUME AtRest PROVE \A n : ~Adding(n) /\ ~Going(n) /\ ~Entering(n)
  BY ProcessesSplit DEF AtRest, Busy, Adding, Issuing, Going, Entering

\* At rest every open token is the only one of a client that exists.
THEOREM OpenTokensHaveSlots == Spec => []TokensHaveSlots
<1>1. AInv => TokensHaveSlots
  BY RestExcusesNothing
     DEF AInv, SlotsOK, OneOpenToken, TokensNamed, TokensHaveSlots, Redeemable
<1> QED
  BY <1>1, Admission, PTL

\* At rest every slot that waits has a token.
THEOREM WaitingCanEnroll == Spec => []PendingCanEnroll
<1>1. AInv => PendingCanEnroll
  BY RestExcusesNothing DEF AInv, SlotsOK, PendingKept, PendingCanEnroll, Open
<1> QED
  BY <1>1, Admission, PTL
=============================================================================
