-------------------------- MODULE EnrollmentProofs --------------------------
(* Theorems about Enrollment, for every set of administrators, names, keys  *)
(* and tokens, every size of the pool, and every number of commands and     *)
(* faults, with the saves of all processes interleaved in every way.        *)
EXTENDS Enrollment, WellFoundedInduction, TLAPS

-----------------------------------------------------------------------------
(* The inductive invariant.                                                *)

\* No two of the clients share a name or an address.
Apart(c) == \A s, r \in c : s # r => s.name # r.name /\ s.addr # r.addr

\* Every set of clients that is saved or about to be computed from is sound.
Separate == Apart(config) /\ \A p \in Processes : Apart(view[p])

Resting(p) == pc[p] \in {"idle", "ready"}

\* Steps of an enrolment after its token was spent, and after its slot was found.
Redeemed == {"load", "peer", "save", "persist", "sync", "hand"}
Admitting == {"peer", "save", "persist", "sync", "hand"}

\* What the operation of a process knows about its client: an addition has found the
\* name free and the pool not empty in the configuration it works on, a rotation and
\* an enrolment have found their client there.
JobOK(p) ==
    LET j == job[p]
        known == j.name \in Named(view[p])
    IN  /\ Resting(p) => j = NoJob
        /\ ~Resting(p) => (j.op = "enroll" <=> p = Listener) /\ j.op # "none"
        /\ j.op \in {"add", "embed", "revoke", "rotate"} => j.name \in Names
        /\ j.op = "enroll" => j.token \in Tokens
        /\ j.op = "enroll" /\ pc[p] \in Redeemed => j.name \in Names /\ j.key \in Keys
        /\ j.op = "add" /\ pc[p] \in Admitting => j.token \in Tokens
        /\ j.op \in {"add", "embed"} => ~known /\ Free(view[p]) # {}
        /\ j.op = "rotate" => known
        /\ j.op = "enroll" /\ pc[p] \in Admitting => known
        /\ pc[p] = "peer" => j.op # "restart"

IInv == TypeOK /\ Separate /\ \A p \in Processes : JobOK(p)

-----------------------------------------------------------------------------
(* The operators of the configuration.                                     *)

LEMMA ProcessesSplit == /\ Listener \in Processes
                        /\ \A a \in Admins : a \in Processes /\ a # Listener
  BY EnrollmentAssumption DEF Processes

\* A set of numbers that is not empty has a smallest member.
LEMMA SmallestExists ==
  ASSUME NEW S \in SUBSET Nat, S # {}
  PROVE  \E a \in S : \A b \in S : a <= b
<1>1. PICK a \in S : \A b \in S : <<b, a>> \notin OpToRel(<, Nat)
  BY NatLessThanWellFounded, WFMin
<1>2. ASSUME NEW b \in S PROVE a <= b
  <2>1. ~ (b < a)
    BY <1>1 DEF OpToRel
  <2> QED
    BY <2>1
<1> QED
  BY <1>2

\* next_available_ip returns an address that no client has.
LEMMA AvailableIsFree ==
  ASSUME NEW c, Free(c) # {}
  PROVE  NextAvailable(c) \in Free(c)
<1>1. Free(c) \in SUBSET Nat
  BY EnrollmentAssumption DEF Free, Addresses
<1>2. \E a \in Free(c) : \A b \in Free(c) : a <= b
  BY <1>1, SmallestExists
<1> QED
  BY <1>2 DEF NextAvailable

\* The slot found under a name has it.
LEMMA SlotFound ==
  ASSUME NEW c, NEW n \in Named(c)
  PROVE  Slot(c, n) \in c /\ Slot(c, n).name = n
<1>1. \E s \in c : s.name = n
  BY DEF Named
<1> QED
  BY <1>1 DEF Slot

\* The entry an operation writes is a client, and the others stay apart from it.
LEMMA EntryIsClient ==
  ASSUME NEW p \in Processes, TypeOK, Separate, job[p].name \in Names,
         job[p].name \in Named(view[p]) \/ Free(view[p]) # {}
  PROVE  /\ Entry(p) \in Clients
         /\ Entry(p).name = job[p].name
         /\ \A s \in view[p] : s.name # job[p].name => s.addr # Entry(p).addr
<1>1. job[p].key \in Keys \cup {NoKey} /\ view[p] \subseteq Clients
  BY DEF TypeOK, Jobs
<1>2. CASE job[p].name \in Named(view[p])
  <2>1. Slot(view[p], job[p].name) \in view[p] /\ Slot(view[p], job[p].name).name = job[p].name
    BY <1>2, SlotFound
  <2>2. Entry(p) = [name |-> job[p].name, key |-> job[p].key,
                    addr |-> Slot(view[p], job[p].name).addr]
    BY <1>2 DEF Entry
  <2> QED
    BY <1>1, <2>1, <2>2 DEF Clients, Separate, Apart
<1>3. CASE job[p].name \notin Named(view[p])
  <2>1. NextAvailable(view[p]) \in Free(view[p])
    BY <1>3, AvailableIsFree
  <2>2. Entry(p) = [name |-> job[p].name, key |-> job[p].key,
                    addr |-> NextAvailable(view[p])]
    BY <1>3 DEF Entry
  <2> QED
    BY <1>1, <2>1, <2>2 DEF Clients, Free
<1> QED
  BY <1>2, <1>3

\* What an operation saves is sound when what it loaded was.
LEMMA UpdatedIsApart ==
  ASSUME NEW p \in Processes, IInv, pc[p] \in {"save", "persist", "sync"}
  PROVE  Updated(p) \subseteq Clients /\ Apart(Updated(p))
<1> DEFINE others == {s \in view[p] : s.name # job[p].name}
<1>1. view[p] \subseteq Clients /\ Apart(view[p])
  BY DEF IInv, TypeOK, Separate
<1>2. CASE job[p].op \in {"restart", "revoke"}
  <2>1. Updated(p) \subseteq view[p]
    BY <1>2 DEF Updated
  <2> QED
    BY <1>1, <2>1 DEF Apart
<1>3. CASE job[p].op \notin {"restart", "revoke"}
  <2>1. /\ job[p].name \in Names
        /\ job[p].name \in Named(view[p]) \/ Free(view[p]) # {}
    BY <1>3 DEF IInv, JobOK, Resting, Redeemed, Admitting, TypeOK, Jobs, Commands
  <2>2. /\ Entry(p) \in Clients
        /\ Entry(p).name = job[p].name
        /\ \A s \in view[p] : s.name # job[p].name => s.addr # Entry(p).addr
    BY <2>1, EntryIsClient DEF IInv
  <2>3. Updated(p) = others \cup {Entry(p)}
    BY <1>3 DEF Updated
  <2> QED
    BY <1>1, <2>2, <2>3 DEF Apart
<1> QED
  BY <1>2, <1>3

\* The routes computed from clients are routes.
LEMMA PeersAreRoutes == ASSUME NEW c \in SUBSET Clients PROVE Peers(c) \in Routes
<1>1. ASSUME NEW a \in Addresses, \E s \in c : s.addr = a
      PROVE  (CHOOSE s \in c : s.addr = a).key \in Keys \cup {NoKey}
  <2>1. (CHOOSE s \in c : s.addr = a) \in c
    BY <1>1
  <2> QED
    BY <2>1 DEF Clients
<1> QED
  BY <1>1 DEF Peers, Routes

LEMMA RemovedTyped == ASSUME NEW r \in Routes, NEW k PROVE Removed(r, k) \in Routes
  BY DEF Removed, Routes

LEMMA AddedTyped ==
  ASSUME NEW r \in Routes, NEW k \in Keys \cup {NoKey}, NEW a \in Addresses
  PROVE  Added(r, k, a) \in Routes
  BY RemovedTyped DEF Added, Routes

LEMMA OldKeyTyped ==
  ASSUME NEW p \in Processes, TypeOK PROVE OldKey(p) \in Keys \cup {NoKey}
  BY SlotFound DEF OldKey, TypeOK, Clients

-----------------------------------------------------------------------------
(* What a step does to the processes.                                      *)

ProcTyped ==
    /\ pc \in [Processes -> Steps]
    /\ job \in [Processes -> Jobs]
    /\ view \in [Processes -> SUBSET Clients]
    /\ seen \in [Processes -> SUBSET Entries]

JobsOK == \A p \in Processes : JobOK(p)
ViewsApart == \A p \in Processes : Apart(view[p])

LEMMA StepMoves ==
  ASSUME TypeOK, NEW p \in Processes, NEW from, NEW to \in Steps, Step(p, from, to)
  PROVE  /\ pc' \in [Processes -> Steps]
         /\ pc[p] = from /\ pc'[p] = to
         /\ \A q \in Processes : q # p => pc'[q] = pc[q]
  BY DEF TypeOK, Step

\* A process that does nothing keeps what it knows.
LEMMA OthersKeep ==
  ASSUME NEW q \in Processes, JobOK(q),
         pc'[q] = pc[q], job'[q] = job[q], view'[q] = view[q]
  PROVE  JobOK(q)'
  BY DEF JobOK, Resting

LEMMA NoJobTyped == NoJob \in Jobs
  BY DEF NoJob, Jobs

\* An operation goes on with its next step.
LEMMA GoesOn ==
  ASSUME IInv, NEW p \in Processes, NEW from \in Steps, NEW to \in Steps,
         Step(p, from, to), UNCHANGED <<job, view>>,
         from \notin {"idle", "ready"}, to \notin {"idle", "ready"},
         to \in Redeemed => from \in Redeemed \/ job[p].op = "revoke",
         to \in Admitting => from \in Admitting \/ job[p].op = "revoke",
         to = "peer" => job[p].op # "restart"
  PROVE  JobsOK' /\ ViewsApart' /\ (UNCHANGED seen => ProcTyped')
<1>1. /\ pc' \in [Processes -> Steps]
      /\ pc[p] = from /\ pc'[p] = to
      /\ \A q \in Processes : q # p => pc'[q] = pc[q]
  BY StepMoves DEF IInv
<1>2. JobOK(p)'
  BY <1>1 DEF IInv, JobOK, Resting
<1>3. \A q \in Processes : q # p => JobOK(q)'
  BY <1>1, OthersKeep DEF IInv
<1> QED
  BY <1>1, <1>2, <1>3 DEF IInv, TypeOK, Separate, ProcTyped, JobsOK, ViewsApart

\* An operation ends.
LEMMA EndsKeeps ==
  ASSUME IInv, NEW p \in Processes, Ends(p)
  PROVE  JobsOK' /\ ViewsApart' /\ ProcTyped'
<1>1. /\ pc'[p] = "idle" /\ job'[p] = NoJob /\ view'[p] = {}
      /\ \A q \in Processes :
            q # p => pc'[q] = pc[q] /\ job'[q] = job[q] /\ view'[q] = view[q]
  BY DEF IInv, TypeOK, Ends
<1>2. JobOK(p)'
  BY <1>1 DEF JobOK, Resting, NoJob
<1>3. \A q \in Processes : q # p => JobOK(q)'
  BY <1>1, OthersKeep DEF IInv
<1>4. ViewsApart'
  BY <1>1 DEF IInv, Separate, ViewsApart, Apart
<1>5. ProcTyped'
  BY NoJobTyped DEF IInv, TypeOK, Ends, ProcTyped, Steps
<1> QED
  BY <1>2, <1>3, <1>4, <1>5 DEF JobsOK

\* A command begins.
LEMMA BeginsKeeps ==
  ASSUME IInv, NEW a \in Admins, NEW to \in {"store", "peer", "persist"}, NEW j \in Jobs,
         Begins(a, to, j), j.op \in Commands,
         j.op # "restart" => j.name \in Names,
         j.op \in {"add", "embed"} => j.name \notin Named(view[a]) /\ Free(view[a]) # {},
         j.op = "rotate" => j.name \in Named(view[a]),
         j.op = "add" => to = "store",
         to = "peer" => j.op # "restart"
  PROVE  JobsOK' /\ ViewsApart' /\ ProcTyped'
<1>1. a \in Processes /\ a # Listener /\ to \in Steps
  BY ProcessesSplit DEF Steps
<1>2. /\ pc' \in [Processes -> Steps] /\ pc'[a] = to
      /\ \A q \in Processes : q # a => pc'[q] = pc[q]
  BY <1>1, StepMoves DEF IInv, Begins
<1>3. job' \in [Processes -> Jobs] /\ job'[a] = j
      /\ \A q \in Processes : q # a => job'[q] = job[q]
  BY <1>1 DEF IInv, TypeOK, Begins
<1>4. JobOK(a)'
  BY <1>1, <1>2, <1>3 DEF JobOK, Resting, Begins, Commands, Admitting
<1>5. \A q \in Processes : q # a => JobOK(q)'
  BY <1>2, <1>3, OthersKeep DEF IInv, Begins
<1> QED
  BY <1>2, <1>3, <1>4, <1>5 DEF IInv, TypeOK, Separate, Begins, ProcTyped, JobsOK, ViewsApart

-----------------------------------------------------------------------------
(* Every action keeps the invariant.                                       *)

LEMMA LoadsKeeps == ASSUME IInv, NEW a \in Admins, Loads(a) PROVE IInv'
<1>1. a \in Processes /\ a # Listener
  BY ProcessesSplit
<1>2. /\ pc'[a] = "ready" /\ view'[a] = config /\ job' = job
      /\ \A q \in Processes : q # a => pc'[q] = pc[q] /\ view'[q] = view[q]
  BY <1>1 DEF IInv, TypeOK, Loads
<1>3. JobOK(a)
  BY <1>1 DEF IInv
<1>4. JobOK(a)'
  BY <1>2, <1>3 DEF JobOK, Resting, Loads, NoJob
<1>5. \A q \in Processes : q # a => JobOK(q)'
  BY <1>2, OthersKeep DEF IInv
<1>6. Separate'
  BY <1>2 DEF IInv, Separate, Loads, files
<1>7. TypeOK'
  BY DEF IInv, TypeOK, Loads, files, worldVars, historyVars, boundVars, Steps
<1> QED
  BY <1>4, <1>5, <1>6, <1>7 DEF IInv

LEMMA CommandKeeps == ASSUME IInv, NEW a \in Admins, Command(a) PROVE IInv'
<1> SUFFICES TypeOK' /\ Separate' /\ JobsOK'
  BY DEF IInv, JobsOK
<1>1. ASSUME NEW to, NEW j, Begins(a, to, j), JobsOK' /\ ViewsApart' /\ ProcTyped',
             usedKeys' \in SUBSET Keys
      PROVE  TypeOK' /\ Separate' /\ JobsOK'
  BY <1>1, EnrollmentAssumption
     DEF IInv, TypeOK, Separate, Begins, files, historyVars, ProcTyped, ViewsApart
<1>2. CASE RestartBegins(a)
  <2> DEFINE j == [NoJob EXCEPT !.op = "restart"]
  <2>1. j \in Jobs /\ j.op = "restart"
    BY DEF NoJob, Jobs, Commands
  <2>2. JobsOK' /\ ViewsApart' /\ ProcTyped'
    BY <1>2, <2>1, BeginsKeeps DEF RestartBegins, Commands
  <2> QED
    BY <1>1, <1>2, <2>2 DEF RestartBegins, IInv, TypeOK
<1>3. ASSUME NEW n \in Names, AddReserves(a, n)
      PROVE  TypeOK' /\ Separate' /\ JobsOK'
  <2> DEFINE j == [op |-> "add", name |-> n, key |-> NoKey, token |-> NoToken]
  <2>1. j \in Jobs
    BY DEF Jobs, Commands
  <2>2. JobsOK' /\ ViewsApart' /\ ProcTyped'
    BY <1>3, <2>1, BeginsKeeps DEF AddReserves, Commands
  <2> QED
    BY <1>1, <1>3, <2>2 DEF AddReserves, IInv, TypeOK
<1>4. ASSUME NEW n \in Names, RevokeBegins(a, n)
      PROVE  TypeOK' /\ Separate' /\ JobsOK'
  <2> DEFINE j == [op |-> "revoke", name |-> n, key |-> NoKey, token |-> NoToken]
  <2>1. j \in Jobs
    BY DEF Jobs, Commands
  <2>2. JobsOK' /\ ViewsApart' /\ ProcTyped'
    BY <1>4, <2>1, BeginsKeeps DEF RevokeBegins, Commands
  <2> QED
    BY <1>1, <1>4, <2>2 DEF RevokeBegins, IInv, TypeOK
<1>5. ASSUME NEW n \in Names, NEW k \in Keys, AddEmbeds(a, n, k)
      PROVE  TypeOK' /\ Separate' /\ JobsOK'
  <2> DEFINE j == [op |-> "embed", name |-> n, key |-> k, token |-> NoToken]
  <2>1. j \in Jobs
    BY DEF Jobs, Commands
  <2>2. JobsOK' /\ ViewsApart' /\ ProcTyped'
    BY <1>5, <2>1, BeginsKeeps DEF AddEmbeds, Commands
  <2> QED
    BY <1>1, <1>5, <2>2 DEF AddEmbeds, IInv, TypeOK
<1>6. ASSUME NEW n \in Names, NEW k \in Keys, RotateBegins(a, n, k)
      PROVE  TypeOK' /\ Separate' /\ JobsOK'
  <2> DEFINE j == [op |-> "rotate", name |-> n, key |-> k, token |-> NoToken]
  <2>1. j \in Jobs
    BY DEF Jobs, Commands
  <2>2. JobsOK' /\ ViewsApart' /\ ProcTyped'
    BY <1>6, <2>1, BeginsKeeps DEF RotateBegins, Commands
  <2> QED
    BY <1>1, <1>6, <2>2 DEF RotateBegins, IInv, TypeOK
<1> QED
  BY <1>2, <1>3, <1>4, <1>5, <1>6 DEF Command

\* What an action that leaves most of the state alone has still to show.
Rest == /\ store \subseteq Entries /\ conf \in Routes /\ live \in Routes
        /\ config \subseteq Clients /\ Apart(config)
        /\ expired \subseteq Tokens /\ handed \subseteq Tokens
        /\ usedKeys \subseteq Keys /\ usedTokens \subseteq Tokens
        /\ admitted \subseteq [token: Tokens, name: Names, key: Keys]
        /\ dropped \subseteq [name: Names, key: Keys \cup {NoKey}]
        /\ stale \subseteq Processes
        /\ crossed \in BOOLEAN /\ torn \in BOOLEAN /\ astray \in BOOLEAN
        /\ commands \in 0..MaxCommands /\ faults \in 0..MaxFaults

LEMMA Parts ==
  ASSUME ProcTyped', ViewsApart', JobsOK', Rest'
  PROVE  IInv'
  BY DEF IInv, TypeOK, Separate, ProcTyped, ViewsApart, JobsOK, Rest

LEMMA RequestsKeeps == ASSUME IInv, NEW t \in Tokens, Requests(t) PROVE IInv'
<1>1. Listener \in Processes
  BY ProcessesSplit
<1>2. /\ pc' \in [Processes -> Steps] /\ pc'[Listener] = "store"
      /\ \A q \in Processes : q # Listener => pc'[q] = pc[q]
  BY <1>1, StepMoves DEF IInv, Requests, Steps
<1>3. [NoJob EXCEPT !.op = "enroll", !.token = t] \in Jobs
  BY DEF NoJob, Jobs
<1>4. /\ job' \in [Processes -> Jobs]
      /\ job'[Listener].op = "enroll" /\ job'[Listener].token = t
      /\ \A q \in Processes : q # Listener => job'[q] = job[q]
  BY <1>1, <1>3 DEF IInv, TypeOK, Requests, NoJob
<1>5. JobOK(Listener)'
  BY <1>2, <1>4 DEF JobOK, Resting, Redeemed, Admitting
<1>6. \A q \in Processes : q # Listener => JobOK(q)'
  BY <1>2, <1>4, OthersKeep DEF IInv, Requests
<1>7. TypeOK' /\ Separate'
  BY <1>2, <1>4 DEF IInv, TypeOK, Separate, Requests, files, worldVars, historyVars, boundVars
<1> QED
  BY <1>5, <1>6, <1>7 DEF IInv

LEMMA ReadsStoreKeeps == ASSUME IInv, NEW p \in Processes, ReadsStore(p) PROVE IInv'
<1>1. JobsOK' /\ ViewsApart'
  BY GoesOn DEF ReadsStore, Steps, Redeemed, Admitting
<1>2. TypeOK' /\ Separate'
  BY <1>1 DEF IInv, TypeOK, Separate, ViewsApart, ReadsStore, Step, Steps, files, worldVars,
              historyVars, boundVars
<1> QED
  BY <1>1, <1>2 DEF IInv, JobsOK

LEMMA StoreSaved ==
  ASSUME IInv, NEW p \in Processes, NEW tokens \in SUBSET Entries, SavesStore(p, tokens),
         usedKeys' \subseteq Keys, usedTokens' \subseteq Tokens
  PROVE  Rest'
  BY DEF IInv, TypeOK, Separate, SavesStore, Rest, boundVars

LEMMA IssuesKeeps == ASSUME IInv, NEW a \in Admins, NEW t \in Tokens, Issues(a, t) PROVE IInv'
<1>1. a \in Processes /\ a # Listener
  BY ProcessesSplit
<1>2. /\ pc' \in [Processes -> Steps] /\ pc[a] = "mark" /\ pc'[a] = "save"
      /\ \A q \in Processes : q # a => pc'[q] = pc[q]
  BY <1>1, StepMoves DEF IInv, Issues, Steps
<1>3. /\ job' \in [Processes -> Jobs]
      /\ job'[a] = [job[a] EXCEPT !.token = t]
      /\ \A q \in Processes : q # a => job'[q] = job[q]
  BY <1>1 DEF IInv, TypeOK, Issues, Jobs
<1>4. job[a] \in Jobs /\ JobOK(a) /\ job[a].op = "add"
  BY <1>1 DEF IInv, TypeOK, Issues
<1>5. UNCHANGED <<view, seen>>
  BY DEF Issues, SavesStore
<1>6. /\ job'[a].op = "add" /\ job'[a].name = job[a].name /\ job'[a].token = t
  BY <1>3, <1>4 DEF Jobs
<1>7. JobOK(a)'
  BY <1>2, <1>4, <1>5, <1>6 DEF JobOK, Resting
<1>8. \A q \in Processes : q # a => JobOK(q)'
  BY <1>2, <1>3, <1>5, OthersKeep DEF IInv
<1>9. Rest'
  <2> DEFINE n == job[a].name
             saved == (seen[a] \ Outstanding(seen[a], n))
                        \cup {[token |-> t, name |-> n, used |-> FALSE]}
  <2>1. n \in Names
    BY <1>4 DEF JobOK
  <2>2. saved \in SUBSET Entries
    <3>1. seen[a] \subseteq Entries
      BY <1>1 DEF IInv, TypeOK
    <3>2. [token |-> t, name |-> n, used |-> FALSE] \in Entries
      BY <2>1 DEF Entries
    <3> QED
      BY <3>1, <3>2
  <2>3. /\ SavesStore(a, saved)
        /\ usedKeys' \subseteq Keys /\ usedTokens' \subseteq Tokens
    BY DEF Issues, IInv, TypeOK
  <2> QED
    BY <1>1, <2>2, <2>3, StoreSaved
<1>10. ProcTyped' /\ ViewsApart' /\ JobsOK'
  BY <1>2, <1>3, <1>5, <1>7, <1>8
     DEF JobsOK, ViewsApart, ProcTyped, IInv, TypeOK, Separate
<1> QED
  BY <1>9, <1>10, Parts

LEMMA RevokesTokensKeeps == ASSUME IInv, NEW a \in Admins, RevokesTokens(a) PROVE IInv'
<1>1. a \in Processes /\ a # Listener
  BY ProcessesSplit
<1>2. UNCHANGED <<job, view, seen>>
  BY DEF RevokesTokens, SavesStore
<1>3. JobsOK' /\ ViewsApart' /\ ProcTyped'
  BY <1>1, <1>2, GoesOn DEF RevokesTokens, Steps
<1>4. Rest'
  <2> DEFINE kept == seen[a] \ Outstanding(seen[a], job[a].name)
  <2>1. kept \in SUBSET Entries
    BY <1>1 DEF IInv, TypeOK
  <2>2. CASE SavesStore(a, kept) /\ UNCHANGED <<usedKeys, usedTokens>>
    BY <1>1, <2>1, <2>2, StoreSaved DEF IInv, TypeOK
  <2>3. CASE UNCHANGED <<files, worldVars, historyVars, boundVars>>
    BY <2>3 DEF IInv, TypeOK, Separate, Rest, files, worldVars, historyVars, boundVars
  <2> QED
    BY <2>2, <2>3 DEF RevokesTokens
<1> QED
  BY <1>3, <1>4, Parts

LEMMA RedeemsKeeps == ASSUME IInv, NEW k \in Keys, Redeems(k) PROVE IInv'
<1> DEFINE L == Listener
<1>1. L \in Processes
  BY ProcessesSplit
<1>2. PICK e \in seen[L] :
        /\ e.token = job[L].token
        /\ Step(L, "mark", "load")
        /\ SavesStore(L, (seen[L] \ {e}) \cup {[e EXCEPT !.used = TRUE]})
        /\ usedKeys' = usedKeys \cup {k}
        /\ job' = [job EXCEPT ![L].name = e.name, ![L].key = k]
        /\ UNCHANGED usedTokens
  BY DEF Redeems
<1>3. e \in Entries /\ job[L] \in Jobs /\ JobOK(L)
  BY <1>1, <1>2 DEF IInv, TypeOK
<1>4. /\ pc' \in [Processes -> Steps] /\ pc[L] = "mark" /\ pc'[L] = "load"
      /\ \A q \in Processes : q # L => pc'[q] = pc[q]
  BY <1>1, <1>2, StepMoves DEF IInv, Steps
<1>5. /\ job'[L] = [job[L] EXCEPT !.name = e.name, !.key = k]
      /\ \A q \in Processes : q # L => job'[q] = job[q]
  BY <1>1, <1>2 DEF IInv, TypeOK
<1>6. /\ job'[L] \in Jobs /\ job'[L].op = job[L].op /\ job'[L].token = job[L].token
      /\ job'[L].name = e.name /\ job'[L].key = k
  BY <1>3, <1>5 DEF Jobs, Entries
<1>7. job' \in [Processes -> Jobs]
  BY <1>1, <1>2, <1>5, <1>6 DEF IInv, TypeOK
<1>8. UNCHANGED <<view, seen>>
  BY <1>2 DEF SavesStore
<1>9. JobOK(L)'
  BY <1>3, <1>4, <1>6, <1>8 DEF JobOK, Resting, Entries, Admitting
<1>10. \A q \in Processes : q # L => JobOK(q)'
  BY <1>4, <1>5, <1>8, OthersKeep DEF IInv
<1>11. Rest'
  <2>1. (seen[L] \ {e}) \cup {[e EXCEPT !.used = TRUE]} \in SUBSET Entries
    BY <1>1, <1>3 DEF IInv, TypeOK, Entries
  <2>2. usedKeys' \subseteq Keys /\ usedTokens' \subseteq Tokens
    BY <1>2 DEF IInv, TypeOK
  <2> QED
    BY <1>1, <1>2, <2>1, <2>2, StoreSaved
<1>12. ProcTyped' /\ ViewsApart' /\ JobsOK'
  BY <1>4, <1>7, <1>8, <1>9, <1>10
     DEF JobsOK, ViewsApart, ProcTyped, IInv, TypeOK, Separate
<1> QED
  BY <1>11, <1>12, Parts

LEMMA LoadsSlotKeeps == ASSUME IInv, LoadsSlot PROVE IInv'
<1> DEFINE L == Listener
<1>1. L \in Processes
  BY ProcessesSplit
<1>2. /\ pc' \in [Processes -> Steps] /\ pc[L] = "load" /\ pc'[L] = "peer"
      /\ \A q \in Processes : q # L => pc'[q] = pc[q]
  BY <1>1, StepMoves DEF IInv, LoadsSlot, Steps
<1>3. /\ view'[L] = config /\ job' = job
      /\ \A q \in Processes : q # L => view'[q] = view[q]
      /\ job[L].name \in Named(config)
  BY <1>1 DEF IInv, TypeOK, LoadsSlot, Pending
<1>4. JobOK(L)
  BY <1>1 DEF IInv
<1>5. JobOK(L)'
  BY <1>2, <1>3, <1>4 DEF JobOK, Resting, Redeemed
<1>6. \A q \in Processes : q # L => JobOK(q)'
  BY <1>2, <1>3, OthersKeep DEF IInv
<1>7. Separate'
  BY <1>3 DEF IInv, Separate, LoadsSlot, files
<1>8. TypeOK'
  BY <1>2 DEF IInv, TypeOK, LoadsSlot, files, worldVars, historyVars, boundVars
<1> QED
  BY <1>5, <1>6, <1>7, <1>8 DEF IInv

LEMMA RefusesTokenKeeps == ASSUME IInv, RefusesToken PROVE IInv'
<1>1. JobsOK' /\ ViewsApart' /\ ProcTyped'
  BY ProcessesSplit, EndsKeeps DEF RefusesToken
<1>2. Rest'
  BY DEF IInv, TypeOK, Separate, Rest, RefusesToken, files, worldVars, historyVars, boundVars
<1> QED
  BY <1>1, <1>2, Parts

LEMMA RefusesSlotKeeps == ASSUME IInv, RefusesSlot PROVE IInv'
<1>1. JobsOK' /\ ViewsApart' /\ ProcTyped'
  BY ProcessesSplit, EndsKeeps DEF RefusesSlot
<1>2. Rest'
  BY DEF IInv, TypeOK, Separate, Rest, RefusesSlot, files, worldVars, historyVars, boundVars
<1> QED
  BY <1>1, <1>2, Parts

\* An operation that changes the interface has a client: its name is one, and there is
\* an address for it.
LEMMA ClientKnown ==
  ASSUME IInv, NEW p \in Processes, pc[p] = "peer", job[p].op # "revoke"
  PROVE  Entry(p) \in Clients
<1>1. JobOK(p) /\ job[p] \in Jobs
  BY DEF IInv, TypeOK
<1>2. /\ job[p].name \in Names
      /\ job[p].name \in Named(view[p]) \/ Free(view[p]) # {}
  BY <1>1 DEF JobOK, Resting, Redeemed, Admitting, Jobs, Commands
<1> QED
  BY <1>2, EntryIsClient DEF IInv

LEMMA HotChangeKeeps == ASSUME IInv, NEW p \in Processes, HotChange(p) PROVE IInv'
<1>1. UNCHANGED <<job, view, seen>> /\ Step(p, "peer", "save") /\ pc[p] = "peer"
  BY DEF HotChange, Step
<1>2. JobsOK' /\ ViewsApart' /\ ProcTyped'
  BY <1>1, GoesOn DEF Steps, Redeemed, Admitting
<1>3. live' \in Routes
  <2>1. live \in Routes /\ OldKey(p) \in Keys \cup {NoKey} /\ job[p].key \in Keys \cup {NoKey}
    BY OldKeyTyped DEF IInv, TypeOK, Jobs
  <2>2. Removed(live, OldKey(p)) \in Routes
    BY <2>1, RemovedTyped
  <2>3. job[p].op # "revoke" => Entry(p).addr \in Addresses
    BY <1>1, ClientKnown DEF Clients
  <2>4. job[p].op # "revoke" =>
            Added(Removed(live, OldKey(p)), job[p].key, Entry(p).addr) \in Routes
    BY <2>1, <2>2, <2>3, AddedTyped
  <2> QED
    BY <2>2, <2>4 DEF HotChange
<1>4. Rest'
  BY <1>3 DEF IInv, TypeOK, Separate, Rest, HotChange, worldVars, historyVars, boundVars
<1> QED
  BY <1>2, <1>4, Parts

LEMMA SavesConfigKeeps == ASSUME IInv, NEW p \in Processes, SavesConfig(p) PROVE IInv'
<1>1. UNCHANGED <<job, view, seen>> /\ Step(p, "save", "persist") /\ pc[p] = "save"
  BY DEF SavesConfig, Step
<1>2. JobsOK' /\ ViewsApart' /\ ProcTyped'
  BY <1>1, GoesOn DEF Steps, Redeemed, Admitting
<1>3. config' \subseteq Clients /\ Apart(config')
  BY <1>1, UpdatedIsApart DEF SavesConfig
<1>4. dropped' \subseteq [name: Names, key: Keys \cup {NoKey}]
  <2>1. OldKey(p) \in Keys \cup {NoKey} /\ dropped \subseteq [name: Names, key: Keys \cup {NoKey}]
    BY OldKeyTyped DEF IInv, TypeOK
  <2>2. job[p].op \in {"revoke", "rotate"} => job[p].name \in Names
    BY DEF IInv, JobOK
  <2> QED
    BY <2>1, <2>2 DEF SavesConfig
<1>5. crossed' \in BOOLEAN
  BY DEF SavesConfig, IInv, TypeOK
<1>6. Rest'
  BY <1>3, <1>4, <1>5 DEF IInv, TypeOK, Rest, SavesConfig, worldVars, boundVars
<1> QED
  BY <1>2, <1>6, Parts

LEMMA PersistsKeeps == ASSUME IInv, NEW p \in Processes, Persists(p) PROVE IInv'
<1>1. UNCHANGED <<job, view, seen>> /\ Step(p, "persist", "sync") /\ pc[p] = "persist"
  BY DEF Persists, Step
<1>2. JobsOK' /\ ViewsApart' /\ ProcTyped'
  BY <1>1, GoesOn DEF Steps, Redeemed, Admitting
<1>3. conf' \in Routes
  BY <1>1, UpdatedIsApart, PeersAreRoutes DEF Persists
<1>4. crossed' \in BOOLEAN
  BY DEF Persists, IInv, TypeOK
<1>5. Rest'
  BY <1>3, <1>4 DEF IInv, TypeOK, Separate, Rest, Persists, worldVars, boundVars
<1> QED
  BY <1>2, <1>5, Parts

LEMMA SyncsKeeps == ASSUME IInv, NEW p \in Processes, Syncs(p) PROVE IInv'
<1>1. UNCHANGED <<job, view, seen>> /\ Step(p, "sync", AfterSync(p)) /\ pc[p] = "sync"
  BY DEF Syncs, Step
<1>2. JobsOK' /\ ViewsApart' /\ ProcTyped'
  BY <1>1, GoesOn DEF AfterSync, Steps, Redeemed, Admitting
<1>3. live' \in Routes
  BY <1>1, UpdatedIsApart, PeersAreRoutes DEF Syncs, IInv, TypeOK
<1>4. crossed' \in BOOLEAN /\ astray' \in BOOLEAN
  BY DEF Syncs, IInv, TypeOK
<1>5. Rest'
  BY <1>3, <1>4 DEF IInv, TypeOK, Separate, Rest, Syncs, worldVars, boundVars
<1> QED
  BY <1>2, <1>5, Parts

LEMMA BouncesKeeps == ASSUME IInv, NEW a \in Admins, Bounces(a) PROVE IInv'
<1>1. JobsOK' /\ ViewsApart' /\ ProcTyped'
  BY ProcessesSplit, EndsKeeps DEF Bounces
<1>2. crossed' \in BOOLEAN /\ astray' \in BOOLEAN
  BY DEF Bounces, IInv, TypeOK, Busy
<1>3. Rest'
  BY <1>2 DEF IInv, TypeOK, Separate, Rest, Bounces, worldVars, boundVars
<1> QED
  BY <1>1, <1>3, Parts

LEMMA FinishesKeeps == ASSUME IInv, NEW p \in Processes, Finishes(p) PROVE IInv'
<1>1. JobsOK' /\ ViewsApart' /\ ProcTyped'
  BY EndsKeeps DEF Finishes
<1>2. pc[p] = "hand" /\ JobOK(p)
  BY DEF Finishes, IInv
<1>3. handed' \subseteq Tokens
  BY <1>2 DEF Finishes, IInv, TypeOK, JobOK, Admitting
<1>4. admitted' \subseteq [token: Tokens, name: Names, key: Keys]
  BY <1>2 DEF Finishes, IInv, TypeOK, JobOK, Redeemed
<1>5. Rest'
  BY <1>3, <1>4 DEF IInv, TypeOK, Separate, Rest, Finishes, files, boundVars
<1> QED
  BY <1>1, <1>5, Parts

LEMMA ExpiresKeeps == ASSUME IInv, NEW t \in Tokens, Expires(t) PROVE IInv'
<1>1. UNCHANGED procVars /\ TypeOK' /\ Separate'
  BY DEF IInv, TypeOK, Separate, Expires, files, procVars, historyVars, boundVars
<1>2. JobsOK'
  BY <1>1, OthersKeep DEF IInv, procVars, JobsOK
<1> QED
  BY <1>1, <1>2 DEF IInv, JobsOK

LEMMA FaultyTyped ==
  ASSUME IInv, Faulty PROVE faults' \in 0..MaxFaults /\ astray' \in BOOLEAN
  BY EnrollmentAssumption DEF IInv, TypeOK, Faulty

LEMMA CrashKeeps == ASSUME IInv, NEW p \in Processes, Crash(p) PROVE IInv'
<1>1. JobsOK' /\ ViewsApart' /\ ProcTyped'
  BY EndsKeeps DEF Crash
<1>2. Rest'
  BY FaultyTyped DEF IInv, TypeOK, Separate, Rest, Crash, Faulty, worldVars
<1> QED
  BY <1>1, <1>2, Parts

LEMMA HotChangeFailsKeeps == ASSUME IInv, NEW p \in Processes, HotChangeFails(p) PROVE IInv'
<1>1. UNCHANGED <<job, view, seen>> /\ Step(p, "peer", "save") /\ pc[p] = "peer"
  BY DEF HotChangeFails, Step
<1>2. JobsOK' /\ ViewsApart' /\ ProcTyped'
  BY <1>1, GoesOn DEF Steps, Redeemed, Admitting
<1>3. live' \in Routes
  <2>1. live \in Routes /\ OldKey(p) \in Keys \cup {NoKey} /\ job[p].key \in Keys \cup {NoKey}
    BY OldKeyTyped DEF IInv, TypeOK, Jobs
  <2>2. Removed(live, OldKey(p)) \in Routes
    BY <2>1, RemovedTyped
  <2>3. job[p].op = "rotate" => Entry(p).addr \in Addresses
    BY <1>1, ClientKnown DEF Clients
  <2>4. job[p].op = "rotate" => Added(live, job[p].key, Entry(p).addr) \in Routes
    BY <2>1, <2>3, AddedTyped
  <2> QED
    BY <2>1, <2>2, <2>4 DEF HotChangeFails
<1>4. Rest'
  BY <1>3, FaultyTyped DEF IInv, TypeOK, Separate, Rest, HotChangeFails, Faulty, worldVars
<1> QED
  BY <1>2, <1>4, Parts

LEMMA PersistFailsKeeps == ASSUME IInv, NEW p \in Processes, PersistFails(p) PROVE IInv'
<1>1. UNCHANGED <<job, view, seen>>
  BY DEF PersistFails
<1>2. ASSUME Step(p, "persist", "hand")
      PROVE  JobsOK' /\ ViewsApart' /\ ProcTyped'
  BY <1>1, <1>2, GoesOn DEF Steps, Redeemed, Admitting
<1>3. ASSUME Step(p, "sync", "hand")
      PROVE  JobsOK' /\ ViewsApart' /\ ProcTyped'
  BY <1>1, <1>3, GoesOn DEF Steps, Redeemed, Admitting
<1>4. Rest'
  BY FaultyTyped DEF IInv, TypeOK, Separate, Rest, PersistFails, Faulty, worldVars
<1>5. JobsOK' /\ ViewsApart' /\ ProcTyped'
  BY <1>2, <1>3 DEF PersistFails
<1> QED
  BY <1>4, <1>5, Parts

LEMMA RebootKeeps == ASSUME IInv, Reboot PROVE IInv'
<1>1. ProcTyped'
  BY NoJobTyped DEF Reboot, ProcTyped, Steps
<1>2. ViewsApart'
  BY DEF Reboot, ViewsApart, Apart
<1>3. JobsOK'
  BY DEF Reboot, JobsOK, JobOK, Resting, NoJob
<1>4. Rest'
  BY EnrollmentAssumption DEF IInv, TypeOK, Separate, Rest, Reboot, worldVars, Busy
<1> QED
  BY <1>1, <1>2, <1>3, <1>4, Parts

-----------------------------------------------------------------------------
(* The theorems.                                                           *)

LEMMA Starts == Init => IInv
<1> SUFFICES ASSUME Init PROVE IInv
  OBVIOUS
<1>1. NoPeers \in Routes
  BY DEF NoPeers, Routes
<1>2. TypeOK
  <2>1. ProcTyped
    BY NoJobTyped DEF Init, ProcTyped, Steps
  <2>2. /\ store \subseteq Entries /\ config \subseteq Clients /\ expired \subseteq Tokens
        /\ handed \subseteq Tokens /\ usedKeys \subseteq Keys /\ usedTokens \subseteq Tokens
        /\ admitted \subseteq [token: Tokens, name: Names, key: Keys]
        /\ dropped \subseteq [name: Names, key: Keys \cup {NoKey}]
    BY DEF Init
  <2>3. commands \in 0..MaxCommands /\ faults \in 0..MaxFaults
    BY EnrollmentAssumption DEF Init
  <2> QED
    BY <1>1, <2>1, <2>2, <2>3 DEF Init, TypeOK, ProcTyped
<1>3. Separate
  BY DEF Init, Separate, Apart
<1>4. \A p \in Processes : JobOK(p)
  BY DEF Init, JobOK, Resting, NoJob
<1> QED
  BY <1>2, <1>3, <1>4 DEF IInv

LEMMA Continues == IInv /\ [Next]_vars => IInv'
<1> SUFFICES ASSUME IInv, [Next]_vars PROVE IInv'
  OBVIOUS
<1>1. ASSUME NEW a \in Admins, AdminStep(a) PROVE IInv'
  BY <1>1, LoadsKeeps, CommandKeeps, RevokesTokensKeeps, BouncesKeeps, IssuesKeeps
     DEF AdminStep
<1>2. CASE ListenerStep
  BY <1>2, RefusesTokenKeeps, LoadsSlotKeeps, RefusesSlotKeeps, RequestsKeeps, RedeemsKeeps
     DEF ListenerStep
<1>3. ASSUME NEW p \in Processes, ProcessStep(p) PROVE IInv'
  BY <1>3, ReadsStoreKeeps, HotChangeKeeps, SavesConfigKeeps, PersistsKeeps, SyncsKeeps,
     FinishesKeeps DEF ProcessStep
<1>4. CASE World
  BY <1>4, ExpiresKeeps, CrashKeeps, HotChangeFailsKeeps, PersistFailsKeeps, RebootKeeps
     DEF World
<1>5. CASE UNCHANGED vars
  <2>1. TypeOK' /\ Separate' /\ UNCHANGED procVars
    BY <1>5 DEF IInv, TypeOK, Separate, vars, files, procVars, worldVars, historyVars, boundVars
  <2>2. JobsOK'
    BY <2>1, OthersKeep DEF IInv, procVars, JobsOK
  <2> QED
    BY <2>1, <2>2 DEF IInv, JobsOK
<1> QED
  BY <1>1, <1>2, <1>3, <1>4, <1>5 DEF Next

\* The invariant holds in every state of every behaviour: whatever the processes load
\* and save, what they work on and what they write is a sound set of clients.
THEOREM Invariant == Spec => []IInv
  BY Starts, Continues, PTL DEF Spec

\* Every variable keeps its type (TypeOK): whatever is saved to the token store, the
\* configuration and the WireGuard file can be loaded again.
THEOREM TypeCorrect == Spec => []TypeOK
<1>1. IInv => TypeOK
  BY DEF IInv
<1> QED
  BY <1>1, Invariant, PTL

\* No two clients ever share a name or an address (ClientsApart), for a pool of any size
\* and with any number of processes saving over each other: next_available_ip gives an
\* address that is free in the configuration that is saved with it.
THEOREM ClientsStayApart == Spec => []ClientsApart
<1>1. IInv => ClientsApart
  BY DEF IInv, Separate, Apart, ClientsApart
<1> QED
  BY <1>1, Invariant, PTL

=============================================================================
