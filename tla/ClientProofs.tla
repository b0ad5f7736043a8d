---------------------------- MODULE ClientProofs ----------------------------
(***************************************************************************)
(* The client's files, its log and its updates: the saving routine         *)
(* implements a register, for every number of writers, readers and         *)
(* temporary files; the log's readers get its lines in order, for every    *)
(* capacity; what is installed is a verified release, for every set of     *)
(* calls and of releases.                                                  *)
(***************************************************************************)
EXTENDS AtomicFile, LogFeed, Update, NaturalsInduction, SequenceTheorems,
        WellFoundedInduction, TLAPS

-----------------------------------------------------------------------------
(* The saving routine *)

Whole(n) == cached[n] \in Contents /\ stored[n] = cached[n]

\* The inductive invariant: what has the name is whole, and no writer's inode has it.
FileInv ==
    /\ FileTypeOK
    /\ Whole(named) /\ Whole(namedOnDisk)
    /\ \A r \in Readers : got[r] \in Contents
                          /\ (handle[r] # NoInode => cached[handle[r]] \in Contents)
    /\ \A w \in Writers : Writing(w) =>
            /\ temp[w] # named /\ temp[w] # namedOnDisk
            /\ \A r \in Readers : handle[r] # temp[w]
            /\ \A v \in Writers : v # w /\ Writing(v) => temp[v] # temp[w]
            /\ stage[w] \in {"written", "synced"} => cached[temp[w]] = payload[w]
            /\ stage[w] = "synced" => stored[temp[w]] = payload[w]

LEMMA InitInv == FileInit => FileInv
BY AtomicFileAssumption DEF FileInit, FileInv, FileTypeOK, Whole, Writing, Stages

LEMMA MkstempInv ==
    ASSUME FileInv, NEW w \in Writers, Mkstemp(w) PROVE FileInv'
<1> USE AtomicFileAssumption
<1>1. PICK n \in Inodes \ InUse, c \in Contents :
        /\ temp' = [temp EXCEPT ![w] = n]
        /\ payload' = [payload EXCEPT ![w] = c]
        /\ cached' = [cached EXCEPT ![n] = Torn]
        /\ stored' = [stored EXCEPT ![n] = Torn]
  BY DEF Mkstemp
<1>2. /\ n # named /\ n # namedOnDisk
      /\ \A r \in Readers : handle[r] # n
      /\ \A v \in Writers : Writing(v) => temp[v] # n
  BY DEF InUse
<1>3. FileTypeOK'
  BY <1>1 DEF Mkstemp, FileInv, FileTypeOK, Stages
<1>4. Whole(named)' /\ Whole(namedOnDisk)'
  BY <1>1, <1>2 DEF Mkstemp, FileInv, FileTypeOK, Whole
<1>5. \A r \in Readers : got'[r] \in Contents
                         /\ (handle'[r] # NoInode => cached'[handle'[r]] \in Contents)
  BY <1>1, <1>2 DEF Mkstemp, FileInv, FileTypeOK
<1>6. ASSUME NEW u \in Writers, Writing(u)'
      PROVE  /\ temp'[u] # named' /\ temp'[u] # namedOnDisk'
             /\ \A r \in Readers : handle'[r] # temp'[u]
             /\ \A v \in Writers : v # u /\ Writing(v)' => temp'[v] # temp'[u]
             /\ stage'[u] \in {"written", "synced"} => cached'[temp'[u]] = payload'[u]
             /\ stage'[u] = "synced" => stored'[temp'[u]] = payload'[u]
  <2>1. CASE u = w
    BY <1>1, <1>2, <2>1 DEF Mkstemp, FileInv, FileTypeOK, Writing
  <2>2. CASE u # w
    <3>1. Writing(u) /\ temp'[u] = temp[u] /\ stage'[u] = stage[u] /\ payload'[u] = payload[u]
      BY <1>1, <1>6, <2>2 DEF Mkstemp, FileInv, FileTypeOK, Writing
    <3> QED BY <1>1, <1>2, <2>2, <3>1 DEF Mkstemp, FileInv, FileTypeOK, Writing
  <2> QED BY <2>1, <2>2
<1> QED BY <1>3, <1>4, <1>5, <1>6 DEF FileInv, Writing

LEMMA WriteInv ==
    ASSUME FileInv, NEW w \in Writers, Write(w) \/ Fsync(w) PROVE FileInv'
<1> USE AtomicFileAssumption
<1>1. Writing(w) /\ temp[w] \in Inodes /\ stage[w] # "synced"
  BY DEF Write, Fsync, Writing, FileInv, FileTypeOK
<1>2. CASE Write(w)
  BY <1>1, <1>2 DEF Write, FileInv, FileTypeOK, Whole, Writing, Stages
<1>3. CASE Fsync(w)
  BY <1>1, <1>3 DEF Fsync, FileInv, FileTypeOK, Whole, Writing, Stages
<1> QED BY <1>2, <1>3

LEMMA EndInv ==
    ASSUME FileInv, NEW w \in Writers, Replace(w) \/ SaveFails(w) PROVE FileInv'
<1> USE AtomicFileAssumption
<1>1. CASE Replace(w)
  BY <1>1 DEF Replace, FileInv, FileTypeOK, Whole, Writing, Stages
<1>2. CASE SaveFails(w)
  BY <1>2 DEF SaveFails, FileInv, FileTypeOK, Whole, Writing, Stages
<1> QED BY <1>1, <1>2

LEMMA LoadInv ==
    ASSUME FileInv, NEW r \in Readers, Open(r) \/ Read(r) PROVE FileInv'
<1> USE AtomicFileAssumption
<1>1. CASE Open(r)
  BY <1>1 DEF Open, FileInv, FileTypeOK, Whole, Writing
<1>2. CASE Read(r)
  BY <1>2 DEF Read, FileInv, FileTypeOK, Whole, Writing
<1> QED BY <1>1, <1>2

LEMMA KernelInv ==
    ASSUME FileInv, (\E n \in Inodes : WriteBack(n)) \/ Journal \/ PowerLoss PROVE FileInv'
<1> USE AtomicFileAssumption
<1>1. CASE \E n \in Inodes : WriteBack(n)
  <2> PICK n \in Inodes : WriteBack(n) BY <1>1
  <2> QED BY DEF WriteBack, FileInv, FileTypeOK, Whole, Writing
<1>2. CASE Journal
  BY <1>2 DEF Journal, FileInv, FileTypeOK, Whole, Writing
<1>3. CASE PowerLoss
  BY <1>3 DEF PowerLoss, FileInv, FileTypeOK, Whole, Writing, Stages
<1> QED BY <1>1, <1>2, <1>3

LEMMA StepInv == FileInv /\ [FileNext]_fileVars => FileInv'
<1> SUFFICES ASSUME FileInv, [FileNext]_fileVars PROVE FileInv'
  OBVIOUS
<1>1. CASE UNCHANGED fileVars
  BY <1>1 DEF fileVars, FileInv, FileTypeOK, Whole, Writing
<1>2. CASE FileNext
  BY <1>2, MkstempInv, WriteInv, EndInv, LoadInv, KernelInv DEF FileNext
<1> QED BY <1>1, <1>2

-----------------------------------------------------------------------------
(* The refinement *)

LEMMA InitRefines == FileInit => Reg!Init
BY AtomicFileAssumption DEF FileInit, Reg!Init, SeenBy

\* Steps that leave the register as it is.
LEMMA QuietSteps ==
    ASSUME FileInv, FileInv',
           \/ UNCHANGED fileVars
           \/ \E w \in Writers : Mkstemp(w) \/ Write(w) \/ Fsync(w) \/ SaveFails(w)
           \/ \E r \in Readers : Read(r)
           \/ \E n \in Inodes : WriteBack(n)
    PROVE  UNCHANGED <<cached[named], stored[namedOnDisk], [r \in Readers |-> SeenBy(r)]>>
<1> USE AtomicFileAssumption
<1>1. CASE UNCHANGED fileVars
  BY <1>1 DEF fileVars, SeenBy
<1>2. ASSUME NEW w \in Writers, Mkstemp(w)
      PROVE  UNCHANGED <<cached[named], stored[namedOnDisk], [r \in Readers |-> SeenBy(r)]>>
  <2>1. PICK n \in Inodes \ InUse : cached' = [cached EXCEPT ![n] = Torn]
                                    /\ stored' = [stored EXCEPT ![n] = Torn]
    BY <1>2 DEF Mkstemp
  <2>2. n # named /\ n # namedOnDisk /\ \A r \in Readers : handle[r] # n
    BY DEF InUse
  <2> QED BY <1>2, <2>1, <2>2 DEF Mkstemp, FileInv, FileTypeOK, SeenBy
<1>3. ASSUME NEW w \in Writers, Write(w) \/ Fsync(w)
      PROVE  UNCHANGED <<cached[named], stored[namedOnDisk], [r \in Readers |-> SeenBy(r)]>>
  <2>1. Writing(w)
    BY <1>3 DEF Write, Fsync, Writing
  <2> QED BY <1>3, <2>1 DEF Write, Fsync, FileInv, FileTypeOK, SeenBy
<1>4. ASSUME NEW w \in Writers, SaveFails(w)
      PROVE  UNCHANGED <<cached[named], stored[namedOnDisk], [r \in Readers |-> SeenBy(r)]>>
  BY <1>4 DEF SaveFails, SeenBy
<1>5. ASSUME NEW q \in Readers, Read(q)
      PROVE  UNCHANGED <<cached[named], stored[namedOnDisk], [r \in Readers |-> SeenBy(r)]>>
  BY <1>5 DEF Read, FileInv, FileTypeOK, SeenBy
<1>6. ASSUME NEW n \in Inodes, WriteBack(n)
      PROVE  UNCHANGED <<cached[named], stored[namedOnDisk], [r \in Readers |-> SeenBy(r)]>>
  BY <1>6 DEF WriteBack, FileInv, FileTypeOK, Whole, SeenBy
<1> QED BY <1>1, <1>2, <1>3, <1>4, <1>5, <1>6

\* Every step is a step of the register, or leaves it as it is.
LEMMA StepRefines ==
    FileInv /\ FileInv' /\ [FileNext]_fileVars
        => [Reg!Next]_<<cached[named], stored[namedOnDisk], [r \in Readers |-> SeenBy(r)]>>
<1> SUFFICES ASSUME FileInv, FileInv', [FileNext]_fileVars
             PROVE  \/ Reg!Next
                    \/ UNCHANGED <<cached[named], stored[namedOnDisk],
                                   [r \in Readers |-> SeenBy(r)]>>
  OBVIOUS
<1> USE AtomicFileAssumption
<1>1. ASSUME NEW w \in Writers, Replace(w) PROVE Reg!Save
  BY <1>1 DEF Replace, Reg!Save, FileInv, FileTypeOK, Whole, SeenBy
<1>2. ASSUME NEW r \in Readers, Open(r) PROVE Reg!Load(r)
  BY <1>2 DEF Open, Reg!Load, FileInv, FileTypeOK, SeenBy
<1>3. ASSUME Journal PROVE Reg!Settle
  BY <1>3 DEF Journal, Reg!Settle, FileInv, FileTypeOK, Whole, SeenBy
<1>4. ASSUME PowerLoss PROVE Reg!PowerCut
  BY <1>4 DEF PowerLoss, Reg!PowerCut, FileInv, FileTypeOK, SeenBy
<1> QED BY <1>1, <1>2, <1>3, <1>4, QuietSteps DEF FileNext, Reg!Next

\* A saved file is always one whole save, to every reader and after a power cut:
\* _atomic_write_secret implements a register.
THEOREM FileImplementsRegister == FileSpec => FileIsRegister
<1>1. FileSpec => []FileInv
  BY InitInv, StepInv, PTL DEF FileSpec
<1> QED BY <1>1, InitRefines, StepRefines, PTL DEF FileSpec, FileIsRegister, Reg!Spec

-----------------------------------------------------------------------------
(* The log lines on their way *)

Below(s, t) == \A i \in 1..Len(s), j \in 1..Len(t) : s[i] < t[j]

LogTypeOK ==
    /\ logged \in Nat /\ memory \in Seq(Nat) /\ recorded \in Seq(Nat)
    /\ lastCount \in Nat /\ moved \in BOOLEAN
    /\ logFiles \in Seq(Seq(Nat)) /\ Len(logFiles) > 0
    /\ tail \in [file : Nat \cup {Closed}, pos : Nat, inode : Nat \cup {Closed},
                 first : BOOLEAN, out : Seq(Nat), at : {"open", "stat", "read"}]

\* The memory handler's lines, and what the window has of them.
MemoryInOrder ==
    /\ Increasing(memory) /\ \A i \in 1..Len(memory) : memory[i] <= logged
    /\ \A i \in 1..Len(recorded) : recorded[i] <= logged
    /\ Increasing(recorded)
    /\ watching = "unbound" => recorded = <<>>
    /\ watching = "on" =>
         \A i \in 1..Len(recorded), j \in 1..Len(memory) : j > lastCount => recorded[i] < memory[j]

\* The files, one after the other.
FilesInOrder ==
    \A f \in 1..Len(logFiles) :
       /\ Increasing(logFiles[f])
       /\ \A i \in 1..Len(logFiles[f]) : logFiles[f][i] <= logged
       /\ \A g \in 1..Len(logFiles) : f < g =>
            \A i \in 1..Len(logFiles[f]), j \in 1..Len(logFiles[g]) : logFiles[f][i] < logFiles[g][j]

\* What the follower has is older than all it can still come to read.
TailInOrder ==
    /\ Increasing(tail.out)
    /\ \A i \in 1..Len(tail.out) : tail.out[i] <= logged
    /\ tail.first => tail.out = <<>> /\ tail.at = "open"
    /\ tail.at = "open" =>
         (~moved => tail.first \/ \A i \in 1..Len(tail.out), j \in 1..Len(logFiles[Len(logFiles)]) :
                          tail.out[i] < logFiles[Len(logFiles)][j])
    /\ tail.at # "open" =>
         /\ tail.file \in 1..Len(logFiles)
         /\ tail.pos <= Len(logFiles[tail.file])
         /\ \A i \in 1..Len(tail.out), j \in 1..Len(logFiles[tail.file]) :
              j > tail.pos => tail.out[i] < logFiles[tail.file][j]
         /\ \A g \in 1..Len(logFiles) : tail.file < g =>
              \A i \in 1..Len(tail.out), j \in 1..Len(logFiles[g]) : tail.out[i] < logFiles[g][j]
    /\ tail.at = "read" =>
         IF tail.inode = Closed THEN moved \/ tail.file < Len(logFiles)
         ELSE tail.inode \in tail.file..Len(logFiles)

LogInv == LogTypeOK /\ MemoryInOrder /\ FilesInOrder /\ TailInOrder

LEMMA AppendLine ==
    ASSUME NEW s \in Seq(Nat), NEW x \in Nat
    PROVE  /\ Append(s, x) \in Seq(Nat) /\ Len(Append(s, x)) = Len(s) + 1
           /\ \A i \in 1..Len(s) : Append(s, x)[i] = s[i]
           /\ Append(s, x)[Len(s) + 1] = x
           /\ Increasing(s) /\ (\A i \in 1..Len(s) : s[i] < x) => Increasing(Append(s, x))
<1>1. /\ Append(s, x) \in Seq(Nat) /\ Len(Append(s, x)) = Len(s) + 1
      /\ \A i \in 1..Len(s) : Append(s, x)[i] = s[i]
      /\ Append(s, x)[Len(s) + 1] = x
  OBVIOUS
<1>2. ASSUME Increasing(s), \A i \in 1..Len(s) : s[i] < x
      PROVE  Increasing(Append(s, x))
  <2> SUFFICES ASSUME NEW i \in 1..(Len(s) + 1), NEW j \in 1..(Len(s) + 1), i < j
               PROVE  Append(s, x)[i] < Append(s, x)[j]
    BY <1>1 DEF Increasing
  <2>1. i \in 1..Len(s) /\ Len(s) \in Nat
    OBVIOUS
  <2>2. CASE j = Len(s) + 1
    BY <1>1, <1>2, <2>1, <2>2
  <2>3. CASE j \in 1..Len(s)
    BY <1>1, <1>2, <2>1, <2>3 DEF Increasing
  <2>4. QED
    BY <2>1, <2>2, <2>3
<1>3. QED
  BY <1>1, <1>2

LEMMA NewestLines ==
    ASSUME NEW n \in Nat, NEW s \in Seq(Nat)
    PROVE  /\ Newest(n, s) \in Seq(Nat)
           /\ Len(Newest(n, s)) = IF Len(s) <= n THEN Len(s) ELSE n
           /\ \A j \in 1..Len(Newest(n, s)) :
                /\ j + (Len(s) - Len(Newest(n, s))) \in 1..Len(s)
                /\ Newest(n, s)[j] = s[j + (Len(s) - Len(Newest(n, s)))]
<1>1. Len(s) \in Nat
  OBVIOUS
<1>2. CASE Len(s) <= n
  BY <1>1, <1>2 DEF Newest
<1>3. CASE ~(Len(s) <= n)
  <2>1. Newest(n, s) = SubSeq(s, Len(s) - n + 1, Len(s))
    BY <1>3 DEF Newest
  <2>2. Len(s) - n + 1 \in 1..(Len(s) + 1)
    BY <1>1, <1>3
  <2>3. /\ SubSeq(s, Len(s) - n + 1, Len(s)) \in Seq(Nat)
        /\ Len(SubSeq(s, Len(s) - n + 1, Len(s))) = n
        /\ \A j \in 1..n : SubSeq(s, Len(s) - n + 1, Len(s))[j] = s[j + (Len(s) - n)]
    <3>1. \A i \in (Len(s) - n + 1)..Len(s) : s[i] \in Nat
      BY <1>1, <2>2
    <3>2. /\ SubSeq(s, Len(s) - n + 1, Len(s)) \in Seq(Nat)
          /\ Len(SubSeq(s, Len(s) - n + 1, Len(s))) =
               IF Len(s) - n + 1 <= Len(s) THEN Len(s) - (Len(s) - n + 1) + 1 ELSE 0
          /\ \A i \in 1..(Len(s) - (Len(s) - n + 1) + 1) :
               SubSeq(s, Len(s) - n + 1, Len(s))[i] = s[(Len(s) - n + 1) + i - 1]
      BY <1>1, <3>1, SubSeqProperties
    <3>3. \A i \in Nat : (Len(s) - n + 1) + i - 1 = i + (Len(s) - n)
      BY <1>1
    <3>4. QED
      BY <1>1, <1>3, <3>2, <3>3
  <2>4. \A j \in 1..n : j + (Len(s) - n) \in 1..Len(s)
    BY <1>1, <1>3
  <2>5. QED
    BY <1>3, <2>1, <2>3, <2>4
<1>4. QED
  BY <1>2, <1>3

LEMMA ConcatLines ==
    ASSUME NEW s \in Seq(Nat), NEW t \in Seq(Nat)
    PROVE  /\ s \o t \in Seq(Nat) /\ Len(s \o t) = Len(s) + Len(t)
           /\ \A i \in 1..Len(s) : (s \o t)[i] = s[i]
           /\ \A i \in 1..(Len(s) + Len(t)) : i > Len(s) => i - Len(s) \in 1..Len(t) /\ (s \o t)[i] = t[i - Len(s)]
           /\ Increasing(s) /\ Increasing(t) /\ Below(s, t) => Increasing(s \o t)
<1>1. /\ s \o t \in Seq(Nat) /\ Len(s \o t) = Len(s) + Len(t)
      /\ Len(s) \in Nat /\ Len(t) \in Nat
  OBVIOUS
<1>2. /\ \A i \in 1..Len(s) : (s \o t)[i] = s[i]
      /\ \A i \in 1..(Len(s) + Len(t)) : i > Len(s) => i - Len(s) \in 1..Len(t) /\ (s \o t)[i] = t[i - Len(s)]
  BY <1>1
<1>3. ASSUME Increasing(s), Increasing(t), Below(s, t)
      PROVE  Increasing(s \o t)
  <2> SUFFICES ASSUME NEW i \in 1..(Len(s) + Len(t)), NEW j \in 1..(Len(s) + Len(t)), i < j
               PROVE  (s \o t)[i] < (s \o t)[j]
    BY <1>1 DEF Increasing
  <2>1. CASE j <= Len(s)
    <3>1. i \in 1..Len(s) /\ j \in 1..Len(s)
      BY <1>1, <2>1
    <3>2. QED
      BY <1>2, <1>3, <3>1 DEF Increasing
  <2>2. CASE j > Len(s) /\ i <= Len(s)
    <3>1. i \in 1..Len(s) /\ j - Len(s) \in 1..Len(t)
      BY <1>1, <2>2
    <3>2. QED
      BY <1>2, <1>3, <2>2, <3>1 DEF Below
  <2>3. CASE j > Len(s) /\ i > Len(s)
    <3>1. i - Len(s) \in 1..Len(t) /\ j - Len(s) \in 1..Len(t) /\ i - Len(s) < j - Len(s)
      BY <1>1, <2>3
    <3>2. QED
      BY <1>2, <1>3, <2>3, <3>1 DEF Increasing
  <2>4. QED
    BY <1>1, <2>1, <2>2, <2>3
<1>4. QED
  BY <1>1, <1>2, <1>3

LEMMA RestLines ==
    ASSUME NEW s \in Seq(Nat), NEW p \in Nat, p <= Len(s)
    PROVE  LET r == SubSeq(s, p + 1, Len(s)) IN
           /\ r \in Seq(Nat) /\ Len(r) = Len(s) - p
           /\ \A i \in 1..Len(r) : i + p \in 1..Len(s) /\ i + p > p /\ r[i] = s[i + p]
           /\ Increasing(s) => Increasing(r)
<1> DEFINE r == SubSeq(s, p + 1, Len(s))
<1>1. p + 1 \in 1..(Len(s) + 1) /\ Len(s) \in Nat
  OBVIOUS
<1>2. /\ r \in Seq(Nat) /\ Len(r) = Len(s) - p
      /\ \A i \in 1..Len(r) : i + p \in 1..Len(s) /\ i + p > p /\ r[i] = s[i + p]
  <2>1. \A i \in (p + 1)..Len(s) : s[i] \in Nat
    BY <1>1
  <2>2. /\ r \in Seq(Nat)
        /\ Len(r) = IF p + 1 <= Len(s) THEN Len(s) - (p + 1) + 1 ELSE 0
        /\ \A i \in 1..(Len(s) - (p + 1) + 1) : r[i] = s[p + 1 + i - 1]
    BY <1>1, <2>1, SubSeqProperties
  <2> HIDE DEF r
  <2>3. \A i \in Nat : p + 1 + i - 1 = i + p
    OBVIOUS
  <2>4. QED
    BY <1>1, <2>2, <2>3
<1>4. ASSUME Increasing(s) PROVE Increasing(r)
  <2> SUFFICES ASSUME NEW i \in 1..Len(r), NEW j \in 1..Len(r), i < j
               PROVE  r[i] < r[j]
    BY DEF Increasing
  <2> HIDE DEF r
  <2>1. i + p < j + p
    BY <1>1, <1>2
  <2>2. QED
    BY <1>2, <1>4, <2>1 DEF Increasing
<1> HIDE DEF r
<1>5. QED
  BY <1>2, <1>4 DEF r

LEMMA LogInitInv == LogInit => LogInv
<1> SUFFICES ASSUME LogInit PROVE LogInv
  OBVIOUS
<1> USE DEF LogInit
<1>1. LogTypeOK
  <2>1. <<>> \in Seq(Nat)
    OBVIOUS
  <2>2. logFiles \in Seq(Seq(Nat)) /\ Len(logFiles) > 0
    BY <2>1
  <2>3. tail \in [file : Nat \cup {Closed}, pos : Nat, inode : Nat \cup {Closed},
                 first : BOOLEAN, out : Seq(Nat), at : {"open", "stat", "read"}]
    BY <2>1
  <2>4. QED
    BY <2>1, <2>2, <2>3 DEF LogTypeOK
<1>2. MemoryInOrder
  BY DEF MemoryInOrder, Increasing
<1>3. FilesInOrder
  BY DEF FilesInOrder, Increasing
<1>4. TailInOrder
  BY DEF TailInOrder, Increasing
<1>5. QED
  BY <1>1, <1>2, <1>3, <1>4 DEF LogInv

LEMMA LogKeepsMemory ==
    LogInv /\ Log => /\ logged' \in Nat /\ memory' \in Seq(Nat) /\ MemoryInOrder'
<1> SUFFICES ASSUME LogInv, Log
             PROVE  /\ logged' \in Nat /\ memory' \in Seq(Nat) /\ MemoryInOrder'
  OBVIOUS
<1> DEFINE all == Append(memory, logged + 1)
<1>1. /\ logged \in Nat /\ memory \in Seq(Nat) /\ recorded \in Seq(Nat) /\ lastCount \in Nat
      /\ MemoryInOrder /\ Capacity \in Nat \ {0}
  BY LogFeedAssumption DEF LogInv, LogTypeOK
<1>2. /\ logged' = logged + 1 /\ memory' = Newest(Capacity, all)
      /\ recorded' = recorded /\ watching' = watching /\ lastCount' = lastCount
  BY DEF Log
<1>3. \A i \in 1..Len(memory) : memory[i] \in Nat /\ memory[i] <= logged
  BY <1>1 DEF MemoryInOrder
<1>4. /\ all \in Seq(Nat) /\ Len(all) = Len(memory) + 1
      /\ \A i \in 1..Len(memory) : all[i] = memory[i]
      /\ all[Len(memory) + 1] = logged + 1
      /\ Increasing(all)
  <2>1. logged + 1 \in Nat /\ \A i \in 1..Len(memory) : memory[i] < logged + 1
    BY <1>1, <1>3
  <2>2. Increasing(memory)
    BY <1>1 DEF MemoryInOrder
  <2>3. QED
    BY <1>1, <2>1, <2>2, AppendLine
<1> HIDE DEF all
<1> DEFINE d == Len(all) - Len(memory')
<1>5. /\ memory' \in Seq(Nat) /\ Len(memory') <= Len(all)
      /\ \A j \in 1..Len(memory') : j + d \in 1..Len(all) /\ memory'[j] = all[j + d]
  <2>1. Capacity \in Nat /\ Len(all) \in Nat
    BY <1>1, <1>4
  <2> DEFINE kept == Newest(Capacity, all)
  <2>2. /\ kept \in Seq(Nat)
        /\ Len(kept) = IF Len(all) <= Capacity THEN Len(all) ELSE Capacity
        /\ \A j \in 1..Len(kept) :
             /\ j + (Len(all) - Len(kept)) \in 1..Len(all)
             /\ kept[j] = all[j + (Len(all) - Len(kept))]
    BY <1>4, <2>1, NewestLines
  <2>3. memory' = kept
    BY <1>2
  <2> HIDE DEF kept
  <2>4. Len(kept) <= Len(all)
    BY <2>1, <2>2
  <2>5. QED
    BY <2>2, <2>3, <2>4
<1>6. d \in Nat /\ Len(memory') \in Nat
  BY <1>4, <1>5
<1> HIDE DEF d
<1>7. \A i \in 1..Len(all) : all[i] <= logged + 1
  <2> SUFFICES ASSUME NEW i \in 1..Len(all) PROVE all[i] <= logged + 1
    OBVIOUS
  <2>1. i \in 1..Len(memory) \/ i = Len(memory) + 1
    BY <1>1, <1>4
  <2>2. CASE i \in 1..Len(memory)
    <3>1. all[i] = memory[i] /\ memory[i] \in Nat /\ memory[i] <= logged
      BY <1>3, <1>4, <2>2
    <3>2. QED
      BY <1>1, <3>1
  <2>3. CASE i = Len(memory) + 1
    <3>1. all[i] = logged + 1
      BY <1>4, <2>3
    <3>2. QED
      BY <1>1, <3>1
  <2>4. QED
    BY <2>1, <2>2, <2>3
<1>8. Increasing(memory')
  <2> SUFFICES ASSUME NEW i \in 1..Len(memory'), NEW j \in 1..Len(memory'), i < j
               PROVE  memory'[i] < memory'[j]
    BY DEF Increasing
  <2>1. i + d < j + d
    BY <1>6
  <2>2. QED
    BY <1>4, <1>5, <2>1 DEF Increasing
<1>9. ASSUME watching' = "on", NEW i \in 1..Len(recorded), NEW j \in 1..Len(memory'), j > lastCount
      PROVE  recorded[i] < memory'[j]
  <2>1. j + d \in 1..Len(all) /\ memory'[j] = all[j + d] /\ j + d > lastCount
    BY <1>1, <1>5, <1>6, <1>9, SMTT(30)
  <2>2. recorded[i] \in Nat /\ recorded[i] <= logged
    BY <1>1 DEF MemoryInOrder
  <2>3. CASE j + d = Len(memory) + 1
    BY <1>1, <1>4, <2>1, <2>2, <2>3
  <2>4. CASE j + d \in 1..Len(memory)
    <3>1. recorded[i] < memory[j + d]
      BY <1>1, <1>2, <1>9, <2>1, <2>4 DEF MemoryInOrder
    <3>2. QED
      BY <1>4, <2>1, <2>4, <3>1
  <2>5. QED
    BY <1>1, <1>4, <2>1, <2>3, <2>4
<1>10. \A i \in 1..Len(memory') : memory'[i] <= logged'
  BY <1>2, <1>5, <1>7
<1>11. \A i \in 1..Len(recorded') : recorded'[i] <= logged'
  BY <1>1, <1>2 DEF MemoryInOrder
<1>12. QED
  BY <1>1, <1>2, <1>5, <1>8, <1>9, <1>10, <1>11 DEF MemoryInOrder

\* The files after a line: the last one has it at its end, or it is a file of its own.
LEMMA LogFilesAfter ==
    ASSUME LogInv, Log
    PROVE  LET n == Len(logFiles) m == Len(logFiles') IN
           /\ logFiles' \in Seq(Seq(Nat)) /\ n \in 1..m /\ m \in Nat
           /\ m = IF moved THEN n + 1 ELSE n
           /\ \A f \in 1..(m - 1) : f \in 1..n /\ logFiles'[f] = logFiles[f]
           /\ ~moved => logFiles'[m] = Append(logFiles[n], logged + 1)
           /\ moved => logFiles'[m] = <<logged + 1>>
<1>1. /\ logged \in Nat /\ logFiles \in Seq(Seq(Nat)) /\ Len(logFiles) > 0 /\ Len(logFiles) \in Nat
      /\ logged' = logged + 1
      /\ logFiles' = IF moved THEN Append(logFiles, <<logged'>>)
                     ELSE [logFiles EXCEPT ![Len(logFiles)] = Append(@, logged')]
      /\ moved \in BOOLEAN
  BY DEF LogInv, LogTypeOK, Log
<1>2. CASE moved
  <2>1. <<logged + 1>> \in Seq(Nat)
    BY <1>1
  <2>2. logFiles' = Append(logFiles, <<logged + 1>>)
    BY <1>1, <1>2
  <2>3. QED
    BY <1>1, <1>2, <2>1, <2>2, AppendProperties
<1>3. CASE ~moved
  <2>1. logFiles[Len(logFiles)] \in Seq(Nat)
    BY <1>1
  <2>2. Append(logFiles[Len(logFiles)], logged + 1) \in Seq(Nat)
    BY <1>1, <2>1
  <2>3. logFiles' = [logFiles EXCEPT ![Len(logFiles)] = Append(logFiles[Len(logFiles)], logged + 1)]
    BY <1>1, <1>3
  <2>4. logFiles' \in Seq(Seq(Nat)) /\ Len(logFiles') = Len(logFiles)
    BY <1>1, <2>2, <2>3
  <2>5. \A f \in 1..Len(logFiles) : logFiles'[f] =
            IF f = Len(logFiles) THEN Append(logFiles[Len(logFiles)], logged + 1) ELSE logFiles[f]
    BY <1>1, <2>3
  <2>6. ASSUME NEW f \in 1..(Len(logFiles) - 1)
        PROVE  f \in 1..Len(logFiles) /\ logFiles'[f] = logFiles[f]
    <3>1. f \in 1..Len(logFiles) /\ f # Len(logFiles)
      BY <1>1
    <3>2. QED
      BY <2>5, <3>1
  <2>7. logFiles'[Len(logFiles)] = Append(logFiles[Len(logFiles)], logged + 1)
    <3>1. Len(logFiles) \in 1..Len(logFiles)
      BY <1>1
    <3>2. QED
      BY <2>5, <3>1
  <2> DEFINE n == Len(logFiles)
  <2>8. n \in Nat /\ n > 0
    BY <1>1
  <2>9. Len(logFiles') = n
    BY <2>4
  <2>10. n \in 1..n
    BY <2>8
  <2>11. QED
    BY <1>3, <2>4, <2>6, <2>7, <2>8, <2>9, <2>10
<1>4. QED
  BY <1>1, <1>2, <1>3

LEMMA LogKeepsFiles == LogInv /\ Log => FilesInOrder' /\ TailInOrder' /\ Len(logFiles') > 0
<1> SUFFICES ASSUME LogInv, Log PROVE FilesInOrder' /\ TailInOrder' /\ Len(logFiles') > 0
  OBVIOUS
<1> DEFINE n == Len(logFiles)
<1> DEFINE m == Len(logFiles')
<1>1. /\ logged \in Nat /\ logFiles \in Seq(Seq(Nat)) /\ n \in Nat /\ n > 0
      /\ moved \in BOOLEAN /\ FilesInOrder /\ TailInOrder
      /\ logged' = logged + 1 /\ tail' = tail /\ moved' = FALSE
      /\ tail \in [file : Nat \cup {Closed}, pos : Nat, inode : Nat \cup {Closed},
                   first : BOOLEAN, out : Seq(Nat), at : {"open", "stat", "read"}]
  BY DEF LogInv, LogTypeOK, Log
<1>2. /\ logFiles' \in Seq(Seq(Nat)) /\ n \in 1..m /\ m \in Nat
      /\ m = IF moved THEN n + 1 ELSE n
      /\ \A f \in 1..(m - 1) : f \in 1..n /\ logFiles'[f] = logFiles[f]
      /\ ~moved => logFiles'[m] = Append(logFiles[n], logged + 1)
      /\ moved => logFiles'[m] = <<logged + 1>>
  BY LogFilesAfter
<1>a. \A f \in 1..n :
        /\ logFiles[f] \in Seq(Nat) /\ Len(logFiles[f]) \in Nat
        /\ Increasing(logFiles[f])
        /\ \A i \in 1..Len(logFiles[f]) : logFiles[f][i] \in Nat /\ logFiles[f][i] <= logged
  BY <1>1 DEF FilesInOrder
<1>b. \A f, g \in 1..n : f < g =>
        \A i \in 1..Len(logFiles[f]), j \in 1..Len(logFiles[g]) : logFiles[f][i] < logFiles[g][j]
  BY <1>1 DEF FilesInOrder
<1> HIDE DEF n, m
<1>c. n \in 1..n
  BY <1>1
\* Each line of the last file is the new one, or was in the last file before it.
<1>3. \A j \in 1..Len(logFiles'[m]) :
        /\ logFiles'[m][j] \in Nat
        /\ \/ logFiles'[m][j] = logged + 1
           \/ ~moved /\ j \in 1..Len(logFiles[n]) /\ logFiles'[m][j] = logFiles[n][j]
  <2>1. CASE moved
    <3>1. logFiles'[m] = <<logged + 1>>
      BY <1>2, <2>1
    <3>2. \A j \in 1..Len(<<logged + 1>>) : <<logged + 1>>[j] = logged + 1
      OBVIOUS
    <3>3. QED
      BY <1>1, <3>1, <3>2
  <2>2. CASE ~moved
    <3>1. logFiles[n] \in Seq(Nat) /\ Len(logFiles[n]) \in Nat /\ logged + 1 \in Nat
      BY <1>1, <1>a, <1>c
    <3>2. logFiles'[m] = Append(logFiles[n], logged + 1)
      BY <1>2, <2>2
    <3> DEFINE s == logFiles[n]
    <3> DEFINE t == logFiles'[m]
    <3>3. /\ t \in Seq(Nat) /\ Len(t) = Len(s) + 1
          /\ \A i \in 1..Len(s) : t[i] = s[i]
          /\ t[Len(s) + 1] = logged + 1
      BY <3>1, <3>2, AppendLine
    <3> HIDE DEF s, t
    <3>4. ASSUME NEW j \in 1..Len(t)
          PROVE  t[j] \in Nat /\ (t[j] = logged + 1 \/ (j \in 1..Len(s) /\ t[j] = s[j]))
      <4>1. j \in 1..Len(s) \/ j = Len(s) + 1
        BY <3>1, <3>3 DEF s
      <4>2. t[j] \in Nat
        BY <3>3
      <4>3. QED
        BY <3>3, <4>1, <4>2
    <3>5. QED
      BY <2>2, <3>4 DEF s, t
  <2>3. QED
    BY <1>1, <2>1, <2>2
<1>4. Increasing(logFiles'[m])
  <2>1. CASE moved
    BY <1>2, <2>1 DEF Increasing
  <2>2. CASE ~moved
    <3>1. /\ logFiles[n] \in Seq(Nat) /\ Increasing(logFiles[n]) /\ logged + 1 \in Nat
          /\ \A i \in 1..Len(logFiles[n]) : logFiles[n][i] \in Nat /\ logFiles[n][i] <= logged
      BY <1>1, <1>a, <1>c
    <3>2. \A i \in 1..Len(logFiles[n]) : logFiles[n][i] < logged + 1
      BY <1>1, <3>1
    <3>3. Increasing(Append(logFiles[n], logged + 1))
      BY <3>1, <3>2, AppendLine
    <3>4. QED
      BY <1>2, <2>2, <3>3
  <2>3. QED
    BY <1>1, <2>1, <2>2
\* What is below the lines of the last file, and not above the last line logged.
<1>5. ASSUME NEW x \in Nat, x <= logged,
             ~moved => \A j \in 1..Len(logFiles[n]) : x < logFiles[n][j]
      PROVE  \A j \in 1..Len(logFiles'[m]) : x < logFiles'[m][j]
  <2> SUFFICES ASSUME NEW j \in 1..Len(logFiles'[m]) PROVE x < logFiles'[m][j]
    OBVIOUS
  <2>1. CASE logFiles'[m][j] = logged + 1
    BY <1>1, <1>5, <2>1
  <2>2. CASE ~moved /\ j \in 1..Len(logFiles[n]) /\ logFiles'[m][j] = logFiles[n][j]
    BY <1>5, <2>2
  <2>3. QED
    BY <1>3, <2>1, <2>2
<1>6. FilesInOrder'
  <2> SUFFICES ASSUME NEW f \in 1..m
               PROVE  /\ Increasing(logFiles'[f])
                      /\ \A i \in 1..Len(logFiles'[f]) : logFiles'[f][i] <= logged'
                      /\ \A g \in 1..m : f < g =>
                           \A i \in 1..Len(logFiles'[f]), j \in 1..Len(logFiles'[g]) :
                              logFiles'[f][i] < logFiles'[g][j]
    BY DEF FilesInOrder, m
  <2>1. CASE f = m
    <3>1. \A i \in 1..Len(logFiles'[m]) : logFiles'[m][i] <= logged + 1
      <4> SUFFICES ASSUME NEW i \in 1..Len(logFiles'[m]) PROVE logFiles'[m][i] <= logged + 1
        OBVIOUS
      <4>1. CASE logFiles'[m][i] = logged + 1
        BY <1>1, <4>1
      <4>2. CASE i \in 1..Len(logFiles[n]) /\ logFiles'[m][i] = logFiles[n][i]
        <5>1. logFiles[n][i] <= logged /\ logFiles[n][i] \in Nat
          BY <1>a, <1>c, <4>2
        <5>2. QED
          BY <1>1, <4>2, <5>1, SMTT(30)
      <4>3. QED
        BY <1>3, <4>1, <4>2
    <3>2. \A g \in 1..m : ~(m < g)
      BY <1>2
    <3>3. QED
      BY <1>1, <1>4, <2>1, <3>1, <3>2
  <2>2. CASE f \in 1..(m - 1)
    <3>1. /\ f \in 1..n /\ logFiles'[f] = logFiles[f] /\ logFiles[f] \in Seq(Nat)
          /\ ~moved => f < n
      BY <1>1, <1>2, <2>2, SMTT(30) DEF n
    <3>2. /\ Increasing(logFiles[f])
          /\ \A i \in 1..Len(logFiles[f]) : logFiles[f][i] \in Nat /\ logFiles[f][i] <= logged
      BY <1>a, <3>1
    <3>3. \A i \in 1..Len(logFiles[f]) : logFiles[f][i] <= logged + 1
      BY <1>1, <3>2, SMTT(30)
    <3>4. ASSUME NEW g \in 1..m, f < g, NEW i \in 1..Len(logFiles[f]), NEW j \in 1..Len(logFiles'[g])
          PROVE  logFiles[f][i] < logFiles'[g][j]
      <4>1. CASE g = m
        <5>1. ~moved => \A k \in 1..Len(logFiles[n]) : logFiles[f][i] < logFiles[n][k]
          BY <1>b, <1>c, <3>1, <3>4
        <5>2. \A k \in 1..Len(logFiles'[m]) : logFiles[f][i] < logFiles'[m][k]
          BY <1>5, <3>2, <5>1
        <5>3. QED
          BY <3>4, <4>1, <5>2
      <4>2. CASE g \in 1..(m - 1)
        BY <1>b, <1>2, <3>1, <3>4, <4>2
      <4>3. QED
        BY <1>2, <4>1, <4>2
    <3>5. QED
      BY <1>1, <3>1, <3>2, <3>3, <3>4
  <2>3. f = m \/ f \in 1..(m - 1)
    BY <1>2
  <2>4. QED
    BY <2>1, <2>2, <2>3
<1>7. TailInOrder'
  <2>1. \A i \in 1..Len(tail.out) : tail.out[i] \in Nat /\ tail.out[i] <= logged
    BY <1>1 DEF TailInOrder
  <2>2. \A i \in 1..Len(tail.out) : tail.out[i] <= logged + 1
    BY <1>1, <2>1
  <2>3. ASSUME tail.at = "open"
        PROVE  tail.first \/ \A i \in 1..Len(tail.out), j \in 1..Len(logFiles'[m]) : tail.out[i] < logFiles'[m][j]
    <3> SUFFICES ASSUME ~tail.first, NEW i \in 1..Len(tail.out)
                 PROVE  \A j \in 1..Len(logFiles'[m]) : tail.out[i] < logFiles'[m][j]
      OBVIOUS
    <3>1. ~moved => \A j \in 1..Len(logFiles[n]) : tail.out[i] < logFiles[n][j]
      BY <1>1, <2>3 DEF TailInOrder, n
    <3>2. QED
      BY <1>5, <2>1, <3>1
  <2>4. ASSUME tail.at # "open"
        PROVE  /\ tail.file \in 1..m
               /\ tail.pos <= Len(logFiles'[tail.file])
               /\ \A i \in 1..Len(tail.out), j \in 1..Len(logFiles'[tail.file]) :
                    j > tail.pos => tail.out[i] < logFiles'[tail.file][j]
               /\ \A g \in 1..m : tail.file < g =>
                    \A i \in 1..Len(tail.out), j \in 1..Len(logFiles'[g]) : tail.out[i] < logFiles'[g][j]
    <3> DEFINE f == tail.file
    <3>1. /\ f \in 1..n /\ tail.pos \in Nat /\ tail.pos <= Len(logFiles[f])
          /\ \A i \in 1..Len(tail.out), j \in 1..Len(logFiles[f]) :
               j > tail.pos => tail.out[i] < logFiles[f][j]
          /\ \A g \in 1..n : f < g =>
               \A i \in 1..Len(tail.out), j \in 1..Len(logFiles[g]) : tail.out[i] < logFiles[g][j]
      BY <1>1, <2>4 DEF TailInOrder, n
    <3> HIDE DEF f
    <3>2. f \in 1..m
      BY <1>2, <3>1
    <3>3. logFiles[f] \in Seq(Nat) /\ Len(logFiles[f]) \in Nat
      BY <1>1, <3>1 DEF n
    <3>4. /\ tail.pos <= Len(logFiles'[f])
          /\ \A i \in 1..Len(tail.out), j \in 1..Len(logFiles'[f]) :
               j > tail.pos => tail.out[i] < logFiles'[f][j]
      <4>1. CASE f \in 1..(m - 1)
        BY <1>2, <3>1, <4>1
      <4>2. CASE f = m
        <5>1. ~moved /\ f = n
          BY <1>2, <3>1, <4>2
        <5>2. logFiles'[f] = Append(logFiles[n], logged + 1) /\ Len(logFiles'[f]) = Len(logFiles[f]) + 1
          BY <1>1, <1>2, <3>3, <4>2, <5>1, AppendLine, SMTT(30)
        <5>3. ASSUME NEW i \in 1..Len(tail.out), NEW j \in 1..Len(logFiles'[f]), j > tail.pos
              PROVE  tail.out[i] < logFiles'[f][j]
          <6>1. CASE logFiles'[f][j] = logged + 1
            <7>1. tail.out[i] \in Nat /\ tail.out[i] <= logged /\ logged \in Nat
              BY <1>1, <2>1
            <7>2. QED
              BY <6>1, <7>1
          <6>2. CASE j \in 1..Len(logFiles[f]) /\ logFiles'[f][j] = logFiles[f][j]
            BY <3>1, <5>3, <6>2
          <6>3. QED
            BY <1>3, <4>2, <5>1, <5>3, <6>1, <6>2
        <5>4. QED
          BY <3>1, <3>3, <5>2, <5>3, SMTT(30)
      <4>3. QED
        BY <1>2, <3>2, <4>1, <4>2
    <3>5. ASSUME NEW g \in 1..m, f < g, NEW i \in 1..Len(tail.out)
          PROVE  \A j \in 1..Len(logFiles'[g]) : tail.out[i] < logFiles'[g][j]
      <4>1. CASE g \in 1..(m - 1)
        BY <1>2, <3>1, <3>5, <4>1
      <4>2. CASE g = m
        <5>1. ~moved => \A k \in 1..Len(logFiles[n]) : tail.out[i] < logFiles[n][k]
          BY <1>2, <3>1, <3>5, <4>2
        <5>2. QED
          BY <1>5, <2>1, <4>2, <5>1
      <4>3. QED
        BY <1>2, <4>1, <4>2
    <3>6. QED
      BY <3>2, <3>4, <3>5 DEF f
  <2>5. ASSUME tail.at = "read"
        PROVE  IF tail.inode = Closed THEN tail.file < m ELSE tail.inode \in tail.file..m
    <3>1. /\ tail.file \in 1..n
          /\ IF tail.inode = Closed THEN moved \/ tail.file < n ELSE tail.inode \in tail.file..n
      BY <1>1, <2>5 DEF TailInOrder, n
    <3>2. QED
      BY <1>2, <3>1
  <2>6. /\ Increasing(tail.out) /\ (tail.first => tail.out = <<>> /\ tail.at = "open")
    BY <1>1 DEF TailInOrder
  <2>7. QED
    BY <1>1, <2>2, <2>3, <2>4, <2>5, <2>6 DEF TailInOrder, m
<1>8. QED
  BY <1>2, <1>6, <1>7 DEF m

\* What was recorded, and newer lines after it.
LEMMA RecordedInOrder ==
    ASSUME LogInv, NEW lines \in Seq(Nat), RecordLog(lines),
           Increasing(lines), Below(recorded, lines),
           \A i \in 1..Len(lines) : lines[i] <= logged
    PROVE  /\ recorded' \in Seq(Nat) /\ Increasing(recorded')
           /\ \A i \in 1..Len(recorded') :
                \/ (i \in 1..Len(recorded) /\ recorded'[i] = recorded[i])
                \/ \E k \in 1..Len(lines) : recorded'[i] = lines[k]
           /\ \A i \in 1..Len(recorded') : recorded'[i] <= logged
<1>1. recorded \in Seq(Nat) /\ Increasing(recorded) /\ \A i \in 1..Len(recorded) : recorded[i] <= logged
  BY DEF LogInv, LogTypeOK, MemoryInOrder
<1>2. recorded' = recorded \o lines
  BY DEF RecordLog
<1>3. /\ recorded' \in Seq(Nat) /\ Len(recorded') = Len(recorded) + Len(lines)
      /\ \A i \in 1..Len(recorded) : recorded'[i] = recorded[i]
      /\ \A i \in 1..(Len(recorded) + Len(lines)) :
           i > Len(recorded) => i - Len(recorded) \in 1..Len(lines) /\ recorded'[i] = lines[i - Len(recorded)]
      /\ Increasing(recorded')
  BY <1>1, <1>2, ConcatLines
<1>4. ASSUME NEW i \in 1..Len(recorded')
      PROVE  \/ (i \in 1..Len(recorded) /\ recorded'[i] = recorded[i])
             \/ \E k \in 1..Len(lines) : recorded'[i] = lines[k]
  <2>1. i \in 1..Len(recorded) \/ i > Len(recorded)
    BY <1>1
  <2>2. QED
    BY <1>3, <2>1
<1>5. QED
  BY <1>1, <1>3, <1>4

LEMMA WindowKeepsMemory ==
    LogInv /\ (Backfill \/ StartLogWatcher \/ WatchTurn \/ ClearLogs)
        => recorded' \in Seq(Nat) /\ lastCount' \in Nat /\ MemoryInOrder'
<1>1. ASSUME LogInv
      PROVE  /\ logged \in Nat /\ memory \in Seq(Nat) /\ recorded \in Seq(Nat) /\ lastCount \in Nat
             /\ Len(memory) \in Nat /\ MemoryInOrder
  BY <1>1 DEF LogInv, LogTypeOK
<1>2. ASSUME LogInv, Backfill
      PROVE  recorded' \in Seq(Nat) /\ lastCount' \in Nat /\ MemoryInOrder'
  <2>1. /\ watching = "unbound" /\ watching' = "backfilled" /\ RecordLog(memory)
        /\ logged' = logged /\ memory' = memory /\ lastCount' = lastCount
    BY <1>2 DEF Backfill
  <2>2. Below(recorded, memory)
    BY <1>1, <1>2, <2>1 DEF MemoryInOrder, Below
  <2>3. Increasing(memory) /\ \A i \in 1..Len(memory) : memory[i] <= logged
    BY <1>1, <1>2 DEF MemoryInOrder
  <2>4. recorded' \in Seq(Nat) /\ Increasing(recorded') /\ \A i \in 1..Len(recorded') : recorded'[i] <= logged
    BY <1>1, <1>2, <2>1, <2>2, <2>3, RecordedInOrder
  <2>5. QED
    BY <1>1, <1>2, <2>1, <2>3, <2>4 DEF MemoryInOrder
<1>3. ASSUME LogInv, StartLogWatcher
      PROVE  recorded' \in Seq(Nat) /\ lastCount' \in Nat /\ MemoryInOrder'
  <2>1. /\ watching' = "on" /\ lastCount' = Len(memory)
        /\ logged' = logged /\ memory' = memory /\ recorded' = recorded
    BY <1>3 DEF StartLogWatcher
  <2>2. \A j \in 1..Len(memory) : ~(j > Len(memory))
    BY <1>1, <1>3
  <2>3. QED
    BY <1>1, <1>3, <2>1, <2>2 DEF MemoryInOrder
<1>4. ASSUME LogInv, WatchTurn
      PROVE  recorded' \in Seq(Nat) /\ lastCount' \in Nat /\ MemoryInOrder'
  <2> DEFINE lines == SubSeq(memory, lastCount + 1, Len(memory))
  <2>1. /\ watching = "on" /\ Len(memory) > lastCount /\ RecordLog(lines) /\ lastCount' = Len(memory)
        /\ logged' = logged /\ memory' = memory /\ watching' = watching
    BY <1>4 DEF WatchTurn
  <2>2. Increasing(memory) /\ \A i \in 1..Len(memory) : memory[i] <= logged
    BY <1>1, <1>4 DEF MemoryInOrder
  <2>3. /\ lines \in Seq(Nat)
        /\ \A i \in 1..Len(lines) : /\ i + lastCount \in 1..Len(memory) /\ i + lastCount > lastCount
                                    /\ lines[i] = memory[i + lastCount]
        /\ Increasing(lines)
    <3>1. lastCount <= Len(memory)
      BY <1>1, <1>4, <2>1
    <3>2. QED
      BY <1>1, <1>4, <2>2, <3>1, RestLines
  <2> HIDE DEF lines
  <2>4. Below(recorded, lines)
    <3>1. \A i \in 1..Len(recorded), j \in 1..Len(memory) : j > lastCount => recorded[i] < memory[j]
      BY <1>1, <1>4, <2>1 DEF MemoryInOrder
    <3>2. QED
      BY <2>3, <3>1 DEF Below
  <2>5. \A i \in 1..Len(lines) : lines[i] <= logged
    BY <2>2, <2>3
  <2>6. recorded' \in Seq(Nat) /\ Increasing(recorded') /\ \A i \in 1..Len(recorded') : recorded'[i] <= logged
    BY <1>4, <2>1, <2>3, <2>4, <2>5, RecordedInOrder
  <2>7. \A j \in 1..Len(memory) : ~(j > Len(memory))
    BY <1>1, <1>4
  <2>8. QED
    BY <1>1, <1>4, <2>1, <2>2, <2>6, <2>7 DEF MemoryInOrder
<1>5. ASSUME LogInv, ClearLogs
      PROVE  recorded' \in Seq(Nat) /\ lastCount' \in Nat /\ MemoryInOrder'
  <2>1. UNCHANGED <<logged, memory, watching, lastCount, recorded>>
    BY <1>5 DEF ClearLogs
  <2>2. QED
    BY <1>1, <1>5, <2>1 DEF MemoryInOrder
<1>6. QED
  BY <1>2, <1>3, <1>4, <1>5

TailType == [file : Nat \cup {Closed}, pos : Nat, inode : Nat \cup {Closed},
             first : BOOLEAN, out : Seq(Nat), at : {"open", "stat", "read"}]

\* The files as a step of the follower finds them.
LEMMA FilesNow ==
    ASSUME LogInv
    PROVE  /\ logged \in Nat /\ moved \in BOOLEAN /\ tail \in TailType
           /\ Len(logFiles) \in Nat /\ Len(logFiles) \in 1..Len(logFiles) /\ Closed \notin Nat
           /\ \A f \in 1..Len(logFiles) :
                /\ logFiles[f] \in Seq(Nat) /\ Len(logFiles[f]) \in Nat /\ Increasing(logFiles[f])
                /\ \A i \in 1..Len(logFiles[f]) : logFiles[f][i] \in Nat /\ logFiles[f][i] <= logged
           /\ \A f, g \in 1..Len(logFiles) : f < g =>
                \A i \in 1..Len(logFiles[f]), j \in 1..Len(logFiles[g]) : logFiles[f][i] < logFiles[g][j]
           /\ tail.out \in Seq(Nat) /\ Len(tail.out) \in Nat /\ tail.pos \in Nat /\ Increasing(tail.out)
           /\ \A i \in 1..Len(tail.out) : tail.out[i] \in Nat /\ tail.out[i] <= logged
<1>1. /\ logged \in Nat /\ moved \in BOOLEAN /\ tail \in TailType
      /\ logFiles \in Seq(Seq(Nat)) /\ Len(logFiles) > 0 /\ FilesInOrder /\ TailInOrder
      /\ Closed \notin Nat
  BY LogFeedAssumption DEF LogInv, LogTypeOK, TailType
<1>2. Len(logFiles) \in Nat /\ Len(logFiles) \in 1..Len(logFiles)
  BY <1>1
<1>3. \A f \in 1..Len(logFiles) :
        /\ logFiles[f] \in Seq(Nat) /\ Len(logFiles[f]) \in Nat /\ Increasing(logFiles[f])
        /\ \A i \in 1..Len(logFiles[f]) : logFiles[f][i] \in Nat /\ logFiles[f][i] <= logged
  BY <1>1 DEF FilesInOrder
<1>4. \A f, g \in 1..Len(logFiles) : f < g =>
        \A i \in 1..Len(logFiles[f]), j \in 1..Len(logFiles[g]) : logFiles[f][i] < logFiles[g][j]
  BY <1>1 DEF FilesInOrder
<1>5. tail.out \in Seq(Nat) /\ Len(tail.out) \in Nat /\ tail.pos \in Nat
  BY <1>1 DEF TailType
<1>6. Increasing(tail.out) /\ \A i \in 1..Len(tail.out) : tail.out[i] \in Nat /\ tail.out[i] <= logged
  BY <1>1, <1>5 DEF TailInOrder
<1>7. QED
  BY <1>1, <1>2, <1>3, <1>4, <1>5, <1>6

LEMMA TailOpenInv == LogInv /\ TailOpen => tail' \in TailType /\ TailInOrder'
<1> SUFFICES ASSUME LogInv, TailOpen PROVE tail' \in TailType /\ TailInOrder'
  OBVIOUS
<1> DEFINE n == Len(logFiles)
<1>1. /\ tail.at = "open" /\ ~moved /\ PathInode = n
      /\ logged' = logged /\ logFiles' = logFiles /\ moved' = moved
      /\ tail' = [tail EXCEPT !.file = n, !.first = FALSE, !.at = "stat",
                              !.pos = IF tail.first THEN Len(logFiles[n]) ELSE 0]
  BY DEF TailOpen, Follow, PathInode
<1>2. n \in Nat /\ n \in 1..n /\ Len(logFiles[n]) \in Nat /\ tail \in TailType
  BY FilesNow
<1>3. /\ tail' \in TailType
      /\ tail'.file = n /\ tail'.first = FALSE /\ tail'.at = "stat" /\ tail'.out = tail.out
      /\ tail'.pos = IF tail.first THEN Len(logFiles[n]) ELSE 0
  BY <1>1, <1>2 DEF TailType
<1>4. /\ tail.first => tail.out = <<>>
      /\ tail.first \/ \A i \in 1..Len(tail.out), j \in 1..Len(logFiles[n]) : tail.out[i] < logFiles[n][j]
  BY <1>1 DEF LogInv, TailInOrder
<1> HIDE DEF n
<1>5. /\ tail'.pos <= Len(logFiles[n])
      /\ \A i \in 1..Len(tail.out), j \in 1..Len(logFiles[n]) :
           j > tail'.pos => tail.out[i] < logFiles[n][j]
  <2>1. CASE tail.first
    BY <1>2, <1>3, <1>4, <2>1
  <2>2. CASE ~tail.first
    BY <1>2, <1>3, <1>4, <2>2
  <2>3. QED
    BY <2>1, <2>2
<1>6. \A g \in 1..n : ~(n < g)
  BY <1>2
<1>7. Increasing(tail.out) /\ \A i \in 1..Len(tail.out) : tail.out[i] <= logged
  BY FilesNow
<1>8. QED
  BY <1>1, <1>2, <1>3, <1>5, <1>6, <1>7 DEF TailInOrder, n

LEMMA TailStatInv == LogInv /\ TailStat => tail' \in TailType /\ TailInOrder'
<1> SUFFICES ASSUME LogInv, TailStat PROVE tail' \in TailType /\ TailInOrder'
  OBVIOUS
<1> DEFINE n == Len(logFiles)
<1>1. /\ tail.at = "stat" /\ logged' = logged /\ logFiles' = logFiles /\ moved' = moved
      /\ tail' = [tail EXCEPT !.inode = PathInode, !.at = "read"]
  BY DEF TailStat, Follow
<1>2. tail \in TailType /\ n \in Nat /\ Closed \notin Nat /\ PathInode \in Nat \cup {Closed}
  BY FilesNow DEF PathInode
<1>3. /\ tail' \in TailType
      /\ tail'.file = tail.file /\ tail'.first = tail.first /\ tail'.at = "read"
      /\ tail'.out = tail.out /\ tail'.pos = tail.pos /\ tail'.inode = PathInode
  BY <1>1, <1>2 DEF TailType
<1>4. TailInOrder /\ ~tail.first /\ tail.file \in 1..n
  BY <1>1 DEF LogInv, TailInOrder
<1>5. IF tail'.inode = Closed THEN moved \/ tail.file < n ELSE tail'.inode \in tail.file..n
  BY <1>2, <1>3, <1>4 DEF PathInode
<1>6. QED
  BY <1>1, <1>3, <1>4, <1>5 DEF TailInOrder

LEMMA TailReadInv == LogInv /\ TailRead => tail' \in TailType /\ TailInOrder'
<1> SUFFICES ASSUME LogInv, TailRead PROVE tail' \in TailType /\ TailInOrder'
  OBVIOUS
<1> DEFINE n == Len(logFiles)
<1> DEFINE f == tail.file
<1> DEFINE s == logFiles[f]
<1> DEFINE new == tail.out \o Rest
<1>1. /\ tail.at = "read" /\ logged' = logged /\ logFiles' = logFiles /\ moved' = moved
      /\ tail' = [tail EXCEPT !.out = new, !.pos = Len(s)]
      /\ Rest = SubSeq(s, tail.pos + 1, Len(s))
  BY DEF TailRead, Follow, Rest
<1>2. /\ f \in 1..n /\ tail.pos <= Len(s) /\ ~tail.first
      /\ \A i \in 1..Len(tail.out), j \in 1..Len(s) : j > tail.pos => tail.out[i] < s[j]
      /\ \A g \in 1..n : f < g =>
           \A i \in 1..Len(tail.out), j \in 1..Len(logFiles[g]) : tail.out[i] < logFiles[g][j]
      /\ IF tail.inode = Closed THEN moved \/ tail.file < n ELSE tail.inode \in tail.file..n
  BY <1>1 DEF LogInv, TailInOrder
<1>3. /\ tail \in TailType /\ n \in Nat /\ s \in Seq(Nat) /\ Len(s) \in Nat /\ tail.pos \in Nat
      /\ Increasing(s) /\ tail.out \in Seq(Nat) /\ Increasing(tail.out) /\ Len(tail.out) \in Nat
      /\ \A i \in 1..Len(s) : s[i] \in Nat /\ s[i] <= logged
      /\ \A i \in 1..Len(tail.out) : tail.out[i] \in Nat /\ tail.out[i] <= logged
  BY <1>2, FilesNow
<1>4. \A g \in 1..n : f < g => \A i \in 1..Len(s), j \in 1..Len(logFiles[g]) : s[i] < logFiles[g][j]
  BY <1>2, FilesNow
<1> HIDE DEF f, s
<1>5. /\ Rest \in Seq(Nat)
      /\ \A i \in 1..Len(Rest) : i + tail.pos \in 1..Len(s) /\ i + tail.pos > tail.pos
                                 /\ Rest[i] = s[i + tail.pos]
      /\ Increasing(Rest)
  BY <1>1, <1>2, <1>3, RestLines
<1>6. Below(tail.out, Rest)
  BY <1>2, <1>5 DEF Below
<1>7. /\ new \in Seq(Nat) /\ Len(new) = Len(tail.out) + Len(Rest)
      /\ \A i \in 1..Len(tail.out) : new[i] = tail.out[i]
      /\ \A i \in 1..(Len(tail.out) + Len(Rest)) :
           i > Len(tail.out) => i - Len(tail.out) \in 1..Len(Rest) /\ new[i] = Rest[i - Len(tail.out)]
      /\ Increasing(new)
  BY <1>3, <1>5, <1>6, ConcatLines
<1> HIDE DEF new
\* A line given now was given before, or is one of the file.
<1>8. ASSUME NEW i \in 1..Len(new)
      PROVE  (i \in 1..Len(tail.out) /\ new[i] = tail.out[i]) \/ \E k \in 1..Len(s) : new[i] = s[k]
  <2>1. CASE i <= Len(tail.out)
    BY <1>3, <1>7, <2>1
  <2>2. CASE i > Len(tail.out)
    <3>1. i - Len(tail.out) \in 1..Len(Rest) /\ new[i] = Rest[i - Len(tail.out)]
      BY <1>3, <1>7, <2>2
    <3>2. QED
      BY <1>5, <3>1
  <2>3. QED
    BY <1>3, <2>1, <2>2
<1>9. \A i \in 1..Len(new) : new[i] <= logged
  BY <1>3, <1>8
<1>10. \A g \in 1..n : f < g =>
         \A i \in 1..Len(new), j \in 1..Len(logFiles[g]) : new[i] < logFiles[g][j]
  BY <1>2, <1>4, <1>8
<1>11. /\ tail' \in TailType
       /\ tail'.file = f /\ tail'.first = tail.first /\ tail'.at = "read"
       /\ tail'.out = new /\ tail'.pos = Len(s) /\ tail'.inode = tail.inode
  BY <1>1, <1>3, <1>7 DEF TailType, f
<1>12. \A j \in 1..Len(s) : ~(j > Len(s))
  BY <1>3
<1>13. /\ tail'.file \in 1..Len(logFiles') /\ tail'.pos <= Len(logFiles'[tail'.file])
       /\ \A i \in 1..Len(tail'.out), j \in 1..Len(logFiles'[tail'.file]) :
            j > tail'.pos => tail'.out[i] < logFiles'[tail'.file][j]
       /\ \A g \in 1..Len(logFiles') : tail'.file < g =>
            \A i \in 1..Len(tail'.out), j \in 1..Len(logFiles'[g]) : tail'.out[i] < logFiles'[g][j]
  <2>1. Len(logFiles') = n /\ logFiles'[tail'.file] = s
    BY <1>1, <1>11 DEF n, s
  <2>2. \A g \in 1..n : logFiles'[g] = logFiles[g]
    BY <1>1
  <2>3. Len(s) <= Len(s)
    BY <1>3
  <2> HIDE DEF n
  <2>4. QED
    BY <1>2, <1>10, <1>11, <1>12, <2>1, <2>2, <2>3, SMTT(30)
<1>14. QED
  BY <1>1, <1>2, <1>7, <1>9, <1>11, <1>13 DEF TailInOrder, f

LEMMA TailCheckInv == LogInv /\ TailCheck => tail' \in TailType /\ TailInOrder'
<1> SUFFICES ASSUME LogInv, TailCheck PROVE tail' \in TailType /\ TailInOrder'
  OBVIOUS
<1> DEFINE n == Len(logFiles)
<1>1. /\ tail.at = "read" /\ tail.inode # PathInode
      /\ logged' = logged /\ logFiles' = logFiles /\ moved' = moved
      /\ tail' = [tail EXCEPT !.file = Closed, !.inode = Closed, !.at = "open"]
  BY DEF TailCheck, Follow
<1>2. /\ tail \in TailType /\ n \in Nat /\ n \in 1..n /\ Closed \notin Nat
      /\ Increasing(tail.out) /\ \A i \in 1..Len(tail.out) : tail.out[i] <= logged
  BY FilesNow
<1>3. /\ tail' \in TailType /\ tail'.first = tail.first /\ tail'.at = "open" /\ tail'.out = tail.out
  BY <1>1, <1>2 DEF TailType
<1>4. /\ ~tail.first /\ tail.file \in 1..n
      /\ \A g \in 1..n : tail.file < g =>
           \A i \in 1..Len(tail.out), j \in 1..Len(logFiles[g]) : tail.out[i] < logFiles[g][j]
      /\ IF tail.inode = Closed THEN moved \/ tail.file < n ELSE tail.inode \in tail.file..n
  BY <1>1 DEF LogInv, TailInOrder
<1>5. ASSUME ~moved
      PROVE  \A i \in 1..Len(tail.out), j \in 1..Len(logFiles[n]) : tail.out[i] < logFiles[n][j]
  <2>1. tail.inode # n
    BY <1>1, <1>5 DEF PathInode
  <2> HIDE DEF n
  <2>2. tail.file < n
    BY <1>2, <1>4, <1>5, <2>1
  <2>3. QED
    BY <1>2, <1>4, <2>2
<1>6. QED
  BY <1>1, <1>2, <1>3, <1>4, <1>5 DEF TailInOrder

LEMMA LogStepInv == LogInv /\ [LogNext]_logVars => LogInv'
<1> SUFFICES ASSUME LogInv, [LogNext]_logVars PROVE LogInv'
  OBVIOUS
<1>0. LogTypeOK /\ MemoryInOrder /\ FilesInOrder /\ TailInOrder
  BY DEF LogInv
<1>1. CASE Log
  <2>1. logged' \in Nat /\ memory' \in Seq(Nat) /\ MemoryInOrder'
    BY <1>1, LogKeepsMemory
  <2>2. FilesInOrder' /\ TailInOrder' /\ Len(logFiles') > 0
    BY <1>1, LogKeepsFiles
  <2>3. logFiles' \in Seq(Seq(Nat))
    BY <1>1, LogFilesAfter
  <2>4. recorded' = recorded /\ lastCount' = lastCount /\ moved' = FALSE /\ tail' = tail
    BY <1>1 DEF Log
  <2>5. QED
    BY <1>0, <2>1, <2>2, <2>3, <2>4 DEF LogInv, LogTypeOK
<1>2. CASE RollOver
  <2>1. /\ moved' = TRUE
        /\ UNCHANGED <<logged, memory, entries, logSeq, watching, lastCount, logFiles, tail, recorded>>
    BY <1>2 DEF RollOver
  <2>2. LogTypeOK' /\ MemoryInOrder' /\ FilesInOrder'
    BY <1>0, <2>1 DEF LogTypeOK, MemoryInOrder, FilesInOrder
  <2>3. TailInOrder'
    BY <1>0, <2>1 DEF TailInOrder
  <2>4. QED
    BY <2>2, <2>3 DEF LogInv
<1>3. CASE Backfill \/ StartLogWatcher \/ WatchTurn \/ ClearLogs
  <2>1. recorded' \in Seq(Nat) /\ lastCount' \in Nat /\ MemoryInOrder'
    BY <1>3, WindowKeepsMemory
  <2>2. UNCHANGED <<logged, memory, logFiles, moved, tail>>
    BY <1>3 DEF Backfill, StartLogWatcher, WatchTurn, ClearLogs
  <2>3. LogTypeOK' /\ FilesInOrder' /\ TailInOrder'
    BY <1>0, <2>1, <2>2 DEF LogTypeOK, FilesInOrder, TailInOrder
  <2>4. QED
    BY <2>1, <2>3 DEF LogInv
<1>4. CASE TailOpen \/ TailStat \/ TailRead \/ TailCheck
  <2>1. tail' \in TailType /\ TailInOrder'
    BY <1>4, TailOpenInv, TailStatInv, TailReadInv, TailCheckInv
  <2>2. UNCHANGED <<logged, memory, entries, logSeq, watching, lastCount, logFiles, moved, recorded>>
    BY <1>4 DEF TailOpen, TailStat, TailRead, TailCheck, Follow
  <2>3. LogTypeOK' /\ MemoryInOrder' /\ FilesInOrder'
    BY <1>0, <2>1, <2>2, SMTT(30) DEF LogTypeOK, TailType, MemoryInOrder, FilesInOrder
  <2>4. QED
    BY <2>1, <2>3 DEF LogInv
<1>5. CASE UNCHANGED logVars
  BY <1>0, <1>5 DEF LogInv, LogTypeOK, MemoryInOrder, FilesInOrder, TailInOrder, logVars
<1>6. QED
  BY <1>1, <1>2, <1>3, <1>4, <1>5 DEF LogNext

\* The window's buffer and the follower get no line twice and none out of order,
\* for every capacity, size of the file and number of lines (_start_log_watcher,
\* tail_follow).
THEOREM LinesInOrder == LogSpec => []LinesOnceInOrder
<1>1. LogInv => LinesOnceInOrder
  BY DEF LogInv, MemoryInOrder, TailInOrder, LinesOnceInOrder
<1>2. QED
  BY <1>1, LogInitInv, LogStepInv, PTL DEF LogSpec

-----------------------------------------------------------------------------
(* The updates *)

Kinds == {"gui", "gui_with_server", "client", "server"}
Phases == {"idle", "checking", "error", "current", "open", "downloading", "verifying",
           "applying", "launching", "quitting", "done"}
Calls == Updates \cup {NoName}

\* What call u has found out about a release it goes on with, and about a file
\* it has verified.
Chosen(u) ==
    /\ IsNewer(info[u].version, Current)
    /\ AssetOf(info[u], how[u]) # NoName
Verified(u, content) ==
    Chosen(u) /\ VerifyDownload(info[u], AssetOf(info[u], how[u]), content)

UpdateTypeOK ==
    /\ release \in Releases
    /\ phase \in [Updates -> Phases] /\ how \in [Updates -> Kinds \cup {NoName}]
    /\ info \in [Updates -> Releases]
    /\ window \in BOOLEAN /\ overlapped \in BOOLEAN
    /\ helper.by \in Calls /\ installed.by \in Calls

\* One call at a time of the window, until two overlap; none without the window.
OneOfTheWindow ==
    /\ \A u \in Updates : phase[u] # "idle" => how[u] \in Kinds
    /\ \A u \in Updates : phase[u] = "idle" => how[u] = NoName
    /\ ~overlapped => \A u, o \in WindowCalls : Running(u) /\ Running(o) => u = o
    /\ ~window => \A u \in WindowCalls : ~Running(u)

\* What is on its way to the installation was verified, in the file it lies in.
CallHolds(u) ==
    /\ phase[u] \in {"open", "downloading", "verifying", "applying", "launching", "quitting"} =>
         Chosen(u)
    /\ phase[u] \in {"downloading", "verifying", "applying", "launching", "quitting"} =>
         Path(u) \in DOMAIN saved
    /\ phase[u] \in {"applying", "launching", "quitting"} /\ (Window(how[u]) => ~overlapped) =>
         Verified(u, saved[Path(u)])
CallsHold == \A u \in Updates : CallHolds(u)
HelperHolds ==
    helper.by # NoName =>
      LET u == helper.by
      IN  /\ Window(how[u]) /\ helper.path = Path(u) /\ Path(u) \in DOMAIN saved
          /\ phase[u] = "quitting" \/ (phase[u] = "done" /\ ~window)
          /\ ~overlapped => Verified(u, saved[Path(u)])
InstalledHolds ==
    installed.by # NoName =>
      LET u == installed.by
      IN  /\ phase[u] = "done"
          /\ (Window(how[u]) => ~overlapped) => Verified(u, installed.content)

UpdateInv == UpdateTypeOK /\ OneOfTheWindow /\ CallsHold /\ HelperHolds /\ InstalledHolds

LEMMA SmallestExists ==
    ASSUME NEW S \in SUBSET Nat, S # {}
    PROVE  Min(S) \in S /\ \A b \in S : Min(S) <= b
<1>1. PICK a \in S : \A b \in S : <<b, a>> \notin OpToRel(<, Nat)
  BY NatLessThanWellFounded, WFMin
<1>2. ASSUME NEW b \in S PROVE a <= b
  <2>1. ~(b < a)
    BY <1>1 DEF OpToRel
  <2>2. QED
    BY <2>1
<1>3. QED
  BY <1>2 DEF Min

-----------------------------------------------------------------------------
(* Versions, assets and signatures *)

LEMMA KindsAreNames == NoName \notin Kinds /\ ~Window(NoName)
  BY Zenon DEF NoName, Kinds, Window

LEMMA NewerIsNewer ==
    ASSUME NEW v \in Seq(Nat), NEW c \in Seq(Nat), IsNewer(v, c)
    PROVE  Newer(v, c)
<1> DEFINE differ == {i \in DOMAIN v \cup DOMAIN c : At0(v, i) # At0(c, i)}
<1>1. \A i \in Nat : At0(v, i) \in Nat /\ At0(c, i) \in Nat
  BY DEF At0
<1>2. PICK i \in 1..Len(v) : /\ At0(v, i) > At0(c, i)
                             /\ \A j \in 1..(i - 1) : At0(v, j) = At0(c, j)
  BY DEF IsNewer
<1>3. i \in differ
  <2>1. i \in DOMAIN v /\ i \in Nat
    BY <1>2
  <2>2. At0(v, i) # At0(c, i)
    BY <1>1, <1>2, <2>1
  <2>3. QED
    BY <2>1, <2>2
<1>4. ASSUME NEW k \in differ, \A j \in differ : k <= j
      PROVE  k = i
  <2>1. k \in Nat /\ k > 0 /\ k <= i /\ At0(v, k) # At0(c, k)
    BY <1>3, <1>4
  <2>2. ~(k < i)
    BY <1>2, <2>1
  <2>3. QED
    BY <2>1, <2>2
<1>5. QED
  BY <1>2, <1>3, <1>4 DEF Newer

LEMMA AssetIsPreferred ==
    ASSUME NEW rel, NEW kind \in Kinds, AssetOf(rel, kind) # NoName
    PROVE  AssetOf(rel, kind) \in (CASE kind = "client" -> {"client.whl"}
                                     [] kind = "server" -> {"server.whl"}
                                     [] OTHER -> {"client.exe", "full.exe"})
<1> DEFINE found == {i \in DOMAIN Preferred(kind) : Preferred(kind)[i] \in DOMAIN rel.assets}
<1>1. DOMAIN Preferred(kind) \in SUBSET Nat
  <2>1. kind = "gui" => Preferred(kind) = <<"client.exe", "full.exe">>
    BY DEF Preferred
  <2>2. kind = "gui_with_server" => Preferred(kind) = <<"full.exe", "client.exe">>
    BY DEF Preferred
  <2>3. kind = "client" => Preferred(kind) = <<"client.whl">>
    BY DEF Preferred
  <2>4. kind = "server" => Preferred(kind) = <<"server.whl">>
    BY DEF Preferred
  <2>5. QED
    BY <2>1, <2>2, <2>3, <2>4 DEF Kinds
<1>2. found # {} /\ AssetOf(rel, kind) = Preferred(kind)[Min(found)]
  BY DEF AssetOf
<1>3. Min(found) \in DOMAIN Preferred(kind)
  BY <1>1, <1>2, SmallestExists
<1> HIDE DEF found
<1> SUFFICES Preferred(kind)[Min(found)] \in (CASE kind = "client" -> {"client.whl"}
                                     [] kind = "server" -> {"server.whl"}
                                     [] OTHER -> {"client.exe", "full.exe"})
  BY <1>2
<1>4. CASE kind = "gui"
  BY <1>3, <1>4 DEF Preferred
<1>5. CASE kind = "gui_with_server"
  <2>1. Preferred(kind) = <<"full.exe", "client.exe">>
    BY <1>5 DEF Preferred
  <2>2. Min(found) = 1 \/ Min(found) = 2
    BY <1>3, <2>1
  <2>3. QED
    BY <1>5, <2>1, <2>2
<1>6. CASE kind = "client"
  BY <1>3, <1>6 DEF Preferred
<1>7. CASE kind = "server"
  BY <1>3, <1>7 DEF Preferred
<1>8. QED
  BY <1>4, <1>5, <1>6, <1>7 DEF Kinds

LEMMA SignatureIsOfManifest ==
    ASSUME NEW lines, DOMAIN lines \in SUBSET Nat, NEW manifest, SignatureHolds(lines, manifest)
    PROVE  \E l \in Range(lines), alg \in {"Ed", "ED"} :
              l.is = "signature" /\ Signs(l.sig, <<alg, manifest>>)
<1> DEFINE body == {i \in DOMAIN lines : lines[i].is \notin {"blank", "untrusted"}}
<1> DEFINE first == lines[Min(body)]
<1>1. /\ body # {} /\ first.is = "signature" /\ first.alg \in {"Ed", "ED"}
      /\ Signs(first.sig, <<first.alg, manifest>>)
  BY DEF SignatureHolds
<1>2. body \in SUBSET Nat
  OBVIOUS
<1>3. Min(body) \in DOMAIN lines
  BY <1>1, <1>2, SmallestExists
<1> HIDE DEF body
<1>4. first \in Range(lines)
  BY <1>3 DEF Range
<1>5. QED
  BY <1>1, <1>4

-----------------------------------------------------------------------------
(* The steps of a call *)

LEMMA SameCall ==
    ASSUME NEW u \in Updates, how'[u] = how[u], info'[u] = info[u]
    PROVE  /\ Path(u)' = Path(u) /\ Chosen(u)' = Chosen(u)
           /\ \A content : Verified(u, content)' = Verified(u, content)
  BY DEF Path, Chosen, Verified

LEMMA PathsApart ==
    ASSUME NEW u \in Updates, NEW o \in Updates, u # o, ~(Window(how[u]) /\ Window(how[o]))
    PROVE  Path(u) # Path(o)
  BY DEF Path

\* A step of call u that leaves the others where they are.
Moves(u, p) ==
    /\ phase[u] \in {"checking", "open", "downloading", "verifying", "applying", "launching"}
    /\ p \in Phases \ {"idle"} /\ phase' = [phase EXCEPT ![u] = p]
    /\ how' = how /\ overlapped' = overlapped /\ window' = window /\ release' = release
    /\ info' \in [Updates -> Releases] /\ \A o \in Updates \ {u} : info'[o] = info[o]
    /\ DOMAIN saved \subseteq DOMAIN saved'
    /\ \A o \in Updates \ {u} : Path(o) \in DOMAIN saved /\ ~(Window(how[u]) /\ Window(how[o])) =>
          saved'[Path(o)] = saved[Path(o)]

LEMMA MovesKeepsOthers ==
    ASSUME UpdateInv, NEW u \in Updates, NEW p, Moves(u, p)
    PROVE  /\ phase'[u] = p /\ OneOfTheWindow'
           /\ \A o \in Updates \ {u} : CallHolds(o)'
           /\ helper' = helper => HelperHolds'
           /\ installed' = installed => InstalledHolds'
           /\ helper'.by \in Calls /\ installed'.by \in Calls => UpdateTypeOK'
<1>1. /\ UpdateTypeOK /\ OneOfTheWindow /\ CallsHold /\ HelperHolds /\ InstalledHolds
      /\ phase \in [Updates -> Phases] /\ how \in [Updates -> Kinds \cup {NoName}]
  BY DEF UpdateInv, UpdateTypeOK
<1>2. /\ Running(u) /\ phase[u] \notin {"idle", "quitting", "done"}
      /\ p \in Phases \ {"idle"} /\ phase' = [phase EXCEPT ![u] = p]
      /\ how' = how /\ overlapped' = overlapped /\ window' = window /\ release' = release
      /\ info' \in [Updates -> Releases] /\ \A o \in Updates \ {u} : info'[o] = info[o]
      /\ DOMAIN saved \subseteq DOMAIN saved'
      /\ \A o \in Updates \ {u} : Path(o) \in DOMAIN saved /\ ~(Window(how[u]) /\ Window(how[o])) =>
            saved'[Path(o)] = saved[Path(o)]
  BY DEF Moves, Running, Ended
<1>3. phase' \in [Updates -> Phases] /\ phase'[u] = p /\ \A o \in Updates \ {u} : phase'[o] = phase[o]
  BY <1>1, <1>2
<1>4. \A o \in Updates : Running(o)' => Running(o)
  BY <1>2, <1>3 DEF Running
<1>5. WindowCalls' = WindowCalls /\ WindowCalls \subseteq Updates
  BY <1>2 DEF WindowCalls
<1>6. OneOfTheWindow'
  <2>1. \A o \in Updates : phase'[o] = "idle" => phase[o] = "idle"
    BY <1>2, <1>3
  <2>2. \A o \in Updates : phase'[o] # "idle" => phase[o] # "idle"
    BY <1>2, <1>3
  <2>3. QED
    BY <1>1, <1>2, <1>4, <1>5, <2>1, <2>2 DEF OneOfTheWindow
<1>7. \A o \in Updates \ {u} : /\ Path(o)' = Path(o) /\ Chosen(o)' = Chosen(o)
                               /\ \A content : Verified(o, content)' = Verified(o, content)
  BY <1>2, SameCall
\* A call of the window that can still install has the file to itself.
<1>8. ASSUME NEW o \in Updates \ {u}, Path(o) \in DOMAIN saved, Window(how[o]) => ~overlapped,
             Running(o) \/ ~window
      PROVE  saved'[Path(o)] = saved[Path(o)]
  <2>1. ASSUME Window(how[u]), Window(how[o]) PROVE FALSE
    <3>1. u \in WindowCalls /\ o \in WindowCalls
      BY <2>1 DEF WindowCalls
    <3>2. QED
      BY <1>1, <1>2, <1>8, <2>1, <3>1 DEF OneOfTheWindow
  <2>2. QED
    BY <1>2, <1>8, <2>1
<1>9. ASSUME NEW o \in Updates \ {u} PROVE CallHolds(o)'
  <2>1. CallHolds(o) /\ phase'[o] = phase[o]
    BY <1>1, <1>3 DEF CallsHold
  <2>2. phase[o] \in {"open", "downloading", "verifying", "applying", "launching", "quitting"} =>
           Chosen(o)'
    BY <1>7, <2>1 DEF CallHolds
  <2>3. phase[o] \in {"downloading", "verifying", "applying", "launching", "quitting"} =>
           Path(o)' \in DOMAIN saved'
    BY <1>2, <1>7, <2>1 DEF CallHolds
  <2>4. ASSUME phase[o] \in {"applying", "launching", "quitting"}, Window(how[o]) => ~overlapped
        PROVE  Verified(o, saved[Path(o)])'
    <3>1. Running(o) /\ Path(o) \in DOMAIN saved /\ Verified(o, saved[Path(o)])
      BY <2>1, <2>4 DEF CallHolds, Running, Ended
    <3>2. saved'[Path(o)] = saved[Path(o)]
      BY <1>8, <2>4, <3>1
    <3>3. QED
      BY <1>7, <3>1, <3>2
  <2>5. QED
    BY <1>2, <2>1, <2>2, <2>3, <2>4 DEF CallHolds
<1>10. ASSUME helper' = helper PROVE HelperHolds'
  <2> SUFFICES ASSUME helper.by # NoName PROVE HelperHolds'
    BY <1>10 DEF HelperHolds
  <2>0. PICK o \in Updates : o = helper.by
    BY <1>1 DEF UpdateTypeOK, Calls
  <2>1. /\ Window(how[o]) /\ helper.path = Path(o) /\ Path(o) \in DOMAIN saved
        /\ phase[o] = "quitting" \/ (phase[o] = "done" /\ ~window)
        /\ ~overlapped => Verified(o, saved[Path(o)])
    BY <1>1, <2>0 DEF HelperHolds
  <2>3. o # u
    BY <1>2, <2>1
  <2>4. Running(o) \/ ~window
    BY <2>1 DEF Running, Ended
  <2>5. ~overlapped => saved'[Path(o)] = saved[Path(o)]
    BY <1>8, <2>1, <2>3, <2>4
  <2>6. phase'[o] = phase[o] /\ Path(o)' = Path(o)
        /\ \A content : Verified(o, content)' = Verified(o, content)
    BY <1>3, <1>7, <2>3
  <2>7. ~overlapped => Verified(o, saved[Path(o)])'
    BY <2>1, <2>5, <2>6
  <2>8. QED
    BY <1>2, <1>10, <2>0, <2>1, <2>6, <2>7 DEF HelperHolds
<1>11. ASSUME installed' = installed PROVE InstalledHolds'
  <2> SUFFICES ASSUME installed.by # NoName PROVE InstalledHolds'
    BY <1>11 DEF InstalledHolds
  <2>0. PICK o \in Updates : o = installed.by
    BY <1>1 DEF UpdateTypeOK, Calls
  <2>1. phase[o] = "done" /\ ((Window(how[o]) => ~overlapped) => Verified(o, installed.content))
    BY <1>1, <2>0 DEF InstalledHolds
  <2>3. o # u
    BY <1>2, <2>1
  <2>4. phase'[o] = phase[o] /\ \A content : Verified(o, content)' = Verified(o, content)
    BY <1>3, <1>7, <2>3
  <2>5. Verified(o, installed.content)' = Verified(o, installed.content)
    BY <1>11, <2>4
  <2>6. QED
    BY <1>2, <1>11, <2>0, <2>1, <2>4, <2>5 DEF InstalledHolds
<1>12. ASSUME helper'.by \in Calls, installed'.by \in Calls PROVE UpdateTypeOK'
  BY <1>1, <1>2, <1>3, <1>12 DEF UpdateTypeOK
<1>13. QED
  BY <1>3, <1>6, <1>9, <1>10, <1>11, <1>12

\* A step of call u alone: what it leaves to show.
LEMMA MovesKeepsAll ==
    ASSUME UpdateInv, NEW u \in Updates, NEW p, Moves(u, p), CallHolds(u)',
           helper' = helper \/ (helper'.by \in Calls /\ HelperHolds'),
           installed' = installed \/ (installed'.by \in Calls /\ InstalledHolds')
    PROVE  UpdateInv'
<1>1. /\ OneOfTheWindow' /\ \A o \in Updates \ {u} : CallHolds(o)'
      /\ helper' = helper => HelperHolds'
      /\ installed' = installed => InstalledHolds'
      /\ helper'.by \in Calls /\ installed'.by \in Calls => UpdateTypeOK'
  BY MovesKeepsOthers
<1>2. helper'.by \in Calls /\ installed'.by \in Calls
  BY DEF UpdateInv, UpdateTypeOK
<1>3. \A o \in Updates : CallHolds(o)'
  BY <1>1
<1>4. CallsHold'
  BY <1>3 DEF CallsHold
<1>5. QED
  BY <1>1, <1>2, <1>4 DEF UpdateInv

LEMMA TypesNow ==
    ASSUME UpdateInv
    PROVE  /\ release \in Releases /\ phase \in [Updates -> Phases]
           /\ how \in [Updates -> Kinds \cup {NoName}] /\ info \in [Updates -> Releases]
           /\ window \in BOOLEAN /\ overlapped \in BOOLEAN
           /\ OneOfTheWindow /\ CallsHold /\ HelperHolds /\ InstalledHolds
           /\ helper.by \in Calls /\ installed.by \in Calls
  BY DEF UpdateInv, UpdateTypeOK

\* The steps that only change the phase, from where nothing is installed yet.
LEMMA PhaseMoves ==
    ASSUME UpdateInv, NEW u \in Updates, NEW p \in Phases \ {"idle"}, To(u, p),
           UNCHANGED <<release, how, info, saved, window, overlapped>>,
           phase[u] \in {"checking", "open", "downloading", "verifying", "applying", "launching"}
    PROVE  /\ Moves(u, p) /\ phase'[u] = p
           /\ Path(u)' = Path(u) /\ Chosen(u)' = Chosen(u)
           /\ \A content : Verified(u, content)' = Verified(u, content)
           /\ p \in {"error", "done"} => CallHolds(u)'
<1>1. Moves(u, p)
  BY TypesNow DEF Moves, To
<1>2. phase'[u] = p
  BY <1>1, MovesKeepsOthers
<1>3. p \in {"error", "done"} => CallHolds(u)'
  BY <1>2 DEF CallHolds
<1>4. QED
  BY <1>1, <1>2, <1>3, SameCall

LEMMA CheckFailsInv == ASSUME UpdateInv, NEW u \in Updates, CheckFails(u) PROVE UpdateInv'
<1>1. /\ phase[u] = "checking" /\ To(u, "error") /\ "error" \in Phases \ {"idle"}
      /\ UNCHANGED <<release, how, info, saved, window, overlapped, helper, installed>>
  BY DEF CheckFails, OnlyPhase, Phases
<1>2. QED
  BY <1>1, PhaseMoves, MovesKeepsAll

LEMMA DownloadFailsInv == ASSUME UpdateInv, NEW u \in Updates, DownloadFails(u) PROVE UpdateInv'
<1>1. /\ phase[u] = "downloading" /\ To(u, "error") /\ "error" \in Phases \ {"idle"}
      /\ UNCHANGED <<release, how, info, saved, window, overlapped, helper, installed>>
  BY DEF DownloadFails, OnlyPhase, Phases
<1>2. QED
  BY <1>1, PhaseMoves, MovesKeepsAll

LEMMA RefusesInv == ASSUME UpdateInv, NEW u \in Updates, Refuses(u) PROVE UpdateInv'
<1>1. /\ phase[u] = "verifying" /\ To(u, "error") /\ "error" \in Phases \ {"idle"}
      /\ UNCHANGED <<release, how, info, saved, window, overlapped, helper, installed>>
  BY DEF Refuses, OnlyPhase, Phases
<1>2. QED
  BY <1>1, PhaseMoves, MovesKeepsAll

\* A check goes on only with a newer release that has the package.
LEMMA CheckChooses ==
    ASSUME NEW rel, NEW kind \in Kinds, NEW p,
           p = (CASE kind = "client" -> CheckForLinuxUpdate(rel)
                  [] kind = "server" -> CheckForServerUpdate(rel)
                  [] OTHER -> CheckForUpdate(rel, kind))
    PROVE  /\ p \in {"open", "current", "error"}
           /\ p = "open" => IsNewer(rel.version, Current) /\ AssetOf(rel, kind) # NoName
<1>1. CASE kind = "client"
  <2>1. p = CheckForLinuxUpdate(rel)
    BY <1>1
  <2>2. QED
    BY <1>1, <2>1 DEF CheckForLinuxUpdate
<1>2. CASE kind = "server"
  <2>1. p = CheckForServerUpdate(rel)
    BY <1>2
  <2>2. QED
    BY <1>2, <2>1 DEF CheckForServerUpdate
<1>3. CASE kind # "client" /\ kind # "server"
  <2>1. p = CheckForUpdate(rel, kind)
    BY <1>3
  <2>2. QED
    BY <2>1 DEF CheckForUpdate
<1>4. QED
  BY <1>1, <1>2, <1>3

LEMMA ChecksInv == ASSUME UpdateInv, NEW u \in Updates, Checks(u) PROVE UpdateInv'
<1> DEFINE p == CASE how[u] = "client" -> CheckForLinuxUpdate(release)
                  [] how[u] = "server" -> CheckForServerUpdate(release)
                  [] OTHER -> CheckForUpdate(release, how[u])
<1>1. /\ phase[u] = "checking" /\ To(u, p) /\ info' = [info EXCEPT ![u] = release]
      /\ UNCHANGED <<release, how, saved, window, overlapped, helper, installed>>
  BY DEF Checks
<1>2. how[u] \in Kinds
  BY <1>1, TypesNow DEF OneOfTheWindow
<1>3. /\ p \in {"open", "current", "error"}
      /\ p = "open" => IsNewer(release.version, Current) /\ AssetOf(release, how[u]) # NoName
  BY <1>2, CheckChooses
<1> HIDE DEF p
<1>4. Moves(u, p)
  <2>1. p \in Phases \ {"idle"}
    BY <1>3 DEF Phases
  <2>2. info' \in [Updates -> Releases] /\ \A o \in Updates \ {u} : info'[o] = info[o]
    BY <1>1, TypesNow
  <2>3. QED
    BY <1>1, <2>1, <2>2 DEF Moves, To
<1>5. phase'[u] = p /\ info'[u] = release /\ how'[u] = how[u]
  BY <1>1, <1>4, TypesNow, MovesKeepsOthers
<1>6. p = "open" => Chosen(u)'
  BY <1>3, <1>5 DEF Chosen
<1>7. CallHolds(u)'
  BY <1>3, <1>5, <1>6 DEF CallHolds
<1>8. QED
  BY <1>1, <1>4, <1>7, MovesKeepsAll

\* A file written by call u.
LEMMA WritesMoves ==
    ASSUME UpdateInv, NEW u \in Updates, NEW p \in Phases \ {"idle"}, To(u, p), NEW content,
           saved' = Put(saved, Path(u), content),
           UNCHANGED <<release, how, info, window, overlapped>>,
           phase[u] \in {"open", "downloading"}
    PROVE  /\ Moves(u, p) /\ phase'[u] = p
           /\ Path(u)' \in DOMAIN saved' /\ Chosen(u)'
<1>1. /\ DOMAIN saved' = DOMAIN saved \cup {Path(u)}
      /\ \A q \in DOMAIN saved : q # Path(u) => saved'[q] = saved[q]
  BY DEF Put
<1>2. ASSUME NEW o \in Updates \ {u}, Path(o) \in DOMAIN saved, ~(Window(how[u]) /\ Window(how[o]))
      PROVE  saved'[Path(o)] = saved[Path(o)]
  BY <1>1, <1>2, PathsApart
<1>3. Moves(u, p)
  BY <1>1, <1>2, TypesNow DEF Moves, To
<1>4. phase'[u] = p
  BY <1>3, MovesKeepsOthers
<1>5. Chosen(u)
  BY TypesNow DEF CallsHold, CallHolds
<1>6. Path(u)' = Path(u) /\ Chosen(u)' = Chosen(u)
  BY SameCall
<1>7. QED
  BY <1>1, <1>3, <1>4, <1>5, <1>6

LEMMA OpensInv == ASSUME UpdateInv, NEW u \in Updates, Opens(u) PROVE UpdateInv'
<1>1. /\ phase[u] = "open" /\ To(u, "downloading") /\ "downloading" \in Phases \ {"idle"}
      /\ saved' = Put(saved, Path(u), <<"part">>)
      /\ UNCHANGED <<release, how, info, window, overlapped, helper, installed>>
  BY DEF Opens, Phases
<1>2. Moves(u, "downloading") /\ phase'[u] = "downloading" /\ Path(u)' \in DOMAIN saved' /\ Chosen(u)'
  BY <1>1, WritesMoves
<1>3. CallHolds(u)'
  BY <1>2 DEF CallHolds
<1>4. QED
  BY <1>1, <1>2, <1>3, MovesKeepsAll

LEMMA DownloadsInv == ASSUME UpdateInv, NEW u \in Updates, Downloads(u) PROVE UpdateInv'
<1>1. PICK content : saved' = Put(saved, Path(u), content)
  BY DEF Downloads
<1>2. /\ phase[u] = "downloading" /\ To(u, "verifying") /\ "verifying" \in Phases \ {"idle"}
      /\ UNCHANGED <<release, how, info, window, overlapped, helper, installed>>
  BY DEF Downloads, Phases
<1>3. Moves(u, "verifying") /\ phase'[u] = "verifying" /\ Path(u)' \in DOMAIN saved' /\ Chosen(u)'
  BY <1>1, <1>2, WritesMoves
<1>4. CallHolds(u)'
  BY <1>3 DEF CallHolds
<1>5. QED
  BY <1>2, <1>3, <1>4, MovesKeepsAll

LEMMA VerifiesInv == ASSUME UpdateInv, NEW u \in Updates, Verifies(u) PROVE UpdateInv'
<1>1. /\ phase[u] = "verifying" /\ To(u, "applying") /\ "applying" \in Phases \ {"idle"}
      /\ VerifyDownload(info[u], AssetOf(info[u], how[u]), saved[Path(u)])
      /\ UNCHANGED <<release, how, info, saved, window, overlapped, helper, installed>>
  BY DEF Verifies, VerifyWheel, OnlyPhase, Phases
<1>2. Chosen(u) /\ Path(u) \in DOMAIN saved
  BY <1>1, TypesNow DEF CallsHold, CallHolds
<1>3. Verified(u, saved[Path(u)])
  BY <1>1, <1>2 DEF Verified
<1>4. /\ Moves(u, "applying") /\ phase'[u] = "applying"
      /\ Path(u)' = Path(u) /\ Chosen(u)' = Chosen(u)
      /\ \A content : Verified(u, content)' = Verified(u, content)
  BY <1>1, PhaseMoves
<1>5. Verified(u, saved[Path(u)])'
  BY <1>1, <1>3, <1>4
<1>6. CallHolds(u)'
  BY <1>1, <1>2, <1>4, <1>5 DEF CallHolds
<1>7. QED
  BY <1>1, <1>4, <1>6, MovesKeepsAll

LEMMA PipInstallsInv == ASSUME UpdateInv, NEW u \in Updates, PipInstalls(u) PROVE UpdateInv'
<1>1. /\ phase[u] = "applying" /\ ~Window(how[u])
      /\ UNCHANGED <<release, how, info, saved, window, overlapped, helper>>
      /\ "done" \in Phases \ {"idle"} /\ "error" \in Phases \ {"idle"}
  BY DEF PipInstalls, Phases
<1>2. CASE To(u, "error") /\ UNCHANGED installed
  BY <1>1, <1>2, PhaseMoves, MovesKeepsAll
<1>3. CASE installed' = [content |-> saved[Path(u)], by |-> u] /\ To(u, "done")
  <2>1. /\ Moves(u, "done") /\ phase'[u] = "done" /\ CallHolds(u)'
        /\ \A content : Verified(u, content)' = Verified(u, content)
    BY <1>1, <1>3, PhaseMoves
  <2>2. Verified(u, saved[Path(u)])
    BY <1>1, TypesNow DEF CallsHold, CallHolds
  <2>3. installed'.by = u /\ installed'.content = saved[Path(u)]
    BY <1>3
  <2>4. Verified(u, installed.content)'
    BY <2>1, <2>2, <2>3
  <2>5. InstalledHolds'
    BY <2>1, <2>3, <2>4 DEF InstalledHolds
  <2>6. installed'.by \in Calls
    BY <2>3 DEF Calls
  <2>7. QED
    BY <1>1, <2>1, <2>5, <2>6, MovesKeepsAll
<1>4. QED
  BY <1>2, <1>3 DEF PipInstalls

LEMMA StopsTunnelInv == ASSUME UpdateInv, NEW u \in Updates, StopsTunnel(u) PROVE UpdateInv'
<1>1. /\ phase[u] = "applying" /\ To(u, "launching") /\ "launching" \in Phases \ {"idle"}
      /\ UNCHANGED <<release, how, info, saved, window, overlapped, helper, installed>>
  BY DEF StopsTunnel, Phases
<1>2. /\ Chosen(u) /\ Path(u) \in DOMAIN saved
      /\ (Window(how[u]) => ~overlapped) => Verified(u, saved[Path(u)])
  BY <1>1, TypesNow DEF CallsHold, CallHolds
<1>3. /\ Moves(u, "launching") /\ phase'[u] = "launching"
      /\ Path(u)' = Path(u) /\ Chosen(u)' = Chosen(u)
      /\ \A content : Verified(u, content)' = Verified(u, content)
  BY <1>1, PhaseMoves
<1>4. Verified(u, saved[Path(u)])' = Verified(u, saved[Path(u)])
  BY <1>1, <1>3
<1>5. CallHolds(u)'
  BY <1>1, <1>2, <1>3, <1>4 DEF CallHolds
<1>6. QED
  BY <1>1, <1>3, <1>5, MovesKeepsAll

LEMMA LaunchesHelperInv ==
    ASSUME UpdateInv, NEW u \in Updates, Window(how[u]), LaunchesHelper(u) PROVE UpdateInv'
<1>1. /\ phase[u] = "launching"
      /\ UNCHANGED <<release, how, info, saved, window, overlapped, installed>>
      /\ "quitting" \in Phases \ {"idle"} /\ "error" \in Phases \ {"idle"}
  BY DEF LaunchesHelper, Phases
<1>2. CASE To(u, "error") /\ UNCHANGED helper
  BY <1>1, <1>2, PhaseMoves, MovesKeepsAll
<1>3. CASE helper' = [path |-> Path(u), by |-> u] /\ To(u, "quitting")
  <2>1. /\ Moves(u, "quitting") /\ phase'[u] = "quitting"
        /\ Path(u)' = Path(u) /\ Chosen(u)' = Chosen(u)
        /\ \A content : Verified(u, content)' = Verified(u, content)
    BY <1>1, <1>3, PhaseMoves
  <2>2. /\ Chosen(u) /\ Path(u) \in DOMAIN saved
        /\ (Window(how[u]) => ~overlapped) => Verified(u, saved[Path(u)])
    BY <1>1, TypesNow DEF CallsHold, CallHolds
  <2>3. Verified(u, saved[Path(u)])' = Verified(u, saved[Path(u)])
    BY <1>1, <2>1
  <2>4. CallHolds(u)'
    BY <1>1, <2>1, <2>2, <2>3 DEF CallHolds
  <2>5. helper'.by = u /\ helper'.path = Path(u)
    BY <1>3
  <2>6. HelperHolds'
    BY <1>1, <2>1, <2>2, <2>3, <2>5 DEF HelperHolds
  <2>7. helper'.by \in Calls
    BY <2>5 DEF Calls
  <2>8. QED
    BY <1>1, <2>1, <2>4, <2>6, <2>7, MovesKeepsAll
<1>4. QED
  BY <1>2, <1>3 DEF LaunchesHelper

LEMMA BeginsInv ==
    ASSUME UpdateInv, NEW u \in Updates, NEW kind \in Kinds, Begins(u, kind) PROVE UpdateInv'
<1>1. /\ phase[u] = "idle" /\ (Window(kind) => window)
      /\ phase' = [phase EXCEPT ![u] = "checking"] /\ how' = [how EXCEPT ![u] = kind]
      /\ overlapped' = (overlapped \/ (Window(kind) /\ \E o \in WindowCalls : Running(o)))
      /\ UNCHANGED <<release, info, saved, window, helper, installed>>
  BY DEF Begins, To
<1>2. /\ phase \in [Updates -> Phases] /\ how \in [Updates -> Kinds \cup {NoName}]
      /\ info \in [Updates -> Releases] /\ release \in Releases
      /\ window \in BOOLEAN /\ overlapped \in BOOLEAN
      /\ OneOfTheWindow /\ CallsHold /\ HelperHolds /\ InstalledHolds
      /\ helper.by \in Calls /\ installed.by \in Calls
  BY TypesNow
<1>3. /\ phase'[u] = "checking" /\ how'[u] = kind /\ how[u] = NoName
      /\ \A o \in Updates \ {u} : phase'[o] = phase[o] /\ how'[o] = how[o] /\ info'[o] = info[o]
      /\ phase' \in [Updates -> Phases] /\ how' \in [Updates -> Kinds \cup {NoName}]
  <2>1. "checking" \in Phases
    BY DEF Phases
  <2>2. how[u] = NoName
    BY <1>1, <1>2 DEF OneOfTheWindow
  <2>3. QED
    BY <1>1, <1>2, <2>1, <2>2
<1>4. overlapped' \in BOOLEAN /\ (~overlapped' => ~overlapped)
  BY <1>1, <1>2
<1>5. UpdateTypeOK'
  BY <1>1, <1>2, <1>3, <1>4 DEF UpdateTypeOK
<1>6. \A o \in Updates \ {u} : (Running(o)' <=> Running(o)) /\ (o \in WindowCalls' <=> o \in WindowCalls)
  BY <1>3 DEF Running, WindowCalls
<1>7. WindowCalls' \subseteq Updates /\ (u \in WindowCalls' <=> Window(kind))
  BY <1>3 DEF WindowCalls
<1>8. OneOfTheWindow'
  <2>1. ASSUME ~overlapped', NEW o \in WindowCalls', NEW q \in WindowCalls', Running(o)', Running(q)'
        PROVE  o = q
    <3>1. CASE o # u /\ q # u
      BY <1>2, <1>4, <1>6, <1>7, <2>1, <3>1 DEF OneOfTheWindow
    <3>2. CASE o = u /\ q # u
      <4>1. Window(kind) /\ q \in WindowCalls /\ Running(q)
        BY <1>6, <1>7, <2>1, <3>2
      <4>2. QED
        BY <1>1, <2>1, <4>1
    <3>3. CASE o # u /\ q = u
      <4>1. Window(kind) /\ o \in WindowCalls /\ Running(o)
        BY <1>6, <1>7, <2>1, <3>3
      <4>2. QED
        BY <1>1, <2>1, <4>1
    <3>4. QED
      BY <3>1, <3>2, <3>3
  <2>2. ASSUME ~window', NEW o \in WindowCalls' PROVE ~Running(o)'
    <3>1. o # u
      BY <1>1, <1>7, <2>2
    <3>2. QED
      BY <1>1, <1>2, <1>6, <1>7, <2>2, <3>1 DEF OneOfTheWindow
  <2>3. \A o \in Updates : /\ phase'[o] # "idle" => how'[o] \in Kinds
                           /\ phase'[o] = "idle" => how'[o] = NoName
    BY <1>2, <1>3 DEF OneOfTheWindow
  <2>4. QED
    BY <2>1, <2>2, <2>3 DEF OneOfTheWindow
<1>9. \A o \in Updates \ {u} : /\ Path(o)' = Path(o) /\ Chosen(o)' = Chosen(o)
                               /\ \A content : Verified(o, content)' = Verified(o, content)
  BY <1>3, SameCall
<1>10. CallsHold'
  <2>1. ASSUME NEW o \in Updates \ {u} PROVE CallHolds(o)'
    <3>1. CallHolds(o) /\ phase'[o] = phase[o] /\ how'[o] = how[o]
      BY <1>2, <1>3 DEF CallsHold
    <3>2. Verified(o, saved[Path(o)])' = Verified(o, saved[Path(o)])
      BY <1>1, <1>9
    <3>3. QED
      BY <1>1, <1>4, <1>9, <3>1, <3>2 DEF CallHolds
  <2>2. CallHolds(u)'
    BY <1>3 DEF CallHolds
  <2>3. QED
    BY <2>1, <2>2 DEF CallsHold
<1>11. HelperHolds'
  <2> SUFFICES ASSUME helper.by # NoName PROVE HelperHolds'
    BY <1>1 DEF HelperHolds
  <2>1. PICK o \in Updates : o = helper.by
    BY <1>2 DEF Calls
  <2>2. /\ Window(how[o]) /\ helper.path = Path(o) /\ Path(o) \in DOMAIN saved
        /\ phase[o] = "quitting" \/ (phase[o] = "done" /\ ~window)
        /\ ~overlapped => Verified(o, saved[Path(o)])
    BY <1>2, <2>1 DEF HelperHolds
  <2>3. o \in Updates \ {u}
    BY <1>1, <2>2
  <2>4. Verified(o, saved[Path(o)])' = Verified(o, saved[Path(o)])
    BY <1>1, <1>9, <2>3
  <2>5. QED
    BY <1>1, <1>3, <1>4, <1>9, <2>1, <2>2, <2>3, <2>4 DEF HelperHolds
<1>12. InstalledHolds'
  <2> SUFFICES ASSUME installed.by # NoName PROVE InstalledHolds'
    BY <1>1 DEF InstalledHolds
  <2>1. PICK o \in Updates : o = installed.by
    BY <1>2 DEF Calls
  <2>2. phase[o] = "done" /\ ((Window(how[o]) => ~overlapped) => Verified(o, installed.content))
    BY <1>2, <2>1 DEF InstalledHolds
  <2>3. o \in Updates \ {u}
    BY <1>1, <2>2
  <2>4. Verified(o, installed.content)' = Verified(o, installed.content)
    BY <1>1, <1>9, <2>3
  <2>5. QED
    BY <1>1, <1>3, <1>4, <2>1, <2>2, <2>3, <2>4 DEF InstalledHolds
<1>13. QED
  BY <1>5, <1>8, <1>10, <1>11, <1>12 DEF UpdateInv

\* The steps that touch neither how a call came about nor what it read.
LEMMA SameCalls ==
    ASSUME how' = how, info' = info
    PROVE  /\ \A o \in Updates : /\ Path(o)' = Path(o) /\ Chosen(o)' = Chosen(o)
                                 /\ \A content : Verified(o, content)' = Verified(o, content)
           /\ WindowCalls' = WindowCalls
  BY SameCall DEF WindowCalls

LEMMA QuitsInv == ASSUME UpdateInv, NEW u \in Updates, Quits(u) PROVE UpdateInv'
<1>1. /\ window' = FALSE
      /\ phase' = [o \in Updates |-> IF Window(how[o]) /\ Running(o) THEN "done" ELSE phase[o]]
      /\ UNCHANGED <<release, how, info, saved, helper, installed, overlapped>>
  BY DEF Quits
<1>2. /\ phase \in [Updates -> Phases] /\ how \in [Updates -> Kinds \cup {NoName}]
      /\ OneOfTheWindow /\ CallsHold /\ HelperHolds /\ InstalledHolds
      /\ helper.by \in Calls /\ installed.by \in Calls
  BY TypesNow
<1>3. \A o \in Updates : /\ phase'[o] = "done" \/ phase'[o] = phase[o]
                         /\ phase[o] \in {"done", "idle"} => phase'[o] = phase[o]
                         /\ phase'[o] = "idle" => phase[o] = "idle"
                         /\ Window(how[o]) => ~Running(o)'
                         /\ Window(how[o]) /\ phase[o] = "quitting" => phase'[o] = "done"
  BY <1>1 DEF Running, Ended
<1>4. phase' \in [Updates -> Phases]
  <2>1. "done" \in Phases
    BY DEF Phases
  <2>2. QED
    BY <1>1, <1>2, <2>1
<1>5. /\ \A o \in Updates : /\ Path(o)' = Path(o) /\ Chosen(o)' = Chosen(o)
                            /\ \A content : Verified(o, content)' = Verified(o, content)
      /\ WindowCalls' = WindowCalls
  BY <1>1, SameCalls
<1>6. UpdateTypeOK'
  BY <1>1, <1>4, TypesNow DEF UpdateTypeOK
<1>7. OneOfTheWindow'
  <2>1. \A o \in WindowCalls' : ~Running(o)'
    BY <1>3, <1>5 DEF WindowCalls
  <2>2. \A o \in Updates : /\ phase'[o] # "idle" => how'[o] \in Kinds
                           /\ phase'[o] = "idle" => how'[o] = NoName
    BY <1>1, <1>2, <1>3 DEF OneOfTheWindow
  <2>3. QED
    BY <2>1, <2>2 DEF OneOfTheWindow
<1>8. CallsHold'
  <2> SUFFICES ASSUME NEW o \in Updates PROVE CallHolds(o)'
    BY DEF CallsHold
  <2>1. CallHolds(o)
    BY <1>2 DEF CallsHold
  <2>2. Verified(o, saved[Path(o)])' = Verified(o, saved[Path(o)])
    BY <1>1, <1>5
  <2>3. CASE phase'[o] = "done"
    BY <2>3 DEF CallHolds
  <2>4. CASE phase'[o] = phase[o]
    BY <1>1, <1>5, <2>1, <2>2, <2>4 DEF CallHolds
  <2>5. QED
    BY <1>3, <2>3, <2>4
<1>9. HelperHolds'
  <2> SUFFICES ASSUME helper.by # NoName PROVE HelperHolds'
    BY <1>1 DEF HelperHolds
  <2>1. PICK o \in Updates : o = helper.by
    BY <1>2 DEF Calls
  <2>2. /\ Window(how[o]) /\ helper.path = Path(o) /\ Path(o) \in DOMAIN saved
        /\ phase[o] = "quitting" \/ phase[o] = "done"
        /\ ~overlapped => Verified(o, saved[Path(o)])
    BY <1>2, <2>1 DEF HelperHolds
  <2>3. phase'[o] = "done"
    BY <1>3, <2>2
  <2>4. Verified(o, saved[Path(o)])' = Verified(o, saved[Path(o)])
    BY <1>1, <1>5
  <2>5. QED
    BY <1>1, <1>5, <2>1, <2>2, <2>3, <2>4 DEF HelperHolds
<1>10. InstalledHolds'
  <2> SUFFICES ASSUME installed.by # NoName PROVE InstalledHolds'
    BY <1>1 DEF InstalledHolds
  <2>1. PICK o \in Updates : o = installed.by
    BY <1>2 DEF Calls
  <2>2. phase[o] = "done" /\ ((Window(how[o]) => ~overlapped) => Verified(o, installed.content))
    BY <1>2, <2>1 DEF InstalledHolds
  <2>3. Verified(o, installed.content)' = Verified(o, installed.content)
    BY <1>1, <1>5
  <2>4. QED
    BY <1>1, <1>3, <2>1, <2>2, <2>3 DEF InstalledHolds
<1>11. QED
  BY <1>6, <1>7, <1>8, <1>9, <1>10 DEF UpdateInv

\* The steps that touch no call: its invariants stay.
LEMMA CallsUntouched ==
    ASSUME UpdateInv, UNCHANGED <<phase, how, info, saved, window, overlapped>>
    PROVE  /\ OneOfTheWindow' /\ CallsHold'
           /\ helper' = helper => HelperHolds'
           /\ installed' = installed => InstalledHolds'
<1>1. /\ OneOfTheWindow /\ CallsHold /\ HelperHolds /\ InstalledHolds
      /\ helper.by \in Calls /\ installed.by \in Calls
  BY TypesNow
<1>2. /\ \A o \in Updates : /\ Path(o)' = Path(o) /\ Chosen(o)' = Chosen(o)
                            /\ \A content : Verified(o, content)' = Verified(o, content)
      /\ WindowCalls' = WindowCalls
  BY SameCalls
<1>3. WindowCalls \subseteq Updates /\ \A o \in Updates : Running(o)' <=> Running(o)
  BY DEF Running, WindowCalls
<1>4. OneOfTheWindow'
  BY <1>1, <1>2, <1>3 DEF OneOfTheWindow
<1>5. CallsHold'
  <2> SUFFICES ASSUME NEW o \in Updates PROVE CallHolds(o)'
    BY DEF CallsHold
  <2>1. CallHolds(o)
    BY <1>1 DEF CallsHold
  <2>2. Verified(o, saved[Path(o)])' = Verified(o, saved[Path(o)])
    BY <1>2
  <2>3. QED
    BY <1>2, <2>1, <2>2 DEF CallHolds
<1>6. ASSUME helper' = helper PROVE HelperHolds'
  <2> SUFFICES ASSUME helper.by # NoName PROVE HelperHolds'
    BY <1>6 DEF HelperHolds
  <2>1. PICK o \in Updates : o = helper.by
    BY <1>1 DEF Calls
  <2>2. /\ Window(how[o]) /\ helper.path = Path(o) /\ Path(o) \in DOMAIN saved
        /\ phase[o] = "quitting" \/ (phase[o] = "done" /\ ~window)
        /\ ~overlapped => Verified(o, saved[Path(o)])
    BY <1>1, <2>1 DEF HelperHolds
  <2>3. Verified(o, saved[Path(o)])' = Verified(o, saved[Path(o)])
    BY <1>2
  <2>4. QED
    BY <1>2, <1>6, <2>1, <2>2, <2>3 DEF HelperHolds
<1>7. ASSUME installed' = installed PROVE InstalledHolds'
  <2> SUFFICES ASSUME installed.by # NoName PROVE InstalledHolds'
    BY <1>7 DEF InstalledHolds
  <2>1. PICK o \in Updates : o = installed.by
    BY <1>1 DEF Calls
  <2>2. phase[o] = "done" /\ ((Window(how[o]) => ~overlapped) => Verified(o, installed.content))
    BY <1>1, <2>1 DEF InstalledHolds
  <2>3. Verified(o, installed.content)' = Verified(o, installed.content)
    BY <1>2, <1>7
  <2>4. QED
    BY <1>7, <2>1, <2>2, <2>3 DEF InstalledHolds
<1>8. QED
  BY <1>4, <1>5, <1>6, <1>7

LEMMA HelperInstallsInv == ASSUME UpdateInv, HelperInstalls PROVE UpdateInv'
<1>1. /\ helper.by # NoName /\ ~window
      /\ installed' = [content |-> saved[helper.path], by |-> helper.by]
      /\ helper' = [path |-> <<>>, by |-> NoName]
      /\ UNCHANGED <<release, phase, how, info, saved, window, overlapped>>
  BY DEF HelperInstalls
<1>2. PICK o \in Updates : o = helper.by
  BY <1>1, TypesNow DEF Calls
<1>3. /\ Window(how[o]) /\ helper.path = Path(o)
      /\ phase[o] \in {"quitting", "done"}
      /\ ~overlapped => Verified(o, saved[Path(o)])
  BY <1>1, <1>2, TypesNow DEF HelperHolds
<1>4. phase[o] = "done"
  <2>1. ~Running(o)
    BY <1>1, <1>3, TypesNow DEF OneOfTheWindow, WindowCalls
  <2>2. QED
    BY <1>3, <2>1 DEF Running, Ended
<1>5. installed'.by = o /\ installed'.content = saved[Path(o)] /\ helper'.by = NoName
  BY <1>1, <1>2, <1>3
<1>6. Verified(o, installed.content)' = Verified(o, saved[Path(o)])
  BY <1>1, <1>5, SameCalls
<1>7. InstalledHolds'
  BY <1>1, <1>3, <1>4, <1>5, <1>6 DEF InstalledHolds
<1>8. HelperHolds'
  BY <1>5 DEF HelperHolds
<1>9. UpdateTypeOK'
  BY <1>1, <1>5, TypesNow DEF UpdateTypeOK, Calls
<1>10. QED
  BY <1>1, <1>7, <1>8, <1>9, CallsUntouched DEF UpdateInv

LEMMA UpdateInitInv == UpdateInit => UpdateInv
<1> SUFFICES ASSUME UpdateInit PROVE UpdateInv
  OBVIOUS
<1>1. /\ phase = [u \in Updates |-> "idle"] /\ how = [u \in Updates |-> NoName]
      /\ info = [u \in Updates |-> release] /\ release \in Releases
      /\ window = TRUE /\ overlapped = FALSE
      /\ helper.by = NoName /\ installed.by = NoName
  BY DEF UpdateInit
<1>2. UpdateTypeOK
  BY <1>1 DEF UpdateTypeOK, Phases, Calls
<1>3. OneOfTheWindow
  BY <1>1 DEF OneOfTheWindow, Running, Ended, WindowCalls
<1>4. CallsHold
  BY <1>1 DEF CallsHold, CallHolds
<1>5. HelperHolds /\ InstalledHolds
  BY <1>1 DEF HelperHolds, InstalledHolds
<1>6. QED
  BY <1>2, <1>3, <1>4, <1>5 DEF UpdateInv

LEMMA UpdateStepInv == UpdateInv /\ [UpdateNext]_updateVars => UpdateInv'
<1> SUFFICES ASSUME UpdateInv, [UpdateNext]_updateVars PROVE UpdateInv'
  OBVIOUS
<1>1. ASSUME NEW u \in Updates, Call(u) PROVE UpdateInv'
  <2>1. ASSUME NEW kind \in Kinds, Begins(u, kind) PROVE UpdateInv'
    BY <2>1, BeginsInv
  <2>2. ASSUME Obtains(u) PROVE UpdateInv'
    BY <2>2, CheckFailsInv, ChecksInv, OpensInv, DownloadFailsInv, DownloadsInv, RefusesInv,
       VerifiesInv DEF Obtains
  <2>3. ASSUME PipInstalls(u) PROVE UpdateInv'
    BY <2>3, PipInstallsInv
  <2>4. ASSUME Window(how[u]), StopsTunnel(u) \/ LaunchesHelper(u) \/ Quits(u) PROVE UpdateInv'
    BY <2>4, StopsTunnelInv, LaunchesHelperInv, QuitsInv
  <2>5. QED
    BY <1>1, <2>1, <2>2, <2>3, <2>4 DEF Call, RunUpdate, ClientUpdate, ServerUpdate, Kinds
<1>2. CASE HelperInstalls
  BY <1>2, HelperInstallsInv
<1>3. ASSUME NEW rel \in Releases, Publish(rel) PROVE UpdateInv'
  <2>1. /\ release' = rel
        /\ UNCHANGED <<phase, how, info, saved, window, helper, installed, overlapped>>
    BY <1>3 DEF Publish
  <2>2. UpdateTypeOK'
    BY <2>1, TypesNow DEF UpdateTypeOK
  <2>3. QED
    BY <2>1, <2>2, CallsUntouched DEF UpdateInv
<1>4. CASE UNCHANGED updateVars
  <2>1. UNCHANGED <<release, phase, how, info, saved, window, helper, installed, overlapped>>
    BY <1>4 DEF updateVars
  <2>2. UpdateTypeOK'
    BY <2>1, TypesNow DEF UpdateTypeOK
  <2>3. QED
    BY <2>1, <2>2, CallsUntouched DEF UpdateInv
<1>5. QED
  BY <1>1, <1>2, <1>3, <1>4 DEF UpdateNext

\* What is verified is what the property asks of the installation.
LEMMA VerifiedIsRelease ==
    ASSUME UpdateInv
    PROVE  InstalledIsRelease
<1> SUFFICES ASSUME installed.by # NoName, Window(how[installed.by]) => ~overlapped
             PROVE  InstalledIsRelease
  BY DEF InstalledIsRelease
<1>1. PICK o \in Updates : o = installed.by
  BY TypesNow DEF Calls
<1> DEFINE rel == info[o]
<1> DEFINE asset == AssetOf(rel, how[o])
<1>2. Verified(o, installed.content) /\ phase[o] = "done"
  BY <1>1, TypesNow DEF InstalledHolds
<1>3. how[o] \in Kinds /\ rel \in Releases
  BY <1>2, TypesNow DEF OneOfTheWindow
<1>4. /\ IsNewer(rel.version, Current) /\ asset # NoName
      /\ SignatureHolds(rel.signature, rel.manifest)
      /\ asset \in DOMAIN rel.manifest /\ installed.content = rel.manifest[asset]
  BY <1>2 DEF Verified, Chosen, VerifyDownload
<1>5. Newer(rel.version, Current)
  BY <1>3, <1>4, NewerIsNewer, UpdateAssumption
<1>6. \E l \in Range(rel.signature), alg \in {"Ed", "ED"} :
         l.is = "signature" /\ Signs(l.sig, <<alg, rel.manifest>>)
  BY <1>3, <1>4, SignatureIsOfManifest, UpdateAssumption
<1>7. asset \in (CASE how[o] = "client" -> {"client.whl"}
                   [] how[o] = "server" -> {"server.whl"}
                   [] OTHER -> {"client.exe", "full.exe"})
  BY <1>3, <1>4, AssetIsPreferred
<1> HIDE DEF asset
<1>8. QED
  BY <1>1, <1>4, <1>5, <1>6, <1>7 DEF InstalledIsRelease

\* What the helper or pip installs is of a newer release, of the right package and
\* listed in a manifest that is signed with the release key (verify_download,
\* minisign.verify), for every number of calls and every set of releases.
THEOREM InstalledIsReleased == UpdateSpec => []InstalledIsRelease
<1>1. UpdateInv => InstalledIsRelease
  BY VerifiedIsRelease
<1>2. QED
  BY <1>1, UpdateInitInv, UpdateStepInv, PTL DEF UpdateSpec
=============================================================================
