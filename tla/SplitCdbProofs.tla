--------------------------- MODULE SplitCdbProofs ---------------------------
(***************************************************************************)
(* Theorems about SplitCdb, for any number of commands, keys and threads   *)
(* and whatever I/O calls fail.                                            *)
(***************************************************************************)
EXTENDS SplitCdb, TLAPS

(***************************************************************************)
(* One write at the end of a file appends.                                 *)
(***************************************************************************)
LEMMA WrittenIsFile ==
  ASSUME NEW f \in Seq(Command \cup {Hole}), NEW o \in Nat, NEW c \in Command
  PROVE  Written(f, o, c) \in Seq(Command \cup {Hole})
<1> DEFINE n == IF Len(f) > o THEN Len(f) ELSE o + 1
<1>1. n \in Nat
  OBVIOUS
<1>2. \A i \in 1..n :
        (IF i = o + 1 THEN c ELSE IF i <= Len(f) THEN f[i] ELSE Hole)
          \in Command \cup {Hole}
  OBVIOUS
<1>3. QED
  BY <1>1, <1>2 DEF Written

LEMMA WrittenAtEnd ==
  ASSUME NEW g \in Seq(Command), NEW n \in 0..(Len(g) - 1)
  PROVE  Written(SubSeq(g, 1, n), n, g[n + 1]) = SubSeq(g, 1, n + 1)
<1> DEFINE f == SubSeq(g, 1, n)
           h == SubSeq(g, 1, n + 1)
<1>1. /\ Len(f) = n /\ \A i \in 1..n : f[i] = g[i]
      /\ h \in Seq(Command)
      /\ Len(h) = n + 1 /\ \A i \in 1..(n + 1) : h[i] = g[i]
      /\ n \in Nat
  OBVIOUS
<1> HIDE DEF f, h
<1>2. Written(f, n, g[n + 1]) =
        [i \in 1..(n + 1) |->
           IF i = n + 1 THEN g[n + 1] ELSE IF i <= n THEN f[i] ELSE Hole]
  BY <1>1 DEF Written
<1>3. \A i \in 1..(n + 1) :
        (IF i = n + 1 THEN g[n + 1] ELSE IF i <= n THEN f[i] ELSE Hole) = h[i]
  BY <1>1
<1>4. h = [i \in 1..(n + 1) |-> h[i]]
  BY <1>1
<1>5. Written(f, n, g[n + 1]) = h
  BY <1>2, <1>3, <1>4
<1>6. QED
  BY <1>5 DEF f, h

LEMMA AppendFacts ==
  ASSUME NEW S, NEW g \in Seq(S), NEW c \in S
  PROVE  LET h == Append(g, c) IN
           /\ h \in Seq(S)
           /\ Len(g) \in Nat /\ Len(h) = Len(g) + 1
           /\ DOMAIN g = 1..Len(g) /\ DOMAIN h = 1..(Len(g) + 1)
           /\ h[Len(g) + 1] = c
           /\ \A i \in 1..Len(g) : h[i] = g[i]
           /\ ToSet(h) = ToSet(g) \cup {c}
<1> DEFINE h == Append(g, c)
<1>1. /\ h \in Seq(S)
      /\ Len(g) \in Nat /\ Len(h) = Len(g) + 1
      /\ DOMAIN g = 1..Len(g) /\ DOMAIN h = 1..(Len(g) + 1)
      /\ h[Len(g) + 1] = c
      /\ \A i \in 1..Len(g) : h[i] = g[i]
  OBVIOUS
<1> HIDE DEF h
<1>2. ToSet(h) = ToSet(g) \cup {c}
  BY <1>1 DEF ToSet
<1>3. QED
  BY <1>1, <1>2 DEF h

(***************************************************************************)
(* The inductive invariant.  Beside the properties it says in which phase  *)
(* which task can be where, and how a task's counters move.                *)
(***************************************************************************)
GroupsFit == \A k \in Key : Len(groups[k]) < next

PhasesInOrder ==
  /\ phase = "grouping" => ~cancelled /\ \A k \in Key : task[k] = "waiting"
  /\ phase \in {"writing", "finished"} => next = N + 1
  /\ phase = "finished" => \A k \in Mapped : task[k] = "closed"
  /\ phase = "aborted" => Running = {}
  /\ phase = "finished" => ~cancelled

TaskCounts(k) ==
  /\ off[k] <= done[k] /\ done[k] <= Len(groups[k])
  /\ k \notin lost => off[k] = done[k]
  /\ task[k] \in {"waiting", "ready", "failed"} => done[k] = 0 /\ k \notin lost
  /\ task[k] = "closed" => done[k] = Len(groups[k])
  /\ task[k] # "waiting" => k \in Mapped
  /\ task[k] = "failed" => cancelled

IInv ==
  /\ TypeOK
  /\ GroupsInOrder
  /\ GroupsFit
  /\ PhasesInOrder
  /\ \A k \in Key : TaskCounts(k)

LEMMA InitIInv ==
  ASSUME SplitCdbAssumption, Init
  PROVE  IInv /\ TasksDoNotMix
<1> USE DEF Init
<1>1. TypeOK
  <2>1. <<>> \in Seq(Command) /\ <<>> \in Seq(Command \cup {Hole})
    OBVIOUS
  <2>2. 0 \in 0..N /\ 1 \in 1..(N + 1)
    BY DEF SplitCdbAssumption
  <2>3. QED
    BY <2>1, <2>2 DEF TypeOK, TaskState
<1>2. GroupsInOrder
  BY DEF GroupsInOrder, ToSet
<1>3. GroupsFit /\ PhasesInOrder
  BY DEF GroupsFit, PhasesInOrder
<1>4. \A k \in Key : TaskCounts(k)
  BY DEF TaskCounts
<1>5. TasksDoNotMix
  BY DEF TasksDoNotMix, FileIsWritten
<1>6. QED
  BY <1>1, <1>2, <1>3, <1>4, <1>5 DEF IInv

(***************************************************************************)
(* The steps, one lemma each.                                              *)
(***************************************************************************)
LEMMA GroupIInv ==
  ASSUME SplitCdbAssumption, IInv, Group
  PROVE  IInv'
<1> USE DEF IInv
<1> DEFINE d == dests[next]
           g == groups[d]
           h == Append(g, next)
<1>1. /\ phase = "grouping" /\ next <= N /\ next \in Nat /\ next >= 1 /\ next \in Command
      /\ next' = next + 1
      /\ UNCHANGED <<dests, phase, task, done, off, files, cancelled, lost>>
      /\ d \in Key
  BY DEF Group, TypeOK, Command, SplitCdbAssumption
<1>2. /\ g \in Seq(Command)
      /\ groups' = [groups EXCEPT ![d] = h]
  BY <1>1 DEF Group, TypeOK
<1>3. /\ h \in Seq(Command)
      /\ Len(g) \in Nat /\ Len(h) = Len(g) + 1
      /\ DOMAIN g = 1..Len(g) /\ DOMAIN h = 1..(Len(g) + 1)
      /\ h[Len(g) + 1] = next
      /\ \A i \in 1..Len(g) : h[i] = g[i]
      /\ ToSet(h) = ToSet(g) \cup {next}
  BY <1>1, <1>2, AppendFacts
<1>4. /\ ToSet(g) = {c \in 1..(next - 1) : dests[c] = d}
      /\ \A i, j \in DOMAIN g : i < j => g[i] < g[j]
      /\ Len(g) < next
  BY <1>1 DEF GroupsInOrder, GroupsFit
<1>5. dests[next] = d
  OBVIOUS
<1>6. /\ groups'[d] = h
      /\ \A k \in Key \ {d} : groups'[k] = groups[k]
      /\ groups' \in [Key -> Seq(Command)]
  BY <1>1, <1>2, <1>3 DEF TypeOK
<1> HIDE DEF d, g, h
<1>7. TypeOK'
  <2>1. next' \in 1..(N + 1)
    BY <1>1 DEF SplitCdbAssumption
  <2>2. QED
    BY <1>1, <1>6, <2>1 DEF TypeOK
<1>8. 1..next = 1..(next - 1) \cup {next}
  BY <1>1
<1>9. \A i, j \in DOMAIN h : i < j => h[i] < h[j]
  <2> SUFFICES ASSUME NEW i \in DOMAIN h, NEW j \in DOMAIN h, i < j
               PROVE  h[i] < h[j]
    OBVIOUS
  <2>1. i \in 1..Len(g) /\ h[i] = g[i]
    BY <1>3
  <2>2. g[i] \in ToSet(g)
    BY <1>3, <2>1 DEF ToSet
  <2>3. g[i] < next
    BY <1>1, <1>4, <2>2
  <2>4. CASE j = Len(g) + 1
    BY <1>3, <2>1, <2>3, <2>4
  <2>5. CASE j # Len(g) + 1
    BY <1>3, <1>4, <2>1, <2>5
  <2>6. QED
    BY <2>4, <2>5
<1>10. GroupsInOrder'
  <2> SUFFICES ASSUME NEW k \in Key
               PROVE  /\ ToSet(groups'[k]) = {c \in 1..next : dests[c] = k}
                      /\ \A i, j \in DOMAIN groups'[k] :
                           i < j => groups'[k][i] < groups'[k][j]
    BY <1>1 DEF GroupsInOrder
  <2>1. CASE k # d
    BY <1>5, <1>6, <1>8, <2>1 DEF GroupsInOrder
  <2>2. CASE k = d
    <3>1. ToSet(h) = {c \in 1..next : dests[c] = d}
      BY <1>3, <1>4, <1>5, <1>8
    <3>2. QED
      BY <1>6, <1>9, <2>2, <3>1
  <2>3. QED
    BY <2>1, <2>2
<1>11. GroupsFit'
  <2> SUFFICES ASSUME NEW k \in Key
               PROVE  Len(groups'[k]) < next + 1
    BY <1>1 DEF GroupsFit
  <2>1. Len(groups[k]) \in Nat /\ Len(groups[k]) < next
    BY DEF GroupsFit, TypeOK
  <2>2. QED
    BY <1>1, <1>3, <1>4, <1>6, <2>1
<1>12. PhasesInOrder'
  BY <1>1 DEF PhasesInOrder
<1>13. ASSUME NEW k \in Key
       PROVE  TaskCounts(k)'
  <2>1. task[k] = "waiting"
    BY <1>1 DEF PhasesInOrder
  <2>2. /\ TaskCounts(k) /\ done[k] \in 0..N /\ off[k] \in 0..N
        /\ Len(groups'[k]) \in Nat
    BY <1>6 DEF TypeOK
  <2>3. QED
    BY <1>1, <2>1, <2>2 DEF TaskCounts
<1>14. QED
  BY <1>7, <1>10, <1>11, <1>12, <1>13

\* The steps that leave the groups alone keep what is known of them.
LEMMA GroupsKept ==
  ASSUME IInv, UNCHANGED <<dests, next, groups>>
  PROVE  GroupsInOrder' /\ GroupsFit' /\ Mapped' = Mapped
BY DEF IInv, GroupsInOrder, GroupsFit, Mapped

LEMMA GroupDiesIInv ==
  ASSUME SplitCdbAssumption, IInv, GroupDies
  PROVE  IInv'
<1> USE DEF IInv
<1>1. /\ phase = "grouping" /\ phase' \in {"aborted", "crashed"}
      /\ UNCHANGED <<dests, next, groups, task, done, off, files, cancelled, lost>>
  BY DEF GroupDies
<1>2. GroupsInOrder' /\ GroupsFit' /\ Mapped' = Mapped
  BY <1>1, GroupsKept
<1>3. TypeOK'
  BY <1>1 DEF TypeOK, Ended
<1>4. PhasesInOrder'
  BY <1>1 DEF PhasesInOrder, Running
<1>5. \A k \in Key : TaskCounts(k)'
  BY <1>1, <1>2 DEF TaskCounts
<1>6. QED
  BY <1>2, <1>3, <1>4, <1>5

LEMMA StartWritingIInv ==
  ASSUME SplitCdbAssumption, IInv, StartWriting
  PROVE  IInv'
<1> USE DEF IInv
<1>1. /\ phase = "grouping" /\ phase' = "writing" /\ next = N + 1
      /\ UNCHANGED <<dests, next, groups, task, done, off, files, cancelled, lost>>
  BY DEF StartWriting, TypeOK, SplitCdbAssumption
<1>2. GroupsInOrder' /\ GroupsFit' /\ Mapped' = Mapped
  BY <1>1, GroupsKept
<1>3. TypeOK'
  BY <1>1 DEF TypeOK
<1>4. PhasesInOrder'
  BY <1>1 DEF PhasesInOrder
<1>5. \A k \in Key : TaskCounts(k)'
  BY <1>1, <1>2 DEF TaskCounts
<1>6. QED
  BY <1>2, <1>3, <1>4, <1>5

LEMMA EndIInv ==
  ASSUME IInv, Return \/ Rethrow \/ \E k \in Key : OpenFails(k)
  PROVE  IInv'
<1> USE DEF IInv
<1>1. /\ phase = "writing"
      /\ phase' \in Ended
      /\ phase' = "finished" => ~cancelled /\ \A k \in Mapped : task[k] = "closed"
      /\ phase' = "aborted" => Running = {}
      /\ UNCHANGED <<dests, next, groups, task, done, off, files, cancelled, lost>>
  BY DEF Return, Rethrow, OpenFails, Ended
<1>2. GroupsInOrder' /\ GroupsFit' /\ Mapped' = Mapped /\ Running' = Running
  BY <1>1, GroupsKept DEF Running
<1>3. TypeOK'
  BY <1>1 DEF TypeOK
<1>4. PhasesInOrder'
  BY <1>1, <1>2 DEF PhasesInOrder, Ended
<1>5. \A k \in Key : TaskCounts(k)'
  BY <1>1, <1>2 DEF TaskCounts
<1>6. QED
  BY <1>2, <1>3, <1>4, <1>5

(***************************************************************************)
(* A step of one task: what it must show of its own key is enough.         *)
(***************************************************************************)
LEMMA TaskStep ==
  ASSUME IInv, NEW k \in Key,
         phase = "writing",
         UNCHANGED <<dests, phase, next, groups>>,
         cancelled => cancelled',
         \A j \in Key \ {k} : /\ task'[j] = task[j]
                              /\ done'[j] = done[j]
                              /\ off'[j] = off[j]
                              /\ j \in lost' <=> j \in lost,
         TypeOK', TaskCounts(k)'
  PROVE  IInv'
<1> USE DEF IInv
<1>1. GroupsInOrder' /\ GroupsFit' /\ Mapped' = Mapped
  BY GroupsKept
<1>2. PhasesInOrder'
  BY DEF PhasesInOrder
<1>3. ASSUME NEW j \in Key \ {k}
      PROVE  TaskCounts(j)'
  BY <1>1, <1>3 DEF TaskCounts
<1>4. QED
  BY <1>1, <1>2, <1>3

LEMMA StartIInv ==
  ASSUME IInv, NEW k \in Key, CreateDirectories(k) \/ CreateDirectoriesThrows(k)
  PROVE  IInv'
<1> USE DEF IInv
<1>1. /\ phase = "writing" /\ k \in Mapped /\ task[k] = "waiting"
      /\ cancelled => cancelled'
      /\ \/ task' = [task EXCEPT ![k] = "ready"] /\ cancelled' = cancelled
         \/ task' = [task EXCEPT ![k] = "failed"] /\ cancelled' = TRUE
      /\ UNCHANGED <<dests, phase, next, groups, done, off, files, lost>>
  BY DEF CreateDirectories, CreateDirectoriesThrows, Starts
<1>2. TypeOK'
  BY <1>1 DEF TypeOK, TaskState
<1>3. Mapped' = Mapped
  BY <1>1 DEF Mapped
<1>4. TaskCounts(k)'
  BY <1>1, <1>3 DEF TaskCounts, TypeOK
<1>5. \A j \in Key \ {k} : task'[j] = task[j]
  BY <1>1 DEF TypeOK
<1>6. QED
  BY <1>1, <1>2, <1>4, <1>5, TaskStep

LEMMA OpenIInv ==
  ASSUME SplitCdbAssumption, IInv, NEW k \in Key, Open(k)
  PROVE  IInv'
<1> USE DEF IInv
<1>1. /\ phase = "writing" /\ task[k] = "ready"
      /\ task' = [task EXCEPT ![k] = "open"]
      /\ files' = [files EXCEPT ![At[k]] = <<>>]
      /\ UNCHANGED <<dests, phase, next, groups, done, off, cancelled, lost>>
  BY DEF Open
<1>2. TypeOK'
  <2>1. <<>> \in Seq(Command \cup {Hole}) /\ At[k] \in Dir
    BY DEF SplitCdbAssumption
  <2>2. files' \in [Dir -> Seq(Command \cup {Hole})]
    BY <1>1, <2>1 DEF TypeOK
  <2>3. QED
    BY <1>1, <2>2 DEF TypeOK, TaskState
<1>3. Mapped' = Mapped
  BY <1>1 DEF Mapped
<1>4. TaskCounts(k)'
  BY <1>1, <1>3 DEF TaskCounts, TypeOK
<1>5. \A j \in Key \ {k} : task'[j] = task[j]
  BY <1>1 DEF TypeOK
<1>6. QED
  BY <1>1, <1>2, <1>4, <1>5, TaskStep

LEMMA AcceptsFacts ==
  ASSUME SplitCdbAssumption, IInv, NEW k \in Key, Accepts(k)
  PROVE  /\ phase = "writing" /\ task[k] = "open"
         /\ groups[k] \in Seq(Command) /\ Len(groups[k]) \in Nat
         /\ done[k] \in Nat /\ off[k] \in Nat
         /\ off[k] <= done[k] /\ done[k] + 1 <= Len(groups[k])
         /\ done[k] + 1 \in 0..N /\ off[k] + 1 \in 0..N
         /\ groups[k][done[k] + 1] \in Command
         /\ k \notin lost => off[k] = done[k]
<1> USE DEF IInv
<1>1. /\ phase = "writing" /\ task[k] = "open" /\ done[k] < Len(groups[k])
      /\ groups[k] \in Seq(Command) /\ Len(groups[k]) \in Nat
      /\ done[k] \in Nat /\ off[k] \in Nat
      /\ next \in 1..(N + 1) /\ Len(groups[k]) < next /\ N \in Nat
  BY DEF Accepts, TypeOK, GroupsFit, SplitCdbAssumption
<1>2. off[k] <= done[k] /\ (k \notin lost => off[k] = done[k])
  BY DEF TaskCounts
<1>3. groups[k][done[k] + 1] \in Command
  BY <1>1
<1>4. QED
  BY <1>1, <1>2, <1>3

LEMMA WriteIInv ==
  ASSUME SplitCdbAssumption, IInv, NEW k \in Key, WriteCommand(k)
  PROVE  IInv'
<1> USE DEF IInv
<1> DEFINE w == Written(files[At[k]], off[k], groups[k][done[k] + 1])
<1>1. /\ Accepts(k)
      /\ files' = [files EXCEPT ![At[k]] = w]
      /\ done' = [done EXCEPT ![k] = done[k] + 1]
      /\ off' = [off EXCEPT ![k] = off[k] + 1]
      /\ UNCHANGED <<dests, phase, next, groups, task, cancelled, lost>>
  BY DEF WriteCommand
<1>2. /\ phase = "writing" /\ task[k] = "open"
      /\ Len(groups[k]) \in Nat
      /\ done[k] \in Nat /\ off[k] \in Nat
      /\ off[k] <= done[k] /\ done[k] + 1 <= Len(groups[k])
      /\ done[k] + 1 \in 0..N /\ off[k] + 1 \in 0..N
      /\ groups[k][done[k] + 1] \in Command
      /\ k \notin lost => off[k] = done[k]
  BY <1>1, AcceptsFacts
<1>3. At[k] \in Dir /\ files[At[k]] \in Seq(Command \cup {Hole})
  BY DEF TypeOK, SplitCdbAssumption
<1>4. w \in Seq(Command \cup {Hole})
  BY <1>2, <1>3, WrittenIsFile
<1> HIDE DEF w
<1>5. TypeOK'
  BY <1>1, <1>2, <1>3, <1>4 DEF TypeOK
<1>6. /\ done'[k] = done[k] + 1 /\ off'[k] = off[k] + 1
      /\ \A j \in Key \ {k} : done'[j] = done[j] /\ off'[j] = off[j]
  BY <1>1 DEF TypeOK
<1>7. Mapped' = Mapped
  BY <1>1 DEF Mapped
<1>8. TaskCounts(k)
  OBVIOUS
<1>9. TaskCounts(k)'
  BY <1>1, <1>2, <1>6, <1>7, <1>8 DEF TaskCounts
<1>10. QED
  BY <1>1, <1>2, <1>5, <1>6, <1>9, TaskStep

LEMMA LoseIInv ==
  ASSUME SplitCdbAssumption, IInv, NEW k \in Key, LoseCommand(k)
  PROVE  IInv'
<1> USE DEF IInv
<1>1. /\ Accepts(k)
      /\ done' = [done EXCEPT ![k] = done[k] + 1]
      /\ lost' = lost \cup {k}
      /\ UNCHANGED <<dests, phase, next, groups, task, off, files, cancelled>>
  BY DEF LoseCommand
<1>2. /\ phase = "writing" /\ task[k] = "open"
      /\ Len(groups[k]) \in Nat
      /\ done[k] \in Nat /\ off[k] \in Nat
      /\ off[k] <= done[k] /\ done[k] + 1 <= Len(groups[k])
      /\ done[k] + 1 \in 0..N
  BY <1>1, AcceptsFacts
<1>3. TypeOK'
  BY <1>1, <1>2 DEF TypeOK
<1>4. /\ done'[k] = done[k] + 1
      /\ \A j \in Key \ {k} : done'[j] = done[j]
  BY <1>1 DEF TypeOK
<1>5. Mapped' = Mapped
  BY <1>1 DEF Mapped
<1>6. TaskCounts(k)
  OBVIOUS
<1>7. TaskCounts(k)'
  BY <1>1, <1>2, <1>4, <1>5, <1>6 DEF TaskCounts
<1>8. QED
  BY <1>1, <1>2, <1>3, <1>4, <1>7, TaskStep

LEMMA CloseIInv ==
  ASSUME IInv, NEW k \in Key, Close(k)
  PROVE  IInv'
<1> USE DEF IInv
<1>1. /\ phase = "writing" /\ task[k] = "open" /\ done[k] = Len(groups[k])
      /\ task' = [task EXCEPT ![k] = "closed"]
      /\ UNCHANGED <<dests, phase, next, groups, done, off, files, cancelled, lost>>
  BY DEF Close
<1>2. TypeOK'
  BY <1>1 DEF TypeOK, TaskState
<1>3. Mapped' = Mapped
  BY <1>1 DEF Mapped
<1>4. TaskCounts(k)'
  BY <1>1, <1>3 DEF TaskCounts, TypeOK
<1>5. \A j \in Key \ {k} : task'[j] = task[j]
  BY <1>1 DEF TypeOK
<1>6. QED
  BY <1>1, <1>2, <1>4, <1>5, TaskStep

LEMMA StutterIInv ==
  ASSUME IInv, UNCHANGED vars
  PROVE  IInv'
BY DEF IInv, vars, TypeOK, GroupsInOrder, GroupsFit, PhasesInOrder, Mapped, Running,
       TaskCounts

LEMMA NextIInv ==
  ASSUME SplitCdbAssumption, IInv, [Next]_vars
  PROVE  IInv'
<1>1. ASSUME NEW k \in Key, Task(k)
      PROVE  IInv'
  <2>1. CASE CreateDirectories(k) \/ CreateDirectoriesThrows(k)
    BY <2>1, StartIInv
  <2>2. CASE Open(k)
    BY <2>2, OpenIInv
  <2>3. CASE OpenFails(k)
    BY <2>3, EndIInv
  <2>4. CASE WriteCommand(k)
    BY <2>4, WriteIInv
  <2>5. CASE LoseCommand(k)
    BY <2>5, LoseIInv
  <2>6. CASE Close(k)
    BY <2>6, CloseIInv
  <2>7. QED
    BY <1>1, <2>1, <2>2, <2>3, <2>4, <2>5, <2>6 DEF Task
<1>2. CASE Group
  BY <1>2, GroupIInv
<1>3. CASE StartWriting \/ GroupDies
  BY <1>3, StartWritingIInv, GroupDiesIInv
<1>4. CASE Return \/ Rethrow
  BY <1>4, EndIInv
<1>5. CASE UNCHANGED vars
  BY <1>5, StutterIInv
<1>6. QED
  BY <1>1, <1>2, <1>3, <1>4, <1>5 DEF Next

\* The invariant is inductive, so it holds in every reachable state.
THEOREM InvariantHolds == Spec => []IInv
<1>1. Init => IInv
  BY SplitCdbAssumption, InitIInv
<1>2. IInv /\ [Next]_vars => IInv'
  BY SplitCdbAssumption, NextIInv
<1>3. QED
  BY <1>1, <1>2, PTL DEF Spec

\* Type correctness: no counter of a task passes the number of commands.
THEOREM TypeCorrect == Spec => []TypeOK
BY InvariantHolds, PTL DEF IInv

\* The grouping loop (commands.cpp:245-305) puts every command in exactly one
\* group, that of its key, and keeps the order of the database.
THEOREM GroupsCorrect == Spec => []GroupsInOrder
BY InvariantHolds, PTL DEF IInv

(***************************************************************************)
(* What the files hold, when no two keys name the same directory.          *)
(***************************************************************************)
LEMMA OthersDoNotMix ==
  ASSUME SplitCdbAssumption, NoAlias, TypeOK, TasksDoNotMix, NEW k \in Key,
         UNCHANGED groups,
         \A d \in Dir \ {At[k]} : files'[d] = files[d],
         \A j \in Key \ {k} : /\ task'[j] = task[j]
                              /\ done'[j] = done[j]
                              /\ j \in lost' <=> j \in lost,
         FileIsWritten(k)'
  PROVE  TasksDoNotMix'
<1>1. ASSUME NEW j \in Key \ {k}
      PROVE  FileIsWritten(j)'
  <2>1. At[j] \in Dir \ {At[k]}
    BY DEF NoAlias, SplitCdbAssumption
  <2>2. FileIsWritten(j)
    BY DEF TasksDoNotMix
  <2>3. QED
    BY <2>1, <2>2 DEF FileIsWritten
<1>2. QED
  BY <1>1 DEF TasksDoNotMix

LEMMA WriteDoesNotMix ==
  ASSUME SplitCdbAssumption, NoAlias, IInv, TasksDoNotMix, NEW k \in Key, WriteCommand(k)
  PROVE  TasksDoNotMix'
<1> USE DEF IInv
<1> DEFINE w == Written(files[At[k]], off[k], groups[k][done[k] + 1])
<1>1. /\ Accepts(k)
      /\ files' = [files EXCEPT ![At[k]] = w]
      /\ done' = [done EXCEPT ![k] = done[k] + 1]
      /\ UNCHANGED <<groups, task, lost>>
  BY DEF WriteCommand
<1>2. /\ task[k] = "open"
      /\ groups[k] \in Seq(Command) /\ Len(groups[k]) \in Nat
      /\ done[k] \in Nat /\ done[k] + 1 <= Len(groups[k])
      /\ k \notin lost => off[k] = done[k]
  BY <1>1, AcceptsFacts
<1>3. ASSUME k \notin lost
      PROVE  w = SubSeq(groups[k], 1, done[k] + 1)
  <2>1. files[At[k]] = SubSeq(groups[k], 1, done[k])
    BY <1>2, <1>3 DEF TasksDoNotMix, FileIsWritten
  <2>2. done[k] \in 0..(Len(groups[k]) - 1)
    BY <1>2
  <2>3. Written(SubSeq(groups[k], 1, done[k]), done[k], groups[k][done[k] + 1])
          = SubSeq(groups[k], 1, done[k] + 1)
    BY <1>2, <2>2, WrittenAtEnd
  <2>4. QED
    BY <1>2, <1>3, <2>1, <2>3
<1> HIDE DEF w
<1>4. /\ done'[k] = done[k] + 1 /\ files'[At[k]] = w
      /\ \A j \in Key \ {k} : done'[j] = done[j]
      /\ \A d \in Dir \ {At[k]} : files'[d] = files[d]
  BY <1>1 DEF TypeOK, SplitCdbAssumption
<1>5. FileIsWritten(k)'
  BY <1>1, <1>3, <1>4 DEF FileIsWritten
<1>6. QED
  BY <1>1, <1>4, <1>5, OthersDoNotMix

LEMMA OpenDoesNotMix ==
  ASSUME SplitCdbAssumption, NoAlias, IInv, TasksDoNotMix, NEW k \in Key, Open(k)
  PROVE  TasksDoNotMix'
<1> USE DEF IInv
<1>1. /\ task[k] = "ready"
      /\ task' = [task EXCEPT ![k] = "open"]
      /\ files' = [files EXCEPT ![At[k]] = <<>>]
      /\ UNCHANGED <<groups, done, lost>>
  BY DEF Open
<1>2. /\ files'[At[k]] = <<>>
      /\ \A j \in Key \ {k} : task'[j] = task[j]
      /\ \A d \in Dir \ {At[k]} : files'[d] = files[d]
  BY <1>1 DEF TypeOK, SplitCdbAssumption
<1>3. done[k] = 0 /\ SubSeq(groups[k], 1, 0) = <<>>
  BY <1>1 DEF TaskCounts
<1>4. FileIsWritten(k)'
  BY <1>1, <1>2, <1>3 DEF FileIsWritten
<1>5. QED
  BY <1>1, <1>2, <1>4, OthersDoNotMix

LEMMA NextDoesNotMix ==
  ASSUME SplitCdbAssumption, NoAlias, IInv, TasksDoNotMix, [Next]_vars
  PROVE  TasksDoNotMix'
<1> USE DEF IInv
<1>1. CASE Group
  <2>1. \A k \in Key : task[k] = "waiting" /\ task'[k] = "waiting"
    BY <1>1 DEF Group, PhasesInOrder
  <2>2. QED
    BY <2>1 DEF TasksDoNotMix, FileIsWritten
<1>2. CASE GroupDies \/ StartWriting \/ Return \/ Rethrow \/ UNCHANGED vars
  BY <1>2 DEF GroupDies, StartWriting, Return, Rethrow, vars, TasksDoNotMix, FileIsWritten
<1>3. ASSUME NEW k \in Key, Task(k)
      PROVE  TasksDoNotMix'
  <2>1. CASE OpenFails(k)
    BY <2>1 DEF OpenFails, TasksDoNotMix, FileIsWritten
  <2>2. CASE Open(k)
    BY <2>2, OpenDoesNotMix
  <2>3. CASE WriteCommand(k)
    BY <2>3, WriteDoesNotMix
  <2>4. CASE CreateDirectories(k) \/ CreateDirectoriesThrows(k)
    <3>1. /\ \A j \in Key \ {k} : task'[j] = task[j]
          /\ task'[k] \in {"ready", "failed"}
          /\ UNCHANGED <<groups, done, files, lost>>
      BY <2>4 DEF CreateDirectories, CreateDirectoriesThrows, TypeOK
    <3>2. FileIsWritten(k)'
      BY <3>1 DEF FileIsWritten
    <3>3. QED
      BY <3>1, <3>2, OthersDoNotMix
  <2>5. CASE LoseCommand(k)
    <3>1. /\ \A j \in Key \ {k} : done'[j] = done[j]
          /\ lost' = lost \cup {k}
          /\ UNCHANGED <<groups, task, files>>
      BY <2>5 DEF LoseCommand, TypeOK
    <3>2. FileIsWritten(k)'
      BY <3>1 DEF FileIsWritten
    <3>3. QED
      BY <3>1, <3>2, OthersDoNotMix
  <2>6. CASE Close(k)
    <3>1. /\ task[k] = "open"
          /\ \A j \in Key \ {k} : task'[j] = task[j]
          /\ UNCHANGED <<groups, done, files, lost>>
      BY <2>6 DEF Close, TypeOK
    <3>2. FileIsWritten(k)'
      BY <3>1 DEF TasksDoNotMix, FileIsWritten
    <3>3. QED
      BY <3>1, <3>2, OthersDoNotMix
  <2>7. QED
    BY <1>3, <2>1, <2>2, <2>3, <2>4, <2>5, <2>6 DEF Task
<1>4. QED
  BY <1>1, <1>2, <1>3 DEF Next

\* The parallel tasks (commands.cpp:308-325) never touch each other's files
\* if no two keys of commands_map name the same directory.
THEOREM TasksSeparate ==
  ASSUME NoAlias
  PROVE  Spec => []TasksDoNotMix
<1>1. Init => TasksDoNotMix
  BY SplitCdbAssumption, InitIInv
<1>2. TasksDoNotMix /\ IInv /\ [Next]_vars => TasksDoNotMix'
  BY SplitCdbAssumption, NoAlias, NextDoesNotMix
<1>3. QED
  BY <1>1, <1>2, InvariantHolds, PTL DEF Spec

LEMMA ClosedFile ==
  ASSUME IInv, TasksDoNotMix, NEW k \in Key, task[k] = "closed", k \notin lost
  PROVE  files[At[k]] = groups[k]
<1>1. /\ done[k] = Len(groups[k]) /\ groups[k] \in Seq(Command)
      /\ files[At[k]] = SubSeq(groups[k], 1, done[k])
  BY DEF IInv, TypeOK, TaskCounts, TasksDoNotMix, FileIsWritten
<1>2. SubSeq(groups[k], 1, Len(groups[k])) = groups[k]
  BY <1>1
<1>3. QED
  BY <1>1, <1>2

LEMMA GroupsAreFull ==
  ASSUME SplitCdbAssumption, IInv, phase \in {"writing", "finished"}, NEW k \in Key
  PROVE  /\ ToSet(groups[k]) = {c \in Command : dests[c] = k}
         /\ k \in Mapped <=> \E c \in Command : dests[c] = k
<1>1. next = N + 1 /\ 1..(next - 1) = Command
  BY DEF IInv, PhasesInOrder, SplitCdbAssumption, Command
<1>2. ToSet(groups[k]) = {c \in Command : dests[c] = k}
  BY <1>1 DEF IInv, GroupsInOrder
<1>3. groups[k] \in Seq(Command)
  BY DEF IInv, TypeOK
<1>4. ToSet(groups[k]) = {} <=> groups[k] = <<>>
  <2>1. ASSUME groups[k] = <<>>
        PROVE  ToSet(groups[k]) = {}
    BY <2>1 DEF ToSet
  <2>2. ASSUME groups[k] # <<>>
        PROVE  groups[k][1] \in ToSet(groups[k])
    <3>1. 1 \in DOMAIN groups[k]
      BY <1>3, <2>2
    <3>2. QED
      BY <3>1 DEF ToSet
  <2>3. QED
    BY <2>1, <2>2
<1>5. QED
  BY <1>2, <1>4 DEF Mapped

\* What is in a file was written by a task that has opened it.
FilesHaveTasks ==
  \A d \in Dir : files[d] # <<>> =>
    \E k \in Key : At[k] = d /\ task[k] \in {"open", "closed"}

LEMMA NextFilesHaveTasks ==
  ASSUME SplitCdbAssumption, IInv, FilesHaveTasks, [Next]_vars
  PROVE  FilesHaveTasks'
<1> USE DEF IInv
<1>1. CASE Group \/ GroupDies \/ StartWriting \/ Return \/ Rethrow \/ UNCHANGED vars
  BY <1>1 DEF Group, GroupDies, StartWriting, Return, Rethrow, vars, FilesHaveTasks
<1>2. ASSUME NEW k \in Key, Task(k)
      PROVE  FilesHaveTasks'
  <2>1. CASE OpenFails(k) \/ LoseCommand(k)
    BY <2>1 DEF OpenFails, LoseCommand, FilesHaveTasks
  <2>2. CASE CreateDirectories(k) \/ CreateDirectoriesThrows(k)
    <3>1. /\ task[k] = "waiting" /\ files' = files
          /\ \A j \in Key \ {k} : task'[j] = task[j]
      BY <2>2 DEF CreateDirectories, CreateDirectoriesThrows, Starts, TypeOK
    <3>2. QED
      BY <3>1 DEF FilesHaveTasks
  <2>3. CASE Open(k)
    <3>1. /\ task'[k] = "open" /\ \A j \in Key \ {k} : task'[j] = task[j]
          /\ files'[At[k]] = <<>> /\ \A d \in Dir \ {At[k]} : files'[d] = files[d]
      BY <2>3 DEF Open, TypeOK, SplitCdbAssumption
    <3>2. QED
      BY <3>1 DEF FilesHaveTasks
  <2>4. CASE WriteCommand(k)
    <3>1. /\ task[k] = "open" /\ task' = task
          /\ \A d \in Dir \ {At[k]} : files'[d] = files[d]
      BY <2>4 DEF WriteCommand, Accepts, TypeOK
    <3>2. QED
      BY <3>1 DEF FilesHaveTasks
  <2>5. CASE Close(k)
    <3>1. /\ task'[k] = "closed" /\ files' = files
          /\ \A j \in Key \ {k} : task'[j] = task[j]
      BY <2>5 DEF Close, TypeOK
    <3>2. QED
      BY <3>1 DEF FilesHaveTasks
  <2>6. QED
    BY <1>2, <2>1, <2>2, <2>3, <2>4, <2>5 DEF Task
<1>3. QED
  BY <1>1, <1>2 DEF Next

\* The FILE of a task stands at the end of its file, which has commands of the
\* task's own group, also when writes to it were lost.
FileIsOwn(k) ==
  task[k] \in {"open", "closed"} =>
    /\ Len(files[At[k]]) = off[k]
    /\ ToSet(files[At[k]]) \subseteq ToSet(groups[k])

FilesOwn == \A k \in Key : FileIsOwn(k)

(***************************************************************************)
(* One write at the end of a file, seen as an Append.                      *)
(***************************************************************************)
LEMMA WrittenAppends ==
  ASSUME NEW f \in Seq(Command \cup {Hole}), NEW c \in Command
  PROVE  Written(f, Len(f), c) = Append(f, c)
<1> DEFINE n == Len(f)
           h == Append(f, c)
<1>1. /\ n \in Nat /\ h \in Seq(Command \cup {Hole}) /\ Len(h) = n + 1
      /\ h[n + 1] = c /\ \A i \in 1..n : h[i] = f[i]
  OBVIOUS
<1> HIDE DEF h
<1>2. Written(f, n, c) =
        [i \in 1..(n + 1) |-> IF i = n + 1 THEN c ELSE IF i <= n THEN f[i] ELSE Hole]
  BY <1>1 DEF Written
<1>3. \A i \in 1..(n + 1) : (IF i = n + 1 THEN c ELSE IF i <= n THEN f[i] ELSE Hole) = h[i]
  BY <1>1
<1>4. h = [i \in 1..(n + 1) |-> h[i]]
  BY <1>1
<1>5. QED
  BY <1>2, <1>3, <1>4 DEF h

LEMMA NextFilesOwn ==
  ASSUME SplitCdbAssumption, NoAlias, IInv, FilesOwn, [Next]_vars
  PROVE  FilesOwn'
<1> USE DEF IInv
<1>1. CASE Group
  <2>1. \A k \in Key : task'[k] = "waiting"
    BY <1>1 DEF Group, PhasesInOrder
  <2>2. QED
    BY <2>1 DEF FilesOwn, FileIsOwn
<1>2. CASE GroupDies \/ StartWriting \/ Return \/ Rethrow \/ UNCHANGED vars
  BY <1>2 DEF GroupDies, StartWriting, Return, Rethrow, vars, FilesOwn, FileIsOwn
<1>3. ASSUME NEW k \in Key, Task(k), FileIsOwn(k)',
             \A j \in Key \ {k} : task'[j] = task[j] /\ off'[j] = off[j],
             \A d \in Dir \ {At[k]} : files'[d] = files[d]
      PROVE  FilesOwn'
  <2>1. groups' = groups
    BY <1>3 DEF Task, CreateDirectories, CreateDirectoriesThrows, Open, OpenFails, WriteCommand,
       LoseCommand, Close
  <2>2. ASSUME NEW j \in Key \ {k}
        PROVE  FileIsOwn(j)'
    <3>1. At[j] \in Dir \ {At[k]}
      BY DEF NoAlias, SplitCdbAssumption
    <3>2. QED
      BY <1>3, <2>1, <3>1 DEF FilesOwn, FileIsOwn
  <2>3. QED
    BY <1>3, <2>2 DEF FilesOwn
<1>4. ASSUME NEW k \in Key, Task(k)
      PROVE  FilesOwn'
  <2>1. CASE OpenFails(k) \/ LoseCommand(k)
    BY <2>1 DEF OpenFails, LoseCommand, FilesOwn, FileIsOwn
  <2>2. CASE CreateDirectories(k) \/ CreateDirectoriesThrows(k)
    <3>1. /\ UNCHANGED <<off, files>> /\ task'[k] \in {"ready", "failed"}
          /\ \A j \in Key \ {k} : task'[j] = task[j]
      BY <2>2 DEF CreateDirectories, CreateDirectoriesThrows, TypeOK
    <3>2. FileIsOwn(k)'
      BY <3>1 DEF FileIsOwn
    <3>3. QED
      BY <1>3, <1>4, <3>1, <3>2
  <2>3. CASE Open(k)
    <3>1. /\ files'[At[k]] = <<>> /\ \A d \in Dir \ {At[k]} : files'[d] = files[d]
          /\ task[k] = "ready" /\ \A j \in Key \ {k} : task'[j] = task[j]
          /\ UNCHANGED off
      BY <2>3 DEF Open, TypeOK, SplitCdbAssumption
    <3>2. off[k] = 0
      BY <3>1 DEF TaskCounts, TypeOK
    <3>3. Len(<<>>) = 0 /\ ToSet(<<>>) = {}
      BY DEF ToSet
    <3>4. FileIsOwn(k)'
      BY <3>1, <3>2, <3>3 DEF FileIsOwn
    <3>5. QED
      BY <1>3, <1>4, <3>1, <3>4
  <2>4. CASE WriteCommand(k)
    <3> DEFINE f == files[At[k]]
               c == groups[k][done[k] + 1]
    <3>1. /\ task[k] = "open" /\ UNCHANGED <<task, groups>> /\ Accepts(k)
          /\ files'[At[k]] = Written(f, off[k], c)
          /\ \A d \in Dir \ {At[k]} : files'[d] = files[d]
          /\ off'[k] = off[k] + 1 /\ \A j \in Key \ {k} : off'[j] = off[j]
      BY <2>4 DEF WriteCommand, Accepts, TypeOK, SplitCdbAssumption
    <3>2. f \in Seq(Command \cup {Hole}) /\ Len(f) = off[k] /\ ToSet(f) \subseteq ToSet(groups[k])
      BY <3>1 DEF FilesOwn, FileIsOwn, TypeOK, SplitCdbAssumption
    <3>3. c \in Command /\ c \in ToSet(groups[k])
      BY <3>1, AcceptsFacts DEF ToSet
    <3> HIDE DEF f, c
    <3>4. files'[At[k]] = Append(f, c)
      BY <3>1, <3>2, <3>3, WrittenAppends
    <3>5. Len(Append(f, c)) = Len(f) + 1 /\ ToSet(Append(f, c)) = ToSet(f) \cup {c}
      BY <3>2, <3>3, AppendFacts
    <3>6. FileIsOwn(k)'
      BY <3>1, <3>2, <3>3, <3>4, <3>5 DEF FileIsOwn
    <3>7. QED
      BY <1>3, <1>4, <3>1, <3>6
  <2>5. CASE Close(k)
    <3>1. /\ task[k] = "open" /\ UNCHANGED <<groups, off, files>>
          /\ \A j \in Key \ {k} : task'[j] = task[j]
      BY <2>5 DEF Close, TypeOK
    <3>2. FileIsOwn(k)'
      BY <3>1 DEF FilesOwn, FileIsOwn
    <3>3. QED
      BY <1>3, <1>4, <3>1, <3>2
  <2>6. QED
    BY <1>4, <2>1, <2>2, <2>3, <2>4, <2>5 DEF Task
<1>5. QED
  BY <1>1, <1>2, <1>4 DEF Next

(***************************************************************************)
(* What a file is worth in each phase.                                     *)
(***************************************************************************)
LEMMA FileWhole ==
  ASSUME SplitCdbAssumption, NoAlias, IInv, TasksDoNotMix, FilesHaveTasks, FilesOwn
  PROVE  NoTornFile
<1> SUFFICES ASSUME NEW k \in Key
             PROVE  LET file == files[At[k]] IN
                      /\ ToSet(file) \subseteq ToSet(groups[k])
                      /\ k \notin lost =>
                           /\ IsPrefix(file, groups[k])
                           /\ phase = "aborted" => file \in {<<>>, groups[k]}
                           /\ phase = "finished" => file = groups[k]
  BY DEF NoTornFile
<1> DEFINE g == groups[k]
<1>1. g \in Seq(Command) /\ TaskCounts(k)
  BY DEF IInv, TypeOK
<1>2. CASE task[k] \notin {"open", "closed"}
  <2>1. files[At[k]] = <<>>
    BY <1>2 DEF FilesHaveTasks, NoAlias, SplitCdbAssumption
  <2>2. ToSet(<<>>) = {} /\ IsPrefix(<<>>, g)
    BY <1>1 DEF ToSet, IsPrefix
  <2>3. phase = "finished" => g = <<>>
    BY <1>2 DEF IInv, PhasesInOrder, Mapped
  <2>4. QED
    BY <2>1, <2>2, <2>3
<1>3. CASE task[k] \in {"open", "closed"}
  <2>1. ToSet(files[At[k]]) \subseteq ToSet(g)
    BY <1>3 DEF FilesOwn, FileIsOwn
  <2>2. phase \in {"aborted", "finished"} => task[k] = "closed"
    BY <1>1, <1>3 DEF IInv, PhasesInOrder, Running, TaskCounts
  <2>3. k \notin lost /\ task[k] = "closed" => files[At[k]] = g
    BY ClosedFile
  <2>4. ASSUME k \notin lost
        PROVE  IsPrefix(files[At[k]], g)
    <3>1. done[k] \in 0..Len(g) /\ files[At[k]] = SubSeq(g, 1, done[k])
      BY <1>1, <1>3, <2>4 DEF IInv, TypeOK, TaskCounts, TasksDoNotMix, FileIsWritten
    <3>2. Len(SubSeq(g, 1, done[k])) = done[k]
      BY <1>1, <3>1
    <3>3. SubSeq(SubSeq(g, 1, done[k]), 1, done[k]) = SubSeq(g, 1, done[k])
      BY <1>1, <3>1
    <3>4. QED
      BY <1>1, <3>1, <3>2, <3>3 DEF IsPrefix
  <2>5. QED
    BY <2>1, <2>2, <2>3, <2>4
<1>4. QED
  BY <1>2, <1>3

\* If no two keys name one directory, each file is at any time a beginning of
\* what belongs in it, whole or empty when an exception ended the program and
\* whole when it finished; a lost write excuses its own file alone
\* (commands.cpp:308-325).
THEOREM FilesNotTorn ==
  ASSUME NoAlias
  PROVE  Spec => []NoTornFile
<1>1. Init => FilesHaveTasks /\ FilesOwn
  BY SplitCdbAssumption DEF Init, FilesHaveTasks, FilesOwn, FileIsOwn
<1>2. FilesHaveTasks /\ FilesOwn /\ IInv /\ [Next]_vars => FilesHaveTasks' /\ FilesOwn'
  BY SplitCdbAssumption, NoAlias, NextFilesHaveTasks, NextFilesOwn
<1>3. IInv /\ TasksDoNotMix /\ FilesHaveTasks /\ FilesOwn => NoTornFile
  BY SplitCdbAssumption, NoAlias, FileWhole
<1>4. QED
  BY <1>1, <1>2, <1>3, InvariantHolds, TasksSeparate, NoAlias, PTL DEF Spec

\* When a run has finished, the folders with a command are those of its key.
LEMMA FolderOfCommand ==
  ASSUME SplitCdbAssumption, NoAlias, IInv, TasksDoNotMix, FilesHaveTasks,
         phase = "finished", lost = {}, NEW c \in Command, NEW k \in Key
  PROVE  c \in ToSet(files[At[k]]) <=> dests[c] = k
<1>1. CASE k \in Mapped
  <2>1. task[k] = "closed"
    BY <1>1 DEF IInv, PhasesInOrder
  <2>2. files[At[k]] = groups[k]
    BY <2>1, ClosedFile
  <2>3. QED
    BY <2>2, GroupsAreFull
<1>2. CASE k \notin Mapped
  <2>1. dests[c] # k
    BY <1>2, GroupsAreFull
  <2>2. task[k] = "waiting"
    BY <1>2 DEF IInv, TaskCounts
  <2>3. files[At[k]] = <<>>
    BY <2>2 DEF FilesHaveTasks, NoAlias, SplitCdbAssumption
  <2>4. QED
    BY <2>1, <2>3 DEF ToSet
<1>3. QED
  BY <1>1, <1>2

\* A run that finishes, and none of whose writes failed, has put every command
\* into the file of its folder, if no two keys name the same directory.
THEOREM OutputIsComplete ==
  ASSUME NoAlias
  PROVE  Spec => []EveryCommandIsOutput
<1>1. IInv /\ TasksDoNotMix => EveryCommandIsOutput
  <2> SUFFICES ASSUME IInv, TasksDoNotMix, phase = "finished", lost = {},
                      NEW c \in Command
               PROVE  c \in ToSet(files[At[dests[c]]])
    BY DEF EveryCommandIsOutput
  <2> DEFINE k == dests[c]
  <2>1. k \in Key
    BY DEF IInv, TypeOK
  <2>2. c \in ToSet(groups[k]) /\ k \in Mapped
    BY <2>1, GroupsAreFull, SplitCdbAssumption
  <2>3. task[k] = "closed"
    BY <2>2 DEF IInv, PhasesInOrder
  <2>4. files[At[k]] = groups[k]
    BY <2>1, <2>3, ClosedFile
  <2>5. QED
    BY <2>2, <2>4
<1>2. QED
  BY <1>1, InvariantHolds, TasksSeparate, NoAlias, PTL

(***************************************************************************)
(* The refinement.                                                         *)
(***************************************************************************)
Outputs == [k \in Key |-> Output(k)]

LEMMA OutputsKept ==
  ASSUME \A k \in Key : Output(k)' = Output(k)
  PROVE  Outputs' = Outputs
BY DEF Outputs

LEMMA TaskImplements ==
  ASSUME SplitCdbAssumption, NoAlias, IInv, TasksDoNotMix, NEW k \in Key, Task(k)
  PROVE  [Split!Next]_Split!vars
<1> USE DEF IInv
<1>1. CASE OpenFails(k)
  <2>1. /\ phase = "writing" /\ phase' = "crashed"
        /\ UNCHANGED <<dests, task, files, lost>>
    BY <1>1 DEF OpenFails
  <2>2. Outputs' = Outputs
    BY <2>1 DEF Outputs, Output
  <2>3. Split!Die
    BY <2>1, <2>2 DEF Split!Die, Outputs, Ended
  <2>4. QED
    BY <2>3 DEF Split!Next
<1>2. CASE Close(k)
  <2>1. /\ phase = "writing" /\ task[k] = "open" /\ done[k] = Len(groups[k])
        /\ task' = [task EXCEPT ![k] = "closed"]
        /\ UNCHANGED <<dests, phase, groups, done, files, lost>>
    BY <1>2 DEF Close
  <2>2. k \in Mapped /\ groups[k] \in Seq(Command)
    BY <2>1 DEF TypeOK, TaskCounts
  <2>3. /\ \E c \in Command : dests[c] = k
        /\ ToSet(groups[k]) = {c \in Command : dests[c] = k}
    BY <2>1, <2>2, GroupsAreFull
  <2>4. k \notin lost => files[At[k]] = groups[k]
    <3>1. k \notin lost => files[At[k]] = SubSeq(groups[k], 1, Len(groups[k]))
      BY <2>1 DEF TasksDoNotMix, FileIsWritten
    <3>2. SubSeq(groups[k], 1, Len(groups[k])) = groups[k]
      BY <2>2
    <3>3. QED
      BY <3>1, <3>2
  <2>5. Outputs' = [Outputs EXCEPT ![k] =
           IF k \in lost THEN Split!Damaged
           ELSE Split!Complete({c \in Command : dests[c] = k})]
    BY <2>1, <2>3, <2>4 DEF Outputs, Output, TypeOK, Split!Damaged, Split!Complete
  <2>6. Outputs[k] = Split!Missing
    BY <2>1 DEF Outputs, Output, Split!Missing
  <2>7. Split!Write(k)
    BY <2>1, <2>3, <2>5, <2>6 DEF Split!Write, Split!Needed, Outputs, Ended
  <2>8. QED
    BY <2>7 DEF Split!Next
<1>3. CASE CreateDirectories(k) \/ CreateDirectoriesThrows(k) \/ Open(k)
             \/ WriteCommand(k) \/ LoseCommand(k)
  <2>1. /\ phase' = phase /\ dests' = dests
        /\ task[k] # "closed" /\ task'[k] # "closed"
    BY <1>3 DEF CreateDirectories, CreateDirectoriesThrows, Starts, Open, Accepts,
                WriteCommand, LoseCommand, TypeOK
  <2>2. \A j \in Key \ {k} : /\ task'[j] = task[j]
                             /\ j \in lost' <=> j \in lost
                             /\ files'[At[j]] = files[At[j]]
    <3>1. \A j \in Key \ {k} : At[j] \in Dir /\ At[j] # At[k]
      BY DEF NoAlias, SplitCdbAssumption
    <3>2. QED
      BY <1>3, <3>1 DEF CreateDirectories, CreateDirectoriesThrows, Open,
                        WriteCommand, LoseCommand, TypeOK
  <2>3. Outputs' = Outputs
    <3>1. Output(k)' = Output(k)
      BY <2>1 DEF Output
    <3>2. \A j \in Key \ {k} : Output(j)' = Output(j)
      BY <2>2 DEF Output
    <3>3. QED
      BY <3>1, <3>2, OutputsKept
  <2>4. QED
    BY <2>1, <2>3 DEF Split!vars, Outputs
<1>4. QED
  BY <1>1, <1>2, <1>3 DEF Task

\* The grouping loop and the parallel tasks implement the abstract
\* distribution of the commands over the output folders: the safety half of
\* ImplementsDistribution.
THEOREM SplitImplementsDistribution ==
  ASSUME NoAlias
  PROVE  Spec => Split!Safety
<1>1. Init => Split!Init
  BY DEF Init, Ended, Output, Split!Init, Split!Missing
<1>2. ASSUME IInv, TasksDoNotMix, [Next]_vars
      PROVE  [Split!Next]_Split!vars
  <2>1. ASSUME NEW k \in Key, Task(k)
        PROVE  [Split!Next]_Split!vars
    BY <1>2, <2>1, SplitCdbAssumption, NoAlias, TaskImplements
  <2>2. CASE Group \/ StartWriting \/ UNCHANGED vars
    <3>1. /\ UNCHANGED <<dests, task, files, lost>>
          /\ phase' = phase \/ (phase = "grouping" /\ phase' = "writing")
      BY <2>2 DEF Group, StartWriting, vars
    <3>2. Outputs' = Outputs
      BY <3>1 DEF Outputs, Output
    <3>3. QED
      BY <3>1, <3>2 DEF Split!vars, Outputs, Ended
  <2>3. CASE Return
    <3>1. /\ phase = "writing" /\ phase' = "finished"
          /\ \A k \in Mapped : task[k] = "closed"
          /\ UNCHANGED <<dests, task, files, lost>>
      BY <2>3 DEF Return
    <3>2. Outputs' = Outputs
      BY <3>1 DEF Outputs, Output
    <3>3. ASSUME NEW c \in Command
          PROVE  Outputs[dests[c]] # Split!Missing
      <4>1. dests[c] \in Key /\ dests[c] \in Mapped
        BY <1>2, <3>1, GroupsAreFull, SplitCdbAssumption DEF IInv, TypeOK
      <4>2. Outputs[dests[c]].state # "missing"
        BY <3>1, <4>1 DEF Outputs, Output
      <4>3. QED
        BY <4>2 DEF Split!Missing
    <3>4. Split!Finish
      BY <3>1, <3>2, <3>3 DEF Split!Finish, Split!Needed, Outputs, Ended
    <3>5. QED
      BY <3>4 DEF Split!Next
  <2>4. CASE Rethrow
    <3>1. /\ phase = "writing" /\ phase' = "aborted"
          /\ UNCHANGED <<dests, task, files, lost>>
      BY <2>4 DEF Rethrow
    <3>2. Outputs' = Outputs
      BY <3>1 DEF Outputs, Output
    <3>3. Split!Die
      BY <3>1, <3>2 DEF Split!Die, Outputs, Ended
    <3>4. QED
      BY <3>3 DEF Split!Next
  <2>5. CASE GroupDies
    <3>1. /\ phase = "grouping" /\ phase' \in {"aborted", "crashed"}
          /\ UNCHANGED <<dests, task, files, lost>>
      BY <2>5 DEF GroupDies
    <3>2. Outputs' = Outputs
      BY <3>1 DEF Outputs, Output
    <3>3. Split!Die
      BY <3>1, <3>2 DEF Split!Die, Outputs, Ended
    <3>4. QED
      BY <3>3 DEF Split!Next
  <2>6. QED
    BY <1>2, <2>1, <2>2, <2>3, <2>4, <2>5 DEF Next
<1>3. QED
  BY <1>1, <1>2, InvariantHolds, TasksSeparate, NoAlias, PTL DEF Spec, Split!Safety
=============================================================================
