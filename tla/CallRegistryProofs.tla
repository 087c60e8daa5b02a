------------------------- MODULE CallRegistryProofs -------------------------
(***************************************************************************)
(* Proofs about the call registry, for any number of call ids, threads,    *)
(* records and messages.  The type invariant and the uniqueness of ids are *)
(* proved together with what files, flush counts and deletions must keep,  *)
(* since a lookup only has a well-defined result when ids are unique, and  *)
(* a restart only restores unique ids when files agree with their records. *)
(***************************************************************************)
EXTENDS CallRegistry, FiniteSetTheorems, WellFoundedInduction, TLAPS

\* Files name births that have happened.
FilesBorn == \A f \in writes \union disk : f.birth \in 1 .. born

\* A record is written once, and only after its persisted flag is set.
FlushCounts ==
  \A b \in Births : /\ b > born => flushes[b] = 0
                    /\ flushes[b] = 0 \/ (flushes[b] = 1 /\ rec[b].persisted)

\* A birth names one file of the directory.
OneFile == \A f, g \in disk : f.birth = g.birth => f = g

\* A flush only holds a record that exists and that no deletion has regarded
\* as out of its hands.
PickedSound ==
  \A b \in Births : picked[b] > 0 => b <= born /\ b \notin gone \ raced

IInv ==
  /\ TypeOK
  /\ UniqueIds
  /\ FilesBorn
  /\ FilesFinished
  /\ FlushCounts
  /\ GoneStaysGone
  /\ PickedSound
  /\ OneFile

-----------------------------------------------------------------------------
LEMMA DeriveType ==
  ASSUME NEW m \in Message
  PROVE  DeriveState(m) \in CallState
BY DEF DeriveState, CallState, Live, Terminal, Message

LEMMA ApplyType ==
  ASSUME NEW m \in Message, NEW s \in CallState
  PROVE  ApplyState(s, m) \in CallState
BY DeriveType DEF ApplyState

\* A message that leaves a record in an end state either ended the call or
\* found it there.
LEMMA ApplyEnds ==
  ASSUME NEW m, NEW s, ApplyState(s, m) \in Terminal
  PROVE  Ends(s, m) \/ ApplyState(s, m) = s
BY DEF ApplyState, Ends

\* What a message says of the end of a call is what the record shows: a past
\* state stays, or comes about, unless the message says that the call failed.
LEMMA ApplyPast ==
  ASSUME NEW m, NEW s, DeriveState(m) \in Past \/ (s \in Past /\ DeriveState(m) # "Failed")
  PROVE  ApplyState(s, m) \in Past
BY DEF ApplyState, Ignored, Past, Terminal

\* With unique ids, a lookup that finds anything finds the one record.
LEMMA FirstFound ==
  ASSUME TypeOK, UniqueIds, NEW i, Found(i) # {}
  PROVE  First(Found(i)) \in Found(i)
<1>1. PICK b \in Found(i) : TRUE
  OBVIOUS
<1>2. \A c \in Found(i) : c = b
  BY <1>1 DEF Found, UniqueIds
<1>3. b \in Nat
  BY <1>1 DEF Found, TypeOK
<1>4. \E d \in Found(i) : \A c \in Found(i) : c <= d
  BY <1>1, <1>2, <1>3
<1> QED
  BY <1>4 DEF First

\* What get_or_create returns and changes.
LEMMA GetOrCreateFacts ==
  ASSUME IInv, NEW i \in CallIds, NEW b \in Births, GetOrCreate(i, b)
  PROVE  /\ born' \in 0 .. MaxBirths /\ born <= born'
         /\ b \in 1 .. born'
         /\ rec' \in [Births -> Record]
         /\ \A c \in Births : c <= born => rec'[c] = rec[c]
         /\ \A c \in Births : c <= born' => rec'[c].id \in CallIds
         /\ calls' \subseteq calls \union {b}
         /\ calls' \subseteq 1 .. born'
         /\ \/ /\ UNCHANGED <<born, rec, calls>> /\ b <= born
            \/ /\ Found(i) = {} /\ b = born + 1 /\ born' = b
               /\ rec'[b] = [id |-> i, state |-> "None", persisted |-> FALSE]
<1> USE RegistryAssumption DEF IInv
<1>1. CASE Found(i) # {} /\ b = First(Found(i)) /\ UNCHANGED <<born, rec, calls>>
  <2>1. b \in calls
    BY <1>1, FirstFound DEF Found
  <2> QED
    BY <1>1, <2>1 DEF TypeOK, Births
<1>2. CASE /\ Found(i) = {} /\ b = born + 1 /\ b \in Births /\ born' = b
           /\ rec' = [rec EXCEPT ![b] = [id |-> i, state |-> "None", persisted |-> FALSE]]
           /\ calls' = (calls \union {b}) \ Evicted(calls \union {b})
  <2>1. [id |-> i, state |-> "None", persisted |-> FALSE] \in Record
    BY DEF Record, CallState
  <2>2. rec' \in [Births -> Record]
    BY <1>2, <2>1 DEF TypeOK
  <2>3. born' \in 0 .. MaxBirths /\ born <= born' /\ b \in 1 .. born'
    BY <1>2 DEF TypeOK, Births
  <2>4. \A c \in Births : c <= born => rec'[c] = rec[c]
    BY <1>2, <2>3 DEF TypeOK, Births
  <2>5. \A c \in Births : c <= born' => rec'[c].id \in CallIds
    BY <1>2, <2>3, <2>4 DEF TypeOK, Births
  <2>6. calls' \subseteq calls \union {b}
    BY <1>2
  <2>7. calls' \subseteq 1 .. born'
    BY <2>3, <2>6 DEF TypeOK
  <2>8. rec'[b] = [id |-> i, state |-> "None", persisted |-> FALSE]
    BY <1>2 DEF TypeOK
  <2> QED
    BY <1>2, <2>2, <2>3, <2>4, <2>5, <2>6, <2>7, <2>8
<1> QED
  BY <1>1, <1>2 DEF GetOrCreate
-----------------------------------------------------------------------------
LEMMA InitIInv == Init => IInv
<1> USE RegistryAssumption
<1> SUFFICES ASSUME Init PROVE IInv
  OBVIOUS
<1>1. TypeOK
  BY DEF Init, TypeOK, Record, CallState, Births, Nobody
<1>2. /\ UniqueIds /\ FilesBorn /\ FilesFinished /\ FlushCounts /\ GoneStaysGone
      /\ PickedSound /\ OneFile
  BY DEF Init, OneFile, UniqueIds, FilesBorn, FilesFinished, FlushCounts, GoneStaysGone,
         PickedSound, Births
<1> QED
  BY <1>1, <1>2 DEF IInv

\* Getting or creating a record keeps everything but the type of the
\* variables it leaves alone, which each action adds.
LEMMA GetOrCreateInv ==
  ASSUME IInv, NEW i \in CallIds, NEW b \in Births, GetOrCreate(i, b),
         UNCHANGED <<picked, writes, disk, flushes, hist>>
  PROVE  /\ UniqueIds' /\ FilesBorn' /\ FilesFinished'
         /\ FlushCounts' /\ GoneStaysGone' /\ PickedSound' /\ OneFile'
<1>0. UNCHANGED <<picked, writes, disk, flushes, gone, raced>>
  BY DEF hist
<1>a. /\ TypeOK /\ UniqueIds /\ FilesBorn /\ FilesFinished /\ FlushCounts
      /\ GoneStaysGone /\ PickedSound /\ OneFile
  BY DEF IInv
<1>b. born \in Nat /\ MaxBirths \in Nat /\ Births = 1 .. MaxBirths /\ born <= MaxBirths
  BY <1>a, RegistryAssumption DEF TypeOK, Births
<1>c. \/ UNCHANGED <<born, rec, calls>>
      \/ /\ Found(i) = {} /\ b = born + 1 /\ born' = b
         /\ rec'[b] = [id |-> i, state |-> "None", persisted |-> FALSE]
  BY GetOrCreateFacts
<1>d. /\ born' \in Nat /\ born <= born'
      /\ \A c \in Births : c <= born => rec'[c] = rec[c]
      /\ calls' \subseteq calls \union {b}
  <2>1. born' \in Nat /\ born <= born'
    BY <1>b, <1>c
  <2>2. \A c \in Births : c <= born => rec'[c] = rec[c]
    BY GetOrCreateFacts
  <2>3. calls' \subseteq calls \union {b}
    BY GetOrCreateFacts
  <2> QED
    BY <2>1, <2>2, <2>3
<1>e. calls \subseteq 1 .. born
  BY <1>a DEF TypeOK
<1>1. UniqueIds'
  <2> SUFFICES ASSUME NEW c \in calls', NEW d \in calls', rec'[c].id = rec'[d].id
               PROVE  c = d
    BY DEF UniqueIds
  <2>1. CASE UNCHANGED <<born, rec, calls>>
    BY <1>a, <2>1 DEF UniqueIds
  <2>2. CASE /\ Found(i) = {} /\ b = born + 1 /\ born' = b
             /\ rec'[b] = [id |-> i, state |-> "None", persisted |-> FALSE]
    <3>1. \A e \in calls : rec'[e] = rec[e] /\ rec[e].id # i
      BY <2>2, <1>b, <1>d, <1>e DEF Found
    <3>2. c \in calls \union {b} /\ d \in calls \union {b}
      BY <1>d
    <3>3. rec'[b].id = i
      BY <2>2
    <3> QED
      BY <1>a, <3>1, <3>2, <3>3 DEF UniqueIds
  <2> QED
    BY <1>c, <2>1, <2>2
<1>2. FilesBorn'
  BY <1>0, <1>a, <1>b, <1>d DEF FilesBorn
<1>3. FilesFinished'
  <2> SUFFICES ASSUME NEW f \in writes \union disk
               PROVE  f.state \in Terminal /\ rec'[f.birth].id = f.id
    BY <1>0 DEF FilesFinished
  <2>1. f.birth \in Births /\ f.birth <= born
    BY <1>a, <1>b DEF FilesBorn
  <2> QED
    BY <1>a, <1>d, <2>1 DEF FilesFinished
<1>4. FlushCounts'
  <2> SUFFICES ASSUME NEW c \in Births
               PROVE  /\ c > born' => flushes[c] = 0
                      /\ flushes[c] = 0 \/ (flushes[c] = 1 /\ rec'[c].persisted)
    BY <1>0 DEF FlushCounts
  <2>1. born \in Nat /\ c \in Nat /\ born' \in Nat /\ born <= born'
    BY <1>b, <1>d
  <2>2. c > born \/ rec'[c] = rec[c]
    BY <1>d, <2>1
  <2> QED
    BY <1>a, <2>1, <2>2 DEF FlushCounts
<1>5. GoneStaysGone'
  <2> SUFFICES ASSUME NEW c \in gone \ raced
               PROVE  c \notin calls' /\ \A f \in writes \union disk : f.birth # c
    BY <1>0 DEF GoneStaysGone
  <2>1. c \notin calls /\ c \in 1 .. born
    BY <1>a DEF GoneStaysGone, TypeOK
  <2>2. calls' = calls \/ b = born + 1
    BY <1>c
  <2>3. c \notin calls'
    BY <1>b, <1>d, <2>1, <2>2
  <2> QED
    BY <1>a, <2>3 DEF GoneStaysGone
<1>6. PickedSound'
  BY <1>0, <1>a, <1>b, <1>d DEF PickedSound
<1>7. OneFile'
  BY <1>0, <1>a DEF OneFile
<1> QED
  BY <1>1, <1>2, <1>3, <1>4, <1>5, <1>6, <1>7
-----------------------------------------------------------------------------
\* The facts about the type of the variables that the steps below cite.
LEMMA Typing ==
  ASSUME IInv
  PROVE  /\ TypeOK /\ UniqueIds /\ FilesBorn /\ FilesFinished /\ FlushCounts
         /\ GoneStaysGone /\ PickedSound /\ OneFile
         /\ born \in Nat /\ MaxBirths \in Nat /\ born <= MaxBirths
         /\ Births = 1 .. MaxBirths /\ 1 .. born \subseteq Births
         /\ \A b \in 1 .. born : rec[b].id \in CallIds
BY RegistryAssumption DEF IInv, TypeOK, Births

LEMMA LookupInv ==
  ASSUME IInv, NEW w \in Workers, NEW i \in CallIds, NEW m \in Messages,
         Lookup(w, i, m)
  PROVE  IInv'
<1>1. PICK b \in Births : /\ GetOrCreate(i, b)
                          /\ held' = [held EXCEPT ![w] = [birth |-> b, msg |-> m]]
  BY DEF Lookup
<1>2. UNCHANGED <<task, timers, picked, writes, disk, flushes, hist, ends>>
  BY DEF Lookup
<1>3. /\ UniqueIds' /\ FilesBorn' /\ FilesFinished' /\ FlushCounts' /\ GoneStaysGone'
      /\ PickedSound' /\ OneFile'
  BY <1>1, <1>2, GetOrCreateInv
<1>4. TypeOK'
  <2>1. /\ born' \in 0 .. MaxBirths /\ born <= born' /\ b \in 1 .. born'
        /\ rec' \in [Births -> Record] /\ calls' \subseteq 1 .. born'
        /\ \A c \in Births : c <= born' => rec'[c].id \in CallIds
    BY <1>1, GetOrCreateFacts
  <2>2. 1 .. born \subseteq 1 .. born' /\ 0 .. born \subseteq 0 .. born'
    BY <2>1, Typing
  <2>3. held' \in [Workers -> {Idle} \union [birth : 1 .. born', msg : Messages]]
    BY <1>1, <2>1, <2>2, Typing DEF TypeOK
  <2> QED
    BY <1>2, <2>1, <2>2, <2>3, Typing DEF TypeOK, hist, ends
<1> QED
  BY <1>3, <1>4 DEF IInv

LEMMA OpenTaskInv ==
  ASSUME IInv, NEW i \in CallIds, OpenTask(i)
  PROVE  IInv'
<1>1. PICK b \in Births : GetOrCreate(i, b) /\ task' = [task EXCEPT ![i] = b]
  BY DEF OpenTask
<1>2. UNCHANGED <<held, timers, picked, writes, disk, flushes, hist, ends>>
  BY DEF OpenTask
<1>3. /\ UniqueIds' /\ FilesBorn' /\ FilesFinished' /\ FlushCounts' /\ GoneStaysGone'
      /\ PickedSound' /\ OneFile'
  BY <1>1, <1>2, GetOrCreateInv
<1>4. TypeOK'
  <2>1. /\ born' \in 0 .. MaxBirths /\ born <= born' /\ b \in 1 .. born'
        /\ rec' \in [Births -> Record] /\ calls' \subseteq 1 .. born'
        /\ \A c \in Births : c <= born' => rec'[c].id \in CallIds
    BY <1>1, GetOrCreateFacts
  <2>2. 1 .. born \subseteq 1 .. born' /\ 0 .. born \subseteq 0 .. born'
    BY <2>1, Typing
  <2>3. task' \in [CallIds -> 0 .. born']
    BY <1>1, <2>1, <2>2, Typing DEF TypeOK
  <2>4. held' \in [Workers -> {Idle} \union [birth : 1 .. born', msg : Messages]]
    BY <1>2, <2>2, Typing DEF TypeOK
  <2> QED
    BY <1>2, <2>1, <2>2, <2>3, <2>4, Typing DEF TypeOK, hist, ends
<1> QED
  BY <1>3, <1>4 DEF IInv

\* A step that only moves the state of one record, and possibly the
\* variables no part of the invariant but the type depends on.
LEMMA RestateInv ==
  ASSUME IInv, NEW b \in 1 .. born, NEW s \in CallState,
         rec' = [rec EXCEPT ![b].state = s],
         UNCHANGED <<born, calls, picked, writes, disk, flushes, hist>>,
         over' \in SUBSET (1 .. born), untimed' \in SUBSET (1 .. born),
         held' \in [Workers -> {Idle} \union [birth : 1 .. born, msg : Messages]],
         task' \in [CallIds -> 0 .. born],
         timers' \in [CallIds -> 0 .. MaxTimers]
  PROVE  IInv'
<1>1. b \in Births /\ rec \in [Births -> Record]
  BY Typing DEF TypeOK
<1>2. rec' \in [Births -> Record]
  BY <1>1 DEF Record
<1>3. \A c \in Births : rec'[c].id = rec[c].id /\ rec'[c].persisted = rec[c].persisted
  BY <1>1 DEF Record
<1>4. TypeOK'
  BY <1>2, <1>3, Typing DEF TypeOK, hist
<1>5. UniqueIds'
  BY <1>3, Typing DEF UniqueIds, TypeOK
<1>6. FilesBorn' /\ GoneStaysGone' /\ PickedSound' /\ OneFile'
  BY Typing DEF FilesBorn, GoneStaysGone, PickedSound, OneFile, hist
<1>7. FilesFinished'
  <2>1. \A f \in writes \union disk : f.birth \in Births
    BY Typing DEF FilesBorn
  <2> QED
    BY <1>3, <2>1, Typing DEF FilesFinished
<1>8. FlushCounts'
  BY <1>3, Typing DEF FlushCounts
<1> QED
  BY <1>4, <1>5, <1>6, <1>7, <1>8 DEF IInv

LEMMA ApplyInv ==
  ASSUME IInv, NEW w \in Workers, Apply(w)
  PROVE  IInv'
<1> DEFINE b == held[w].birth
           m == held[w].msg
<1>1. held[w] \in [birth : 1 .. born, msg : Messages]
  BY Typing DEF Apply, TypeOK
<1>2. b \in 1 .. born /\ m \in Message
  BY <1>1, RegistryAssumption
<1>3. rec[b] \in Record
  BY <1>2, Typing DEF TypeOK
<1>4. ApplyState(rec[b].state, m) \in CallState
  BY <1>2, <1>3, ApplyType DEF Record
<1>5. rec' = [rec EXCEPT ![b].state = ApplyState(rec[b].state, m)]
  BY <1>2, Typing DEF Apply, TypeOK
<1>6. rec[b].id \in CallIds
  BY <1>2, Typing
<1>7. timers' \in [CallIds -> 0 .. MaxTimers]
  <2>1. CASE Ends(rec[b].state, m)
    <3>1. picked[b] \in Nat /\ timers[rec[b].id] \in Nat
      BY <1>2, <1>6, RegistryAssumption, Typing DEF TypeOK
    <3>2. MaxTimers \in Nat
      BY RegistryAssumption
    <3>3. timers[rec[b].id] + 1 \in 0 .. MaxTimers
      <4>1. timers[rec[b].id] + picked[b] < MaxTimers
        BY <2>1 DEF Apply
      <4> QED
        BY <3>1, <3>2, <4>1
    <3> QED
      BY <2>1, <3>3, Typing DEF Apply, TypeOK
  <2>2. CASE ~Ends(rec[b].state, m)
    BY <2>2, Typing DEF Apply, TypeOK
  <2> QED
    BY <2>1, <2>2
<1>8. held' \in [Workers -> {Idle} \union [birth : 1 .. born, msg : Messages]]
  BY Typing DEF Apply, TypeOK
<1>9. UNCHANGED <<born, calls, task, picked, writes, disk, flushes, hist>>
  BY DEF Apply
<1>10. over' \in SUBSET (1 .. born) /\ untimed' \in SUBSET (1 .. born)
  BY <1>2, Typing DEF Apply, Noted, TypeOK
<1> HIDE DEF b, m
<1>11. task' \in [CallIds -> 0 .. born]
  BY <1>9, Typing DEF TypeOK
<1> QED
  BY <1>2, <1>4, <1>5, <1>7, <1>8, <1>9, <1>10, <1>11, RestateInv

LEMMA CloseTaskInv ==
  ASSUME IInv, NEW i \in CallIds, CloseTask(i)
  PROVE  IInv'
<1>1. task[i] \in 1 .. born
  BY Typing DEF CloseTask, TypeOK, Nobody
<1>2. PICK s \in CallState : rec' = [rec EXCEPT ![task[i]].state = s]
  <2>1. CASE UNCHANGED <<rec, ends>>
    <3>1. rec[task[i]] \in Record
      BY <1>1, Typing DEF TypeOK
    <3>2. rec[task[i]].state \in CallState
      BY <3>1 DEF Record
    <3>3. rec' = [rec EXCEPT ![task[i]].state = rec[task[i]].state]
      BY <2>1, <3>1, Typing DEF TypeOK, Record
    <3> QED
      BY <3>2, <3>3
  <2>2. CASE \E t \in TaskStates : rec' = [rec EXCEPT ![task[i]].state = t]
    BY <2>2, RegistryAssumption DEF CallState
  <2> QED
    BY <2>1, <2>2 DEF CloseTask, Finish
<1>3. UNCHANGED <<born, calls, held, timers, picked, writes, disk, flushes, hist>>
  BY DEF CloseTask
<1>4. task' \in [CallIds -> 0 .. born]
  BY Typing DEF CloseTask, TypeOK, Nobody
<1>5. /\ held' \in [Workers -> {Idle} \union [birth : 1 .. born, msg : Messages]]
      /\ timers' \in [CallIds -> 0 .. MaxTimers]
  BY <1>3, Typing DEF TypeOK
<1>6. over' \in SUBSET (1 .. born) /\ untimed' \in SUBSET (1 .. born)
  BY <1>1, Typing DEF CloseTask, Finish, Noted, TypeOK, ends
<1> QED
  BY <1>1, <1>2, <1>3, <1>4, <1>5, <1>6, RestateInv

LEMMA FlushInv ==
  ASSUME IInv, NEW i \in CallIds, Flush(i)
  PROVE  IInv'
<1> DEFINE b == First(Found(i))
<1>1. UNCHANGED <<born, rec, calls, held, task, writes, disk, flushes, hist, ends>>
  BY DEF Flush
<1>2. timers' \in [CallIds -> 0 .. MaxTimers]
  <2>1. timers[i] - 1 \in 0 .. MaxTimers
    BY RegistryAssumption, Typing DEF Flush, TypeOK
  <2> QED
    BY <2>1, Typing DEF Flush, TypeOK
<1>3. /\ picked' \in [Births -> 0 .. MaxTimers]
      /\ \A c \in Births : picked'[c] = picked[c] \/ (c \in calls /\ c \in 1 .. born)
  <2>1. CASE Found(i) = {}
    BY <2>1, Typing DEF Flush, TypeOK
  <2>2. CASE Found(i) # {}
    <3>1. b \in calls
      BY <2>2, FirstFound, Typing DEF Found
    <3>2. b \in 1 .. born /\ b \in Births
      BY <3>1, Typing DEF TypeOK
    <3>3. picked' = [picked EXCEPT ![b] = @ + 1] /\ picked[b] < MaxTimers
      BY <2>2 DEF Flush
    <3> HIDE DEF b
    <3>4. picked[b] + 1 \in 0 .. MaxTimers
      BY <3>2, <3>3, RegistryAssumption, Typing DEF TypeOK
    <3> QED
      BY <3>1, <3>2, <3>3, <3>4, Typing DEF TypeOK
  <2> QED
    BY <2>1, <2>2
<1>4. TypeOK'
  BY <1>1, <1>2, <1>3, Typing DEF TypeOK, hist, ends
<1>5. UniqueIds' /\ FilesBorn' /\ FilesFinished' /\ FlushCounts' /\ GoneStaysGone'
  BY <1>1, Typing
     DEF UniqueIds, FilesBorn, FilesFinished, FlushCounts, GoneStaysGone, hist
<1>6. PickedSound' /\ OneFile'
  BY <1>1, <1>3, Typing DEF PickedSound, OneFile, GoneStaysGone, hist
<1> QED
  BY <1>4, <1>5, <1>6 DEF IInv

\* Letting go of the record leaves what is held of the others as it was.
LEMMA PersistInv ==
  ASSUME IInv, NEW b \in Births, Persist(b)
  PROVE  IInv'
<1>1. UNCHANGED <<born, calls, held, task, timers, disk, hist, over>>
  BY DEF Persist
<1>2. /\ b \in 1 .. born /\ rec[b] \in Record /\ b \notin gone \ raced
  BY Typing DEF Persist, PickedSound, TypeOK
<1>3. /\ picked' \in [Births -> 0 .. MaxTimers]
      /\ \A c \in Births : picked'[c] > 0 => picked[c] > 0
  <2>1. picked[b] - 1 \in 0 .. MaxTimers
    BY RegistryAssumption, Typing DEF Persist, TypeOK
  <2>2. picked' = [picked EXCEPT ![b] = @ - 1] /\ picked[b] > 0
    BY DEF Persist
  <2> QED
    BY <2>1, <2>2, Typing DEF TypeOK
<1>4. PickedSound' /\ OneFile'
  BY <1>1, <1>3, Typing DEF PickedSound, OneFile, hist
<1>5. CASE UNCHANGED <<rec, writes, flushes, untimed>>
  <2>1. TypeOK'
    BY <1>1, <1>3, <1>5, Typing DEF TypeOK, hist
  <2>2. UniqueIds' /\ FilesBorn' /\ FilesFinished' /\ FlushCounts' /\ GoneStaysGone'
    BY <1>1, <1>5, Typing
       DEF UniqueIds, FilesBorn, FilesFinished, FlushCounts, GoneStaysGone, hist
  <2> QED
    BY <1>4, <2>1, <2>2 DEF IInv
<1>6. CASE /\ ~rec[b].persisted /\ rec[b].state \in Terminal
           /\ rec' = [rec EXCEPT ![b].persisted = TRUE]
           /\ writes' = writes \union
                          {[birth |-> b, id |-> rec[b].id, state |-> rec[b].state]}
           /\ flushes' = [flushes EXCEPT ![b] = @ + 1]
           /\ untimed' = untimed \ {b}
  <2>1. rec' \in [Births -> Record]
    BY <1>2, <1>6, Typing DEF TypeOK, Record
  <2>2. /\ \A c \in Births : rec'[c].id = rec[c].id
        /\ \A c \in Births : rec[c].persisted => rec'[c].persisted
        /\ rec'[b].persisted
    BY <1>2, <1>6, Typing DEF TypeOK, Record
  <2>3. [birth |-> b, id |-> rec[b].id, state |-> rec[b].state] \in File
    BY <1>2, Typing DEF File, Record
  <2>4. TypeOK'
    <3>1. flushes' \in [Births -> Nat]
      BY <1>6, Typing DEF TypeOK
    <3>2. writes' \subseteq File
      BY <1>6, <2>3, Typing DEF TypeOK
    <3>3. untimed' \subseteq 1 .. born
      BY <1>6, Typing DEF TypeOK
    <3> QED
      BY <1>1, <1>3, <2>1, <2>2, <3>1, <3>2, <3>3, Typing DEF TypeOK, hist
  <2>5. UniqueIds'
    BY <1>1, <2>2, Typing DEF UniqueIds, TypeOK
  <2>6. FilesBorn'
    BY <1>1, <1>2, <1>6, Typing DEF FilesBorn
  <2>7. FilesFinished'
    <3>1. \A f \in writes \union disk : f.birth \in Births
      BY Typing DEF FilesBorn
    <3>2. \A f \in writes \union disk : f.state \in Terminal /\ rec'[f.birth].id = f.id
      BY <2>2, <3>1, Typing DEF FilesFinished
    <3> QED
      BY <1>1, <1>6, <2>2, <3>2 DEF FilesFinished
  <2>8. FlushCounts'
    <3>1. flushes[b] = 0
      BY <1>6, Typing DEF FlushCounts
    <3>2. flushes'[b] = 1 /\ \A c \in Births : c # b => flushes'[c] = flushes[c]
      BY <1>6, <3>1, Typing DEF TypeOK
    <3>3. ~(b > born)
      BY <1>2, Typing
    <3> QED
      BY <1>1, <2>2, <3>2, <3>3, Typing DEF FlushCounts
  <2>9. GoneStaysGone'
    BY <1>1, <1>2, <1>6, Typing DEF GoneStaysGone, hist
  <2> QED
    BY <1>4, <2>4, <2>5, <2>6, <2>7, <2>8, <2>9 DEF IInv
<1> QED
  BY <1>5, <1>6 DEF Persist, Due

\* Steps that only touch what is being written and what has been.
LEMMA FilesInv ==
  ASSUME IInv,
         UNCHANGED <<born, rec, calls, held, task, timers, picked, flushes, hist, ends>>,
         writes' \subseteq writes, disk' \subseteq writes \union disk, OneFile'
  PROVE  IInv'
<1>1. TypeOK'
  BY Typing DEF TypeOK, hist, ends
<1>2. /\ UniqueIds' /\ FilesBorn' /\ FilesFinished' /\ FlushCounts' /\ GoneStaysGone'
      /\ PickedSound'
  BY Typing DEF UniqueIds, FilesBorn, FilesFinished, FlushCounts, GoneStaysGone,
                PickedSound, hist
<1> QED
  BY <1>1, <1>2 DEF IInv

\* A deletion of the births in S from the registry and, unless they are being
\* flushed, from the disk.
LEMMA ForgetInv ==
  ASSUME IInv, UNCHANGED <<born, rec, held, task, timers, picked, writes, flushes, ends>>,
         calls' \subseteq calls, disk' \subseteq disk,
         NEW S \in SUBSET (1 .. born), Forget(S),
         \A b \in S : b \notin calls' /\ \A f \in disk' : f.birth # b
  PROVE  IInv'
<1>1. /\ gone' = gone \union S /\ raced' = raced \union (S \intersect InFlight)
  BY DEF Forget
<1>2. TypeOK'
  BY <1>1, Typing DEF TypeOK, ends
<1>3. UniqueIds' /\ FilesBorn' /\ FilesFinished' /\ FlushCounts'
  BY Typing DEF UniqueIds, FilesBorn, FilesFinished, FlushCounts
<1>4. GoneStaysGone'
  <2> SUFFICES ASSUME NEW b \in gone' \ raced'
               PROVE  b \notin calls' /\ \A f \in writes \union disk' : f.birth # b
    BY DEF GoneStaysGone
  <2>1. CASE b \in gone \ raced
    BY <2>1, Typing DEF GoneStaysGone
  <2>2. CASE b \in S \ InFlight
    BY <2>2 DEF InFlight
  <2> QED
    BY <1>1, <2>1, <2>2
<1>5. OneFile'
  BY Typing DEF OneFile
<1>6. PickedSound'
  <2>1. \A b \in S \ InFlight : b \in Births /\ ~(picked[b] > 0)
    BY Typing DEF InFlight
  <2> QED
    BY <1>1, <2>1, Typing DEF PickedSound
<1> QED
  BY <1>2, <1>3, <1>4, <1>5, <1>6 DEF IInv

LEMMA RemoveInv ==
  ASSUME IInv, NEW i \in CallIds, Remove(i)
  PROVE  IInv'
<1>1. /\ UNCHANGED <<born, rec, held, task, timers, picked, writes, flushes, ends>>
      /\ calls' = calls \ Found(i)
  BY DEF Remove, Spared
<1>2. CASE i \in ShortIds
  <2>1. UNCHANGED <<disk, hist>>
    BY <1>2 DEF Remove, Spared
  <2>2. Forget({})
    BY <2>1 DEF Forget, hist
  <2> QED
    BY <1>1, <2>1, <2>2, ForgetInv
<1>3. CASE i \notin ShortIds
  <2> DEFINE S == {b \in 1 .. born : rec[b].id = i}
  <2>1. Forget(S) /\ disk' = {f \in disk : f.id \notin Covers[i]}
    BY <1>3 DEF Remove, Spared
  <2>2. \A b \in S : b \notin calls' /\ \A f \in disk' : f.birth # b
    <3> SUFFICES ASSUME NEW b \in S
                 PROVE  b \notin calls' /\ \A f \in disk' : f.birth # b
      OBVIOUS
    <3>1. b \notin calls'
      BY <1>1 DEF Found
    <3>2. ASSUME NEW f \in disk', f.birth = b
          PROVE  FALSE
      <4>1. f \in disk /\ f.id = i
        BY <2>1, <3>2, Typing DEF FilesFinished
      <4> QED
        BY <2>1, <4>1, RegistryAssumption
    <3> QED
      BY <3>1, <3>2
  <2>3. S \in SUBSET (1 .. born)
    OBVIOUS
  <2> HIDE DEF S
  <2> QED
    BY <1>1, <2>1, <2>2, <2>3, ForgetInv
<1> QED
  BY <1>2, <1>3

LEMMA ClearInv ==
  ASSUME IInv, Clear
  PROVE  IInv'
BY ForgetInv DEF Clear
LEMMA RestartInv ==
  ASSUME IInv, Restart
  PROVE  IInv'
<1> DEFINE L == Loaded(disk)
           N == Newest(disk)
<1>0. N \subseteq disk /\ L \subseteq N
      /\ \A f, g \in L : f.id = g.id => g.birth <= f.birth
  <2>1. N \subseteq disk
    BY DEF Newest
  <2>2. L = {f \in N : \A g \in N : g.id = f.id => g.birth <= f.birth}
    BY DEF Loaded
  <2> HIDE DEF L, N
  <2> QED
    BY <2>1, <2>2
<1> HIDE DEF L, N
<1>1. /\ calls' = {f.birth : f \in L}
      /\ rec' = [b \in Births |->
                   IF \E f \in L : f.birth = b
                     THEN LET f == CHOOSE f \in L : f.birth = b
                          IN  [id |-> f.id, state |-> f.state, persisted |-> TRUE]
                     ELSE [rec[b] EXCEPT !.state = "None"]]
      /\ held' = [w \in Workers |-> Idle]
      /\ task' = [i \in CallIds |-> Nobody]
      /\ timers' = [i \in CallIds |-> 0]
      /\ picked' = [b \in Births |-> 0]
      /\ writes' = {}
      /\ over' = {f.birth : f \in {g \in L : g.state \in Past}} /\ untimed' = {}
      /\ UNCHANGED <<born, disk, flushes, hist>>
  BY DEF Restart, L
<1>2. \A f \in disk : /\ f \in File /\ f.birth \in 1 .. born /\ f.birth \in Births
                      /\ f.id \in CallIds /\ f.state \in CallState
                      /\ rec[f.birth].id = f.id
  BY Typing DEF FilesBorn, FilesFinished, TypeOK, File
<1>3. \A b \in Births : /\ rec'[b] \in Record
                        /\ rec'[b].id = rec[b].id
                        /\ rec[b].persisted => rec'[b].persisted
  <2> SUFFICES ASSUME NEW b \in Births
               PROVE  /\ rec'[b] \in Record
                      /\ rec'[b].id = rec[b].id
                      /\ rec[b].persisted => rec'[b].persisted
    OBVIOUS
  <2>1. CASE \E f \in L : f.birth = b
    <3> DEFINE f == CHOOSE f \in L : f.birth = b
    <3>1. f \in L /\ f.birth = b
      BY <2>1
    <3>2. rec'[b] = [id |-> f.id, state |-> f.state, persisted |-> TRUE]
      BY <1>1, <2>1
    <3>3. f \in disk
      BY <1>0, <3>1
    <3> HIDE DEF f
    <3> QED
      BY <1>2, <3>1, <3>2, <3>3 DEF Record
  <2>2. CASE ~\E f \in L : f.birth = b
    <3>1. rec'[b] = [rec[b] EXCEPT !.state = "None"] /\ rec[b] \in Record
      BY <1>1, <2>2, Typing DEF TypeOK
    <3> QED
      BY <3>1 DEF Record, CallState
  <2> QED
    BY <2>1, <2>2
<1>4. calls' \subseteq 1 .. born /\ over' \subseteq 1 .. born
  BY <1>0, <1>1, <1>2
<1>5. TypeOK'
  <2>1. rec' \in [Births -> Record]
    BY <1>1, <1>3
  <2>2. /\ held' \in [Workers -> {Idle} \union [birth : 1 .. born, msg : Messages]]
        /\ task' \in [CallIds -> 0 .. born] /\ timers' \in [CallIds -> 0 .. MaxTimers]
        /\ picked' \in [Births -> 0 .. MaxTimers]
    BY <1>1, RegistryAssumption, Typing DEF Nobody
  <2> QED
    BY <1>1, <1>3, <1>4, <2>1, <2>2, Typing DEF TypeOK, hist
<1>6. UniqueIds'
  <2> SUFFICES ASSUME NEW b \in calls', NEW c \in calls', rec'[b].id = rec'[c].id
               PROVE  b = c
    BY DEF UniqueIds
  <2>1. PICK f \in L : f.birth = b
    BY <1>1
  <2>2. PICK g \in L : g.birth = c
    BY <1>1
  <2>3. f.id = g.id
    BY <1>0, <1>2, <1>3, <2>1, <2>2
  <2>4. b <= c /\ c <= b /\ b \in Nat /\ c \in Nat
    BY <1>0, <1>2, <2>1, <2>2, <2>3
  <2> QED
    BY <2>4
<1>7. FilesBorn' /\ GoneStaysGone'
  <2>1. FilesBorn'
    BY <1>1, Typing DEF FilesBorn
  <2>2. \A b \in gone \ raced : b \notin calls'
    BY <1>0, <1>1, Typing DEF GoneStaysGone
  <2> QED
    BY <1>1, <2>1, <2>2, Typing DEF GoneStaysGone, hist
<1>8. FilesFinished'
  BY <1>1, <1>2, <1>3, Typing, ZenonT(60) DEF FilesFinished
<1>9. FlushCounts'
  BY <1>1, <1>3, Typing DEF FlushCounts
<1>10. PickedSound' /\ OneFile'
  BY <1>1, Typing DEF PickedSound, OneFile
<1> QED
  BY <1>5, <1>6, <1>7, <1>8, <1>9, <1>10 DEF IInv

LEMMA NextInv == IInv /\ [Next]_vars => IInv'
<1> SUFFICES ASSUME IInv, [Next]_vars PROVE IInv'
  OBVIOUS
<1>1. ASSUME NEW w \in Workers, NEW i \in CallIds, NEW m \in Messages, Lookup(w, i, m)
      PROVE  IInv'
  BY <1>1, LookupInv
<1>2. ASSUME NEW w \in Workers, Apply(w)
      PROVE  IInv'
  BY <1>2, ApplyInv
<1>3. ASSUME NEW i \in CallIds, OpenTask(i) \/ CloseTask(i) \/ Flush(i) \/ Remove(i)
      PROVE  IInv'
  BY <1>3, OpenTaskInv, CloseTaskInv, FlushInv, RemoveInv
<1>4. ASSUME NEW f \in writes, Write(f) \/ WriteFails(f)
      PROVE  IInv'
  <2>1. /\ UNCHANGED <<born, rec, calls, held, task, timers, picked, flushes, hist, ends>>
        /\ writes' \subseteq writes /\ disk' \subseteq writes \union disk
        /\ OneFile'
    BY <1>4, Typing DEF Write, WriteFails, OneFile
  <2> QED
    BY <2>1, FilesInv
<1>5. CASE Clear
  BY <1>5, ClearInv
<1>6. CASE Restart
  BY <1>6, RestartInv
<1>7. CASE UNCHANGED vars
  <2>1. UNCHANGED <<born, rec, calls, held, task, timers, picked, writes, disk, flushes,
                    hist, ends>> /\ OneFile'
    BY <1>7, Typing DEF vars, OneFile
  <2> QED
    BY <2>1, FilesInv
<1>8. ASSUME NEW b \in Births, Persist(b)
      PROVE  IInv'
  BY <1>8, PersistInv
<1> QED
  BY <1>1, <1>2, <1>3, <1>4, <1>5, <1>6, <1>7, <1>8 DEF Next

\* The inductive invariant holds of every behaviour.
LEMMA Inductive == Spec => []IInv
BY InitIInv, NextInv, PTL DEF Spec

\* The variables keep their types (Arc identities, flags, file names).
THEOREM TypeCorrect == Spec => []TypeOK
<1>1. IInv => TypeOK
  BY DEF IInv
<1> QED
  BY <1>1, Inductive, PTL

\* A Call-ID names at most one record of the registry (get_or_create,
\* load_from_dir), for any number of threads, calls, deletions and restarts.
THEOREM IdsAreUnique == Spec => []UniqueIds
<1>1. IInv => UniqueIds
  BY DEF IInv
<1> QED
  BY <1>1, Inductive, PTL

\* The JSON of a record is scheduled for writing at most once (persist_call).
THEOREM WrittenOnce == Spec => []WriteOnce
<1>1. IInv => WriteOnce
  BY DEF IInv, FlushCounts, WriteOnce
<1> QED
  BY <1>1, Inductive, PTL

\* Only finished calls reach the disk, under the id of their record.
THEOREM HistoryIsFinished == Spec => []FilesFinished
<1>1. IInv => FilesFinished
  BY DEF IInv
<1> QED
  BY <1>1, Inductive, PTL

\* A deleted call stays deleted, in the registry, the directory and after a
\* restart, unless a flush had its record in hand, from the look-up of
\* persist_call to the end of the write.
THEOREM DeletionIsFinal == Spec => []GoneStaysGone
<1>1. IInv => GoneStaysGone
  BY DEF IInv
<1> QED
  BY <1>1, Inductive, PTL

-----------------------------------------------------------------------------
\* Only the records a step names change their state.
LEMMA GetOrCreateOld ==
  ASSUME IInv, NEW i \in CallIds, NEW c \in Births, GetOrCreate(i, c), NEW b \in 1 .. born
  PROVE  rec'[b] = rec[b]
<1>1. \A d \in Births : d <= born => rec'[d] = rec[d]
  BY GetOrCreateFacts
<1> QED
  BY <1>1, Typing

\* What the history says to be over is shown as past after every step, too.
LEMMA EndedStep ==
  ASSUME IInv, EndedStaysEnded, Next
  PROVE  EndedStaysEnded'
<1>0. over \subseteq 1 .. born /\ 1 .. born \subseteq Births /\ rec \in [Births -> Record]
  BY Typing DEF TypeOK
<1>1. ASSUME UNCHANGED over, \A b \in 1 .. born : rec'[b].state = rec[b].state
      PROVE  EndedStaysEnded'
  BY <1>0, <1>1 DEF EndedStaysEnded
<1>2. ASSUME NEW i \in CallIds, NEW c \in Births, GetOrCreate(i, c), UNCHANGED ends
      PROVE  EndedStaysEnded'
  BY <1>1, <1>2, GetOrCreateOld DEF ends
<1>3. ASSUME NEW a \in 1 .. born, NEW s, NEW t,
             rec' = [rec EXCEPT ![a].state = s], over' = Noted(a, t),
             t \in Past \/ (rec[a].state \in Past /\ t # "Failed") => s \in Past
      PROVE  EndedStaysEnded'
  <2> SUFFICES ASSUME NEW b \in over' PROVE rec'[b].state \in Past
    BY DEF EndedStaysEnded
  <2>1. CASE b # a
    <3>1. b \in over
      BY <1>3, <2>1 DEF Noted
    <3>2. rec'[b] = rec[b]
      BY <1>0, <1>3, <2>1, <3>1
    <3> QED
      BY <3>1, <3>2 DEF EndedStaysEnded
  <2>2. CASE b = a
    <3>1. rec'[a].state = s
      BY <1>0, <1>3 DEF Record
    <3>2. t \in Past \/ (rec[a].state \in Past /\ t # "Failed")
      BY <1>3, <2>2 DEF Noted, EndedStaysEnded
    <3> QED
      BY <1>3, <2>2, <3>1, <3>2
  <2> QED
    BY <2>1, <2>2
<1>4. ASSUME NEW w \in Workers, Apply(w)
      PROVE  EndedStaysEnded'
  <2> DEFINE a == held[w].birth
             m == held[w].msg
  <2>1. a \in 1 .. born
    BY <1>4, Typing DEF Apply, TypeOK
  <2>2. rec' = [rec EXCEPT ![a].state = ApplyState(rec[a].state, m)]
    BY <1>0, <1>4, <2>1 DEF Apply
  <2>3. over' = Noted(a, DeriveState(m))
    BY <1>4 DEF Apply
  <2> HIDE DEF a, m
  <2> QED
    BY <1>3, <2>1, <2>2, <2>3, ApplyPast
<1>5. ASSUME NEW i \in CallIds, CloseTask(i)
      PROVE  EndedStaysEnded'
  <2>1. CASE UNCHANGED <<rec, ends>>
    BY <1>1, <2>1 DEF ends
  <2>2. ASSUME NEW s \in TaskStates, Finish(task[i], s)
        PROVE  EndedStaysEnded'
    <3>1. task[i] \in 1 .. born
      BY <1>5, Typing DEF CloseTask, TypeOK, Nobody
    <3>2. s \in Past \/ s = "Failed"
      BY RegistryAssumption DEF Terminal, Past
    <3> QED
      BY <1>3, <2>2, <3>1, <3>2 DEF Finish
  <2> QED
    BY <1>5, <2>1, <2>2 DEF CloseTask
<1>6. ASSUME NEW c \in Births, Persist(c)
      PROVE  EndedStaysEnded'
  <2>1. \A b \in 1 .. born : rec'[b].state = rec[b].state
    <3>1. CASE UNCHANGED rec
      BY <3>1
    <3>2. CASE rec' = [rec EXCEPT ![c].persisted = TRUE]
      BY <1>0, <3>2 DEF Record
    <3> QED
      BY <1>6, <3>1, <3>2 DEF Persist
  <2> QED
    BY <1>1, <1>6, <2>1 DEF Persist
<1>7. CASE Restart
  <2> SUFFICES ASSUME NEW b \in over' PROVE rec'[b].state \in Past
    BY DEF EndedStaysEnded
  <2>1. PICK f \in Loaded(disk) : f.birth = b /\ f.state \in Past
    BY <1>7 DEF Restart
  <2> DEFINE g == CHOOSE h \in Loaded(disk) : h.birth = b
  <2>2. g \in Loaded(disk) /\ g.birth = b
    BY <2>1
  <2>3. f.id = rec[b].id /\ g.id = rec[b].id /\ b \in Births
    BY <2>1, <2>2, Typing DEF FilesFinished, FilesBorn, Loaded, Newest
  <2>4. rec'[b].state = g.state
    BY <1>7, <2>1, <2>3 DEF Restart
  <2> HIDE DEF g
  <2>5. f = g
    BY <2>1, <2>2, Typing DEF OneFile, Loaded, Newest
  <2> QED
    BY <2>1, <2>4, <2>5
<1>8. ASSUME NEW w \in Workers, NEW i \in CallIds, NEW m \in Messages, Lookup(w, i, m)
      PROVE  EndedStaysEnded'
  BY <1>2, <1>8 DEF Lookup
<1>9. ASSUME NEW i \in CallIds, OpenTask(i) \/ Flush(i) \/ Remove(i)
      PROVE  EndedStaysEnded'
  BY <1>1, <1>2, <1>9 DEF OpenTask, Flush, Remove, Spared, ends
<1>10. ASSUME NEW f, Write(f) \/ WriteFails(f)
       PROVE  EndedStaysEnded'
  BY <1>1, <1>10 DEF Write, WriteFails, ends
<1>11. CASE Clear
  BY <1>1, <1>11 DEF Clear, ends
<1> QED
  BY <1>4, <1>5, <1>6, <1>7, <1>8, <1>9, <1>10, <1>11 DEF Next

\* A call that was ended, by a BYE, a CANCEL, a declining response or its task,
\* is shown past until it is recorded as failed, for any messages, threads,
\* tasks, deletions and restarts (apply_state, finish_record).
THEOREM EndIsShown == Spec => []EndedStaysEnded
<1>1. IInv /\ EndedStaysEnded /\ [Next]_vars => EndedStaysEnded'
  <2> SUFFICES ASSUME IInv, EndedStaysEnded, [Next]_vars
               PROVE  EndedStaysEnded'
    OBVIOUS
  <2>1. CASE UNCHANGED vars
    BY <2>1 DEF vars, ends, EndedStaysEnded
  <2> QED
    BY <2>1, EndedStep
<1>2. Init => EndedStaysEnded
  BY DEF Init, EndedStaysEnded
<1> QED
  BY <1>1, <1>2, Inductive, PTL DEF Spec
-----------------------------------------------------------------------------
\* A record in an end state that is neither flushed nor exempt.
Unflushed(b) == b \in calls \ untimed /\ rec[b].state \in Terminal /\ ~rec[b].persisted

\* What a step must keep for FlushPending: a record that is unflushed after it
\* was so before, and is not let go of.
LEMMA KeepsPending ==
  ASSUME FlushPending,
         \A b \in Births : Unflushed(b)' =>
           /\ Unflushed(b) /\ rec'[b].id = rec[b].id
           /\ timers[rec[b].id] > 0 => timers'[rec[b].id] > 0 \/ picked'[b] > 0
           /\ picked[b] > 0 => picked'[b] > 0,
         calls' \subseteq Births
  PROVE  FlushPending'
BY DEF FlushPending, Unflushed

\* Every step leaves the calls whose end the inspector has seen flushed, or
\* with a timer or a flush that will do it.
LEMMA FlushPendingStep ==
  ASSUME IInv, FlushPending, Next
  PROVE  FlushPending'
<1>0. /\ calls \subseteq 1 .. born /\ 1 .. born \subseteq Births
      /\ rec \in [Births -> Record] /\ \A b \in Births : rec[b] \in Record
      /\ \A b \in 1 .. born : rec[b].id \in CallIds
      /\ timers \in [CallIds -> 0 .. MaxTimers] /\ picked \in [Births -> 0 .. MaxTimers]
      /\ 0 .. MaxTimers \subseteq Nat
  BY Typing, RegistryAssumption DEF TypeOK
<1>1. ASSUME NEW i \in CallIds, NEW c \in Births, GetOrCreate(i, c),
             UNCHANGED <<timers, picked, ends>>
      PROVE  FlushPending'
  <2>1. calls' \subseteq Births
    BY <1>1, GetOrCreateFacts, <1>0
  <2>2. ASSUME NEW b \in Births, Unflushed(b)'
        PROVE  Unflushed(b) /\ rec'[b].id = rec[b].id
    <3>1. b \in calls
      <4>1. b \in calls \union {c} /\ rec'[b].state \in Terminal
        BY <1>1, <2>2, GetOrCreateFacts DEF Unflushed
      <4>2. CASE UNCHANGED <<born, rec, calls>>
        BY <2>2, <4>2 DEF Unflushed
      <4>3. CASE rec'[c] = [id |-> i, state |-> "None", persisted |-> FALSE]
        BY <4>1, <4>3 DEF Terminal
      <4> QED
        BY <1>1, <4>2, <4>3, GetOrCreateFacts
    <3>2. rec'[b] = rec[b]
      BY <1>0, <1>1, <3>1, GetOrCreateOld
    <3> QED
      BY <1>1, <2>2, <3>1, <3>2 DEF Unflushed, ends
  <2> QED
    BY <1>1, <2>1, <2>2, KeepsPending
<1>2. ASSUME calls' \subseteq calls, UNCHANGED <<rec, timers, picked, untimed>>
      PROVE  FlushPending'
  BY <1>2 DEF FlushPending
<1>3. ASSUME NEW w \in Workers, Apply(w)
      PROVE  FlushPending'
  <2> DEFINE a == held[w].birth
             m == held[w].msg
             i == rec[a].id
  <2>1. a \in 1 .. born /\ i \in CallIds
    BY <1>0, <1>3, Typing DEF Apply, TypeOK
  <2>2. /\ rec' = [rec EXCEPT ![a].state = ApplyState(rec[a].state, m)]
        /\ untimed' = IF Ignored(rec[a].state, m) THEN untimed ELSE untimed \ {a}
        /\ UNCHANGED <<calls, picked>>
    BY <1>3 DEF Apply
  <2>3. IF Ends(rec[a].state, m) THEN timers' = [timers EXCEPT ![i] = @ + 1]
                                 ELSE timers' = timers
    BY <1>3 DEF Apply
  <2> HIDE DEF a, m
  <2>4. \A d \in Births : /\ rec'[d].id = rec[d].id
                          /\ rec'[d].persisted = rec[d].persisted
                          /\ d # a => rec'[d].state = rec[d].state
    BY <1>0, <2>1, <2>2 DEF Record
  <2>5. rec'[a].state = ApplyState(rec[a].state, m)
    BY <1>0, <2>1, <2>2 DEF Record
  <2>6. \A j \in CallIds : timers[j] > 0 => timers'[j] > 0
    BY <1>0, <2>1, <2>3
  <2> SUFFICES ASSUME NEW b \in calls, Unflushed(b)'
               PROVE  timers'[rec'[b].id] > 0 \/ picked'[b] > 0
    BY <2>2 DEF FlushPending, Unflushed
  <2>7. b \in Births /\ rec[b].id \in CallIds
    BY <1>0
  <2>8. CASE b = a /\ Ends(rec[a].state, m)
    <3>1. timers'[i] > 0
      BY <1>0, <2>1, <2>3, <2>8
    <3> QED
      BY <2>4, <2>7, <2>8, <3>1
  <2>9. CASE Unflushed(b)
    <3>1. timers[rec[b].id] > 0 \/ picked[b] > 0
      BY <2>9 DEF FlushPending, Unflushed
    <3> QED
      BY <2>2, <2>4, <2>6, <2>7, <3>1
  <2>10. CASE b # a
    <3>1. b \notin untimed
      BY <2>2, <2>10 DEF Unflushed
    <3>2. Unflushed(b)
      BY <2>2, <2>4, <2>7, <2>10, <3>1 DEF Unflushed
    <3> QED
      BY <2>9, <3>2
  <2>11. CASE b = a /\ ~Ends(rec[a].state, m)
    <3>1. ApplyState(rec[a].state, m) \in Terminal
      BY <2>5, <2>11 DEF Unflushed
    <3>2. Ignored(rec[a].state, m) /\ ApplyState(rec[a].state, m) = rec[a].state
      BY <2>11, <3>1 DEF ApplyState, Ends
    <3>3. Unflushed(b)
      BY <2>2, <2>4, <2>5, <2>7, <2>11, <3>2 DEF Unflushed
    <3> QED
      BY <2>9, <3>3
  <2> QED
    BY <2>8, <2>10, <2>11
<1>4. ASSUME NEW i \in CallIds, Flush(i)
      PROVE  FlushPending'
  <2> DEFINE a == First(Found(i))
  <2>1. timers' = [timers EXCEPT ![i] = @ - 1] /\ UNCHANGED <<calls, rec, untimed>>
    BY <1>4 DEF Flush, ends
  <2>2. Found(i) # {} => a \in Found(i) /\ picked' = [picked EXCEPT ![a] = @ + 1]
    BY <1>4, FirstFound, Typing DEF Flush
  <2>3. Found(i) = {} => picked' = picked
    BY <1>4 DEF Flush
  <2> HIDE DEF a
  <2>4. \A b \in Births : picked[b] > 0 => picked'[b] > 0
    <3>1. CASE Found(i) = {}
      BY <2>3, <3>1
    <3>2. CASE Found(i) # {}
      <4>1. a \in Births
        BY <1>0, <2>2, <3>2 DEF Found
      <4> QED
        BY <1>0, <2>2, <3>2, <4>1
    <3> QED
      BY <3>1, <3>2
  <2>5. ASSUME NEW b \in Births, Unflushed(b), rec[b].id = i
        PROVE  picked'[b] > 0
    <3>1. b \in Found(i)
      BY <2>5 DEF Found, Unflushed
    <3>2. a = b
      BY <2>2, <2>5, <3>1, Typing DEF Found, UniqueIds
    <3> QED
      BY <1>0, <2>2, <3>1, <3>2
  <2>6. \A j \in CallIds : j # i => timers'[j] = timers[j]
    BY <1>0, <2>1
  <2>7. \A b \in Births : Unflushed(b)' => Unflushed(b)
    BY <2>1 DEF Unflushed
  <2>8. ASSUME NEW b \in Births, Unflushed(b), timers[rec[b].id] > 0
        PROVE  timers'[rec[b].id] > 0 \/ picked'[b] > 0
    <3>1. rec[b].id \in CallIds
      BY <1>0, <2>8 DEF Unflushed
    <3> QED
      BY <2>5, <2>6, <2>8, <3>1
  <2> QED
    BY <1>0, <2>1, <2>4, <2>7, <2>8, KeepsPending
<1>5. ASSUME NEW c \in Births, Persist(c)
      PROVE  FlushPending'
  <2>1. picked' = [picked EXCEPT ![c] = @ - 1] /\ UNCHANGED <<calls, timers>>
    BY <1>5 DEF Persist
  <2>2. CASE Due(c)
    <3>1. rec' = [rec EXCEPT ![c].persisted = TRUE] /\ untimed' = untimed \ {c}
      BY <1>5, <2>2 DEF Persist
    <3>2. \A b \in Births : b # c => rec'[b] = rec[b] /\ picked'[b] = picked[b]
      BY <1>0, <2>1, <3>1
    <3>3. rec'[c].persisted
      BY <1>0, <3>1 DEF Record
    <3>4. \A b \in Births : Unflushed(b)' => b # c /\ Unflushed(b)
      BY <2>1, <3>1, <3>2, <3>3 DEF Unflushed
    <3> QED
      BY <1>0, <2>1, <3>2, <3>4, KeepsPending
  <2>3. CASE ~Due(c)
    <3>1. UNCHANGED <<rec, untimed>>
      BY <1>5, <2>3 DEF Persist
    <3>2. \A b \in Births : b # c => picked'[b] = picked[b]
      BY <1>0, <2>1
    <3>3. \A b \in Births : Unflushed(b)' => b # c /\ Unflushed(b)
      BY <2>1, <2>3, <3>1 DEF Unflushed, Due
    <3> QED
      BY <1>0, <2>1, <3>1, <3>2, <3>3, KeepsPending
  <2> QED
    BY <2>2, <2>3
<1>6. ASSUME NEW i \in CallIds, CloseTask(i)
      PROVE  FlushPending'
  <2>1. UNCHANGED <<calls, timers, picked>> /\ task[i] \in Births
    BY <1>0, <1>6, Typing DEF CloseTask, TypeOK, Nobody
  <2>2. CASE UNCHANGED <<rec, ends>>
    BY <1>2, <2>1, <2>2 DEF ends
  <2>3. ASSUME NEW s \in TaskStates, Finish(task[i], s)
        PROVE  FlushPending'
    <3>1. \A b \in Births : /\ rec'[b].id = rec[b].id
                            /\ rec'[b].persisted = rec[b].persisted
                            /\ b # task[i] => rec'[b].state = rec[b].state
      BY <1>0, <2>1, <2>3 DEF Finish, Record
    <3>2. untimed \subseteq untimed'
      BY <2>3 DEF Finish
    <3>3. \A b \in Births : Unflushed(b)' => Unflushed(b)
      BY <2>1, <2>3, <3>1, <3>2 DEF Finish, Unflushed
    <3> QED
      BY <1>0, <2>1, <3>1, <3>3, KeepsPending
  <2> QED
    BY <1>6, <2>2, <2>3 DEF CloseTask
<1>7. CASE Restart
  <2> SUFFICES ASSUME NEW b \in calls', ~rec'[b].persisted
               PROVE  FALSE
    BY DEF FlushPending
  <2>1. \E f \in Loaded(disk) : f.birth = b
    BY <1>7 DEF Restart
  <2>2. b \in Births
    BY <2>1, Typing DEF FilesBorn, Loaded, Newest
  <2>3. rec'[b].persisted
    BY <1>7, <2>1, <2>2 DEF Restart
  <2> QED
    BY <2>3
<1>8. ASSUME NEW w \in Workers, NEW i \in CallIds, NEW m \in Messages, Lookup(w, i, m)
      PROVE  FlushPending'
  BY <1>1, <1>8 DEF Lookup
<1>9. ASSUME NEW i \in CallIds, OpenTask(i) \/ Remove(i)
      PROVE  FlushPending'
  BY <1>1, <1>2, <1>9 DEF OpenTask, Remove, Spared, ends
<1>10. ASSUME NEW f, Write(f) \/ WriteFails(f)
       PROVE  FlushPending'
  BY <1>2, <1>10 DEF Write, WriteFails, ends
<1>11. CASE Clear
  BY <1>2, <1>11 DEF Clear, ends
<1> QED
  BY <1>3, <1>4, <1>5, <1>6, <1>7, <1>8, <1>9, <1>10, <1>11 DEF Next

\* A call that the registry shows in an end state is flushed, or has a timer or
\* a flush that will flush it, unless its call task alone has recorded the end.
THEOREM FlushIsPending == Spec => []FlushPending
<1>1. IInv /\ FlushPending /\ [Next]_vars => FlushPending'
  <2> SUFFICES ASSUME IInv, FlushPending, [Next]_vars
               PROVE  FlushPending'
    OBVIOUS
  <2>1. CASE UNCHANGED vars
    BY <2>1 DEF vars, ends, FlushPending
  <2> QED
    BY <2>1, FlushPendingStep
<1>2. Init => FlushPending
  BY DEF Init, FlushPending
<1> QED
  BY <1>1, <1>2, Inductive, PTL DEF Spec
-----------------------------------------------------------------------------
\* A set of births that is not empty has an oldest one.
LEMMA Oldest ==
  ASSUME NEW T, T \subseteq Nat, T # {}
  PROVE  \E x \in T : \A y \in T : ~(y < x)
<1> DEFINE R == OpToRel(<, Nat)
<1>1. IsWellFoundedOn(R, Nat)
  BY NatLessThanWellFounded
<1>2. \A x, y \in Nat : y < x => <<y, x>> \in R
  BY DEF OpToRel
<1> HIDE DEF R
<1>3. \E x \in T : \A y \in T : ~(<<y, x>> \in R)
  BY <1>1, WFMin
<1> QED
  BY <1>2, <1>3

\* The trim leaves at most MaxCalls records or nothing to trim: when a record
\* that could be trimmed is spared, all those older than the oldest spared one
\* are gone, and these alone are as many as the registry had over its cap.
LEMMA TrimSuffices ==
  ASSUME NEW S, IsFiniteSet(S), S \subseteq Nat
  PROVE  \/ Cardinality(S \ Evicted(S)) <= MaxCalls
         \/ Trimmable(S) \ Evicted(S) = {}
<1> DEFINE E == Evicted(S)
           T == Trimmable(S)
<1> SUFFICES ASSUME T \ E # {}
             PROVE  Cardinality(S \ E) <= MaxCalls
  OBVIOUS
<1>1. T \subseteq S /\ E \subseteq T
  BY DEF Trimmable, Evicted
<1>2. PICK x \in T \ E : \A y \in T \ E : ~(y < x)
  BY <1>1, Oldest
<1> DEFINE Older == {c \in T : c < x}
<1>3. Older \subseteq E
  BY <1>1, <1>2
<1>4. IsFiniteSet(E) /\ Cardinality(Older) <= Cardinality(E)
  <2>1. IsFiniteSet(E)
    BY <1>1, FS_Subset
  <2> HIDE DEF E, Older
  <2> QED
    BY <2>1, <1>3, FS_Subset
<1>5. IsFiniteSet(Older)
  BY <1>1, FS_Subset
<1>6. ~(Cardinality(Older) + MaxCalls < Cardinality(S))
  BY <1>2 DEF Evicted
<1>7. Cardinality(S \ E) = Cardinality(S) - Cardinality(E)
  <2>1. S \cap E = E
    BY <1>1
  <2> QED
    BY <2>1, FS_Difference
<1>8. /\ Cardinality(S) \in Nat /\ Cardinality(E) \in Nat
      /\ Cardinality(Older) \in Nat /\ MaxCalls \in Nat
  BY <1>4, <1>5, FS_CardinalityType, RegistryAssumption
<1> HIDE DEF E, Older
<1> QED
  BY <1>4, <1>6, <1>7, <1>8

\* A lookup that creates a record trims the registry.
LEMMA GetOrCreateTrims ==
  ASSUME IInv, NEW i \in CallIds, NEW b \in Births, GetOrCreate(i, b), born' > born
  PROVE  Cardinality(calls') <= MaxCalls \/ Trimmable(calls)' = {}
<1> DEFINE S == calls \union {b}
<1>1. /\ b = born + 1
      /\ rec' = [rec EXCEPT ![b] = [id |-> i, state |-> "None", persisted |-> FALSE]]
      /\ calls' = S \ Evicted(S)
  <2>1. born' # born
    BY Typing
  <2> QED
    BY <2>1 DEF GetOrCreate
<1>2. IsFiniteSet(calls) /\ calls \subseteq Nat
  <2>1. IsFiniteSet(1 .. born)
    BY Typing, FS_Interval
  <2>2. calls \subseteq 1 .. born
    BY Typing DEF TypeOK
  <2>3. IsFiniteSet(calls)
    BY <2>1, <2>2, FS_Subset, Zenon
  <2> QED
    BY <2>2, <2>3
<1>3. IsFiniteSet(S) /\ S \subseteq Nat
  BY <1>2, FS_AddElement DEF Births
<1>4. Trimmable(calls)' \subseteq Trimmable(S) \ Evicted(S)
  <2> SUFFICES ASSUME NEW c \in calls', rec'[c].state \in Past
               PROVE  c \in Trimmable(S) \ Evicted(S)
    BY DEF Trimmable
  <2>1. c \in S \ Evicted(S)
    BY <1>1
  <2>2. rec'[b].state = "None"
    BY <1>1, Typing DEF TypeOK
  <2>3. c # b
    BY <2>2 DEF Past
  <2>4. rec'[c] = rec[c]
    BY <1>1, <2>1, <2>3, Typing DEF TypeOK, Births
  <2> QED
    BY <2>1, <2>4 DEF Trimmable
<1> QED
  BY <1>1, <1>3, <1>4, TrimSuffices

\* Whenever a record is created, the registry is back under its cap or holds
\* nothing that has ended, for any number of records and any cap.
THEOREM CapIsRestored == Spec => TrimRestoresCap
<1>1. ASSUME IInv, [Next]_vars, born' > born
      PROVE  Cardinality(calls') <= MaxCalls \/ Trimmable(calls)' = {}
  <2>1. \/ \E w \in Workers, i \in CallIds, m \in Messages : Lookup(w, i, m)
        \/ \E i \in CallIds : OpenTask(i)
    <3>1. born' # born
      BY <1>1, Typing
    <3> QED
      BY <1>1, <3>1
      DEF Next, Apply, CloseTask, Flush, Persist, Remove, Write, WriteFails, Clear,
          Restart, vars
  <2> QED
    BY <1>1, <2>1, GetOrCreateTrims DEF Lookup, OpenTask
<1>2. IInv /\ [Next]_vars => [born' > born => \/ Cardinality(calls') <= MaxCalls
                                              \/ Trimmable(calls)' = {}]_vars
  BY <1>1
<1> QED
  BY <1>2, Inductive, PTL DEF Spec, TrimRestoresCap
=============================================================================
