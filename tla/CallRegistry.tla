---------------------------- MODULE CallRegistry ----------------------------
(***************************************************************************)
(* The call registry of serve mode (src/web/state.rs) as the trace         *)
(* inspector (src/web/inspector.rs), the inbound call tasks (src/sip.rs),  *)
(* the HTTP handlers (src/web/api.rs) and a restart of the process use it. *)
(*                                                                         *)
(* A record is a heap object (Arc<Mutex<CallRecord>>): it is named by its  *)
(* birth, a number that grows with started_at_ms.  The registry's deque is *)
(* kept newest first, so it is the set of the births it holds, read in     *)
(* descending order.  A thread that holds a record keeps it alive after    *)
(* the registry has dropped it.  A JSON file is named by started_at_ms and *)
(* call id, that is by the birth of its record.                            *)
(***************************************************************************)
EXTENDS CallRecord, FiniteSets

CONSTANTS
  CallIds,      \* Call-ID values
  Inbound,      \* those of inbound calls, which have a call task
  Workers,      \* threads of the runtime that run MessageInspector callbacks
  Messages,     \* the SIP messages that are seen
  Traffic,      \* [id, msg]: which of them a call may have
  MaxCalls,     \* MAX_CALLS
  LoadLimit,    \* the limit run_serve passes to load_from_dir
  TaskStates,   \* the end states that call tasks write into a record directly
  ShortIds,     \* call ids of fewer than 8 characters
  Covers,       \* Covers[i]: the ids whose file names contain the id i
  MaxBirths,    \* bound: records created in one behaviour
  MaxTimers     \* bound: flush timers of one call id, flushes of one record

ASSUME RegistryAssumption ==
  /\ Messages \subseteq Message
  /\ Traffic \subseteq [id : CallIds, msg : Messages]
  /\ MaxCalls \in Nat \ {0} /\ LoadLimit \in Nat
  /\ TaskStates \subseteq Terminal
  /\ ShortIds \subseteq CallIds /\ Inbound \subseteq CallIds
  /\ Covers \in [CallIds -> SUBSET CallIds]
  /\ \A i \in CallIds : i \in Covers[i]
  /\ MaxBirths \in Nat /\ MaxTimers \in Nat
  /\ 0 \notin CallIds

Births == 1 .. MaxBirths

Nobody == 0

VARIABLES
  born,     \* records created so far
  rec,      \* birth -> [id, state, persisted]
  calls,    \* the births in the registry
  held,     \* worker -> the record and message it is about to process
  task,     \* call id -> the record its inbound call task holds
  timers,   \* call id -> flush timers running for it
  picked,   \* birth -> flushes that have looked it up and not locked it yet
  writes,   \* JSON writes that are scheduled, [birth, id, state]
  disk,     \* JSON files in records_dir
  flushes,  \* history: birth -> JSON writes ever scheduled
  gone,     \* history: births deleted by a user
  raced,    \* history: those of them that were being flushed meanwhile
  over,     \* history: births that have ended, with no failure since
  untimed   \* history: births whose end only their call task has recorded,
            \* not flushed yet

hist == <<gone, raced>>

ends == <<over, untimed>>

vars == <<born, rec, calls, held, task, timers, picked, writes, disk, flushes,
          hist, ends>>

-----------------------------------------------------------------------------
Record == [id : CallIds \union {Nobody}, state : CallState, persisted : BOOLEAN]

File == [birth : Births, id : CallIds, state : CallState]

Idle == [birth |-> Nobody]

TypeOK ==
  /\ born \in 0 .. MaxBirths
  /\ rec \in [Births -> Record]
  /\ \A b \in Births : b <= born => rec[b].id \in CallIds
  /\ calls \subseteq 1 .. born
  /\ held \in [Workers -> {Idle} \union [birth : 1 .. born, msg : Messages]]
  /\ task \in [CallIds -> 0 .. born]
  /\ timers \in [CallIds -> 0 .. MaxTimers]
  /\ picked \in [Births -> 0 .. MaxTimers]
  /\ writes \subseteq File
  /\ disk \subseteq File
  /\ flushes \in [Births -> Nat]
  /\ gone \subseteq 1 .. born /\ raced \subseteq gone
  /\ over \subseteq 1 .. born /\ untimed \subseteq 1 .. born

Init ==
  /\ born = 0
  /\ rec = [b \in Births |-> [id |-> Nobody, state |-> "None", persisted |-> FALSE]]
  /\ calls = {}
  /\ held = [w \in Workers |-> Idle]
  /\ task = [i \in CallIds |-> Nobody]
  /\ timers = [i \in CallIds |-> 0]
  /\ picked = [b \in Births |-> 0]
  /\ writes = {}
  /\ disk = {}
  /\ flushes = [b \in Births |-> 0]
  /\ gone = {} /\ raced = {}
  /\ over = {} /\ untimed = {}

-----------------------------------------------------------------------------
\* The records of call i in the registry, and the one a scan finds first.
Found(i) == {b \in calls : rec[b].id = i}
First(S) == CHOOSE b \in S : \A c \in S : c <= b

\* While the deque is over the cap, the trim drops the oldest record that is
\* Terminated or Rejected.
Trimmable(S) == {b \in S : rec[b].state \in Past}

\* Mutant: the trim runs before the new record is in.
EvictedEarly(S) ==
  {b \in Trimmable(S) :
     Cardinality({c \in Trimmable(S) : c < b}) + MaxCalls + 1 < Cardinality(S)}

Evicted(S) ==
  {b \in Trimmable(S) :
     Cardinality({c \in Trimmable(S) : c < b}) + MaxCalls < Cardinality(S)}

\* get_or_create, with b the record it returns.
GetOrCreate(i, b) ==
  \/ /\ Found(i) # {}
     /\ b = First(Found(i))
     /\ UNCHANGED <<born, rec, calls>>
  \/ /\ Found(i) = {}
     /\ b = born + 1 /\ b \in Births
     /\ born' = b
     /\ rec' = [rec EXCEPT ![b] = [id |-> i, state |-> "None", persisted |-> FALSE]]
     /\ calls' = (calls \union {b}) \ Evicted(calls \union {b})

\* record(): the registry lock is released before the record is locked, so
\* another thread may trim, delete or finish the record in between.
Lookup(w, i, m) ==
  /\ held[w] = Idle
  /\ Recorded(m) /\ [id |-> i, msg |-> m] \in Traffic
  /\ \E b \in Births : /\ GetOrCreate(i, b)
                       /\ held' = [held EXCEPT ![w] = [birth |-> b, msg |-> m]]
  /\ UNCHANGED <<task, timers, picked, writes, disk, flushes, hist, ends>>

\* What the history notes of a record whose end state becomes, or is said
\* to become, s.
Noted(b, s) ==
  CASE s \in Past     -> over \union {b}
    [] s = "Failed"   -> over \ {b}
    [] OTHER          -> over

\* The rest of record(), under the record's lock; the end of a call starts a
\* flush timer for its call id.
Apply(w) ==
  /\ held[w] # Idle
  /\ LET b == held[w].birth
         m == held[w].msg
         i == rec[b].id
     IN  /\ rec' = [rec EXCEPT ![b].state = ApplyState(@, m)]
         /\ over' = Noted(b, DeriveState(m))
         /\ untimed' = IF Ignored(rec[b].state, m) THEN untimed ELSE untimed \ {b}
         /\ IF Ends(rec[b].state, m)
              THEN /\ timers[i] + picked[b] < MaxTimers
                   /\ timers' = [timers EXCEPT ![i] = @ + 1]
              ELSE UNCHANGED timers
  /\ held' = [held EXCEPT ![w] = Idle]
  /\ UNCHANGED <<born, calls, task, picked, writes, disk, flushes, hist>>

\* An inbound call task takes its record (handle_invite); the inspector has
\* seen the INVITE by then, but the record may have been deleted since ...
OpenTask(i) ==
  /\ i \in Inbound
  /\ task[i] = Nobody
  /\ \E b \in 1 .. born : rec[b].id = i
  /\ \E b \in Births : GetOrCreate(i, b) /\ task' = [task EXCEPT ![i] = b]
  /\ UNCHANGED <<held, timers, picked, writes, disk, flushes, hist, ends>>

\* finish_record writes the end state s into record b, and starts no timer.
Finish(b, s) ==
  /\ rec' = [rec EXCEPT ![b].state = s]
  /\ over' = Noted(b, s)
  /\ untimed' = IF rec[b].persisted \/ rec[b].state \in Terminal
                  THEN untimed ELSE untimed \union {b}

\* ... and lets go of it, either leaving its state to the inspector (the
\* answered path) or writing the end state itself.
CloseTask(i) ==
  /\ task[i] # Nobody
  /\ UNCHANGED <<rec, ends>> \/ \E s \in TaskStates : Finish(task[i], s)
  /\ task' = [task EXCEPT ![i] = Nobody]
  /\ UNCHANGED <<born, calls, held, timers, picked, writes, disk, flushes, hist>>

\* Mutants: persist_call without its persisted flag, and without its check of
\* the state.
DueAgain(b) == rec[b].state \in Terminal
DueLive(b)  == ~rec[b].persisted

Due(b) == ~rec[b].persisted /\ rec[b].state \in Terminal

\* A flush timer fires: persist_call looks the call up, and then holds the
\* record it has found, if any, with no lock taken ...
Flush(i) ==
  /\ timers[i] > 0
  /\ timers' = [timers EXCEPT ![i] = @ - 1]
  /\ IF Found(i) # {}
       THEN /\ picked[First(Found(i))] < MaxTimers
            /\ picked' = [picked EXCEPT ![First(Found(i))] = @ + 1]
       ELSE UNCHANGED picked
  /\ UNCHANGED <<born, rec, calls, held, task, writes, disk, flushes, hist, ends>>

\* ... until it locks it and, if there is something to write, spawns the write.
Persist(b) ==
  /\ picked[b] > 0
  /\ picked' = [picked EXCEPT ![b] = @ - 1]
  /\ IF Due(b)
       THEN /\ rec' = [rec EXCEPT ![b].persisted = TRUE]
            /\ writes' = writes \union
                           {[birth |-> b, id |-> rec[b].id, state |-> rec[b].state]}
            /\ flushes' = [flushes EXCEPT ![b] = @ + 1]
            /\ untimed' = untimed \ {b}
       ELSE UNCHANGED <<rec, writes, flushes, untimed>>
  /\ UNCHANGED <<born, calls, held, task, timers, disk, hist, over>>

\* The task spawned by persist_call writes the file; a failed write is only
\* logged.
Write(f) ==
  /\ f \in writes
  /\ writes' = writes \ {f}
  /\ disk' = (disk \ {g \in disk : g.birth = f.birth}) \union {f}
  /\ UNCHANGED <<born, rec, calls, held, task, timers, picked, flushes, hist, ends>>

WriteFails(f) ==
  /\ f \in writes
  /\ writes' = writes \ {f}
  /\ UNCHANGED <<born, rec, calls, held, task, timers, picked, disk, flushes, hist,
                 ends>>

\* The records a flush has in hand, from its look-up to the end of its write.
InFlight == {b \in Births : picked[b] > 0} \union {f.birth : f \in writes}

Forget(S) == /\ gone' = gone \union S
             /\ raced' = raced \union (S \intersect InFlight)

\* The files that a deletion of call i leaves: all of them if the sanitized id
\* is short, else those whose name does not contain it.  Mutant: all of them.
SparedAll(i) == disk

Spared(i) ==
  IF i \in ShortIds THEN disk ELSE {f \in disk : f.id \notin Covers[i]}

\* DELETE /api/calls/{id}: the record leaves the registry, then the
\* files that name it are deleted.
Remove(i) ==
  /\ calls' = calls \ Found(i)
  /\ disk' = Spared(i)
  /\ IF i \in ShortIds
       THEN UNCHANGED hist
       ELSE Forget({b \in 1 .. born : rec[b].id = i})
  /\ UNCHANGED <<born, rec, held, task, timers, picked, writes, flushes, ends>>

\* DELETE /api/calls.
Clear ==
  /\ calls' = {}
  /\ disk' = {}
  /\ Forget(1 .. born)
  /\ UNCHANGED <<born, rec, held, task, timers, picked, writes, flushes, ends>>

\* The LoadLimit newest files, and of those the newest of each call id.
Newest(S) == {f \in S : Cardinality({g \in S : g.birth > f.birth}) < LoadLimit}

\* Mutant: every one of those files becomes a record.
LoadedAll(S) == Newest(S)

Loaded(S) == {f \in Newest(S) :
                \A g \in Newest(S) : g.id = f.id => g.birth <= f.birth}

\* The process stops, at any point, and starts again on the same records_dir:
\* whatever was in memory or in flight is lost, load_from_dir runs.
Restart ==
  /\ calls' = {f.birth : f \in Loaded(disk)}
  /\ rec' = [b \in Births |->
               IF \E f \in Loaded(disk) : f.birth = b
                 THEN LET f == CHOOSE f \in Loaded(disk) : f.birth = b
                      IN  [id |-> f.id, state |-> f.state, persisted |-> TRUE]
                 ELSE [rec[b] EXCEPT !.state = "None"]]
  /\ held' = [w \in Workers |-> Idle]
  /\ task' = [i \in CallIds |-> Nobody]
  /\ timers' = [i \in CallIds |-> 0]
  /\ picked' = [b \in Births |-> 0]
  /\ writes' = {}
  /\ over' = {f.birth : f \in {g \in Loaded(disk) : g.state \in Past}}
  /\ untimed' = {}
  /\ UNCHANGED <<born, disk, flushes, hist>>

Next ==
  \/ \E w \in Workers, i \in CallIds, m \in Messages : Lookup(w, i, m)
  \/ \E w \in Workers : Apply(w)
  \/ \E i \in CallIds : OpenTask(i) \/ CloseTask(i) \/ Flush(i) \/ Remove(i)
  \/ \E b \in Births : Persist(b)
  \/ \E f \in writes : Write(f) \/ WriteFails(f)
  \/ Clear
  \/ Restart

Spec == Init /\ [][Next]_vars

-----------------------------------------------------------------------------
\* A Call-ID names one record of the registry, whatever order lookups,
\* evictions, deletions and restarts come in (get_or_create, load_from_dir).
UniqueIds == \A b, c \in calls : rec[b].id = rec[c].id => b = c

\* However many flush timers a call's messages start (a CANCEL and the 487 it
\* causes start two), its JSON is scheduled for writing at most once, and no
\* restart writes it again (the persisted flag, persist_call and from_json).
WriteOnce == \A b \in Births : flushes[b] <= 1

\* History never holds a call that had not ended: a restart, which trusts the
\* files, cannot bring back a live call (the state check of persist_call).
FilesFinished ==
  \A f \in writes \union disk : f.state \in Terminal /\ rec[f.birth].id = f.id

\* A call deleted by a user while no flush had its record in hand, between the
\* look-up of persist_call and the end of the write, never comes back, into the
\* registry, the directory or after a restart (remove, clear), although threads,
\* tasks and timers may still hold or name it.
GoneStaysGone ==
  \A b \in gone \ raced :
    b \notin calls /\ \A f \in writes \union disk : f.birth # b

\* A call that the registry shows in an end state has been flushed, or a timer
\* or a flush under way will flush it, unless its call task alone has recorded
\* the end: record() starts a timer on every end that it is the first to see
\* (finish_record starts none, and hides the end from it).
FlushPending ==
  \A b \in calls \ untimed :
    rec[b].state \in Terminal /\ ~rec[b].persisted
      => timers[rec[b].id] > 0 \/ picked[b] > 0

\* A call that a BYE, a CANCEL, a declining response or its task has ended is
\* shown terminated or rejected, whatever late, reordered or retransmitted
\* messages follow, until a failing response or write makes it a failed call
\* (apply_state, finish_record).  That exception is the code's: already_past
\* leaves failed calls out, so that after a CANCEL and its 487 a 200 that comes
\* late shows the call as answered.
EndedStaysEnded == \A b \in over : rec[b].state \in Past

\* Creating a record brings the registry back under MAX_CALLS or leaves
\* nothing to trim (the loop at the end of get_or_create).
TrimRestoresCap ==
  [][born' > born => \/ Cardinality(calls') <= MaxCalls
                     \/ Trimmable(calls)' = {}]_vars
=============================================================================
