----------------------------- MODULE ServeProofs -----------------------------
(***************************************************************************)
(* Proofs about serve mode (src/main.rs, src/web/).                        *)
(*                                                                         *)
(* First, of HotReload, for any number of accounts, requests, ports and    *)
(* edits: the bots follow the configuration, and the automatic accounts    *)
(* always find a port.                                                     *)
(*                                                                         *)
(* Then, of Registration, for any number of generations and any expiry,    *)
(* margin and delay.  A binding is refreshed in time because the           *)
(* registrar's countdown stays ahead of the loop's by the margin less what *)
(* the two exchanges take; and the board goes forward because a cancelled  *)
(* loop is over before the next generation starts.                         *)
(***************************************************************************)
EXTENDS HotReload, Registration, TLAPS

\* An edit that has been stored has yet to queue its reload.
Stored == \E h \in Handlers : req[h].step \notin {"idle", "edit"}

\* A reload is still to come that will read the configuration.
Due == waiting > 0 \/ phase = "sleep" \/ Stored

\* The types the argument needs.
Types ==
  /\ config \in Configs /\ plan \in Configs
  /\ DOMAIN req = Handlers
  /\ \A h \in Handlers : req[h].step = "edit" => req[h].copy \in Configs
  /\ waiting \in Nat
  /\ phase \in {"boot", "idle", "sleep", "spawn"}
  /\ next \in 1 .. Total + 1
  /\ ran \in Configs

\* What the last reload read is the configuration, unless another is due.
PlanIsCurrent == ~Due => plan = config

\* spawn_bots has dealt with the accounts before next, and with no other.
Spawning ==
  phase \in {"boot", "spawn"} =>
    \A a \in Accounts : ran[a] = IF a < next THEN plan[a] ELSE Off

\* When it is done, the bots are those of the configuration it read.
Spawned == phase = "idle" => ran = plan

IInv == Types /\ PlanIsCurrent /\ Spawning /\ Spawned

LEMMA InitInv == Init => IInv
<1> SUFFICES ASSUME Init PROVE IInv
  OBVIOUS
<1>1. config \in Configs /\ plan = config /\ ran \in Configs
  BY DEF Init, Configs
<1>2. \A h \in Handlers : req[h].step = "idle"
  BY DEF Init, Idle
<1>3. Types
  BY <1>1, <1>2, ReloadAssumption DEF Init, Types
<1>4. PlanIsCurrent /\ Spawning /\ Spawned
  BY <1>1 DEF Init, PlanIsCurrent, Spawning, Spawned, Accounts
<1> QED BY <1>3, <1>4 DEF IInv

\* A request: it changes the configuration only into a state in which a reload
\* is due, and queues that reload before it forgets about it.
LEMMA RequestInv ==
  ASSUME IInv, NEW h \in Handlers, Read(h) \/ Handler(h)
  PROVE  IInv'
<1> USE DEF IInv, Types, PlanIsCurrent, Spawning, Spawned, Due, Stored, reload, running
<1>1. CASE Read(h)
  BY <1>1 DEF Read, Idle
<1>2. CASE Update(h)
  <2>1. Stored'
    BY <1>2 DEF Update
  <2>2. config' \in Configs
    <3>1. req[h].copy \in Configs
      BY <1>2 DEF Update
    <3>2. PICK s \in Settings \union {Off} :
                 config' = [req[h].copy EXCEPT ![req[h].account] = s]
      BY <1>2 DEF Update
    <3> QED BY <3>1, <3>2 DEF Configs
  <2> QED BY <1>2, <2>1, <2>2 DEF Update
<1>3. CASE Save(h)
  BY <1>3 DEF Save
<1>4. CASE Write(h)
  BY <1>4 DEF Write
<1>5. CASE Queue(h)
  BY <1>5 DEF Queue, QueueReload, Idle
<1> QED BY <1>1, <1>2, <1>3, <1>4, <1>5 DEF Handler

\* A reload: what it reads is the configuration of that moment.
LEMMA ReloadInv ==
  ASSUME IInv, Reload
  PROVE  IInv'
<1> USE DEF IInv, Types, PlanIsCurrent, Spawning, Spawned, Due, Stored, http
<1>1. CASE BeginReload
  BY <1>1 DEF BeginReload, Turn
<1>2. CASE Abort
  BY <1>2, ReloadAssumption DEF Abort, Configs, Accounts, Off
<1>3. CASE SpawnBot
  BY <1>3, ReloadAssumption DEF SpawnBot, Configs, Accounts, Off
<1>4. CASE SkipAccount
  BY <1>4, ReloadAssumption DEF SkipAccount, running, Configs, Accounts, Off
<1>5. CASE EndReload
  <2>1. ran = plan
    BY <1>5, ReloadAssumption DEF EndReload, Configs, Accounts
  <2> QED BY <1>5, <2>1 DEF EndReload, running
<1> QED BY <1>1, <1>2, <1>3, <1>4, <1>5 DEF Reload

\* A bot does nothing to any of it.
LEMMA BotInv ==
  ASSUME IInv, NEW a \in Accounts, Bind(a) \/ CallBegins(a) \/ CallEnds(a) \/ Close(a)
  PROVE  IInv'
  BY DEF Bind, CallBegins, CallEnds, Close, http, reload,
         IInv, Types, PlanIsCurrent, Spawning, Spawned, Due, Stored

LEMMA NextInv == IInv /\ [Next]_vars => IInv'
<1> SUFFICES ASSUME IInv, [Next]_vars PROVE IInv'
  OBVIOUS
<1>1. CASE UNCHANGED vars
  BY <1>1 DEF vars, http, reload, running,
              IInv, Types, PlanIsCurrent, Spawning, Spawned, Due, Stored
<1>2. CASE Next
  BY <1>2, RequestInv, ReloadInv, BotInv DEF Next
<1> QED BY <1>1, <1>2

\* When no edit is being carried out and no reload is due or going on, there
\* is a bot for exactly the enabled accounts, with their current settings:
\* no interleaving of edits and reloads leaves a bot of an older
\* configuration running.
THEOREM BotsAreCurrent == Spec => []BotsFollowConfig
<1>1. IInv => BotsFollowConfig
  BY DEF IInv, PlanIsCurrent, Spawned, Due, Stored, BotsFollowConfig, Settled
<1> QED BY <1>1, InitInv, NextInv, PTL DEF Spec

-----------------------------------------------------------------------------
LEMMA InitTypes == Init => TypeOK
<1> SUFFICES ASSUME Init PROVE TypeOK
  OBVIOUS
<1>1. config \in Configs /\ disk \in Configs /\ plan \in Configs
  BY DEF Init, Configs
<1>2. req \in [Handlers -> Requests]
  BY DEF Init, Requests
<1>3. /\ next \in 1 .. Total + 1
      /\ edits \in 0 .. MaxEdits /\ waiting \in Nat
  BY ReloadAssumption DEF Init
<1>4. /\ used \subseteq Nat /\ leaked \subseteq Nat
      /\ bot \in [Accounts -> {"none", "starting", "listening", "draining", "closed", "failed"}]
      /\ ran \in [Accounts -> Settings \union {Off}]
      /\ addr \in [Accounts -> Nat]
      /\ busy \in [Accounts -> BOOLEAN]
  BY DEF Init
<1>5. phase \in {"boot", "idle", "sleep", "spawn"}
  BY DEF Init
<1> QED BY <1>1, <1>2, <1>3, <1>4, <1>5 DEF TypeOK

LEMMA RequestTypes ==
  ASSUME TypeOK, NEW h \in Handlers, Read(h) \/ Handler(h)
  PROVE  TypeOK'
<1> USE DEF reload, running
<1>0. req[h] \in Requests /\ config \in Configs
  BY DEF TypeOK
<1>1. CASE Read(h)
  <2>1. edits' \in 0 .. MaxEdits
    BY <1>1, ReloadAssumption DEF Read, TypeOK
  <2>2. \A a \in Accounts : [step |-> "edit", copy |-> config, account |-> a] \in Requests
    BY <1>0 DEF Requests
  <2>3. req' \in [Handlers -> Requests]
    BY <1>1, <2>2 DEF Read, TypeOK
  <2> QED BY <1>1, <2>1, <2>3 DEF Read, TypeOK
<1>2. CASE Update(h)
  <2>1. req[h].copy \in Configs
    BY <1>0, <1>2 DEF Update, Requests, Idle
  <2>2. config' \in Configs
    <3>1. PICK s \in Settings \union {Off} :
                 config' = [req[h].copy EXCEPT ![req[h].account] = s]
      BY <1>2 DEF Update
    <3> QED BY <2>1, <3>1 DEF Configs
  <2>3. [step |-> "save"] \in Requests
    BY DEF Requests
  <2>4. req' \in [Handlers -> Requests]
    BY <1>2, <2>3 DEF Update, TypeOK
  <2> QED BY <1>2, <2>2, <2>4 DEF Update, TypeOK
<1>3. CASE Save(h)
  <2>1. [step |-> "write", copy |-> config] \in Requests
    BY <1>0 DEF Requests
  <2>2. req' \in [Handlers -> Requests]
    BY <1>3, <2>1 DEF Save, TypeOK
  <2> QED BY <1>3, <2>2 DEF Save, TypeOK
<1>4. CASE Write(h)
  <2>1. req[h].copy \in Configs
    BY <1>0, <1>4 DEF Write, Requests, Idle
  <2>2. [step |-> "queue"] \in Requests
    BY DEF Requests
  <2>3. req' \in [Handlers -> Requests]
    BY <1>4, <2>2 DEF Write, TypeOK
  <2> QED BY <1>4, <2>1, <2>3 DEF Write, TypeOK
<1>5. CASE Queue(h)
  <2>1. Idle \in Requests
    BY DEF Requests
  <2>2. req' \in [Handlers -> Requests] /\ waiting' \in Nat
    BY <1>5, <2>1 DEF Queue, QueueReload, TypeOK
  <2> QED BY <1>5, <2>2 DEF Queue, TypeOK
<1> QED BY <1>1, <1>2, <1>3, <1>4, <1>5 DEF Handler

LEMMA HeldPorts == TypeOK => Held \subseteq Nat
  BY DEF TypeOK, Held

LEMMA ReloadTypes ==
  ASSUME TypeOK, Reload
  PROVE  TypeOK'
<1> USE DEF http
<1>1. CASE BeginReload
  BY <1>1 DEF BeginReload, Turn, TypeOK
<1>2. CASE Abort
  BY <1>2, HeldPorts, ReloadAssumption DEF Abort, TypeOK
<1>3. CASE SpawnBot
  <2>1. PICK p \in 1 .. Tries \union {FixedPort[a] : a \in Accounts} :
          /\ addr' = [addr EXCEPT ![next] = p]
          /\ used' = IF next \in Automatic THEN used \union {p} ELSE used
    BY <1>3 DEF SpawnBot
  <2>2. p \in Nat
    BY ReloadAssumption
  <2>3. addr' \in [Accounts -> Nat] /\ used' \subseteq Nat
    BY <2>1, <2>2 DEF TypeOK
  <2>4. next \in Accounts /\ next' \in 1 .. Total + 1
    BY <1>3, ReloadAssumption DEF SpawnBot, TypeOK, Accounts
  <2>5. /\ ran' \in [Accounts -> Settings \union {Off}]
        /\ bot' \in [Accounts -> {"none", "starting", "listening", "draining", "closed", "failed"}]
    BY <1>3, <2>4 DEF SpawnBot, TypeOK, Configs
  <2> QED BY <1>3, <2>3, <2>4, <2>5 DEF SpawnBot, TypeOK
<1>4. CASE SkipAccount
  BY <1>4, ReloadAssumption DEF SkipAccount, running, TypeOK
<1>5. CASE EndReload
  BY <1>5 DEF EndReload, running, TypeOK
<1> QED BY <1>1, <1>2, <1>3, <1>4, <1>5 DEF Reload

LEMMA BotTypes ==
  ASSUME TypeOK, NEW a \in Accounts, Bind(a) \/ CallBegins(a) \/ CallEnds(a) \/ Close(a)
  PROVE  TypeOK'
<1> USE DEF http, reload
<1>1. CASE Bind(a)
  BY <1>1 DEF Bind, TypeOK
<1>2. CASE CallBegins(a) \/ CallEnds(a)
  BY <1>2 DEF CallBegins, CallEnds, TypeOK
<1>3. CASE Close(a)
  BY <1>3 DEF Close, TypeOK
<1> QED BY <1>1, <1>2, <1>3

\* The variables keep their types, whatever requests and reloads interleave:
\* the configuration, its file and what a reload has read are always whole
\* configurations.
THEOREM TypeCorrect == Spec => []TypeOK
<1>1. TypeOK /\ [Next]_vars => TypeOK'
  <2> SUFFICES ASSUME TypeOK, [Next]_vars PROVE TypeOK'
    OBVIOUS
  <2>1. CASE UNCHANGED vars
    BY <2>1 DEF vars, http, reload, running, TypeOK
  <2>2. CASE Next
    BY <2>2, RequestTypes, ReloadTypes, BotTypes DEF Next
  <2> QED BY <2>1, <2>2
<1> QED BY <1>1, InitTypes, PTL DEF Spec

-----------------------------------------------------------------------------
(***************************************************************************)
(* Automatic ports.                                                        *)
(***************************************************************************)

\* A bot that has its port, or is going to bind it.
Alive(a) == bot[a] \in {"starting", "listening", "draining"}

\* The port of an automatic bot is one that nobody has left open, and no other
\* automatic bot has it.
OwnPort(a) ==
  Alive(a) => /\ addr[a] \notin leaked
              /\ \A b \in Automatic \ {a} : Alive(b) => addr[b] # addr[a]

\* The other bots have the ports of their transport_addr; what has been given
\* out since the last bots were aborted is known.
PortsKept ==
  /\ \A a \in Automatic : OwnPort(a) /\ (bot[a] = "failed" => Clash(a))
  /\ \A a \in Accounts \ Automatic : Alive(a) => addr[a] = FixedPort[a] /\ ran[a] # Off
  /\ phase \in {"boot", "spawn"} => \A a \in Automatic : Alive(a) => addr[a] \in used

\* The ports tried never run out.
Room == phase \in {"boot", "spawn"} /\ next \in Automatic => Free # {}

LEMMA InitPorts == Init => PortsKept
  BY ReloadAssumption DEF Init, PortsKept, OwnPort, Alive

\* A bot that is given a port, by its probe and used_ports.
LEMMA SpawnPorts ==
  ASSUME TypeOK, PortsKept, Room, SpawnBot
  PROVE  PortsKept'
<1>1. PICK p \in 1 .. Tries \union {FixedPort[a] : a \in Accounts} :
        /\ Port(p)
        /\ addr' = [addr EXCEPT ![next] = p]
        /\ used' = IF next \in Automatic THEN used \union {p} ELSE used
  BY DEF SpawnBot
<1>2. /\ next \in Accounts /\ plan[next] # Off
      /\ bot' = [bot EXCEPT ![next] = "starting"]
      /\ ran' = [ran EXCEPT ![next] = plan[next]]
      /\ phase \in {"boot", "spawn"} /\ phase' = phase /\ leaked' = leaked
  BY ReloadAssumption DEF SpawnBot, TypeOK, Accounts
<1>3. next \in Automatic => p \notin used /\ p \notin leaked
  BY <1>1, <1>2 DEF Port, Room, Free, Held
<1>4. next \notin Automatic => p = FixedPort[next]
  BY <1>1, <1>2 DEF Port
<1>5. \A a \in Accounts : a # next =>
        /\ bot'[a] = bot[a] /\ addr'[a] = addr[a] /\ ran'[a] = ran[a]
        /\ Alive(a)' <=> Alive(a)
  BY <1>1, <1>2 DEF TypeOK, Alive
<1>6. addr'[next] = p /\ bot'[next] = "starting" /\ ran'[next] # Off
  BY <1>1, <1>2 DEF TypeOK
<1>7. next \in Automatic => \A a \in Automatic : a # next /\ Alive(a) => p # addr[a]
  BY <1>2, <1>3 DEF PortsKept
<1>8. \A a \in Automatic : OwnPort(a)'
  <2> SUFFICES ASSUME NEW a \in Automatic, Alive(a)'
               PROVE  /\ addr'[a] \notin leaked'
                      /\ \A b \in Automatic \ {a} : Alive(b)' => addr'[b] # addr'[a]
    BY DEF OwnPort
  <2>1. a \in Accounts
    BY ReloadAssumption
  <2>2. CASE a = next
    BY <1>2, <1>3, <1>5, <1>6, <1>7, <2>1, <2>2, ReloadAssumption
  <2>3. CASE a # next
    <3>1. Alive(a) /\ OwnPort(a) /\ addr'[a] = addr[a]
      BY <1>5, <2>1, <2>3 DEF PortsKept
    <3>2. ASSUME NEW b \in Automatic \ {a}, Alive(b)' PROVE addr'[b] # addr'[a]
      BY <1>5, <1>6, <1>7, <2>1, <2>3, <3>1, <3>2, ReloadAssumption DEF OwnPort
    <3> QED BY <1>2, <3>1, <3>2 DEF OwnPort
  <2> QED BY <2>2, <2>3
<1>9. \A a \in Automatic : bot'[a] = "failed" => Clash(a)'
  <2> SUFFICES ASSUME NEW a \in Automatic, bot'[a] = "failed" PROVE Clash(a)'
    OBVIOUS
  <2>1. a # next /\ a \in Accounts
    BY <1>6, ReloadAssumption
  <2>2. PICK b \in Accounts \ Automatic : ran[b] # Off /\ FixedPort[b] = addr[a]
    BY <1>5, <2>1 DEF PortsKept, Clash
  <2>3. ran'[b] # Off /\ addr'[a] = addr[a]
    BY <1>5, <1>6, <2>1, <2>2
  <2> QED BY <2>2, <2>3 DEF Clash
<1>10. \A a \in Accounts \ Automatic : Alive(a)' => addr'[a] = FixedPort[a] /\ ran'[a] # Off
  BY <1>4, <1>5, <1>6 DEF PortsKept
<1>11. \A a \in Automatic : Alive(a)' => addr'[a] \in used'
  BY <1>1, <1>2, <1>5, <1>6, ReloadAssumption DEF PortsKept
<1> QED BY <1>8, <1>9, <1>10, <1>11 DEF PortsKept

\* A bot that does not find its port free finds the owner of that address.
LEMMA BindPorts ==
  ASSUME TypeOK, PortsKept, NEW a \in Accounts, Bind(a)
  PROVE  PortsKept'
<1>1. /\ bot[a] = "starting" /\ UNCHANGED <<addr, ran, leaked, phase, used>>
      /\ bot' = [bot EXCEPT ![a] = IF addr[a] \in Held THEN "failed"
                                   ELSE IF phase = "sleep" THEN "draining" ELSE "listening"]
  BY DEF Bind, reload
<1>2. \A b \in Accounts : (Alive(b)' => Alive(b)) /\ (b # a => bot'[b] = bot[b])
  BY <1>1 DEF TypeOK, Alive
<1>3. ASSUME a \in Automatic, addr[a] \in Held PROVE Clash(a)
  <2>1. Alive(a) /\ OwnPort(a)
    BY <1>1, <1>3 DEF Alive, PortsKept
  <2>2. PICK b \in Accounts : bot[b] \in {"listening", "draining"} /\ addr[b] = addr[a]
    BY <1>3, <2>1 DEF Held, OwnPort
  <2>3. b # a /\ Alive(b)
    BY <1>1, <2>2 DEF Alive
  <2>4. b \notin Automatic
    BY <2>1, <2>2, <2>3 DEF OwnPort
  <2> QED BY <2>2, <2>3, <2>4 DEF PortsKept, Clash
<1>4. a \in Automatic /\ bot'[a] = "failed" => Clash(a)
  BY <1>1, <1>3 DEF TypeOK
<1>5. \A b \in Automatic : bot'[b] = "failed" => Clash(b)'
  BY <1>1, <1>2, <1>4, ReloadAssumption DEF PortsKept, Clash
<1>6. \A b \in Automatic : OwnPort(b)'
  BY <1>1, <1>2, ReloadAssumption DEF PortsKept, OwnPort
<1>7. \A b \in Accounts \ Automatic : Alive(b)' => addr'[b] = FixedPort[b] /\ ran'[b] # Off
  BY <1>1, <1>2 DEF PortsKept
<1>8. phase' \in {"boot", "spawn"} => \A b \in Automatic : Alive(b)' => addr'[b] \in used'
  BY <1>1, <1>2, ReloadAssumption DEF PortsKept
<1> QED BY <1>5, <1>6, <1>7, <1>8 DEF PortsKept

\* Aborted bots leave their ports open, and there are no bots then.
LEMMA AbortPorts ==
  ASSUME TypeOK, PortsKept, Abort
  PROVE  PortsKept'
<1>1. \A a \in Accounts : bot'[a] = "none" /\ ~Alive(a)'
  BY DEF Abort, Alive
<1> QED BY <1>1, ReloadAssumption DEF PortsKept, OwnPort

\* The steps that give no bot a port, and no port to a bot.
LEMMA OtherPorts ==
  ASSUME TypeOK, PortsKept, UNCHANGED <<addr, ran, leaked, used>>,
         phase' \in {"boot", "spawn"} => phase \in {"boot", "spawn"},
         \A a \in Accounts : (Alive(a)' => Alive(a)) /\ (bot'[a] = "failed" => bot[a] = "failed")
  PROVE  PortsKept'
  BY ReloadAssumption DEF PortsKept, OwnPort, Clash

LEMMA NextPorts == TypeOK /\ PortsKept /\ Room /\ [Next]_vars => PortsKept'
<1> SUFFICES ASSUME TypeOK, PortsKept, Room, [Next]_vars PROVE PortsKept'
  OBVIOUS
<1>1. CASE SpawnBot
  BY <1>1, SpawnPorts
<1>2. CASE Abort
  BY <1>2, AbortPorts
<1>3. CASE \E a \in Accounts : Bind(a)
  BY <1>3, BindPorts
<1>4. CASE BeginReload
  <2>1. \A a \in Accounts : (Alive(a)' => Alive(a)) /\ (bot'[a] = "failed" => bot[a] = "failed")
    BY <1>4 DEF BeginReload, TypeOK, Alive
  <2> QED BY <1>4, <2>1, OtherPorts DEF BeginReload
<1>5. CASE \E a \in Accounts : Close(a)
  <2>1. \A b \in Accounts : (Alive(b)' => Alive(b)) /\ (bot'[b] = "failed" => bot[b] = "failed")
    BY <1>5 DEF Close, TypeOK, Alive
  <2> QED BY <1>5, <2>1, OtherPorts DEF Close, reload
<1>6. CASE \/ SkipAccount \/ EndReload \/ UNCHANGED vars
           \/ \E h \in Handlers : Read(h) \/ Handler(h)
           \/ \E a \in Accounts : CallBegins(a) \/ CallEnds(a)
  <2>1. UNCHANGED <<bot, ran, addr, leaked, used>> /\ phase' \in {phase, "idle"}
    BY <1>6 DEF SkipAccount, EndReload, vars, Read, Handler, Update, Save, Write, Queue,
                CallBegins, CallEnds, running, reload
  <2>2. \A a \in Accounts : (Alive(a)' => Alive(a)) /\ (bot'[a] = "failed" => bot[a] = "failed")
    BY <2>1 DEF Alive
  <2> QED BY <2>1, <2>2, OtherPorts
<1> QED BY <1>1, <1>2, <1>3, <1>4, <1>5, <1>6 DEF Next, Reload

\* As long as the ports to try do not run out, an account without a port of
\* its own finds the one it is given free, or held by the bot whose
\* transport_addr it is: whatever bots start, drain and are aborted at the
\* same time.
THEOREM AutomaticPortsBind == Spec /\ []Room => []AutoBinds
<1>1. PortsKept => AutoBinds
  BY DEF PortsKept, AutoBinds
<1>2. TypeOK /\ PortsKept /\ Room /\ [Next]_vars => PortsKept'
  BY NextPorts
<1> QED BY <1>1, <1>2, InitPorts, TypeCorrect, PTL DEF Spec

-----------------------------------------------------------------------------
LEMMA Constants ==
  /\ MaxGen \in Nat /\ Gens \subseteq Nat /\ Gens \subseteq 0 .. MaxGen /\ 0 \in 0 .. MaxGen
  /\ Retry \in Nat /\ Grants \subseteq Nat
BY RegistrationAssumption DEF Gens

\* Every variable keeps its type.
THEOREM RegTypeCorrect == RegSpec => []RegTypeOK
<1> USE Constants DEF RegTypeOK, Status
<1>1. RegInit => RegTypeOK
  <2> SUFFICES ASSUME RegInit PROVE RegTypeOK
    OBVIOUS
  <2>1. rest \in [Gens -> Nat] /\ took \in [Gens -> Nat] /\ expires \in [Gens -> Nat]
    BY DEF RegInit
  <2>2. /\ contact \in [Gens -> Gens] /\ bind \in [Gens -> Nat] /\ holder \in [Gens -> Gens]
        /\ gen \in 0 .. MaxGen /\ board \in Status
    BY DEF RegInit
  <2>3. token \in [Gens -> BOOLEAN] /\ slow \in [Gens -> BOOLEAN] /\ stray \in [Gens -> BOOLEAN]
    BY DEF RegInit
  <2>4. loop \in [Gens -> {"none", "init", "top", "ask", "sleep", "off"}]
    BY DEF RegInit
  <2>5. reply \in [Gens -> {"none", "sent", "granted", "refused"}]
    BY DEF RegInit
  <2>6. QED
    BY <2>1, <2>2, <2>3, <2>4, <2>5 DEF RegInit
<1>2. RegTypeOK /\ [RegNext]_regVars => RegTypeOK'
  <2> SUFFICES ASSUME RegTypeOK, [RegNext]_regVars PROVE RegTypeOK'
    OBVIOUS
  <2>1. CASE Spawn
    <3>1. gen' \in 0 .. MaxGen
      BY <2>1 DEF Spawn
    <3>2. contact' \in [Gens -> Gens]
      <4>1. PICK c \in {contact[g] : g \in 1 .. gen} \cup {gen + 1} :
              contact' = [contact EXCEPT ![gen + 1] = c]
        BY <2>1 DEF Spawn
      <4>2. gen + 1 \in Gens /\ 1 .. gen \subseteq Gens
        BY <2>1 DEF Spawn, Gens
      <4>3. c \in Gens
        BY <4>2
      <4>4. QED
        BY <4>1, <4>3
    <3>3. QED
      BY <2>1, <3>1, <3>2 DEF Spawn, network, registrar
  <2>2. CASE Cancel
    BY <2>2 DEF Cancel, network, registrar
  <2>3. CASE Recover
    BY <2>3 DEF Recover, bots, registrar
  <2>4. CASE Tick
    <3>1. rest' \in [Gens -> Nat] /\ bind' \in [Gens -> Nat]
      BY <2>4 DEF Tick, Down
    <3>2. took' \in [Gens -> Nat]
      BY <2>4 DEF Tick
    <3>3. QED
      BY <2>4, <3>1, <3>2 DEF Tick
  <2>5. ASSUME NEW g \in Gens, Start(g) PROVE RegTypeOK'
    BY <2>5 DEF Start, Goto, bots, network, registrar
  <2>6. ASSUME NEW g \in Gens, Ask(g) PROVE RegTypeOK'
    <3>1. CASE Stopped(g)
      <4>1. Return(g) /\ UNCHANGED <<bots, board, network>>
        BY <2>6, <3>1 DEF Ask
      <4>2. rest' \in [Gens -> Nat] /\ took' \in [Gens -> Nat] /\ expires' \in [Gens -> Nat]
        BY <4>1 DEF Return
      <4>3. QED
        BY <4>1, <4>2 DEF Return, Goto, bots, network, registrar
    <3>2. CASE ~Stopped(g)
      BY <2>6, <3>2 DEF Ask, Goto, bots, network, registrar
    <3>3. QED
      BY <3>1, <3>2
  <2>7. ASSUME NEW g \in Gens, Answer(g) PROVE RegTypeOK'
    <3>1. Pause(expires[g]) \in Nat
      BY RegistrationAssumption DEF Pause
    <3>2. (took[g] > Lag) \in BOOLEAN
      OBVIOUS
    <3>3. QED
      BY <2>7, <3>1, <3>2 DEF Answer, Outcome, Report, Goto, bots, network, registrar
  <2>8. ASSUME NEW g \in Gens, Fail(g) PROVE RegTypeOK'
    BY <2>8 DEF Fail, Outcome, Report, Goto, bots, registrar
  <2>9. ASSUME NEW g \in Gens, Wake(g) PROVE RegTypeOK'
    BY <2>9 DEF Wake, Goto, bots, network, registrar
  <2>10. ASSUME NEW g \in Gens, Cancelled(g) PROVE RegTypeOK'
    BY <2>10 DEF Cancelled, Return, Goto, bots, registrar
  <2>11. ASSUME NEW g \in Gens, NEW e \in Grants, Grant(g, e) PROVE RegTypeOK'
    BY <2>11 DEF Grant, Register, bots
  <2>12. ASSUME NEW g \in Gens, Refuse(g) PROVE RegTypeOK'
    BY <2>12 DEF Refuse, bots, network, registrar
  <2>13. ASSUME NEW g \in Gens, NEW e \in Grants, GrantStray(g, e) PROVE RegTypeOK'
    BY <2>13 DEF GrantStray, Register, bots, registrar
  <2>14. CASE UNCHANGED regVars
    BY <2>14 DEF regVars, bots, network, registrar
  <2>15. QED
    BY <2>1, <2>2, <2>3, <2>4, <2>5, <2>6, <2>7, <2>8, <2>9, <2>10, <2>11, <2>12, <2>13,
       <2>14 DEF RegNext, Step
<1>3. QED
  BY <1>1, <1>2, PTL DEF RegSpec

-----------------------------------------------------------------------------
\* Generations take turns: those to come have not begun, and those that were
\* replaced are cancelled and at most about to find that out.
Turns ==
  /\ \A g \in Gens : g > gen => loop[g] = "none" /\ ~token[g]
  /\ \A g \in Gens : g < gen => token[g] /\ loop[g] \in {"none", "top", "off"}
  /\ \A g \in Gens : token[g] /\ ~grace => loop[g] \notin {"ask", "sleep"}
  /\ board.by <= gen

LEMMA TurnsInit == RegInit => Turns
BY Constants DEF RegInit, Turns

LEMMA TurnsStep ==
  ASSUME RegTypeOK, Turns, [RegNext]_regVars
  PROVE  Turns'
<1> USE Constants DEF Turns, RegTypeOK, Status
<1>1. CASE Spawn
  <2>1. gen' = gen + 1 /\ gen \in Nat /\ UNCHANGED <<token, grace, board>>
    BY <1>1 DEF Spawn
  <2>2. \A g \in Gens : g > gen' => loop'[g] = "none" /\ ~token'[g]
    BY <1>1, <2>1 DEF Spawn
  <2>3. \A g \in Gens : g < gen' => token'[g] /\ loop'[g] \in {"none", "top", "off"}
    <3>1. ASSUME NEW g \in Gens, g < gen' PROVE token[g] /\ loop[g] \in {"none", "init", "top", "off"}
      <4>1. g < gen \/ g = gen
        BY <2>1, <3>1
      <4>2. CASE g < gen
        BY <4>2
      <4>3. CASE g = gen
        <5>1. g > 0 /\ token[g] /\ ~grace
          BY <1>1, <4>3 DEF Spawn, Gens
        <5>2. loop[g] \notin {"ask", "sleep"}
          BY <5>1
        <5>3. loop[g] \in {"none", "init", "top", "ask", "sleep", "off"}
          OBVIOUS
        <5>4. QED
          BY <5>1, <5>2, <5>3
      <4>4. QED
        BY <4>1, <4>2, <4>3
    <3>2. ASSUME NEW g \in Gens, g < gen'
          PROVE  loop'[g] = IF loop[g] = "init" THEN "off" ELSE loop[g]
      BY <1>1, <2>1, <3>2 DEF Spawn
    <3>3. QED
      BY <2>1, <3>1, <3>2
  <2>4. \A g \in Gens : token'[g] /\ ~grace' => loop'[g] \notin {"ask", "sleep"}
    BY <1>1, <2>1 DEF Spawn
  <2>5. QED
    BY <2>1, <2>2, <2>3, <2>4
<1>2. CASE Cancel
  BY <1>2 DEF Cancel
<1>3. CASE Recover
  BY <1>3 DEF Recover, bots
<1>4. CASE Tick
  BY <1>4 DEF Tick, Quiet, Stopped, Watches
<1>5. ASSUME NEW g \in Gens, Start(g) PROVE Turns'
  BY <1>5 DEF Start, Goto, bots
<1>6. ASSUME NEW g \in Gens, Ask(g) PROVE Turns'
  <2>1. CASE Stopped(g)
    BY <1>6, <2>1 DEF Ask, Return, Goto, bots
  <2>2. CASE ~Stopped(g)
    BY <1>6, <2>2 DEF Ask, Goto, Stopped, bots
  <2>3. QED
    BY <2>1, <2>2
<1>7. ASSUME NEW g \in Gens, Answer(g) \/ Fail(g) PROVE Turns'
  <2>1. loop[g] = "ask" /\ loop' = [loop EXCEPT ![g] = "sleep"] /\ board'.by = g /\ UNCHANGED bots
    BY <1>7 DEF Answer, Fail, Outcome, Report, Goto
  <2>2. gen = g
    BY <2>1
  <2>3. QED
    BY <2>1, <2>2 DEF bots
<1>8. ASSUME NEW g \in Gens, Wake(g) PROVE Turns'
  BY <1>8 DEF Wake, Goto, bots
<1>9. ASSUME NEW g \in Gens, Cancelled(g) PROVE Turns'
  <2>1. loop' = [loop EXCEPT ![g] = "off"] /\ UNCHANGED <<gen, token, grace, board>>
    BY <1>9 DEF Cancelled, Return, Goto, bots
  <2>2. loop[g] \in {"ask", "sleep"}
    BY <1>9 DEF Cancelled, Watches
  <2>3. QED
    BY <2>1, <2>2
<1>10. ASSUME NEW g \in Gens, NEW e \in Grants, Grant(g, e) \/ GrantStray(g, e) PROVE Turns'
  <2>1. UNCHANGED <<gen, token, grace, loop, board>>
    BY <1>10 DEF Grant, GrantStray, bots
  <2>2. QED
    BY <2>1
<1>11. ASSUME NEW g \in Gens, Refuse(g) PROVE Turns'
  BY <1>11 DEF Refuse, bots
<1>12. CASE UNCHANGED regVars
  BY <1>12 DEF regVars, bots
<1>13. QED
  BY <1>1, <1>2, <1>3, <1>4, <1>5, <1>6, <1>7, <1>8, <1>9, <1>10, <1>11, <1>12
     DEF RegNext, Step

LEMMA Invariant == RegSpec => [](RegTypeOK /\ Turns)
<1>1. RegSpec => []Turns
  BY TurnsInit, TurnsStep, RegTypeCorrect, PTL DEF RegSpec
<1>2. QED
  BY <1>1, RegTypeCorrect, PTL

\* The board never falls back to a generation that has been replaced.
THEOREM BoardNeverBack == RegSpec => BoardForward
<1>1. ASSUME RegTypeOK, Turns, [RegNext]_regVars
      PROVE  [board'.by >= board.by]_board
  <2> USE <1>1, Constants DEF RegTypeOK, Status
  <2>1. ASSUME NEW g \in Gens, Answer(g) \/ Fail(g) PROVE board'.by >= board.by
    <3>1. loop[g] = "ask" /\ board'.by = g
      BY <2>1 DEF Answer, Fail, Outcome, Report
    <3>2. gen = g
      BY <3>1 DEF Turns
    <3>3. QED
      BY <3>1, <3>2 DEF Turns
  <2>2. ASSUME NEW g \in Gens, Start(g) \/ Ask(g) \/ Wake(g) \/ Cancelled(g) \/ Refuse(g)
        PROVE  UNCHANGED board
    BY <2>2 DEF Start, Ask, Wake, Cancelled, Refuse
  <2>3. ASSUME NEW g \in Gens, NEW e \in Grants, Grant(g, e) \/ GrantStray(g, e)
        PROVE  UNCHANGED board
    BY <2>3 DEF Grant, GrantStray
  <2>4. ASSUME Spawn \/ Cancel \/ Recover \/ Tick \/ UNCHANGED regVars
        PROVE  UNCHANGED board
    BY <2>4 DEF Spawn, Cancel, Recover, Tick, regVars
  <2>5. board'.by >= board.by \/ UNCHANGED board
    BY <2>1, <2>2, <2>3, <2>4 DEF RegNext, Step
  <2>6. QED
    BY <2>5
<1>2. QED
  BY <1>1, Invariant, PTL DEF RegSpec, BoardForward

-----------------------------------------------------------------------------
Shown(g) == board = [by |-> g, registered |-> TRUE]

\* A loop that has not begun has not reported.
Silent(g) == loop[g] \in {"none", "init"} => board.by # g

\* No older REGISTER of the bot can shorten the binding that the board shows.
NoStray(g) ==
  /\ Shown(g) /\ loop[g] \in {"top", "ask", "sleep"} => ~stray[g]
  /\ loop[g] = "ask" /\ reply[g] = "granted" => ~stray[g]

\* The binding of its contact is one that this bot has set.
Holds(g) == holder[contact[g]] = g

\* What is left of it.
Left(g) == bind[contact[g]]

\* How far the registrar's countdown of a binding is ahead of that of the loop
\* that has set it.
Ahead(g) ==
  /\ Holds(g) /\ loop[g] = "ask" /\ reply[g] = "granted" => Left(g) + took[g] >= expires[g]
  /\ Holds(g) /\ Shown(g) /\ expires[g] > Margin /\ ~slow[g] =>
       /\ loop[g] = "sleep" => Left(g) + Lag >= rest[g] + Margin
       /\ loop[g] = "top" => Left(g) + Lag >= Margin
       /\ loop[g] = "ask" /\ reply[g] # "granted" => Left(g) + Lag + took[g] >= Margin

InTime == \A g \in Gens : Silent(g) /\ NoStray(g) /\ Ahead(g)

LEMMA InTimeInit == RegInit => InTime
<1> SUFFICES ASSUME RegInit, NEW g \in Gens PROVE Silent(g) /\ NoStray(g) /\ Ahead(g)
  BY DEF InTime
<1>1. loop[g] = "none" /\ board.by # g
  BY Constants DEF RegInit, Gens
<1>2. QED
  BY <1>1 DEF Silent, NoStray, Ahead

\* What a step leaves alone of a generation; another may take its contact.
Same(g) ==
  /\ loop'[g] = loop[g] /\ rest'[g] = rest[g] /\ took'[g] = took[g] /\ slow'[g] = slow[g]
  /\ reply'[g] = reply[g] /\ expires'[g] = expires[g]
  /\ stray'[g] = stray[g]
  /\ Holds(g)' => Holds(g) /\ Left(g)' = Left(g)

\* A generation that is left alone keeps what it has, if nobody reports for it.
LEMMA SameKeeps ==
  ASSUME NEW g \in Gens, Silent(g), NoStray(g), Ahead(g), Same(g),
         board' = board \/ board'.by # g
  PROVE  Silent(g)' /\ NoStray(g)' /\ Ahead(g)'
<1>1. Shown(g)' => Shown(g)
  BY DEF Shown
<1>2. Silent(g)'
  BY DEF Silent, Same
<1>3. NoStray(g)'
  BY <1>1 DEF NoStray, Same
<1>4. Ahead(g)'
  BY <1>1 DEF Ahead, Same
<1>5. QED
  BY <1>2, <1>3, <1>4

\* A step of generation h concerns no other.
LEMMA StepSame ==
  ASSUME RegTypeOK, NEW h \in Gens,
         Step(h) \/ Refuse(h) \/ \E e \in Grants : Grant(h, e) \/ GrantStray(h, e),
         NEW g \in Gens, g # h
  PROVE  Same(g) /\ (board' = board \/ board'.by # g)
<1> USE DEF RegTypeOK, Same, Holds, Left, Goto, bots, network, registrar
<1>1. CASE Start(h) \/ Wake(h)
  BY <1>1 DEF Start, Wake
<1>2. CASE Ask(h)
  BY <1>2 DEF Ask, Return
<1>3. CASE Answer(h)
  BY <1>3 DEF Answer, Outcome, Report
<1>4. CASE Fail(h)
  BY <1>4 DEF Fail, Outcome, Report
<1>5. CASE Cancelled(h)
  BY <1>5 DEF Cancelled, Return
<1>6. CASE Refuse(h)
  BY <1>6 DEF Refuse
<1>7. CASE \E e \in Grants : Grant(h, e) \/ GrantStray(h, e)
  <2>1. ASSUME NEW e \in Grants, Register(h, e), UNCHANGED contact
        PROVE  Holds(g)' => Holds(g) /\ Left(g)' = Left(g)
    BY <2>1 DEF Register
  <2>2. QED
    BY <1>7, <2>1 DEF Grant, GrantStray
<1>8. QED
  BY <1>1, <1>2, <1>3, <1>4, <1>5, <1>6, <1>7 DEF Step

\* The steps of the loop itself.
LEMMA LoopInTime ==
  ASSUME RegTypeOK, NEW g \in Gens, Silent(g), NoStray(g), Ahead(g), Step(g)
  PROVE  Silent(g)' /\ NoStray(g)' /\ Ahead(g)'
<1> USE Constants, RegistrationAssumption DEF RegTypeOK, Goto
<1>1. CASE Start(g)
  <2>1. loop[g] = "init" /\ loop'[g] \in {"top", "off"} /\ board' = board
    BY <1>1 DEF Start
  <2>2. ~Shown(g)'
    BY <2>1 DEF Silent, Shown
  <2>3. QED
    BY <2>1, <2>2 DEF Silent, NoStray, Ahead
<1>2. CASE (Ask(g) /\ Stopped(g)) \/ Cancelled(g)
  <2>1. loop'[g] = "off"
    BY <1>2 DEF Ask, Cancelled, Return
  <2>2. QED
    BY <2>1 DEF Silent, NoStray, Ahead
<1>3. CASE Ask(g) /\ ~Stopped(g)
  <2>1. /\ loop[g] = "top" /\ loop'[g] = "ask" /\ took'[g] = 0 /\ reply'[g] = "sent"
        /\ UNCHANGED <<rest, slow, expires, board, contact, stray, bind, holder>>
    BY <1>3 DEF Ask, bots, network, registrar
  <2>2. Silent(g)' /\ NoStray(g)'
    BY <2>1 DEF Silent, NoStray, Shown
  <2>3. Ahead(g)'
    <3>1. Holds(g)' = Holds(g) /\ Left(g)' = Left(g) /\ Left(g) \in Nat
      BY <2>1 DEF Holds, Left
    <3>2. QED
      BY <2>1, <3>1 DEF Ahead, Shown
  <2>4. QED
    BY <2>2, <2>3
<1>4. CASE Answer(g) /\ reply[g] = "granted"
  <2>1. /\ loop[g] = "ask" /\ loop'[g] = "sleep"
        /\ rest'[g] = Pause(expires[g]) /\ slow'[g] = (took[g] > Lag)
        /\ UNCHANGED <<reply, expires, contact, stray, bind, holder>>
    BY <1>4 DEF Answer, bots, network, registrar
  <2>2. Silent(g)' /\ NoStray(g)'
    BY <2>1, <1>4 DEF Silent, NoStray
  <2>0. Holds(g)' = Holds(g) /\ Left(g)' = Left(g) /\ Left(g) \in Nat
    BY <2>1 DEF Holds, Left
  <2>3. ASSUME Holds(g), expires'[g] > Margin, ~slow'[g] PROVE Left(g) + Lag >= rest'[g] + Margin
    <3>1. rest'[g] = expires[g] - Margin
      BY <2>1, <2>3 DEF Pause
    <3>0. ~(took[g] > Lag)
      BY <2>1, <2>3, Zenon
    <3>2. Left(g) + took[g] >= expires[g]
      BY <2>1, <2>3, <1>4 DEF Ahead
    <3>3. QED
      BY <2>0, <2>1, <2>3, <3>1, <3>2, <3>0
  <2>4. Ahead(g)'
    BY <2>0, <2>1, <2>3 DEF Ahead
  <2>5. QED
    BY <2>2, <2>4
<1>5. CASE (Answer(g) /\ reply[g] # "granted") \/ Fail(g)
  <2>1. loop'[g] = "sleep" /\ board' = [by |-> g, registered |-> FALSE]
    BY <1>5 DEF Answer, Fail, Outcome, Report
  <2>2. ~Shown(g)'
    BY <2>1 DEF Shown
  <2>3. QED
    BY <2>1, <2>2 DEF Silent, NoStray, Ahead
<1>6. CASE Wake(g)
  <2>1. /\ loop[g] = "sleep" /\ loop'[g] = "top" /\ rest[g] = 0
        /\ UNCHANGED <<slow, expires, board, contact, stray, bind, holder>>
    BY <1>6 DEF Wake, bots, network, registrar
  <2>2. Silent(g)' /\ NoStray(g)'
    BY <2>1 DEF Silent, NoStray, Shown
  <2>3. Ahead(g)'
    BY <2>1 DEF Ahead, Shown, Holds, Left
  <2>4. QED
    BY <2>2, <2>3
<1>7. QED
  BY <1>1, <1>2, <1>3, <1>4, <1>5, <1>6 DEF Step

\* The registrar's steps.
LEMMA RegistrarInTime ==
  ASSUME RegTypeOK, NEW g \in Gens, Silent(g), NoStray(g), Ahead(g),
         Refuse(g) \/ \E e \in Grants : Grant(g, e) \/ GrantStray(g, e)
  PROVE  Silent(g)' /\ NoStray(g)' /\ Ahead(g)'
<1> USE Constants DEF RegTypeOK
<1>1. CASE Refuse(g)
  <2>1. /\ loop[g] = "ask" /\ reply[g] = "sent" /\ reply'[g] = "refused"
        /\ UNCHANGED <<loop, rest, took, slow, expires, board, contact, stray, bind, holder>>
    BY <1>1 DEF Refuse, bots, network, registrar
  <2>2. QED
    BY <2>1 DEF Silent, NoStray, Ahead, Shown, Holds, Left
<1>2. ASSUME NEW e \in Grants, Grant(g, e) PROVE Silent(g)' /\ NoStray(g)' /\ Ahead(g)'
  <2>1. /\ loop[g] = "ask" /\ reply'[g] = "granted"
        /\ expires'[g] = e /\ Left(g)' = e /\ stray'[g] = FALSE
        /\ UNCHANGED <<loop, rest, took, slow, board>>
    BY <1>2 DEF Grant, Register, Left, bots
  <2>2. e \in Nat /\ took[g] \in Nat /\ e + took[g] >= e
    OBVIOUS
  <2>3. QED
    BY <2>1, <2>2 DEF Silent, NoStray, Ahead, Shown
<1>3. ASSUME NEW e \in Grants, GrantStray(g, e) PROVE Silent(g)' /\ NoStray(g)' /\ Ahead(g)'
  <2>1. /\ stray[g] /\ stray'[g] = FALSE
        /\ UNCHANGED <<loop, rest, took, slow, reply, expires, board>>
    BY <1>3 DEF GrantStray
  <2>2. QED
    BY <2>1 DEF Silent, NoStray, Ahead, Shown
<1>4. QED
  BY <1>1, <1>2, <1>3

\* Time: a binding is not counted down faster than the loop's rest, or than
\* the exchange that is to refresh it goes on.
LEMMA TickInTime ==
  ASSUME RegTypeOK, Tick, NEW g \in Gens, Silent(g), NoStray(g), Ahead(g)
  PROVE  Silent(g)' /\ NoStray(g)' /\ Ahead(g)'
<1> USE Constants, RegistrationAssumption DEF RegTypeOK
<1>1. UNCHANGED <<loop, slow, reply, expires, board, contact, stray, holder>>
  BY DEF Tick
<1>2. Silent(g)' /\ NoStray(g)'
  BY <1>1 DEF Silent, NoStray, Shown
<1>3. /\ Left(g) \in Nat /\ Left(g)' \in Nat /\ Left(g)' + 1 >= Left(g)
      /\ Holds(g)' = Holds(g)
  <2>1. contact[g] \in Gens /\ contact'[g] = contact[g]
    BY <1>1
  <2>2. /\ bind[contact[g]] \in Nat
        /\ bind'[contact[g]] = IF bind[contact[g]] > 0 THEN bind[contact[g]] - 1
                               ELSE bind[contact[g]]
    BY <2>1 DEF Tick, Down
  <2>3. Left(g) = bind[contact[g]] /\ Left(g)' = bind'[contact[g]]
    BY <2>1 DEF Left
  <2>4. Holds(g)' = Holds(g)
    BY <1>1 DEF Holds
  <2>5. QED
    BY <2>2, <2>3, <2>4
<1>4. loop[g] = "ask" => took[g] \in Nat /\ took'[g] = took[g] + 1
  BY DEF Tick
<1>5. loop[g] = "sleep" => rest[g] \in Nat /\ rest[g] > 0 /\ rest'[g] = rest[g] - 1
  BY DEF Tick, Quiet, Down
<1>6. loop[g] # "top"
  BY DEF Tick, Quiet
<1>7. Shown(g)' = Shown(g)
  BY <1>1 DEF Shown
<1>8. CASE loop[g] = "ask"
  BY <1>1, <1>2, <1>3, <1>4, <1>7, <1>8 DEF Ahead
<1>9. CASE loop[g] = "sleep"
  BY <1>1, <1>2, <1>3, <1>5, <1>7, <1>9 DEF Ahead
<1>10. CASE loop[g] \notin {"ask", "sleep"}
  BY <1>1, <1>2, <1>6, <1>10 DEF Ahead
<1>11. QED
  BY <1>8, <1>9, <1>10

LEMMA SpawnInTime ==
  ASSUME RegTypeOK, Turns, Spawn, NEW g \in Gens, Silent(g), NoStray(g), Ahead(g)
  PROVE  Silent(g)' /\ NoStray(g)' /\ Ahead(g)'
<1> USE Constants DEF RegTypeOK, Status
<1>1. UNCHANGED <<rest, took, slow, reply, expires, board, stray, bind, holder>>
  BY DEF Spawn, network, registrar
<1>2. CASE g = gen + 1
  <2>1. loop'[g] = "init"
    BY <1>2 DEF Spawn
  <2>2. board.by # g
    BY <1>2 DEF Turns
  <2>3. QED
    BY <1>1, <2>1, <2>2 DEF Silent, NoStray, Ahead
<1>3. CASE g # gen + 1 /\ loop[g] = "init"
  <2>1. loop'[g] = "off"
    BY <1>3 DEF Spawn
  <2>2. QED
    BY <2>1 DEF Silent, NoStray, Ahead
<1>4. CASE g # gen + 1 /\ loop[g] # "init"
  <2>1. loop'[g] = loop[g] /\ contact'[g] = contact[g]
    BY <1>4 DEF Spawn
  <2>2. Same(g)
    BY <1>1, <2>1 DEF Same, Holds, Left
  <2>3. QED
    BY <1>1, <2>2, SameKeeps
<1>5. QED
  BY <1>2, <1>3, <1>4

LEMMA InTimeStep ==
  ASSUME RegTypeOK, Turns, InTime, [RegNext]_regVars
  PROVE  InTime'
<1> SUFFICES ASSUME NEW g \in Gens PROVE Silent(g)' /\ NoStray(g)' /\ Ahead(g)'
  BY DEF InTime
<1>1. Silent(g) /\ NoStray(g) /\ Ahead(g)
  BY DEF InTime
<1>2. CASE Spawn
  BY <1>1, <1>2, SpawnInTime
<1>3. CASE Tick
  BY <1>1, <1>3, TickInTime
<1>4. CASE Cancel \/ Recover \/ UNCHANGED regVars
  <2>1. Same(g) /\ board' = board
    BY <1>4 DEF Cancel, Recover, regVars, bots, network, registrar, Same, Holds, Left
  <2>2. QED
    BY <1>1, <2>1, SameKeeps
<1>5. ASSUME NEW h \in Gens,
             Step(h) \/ Refuse(h) \/ \E e \in Grants : Grant(h, e) \/ GrantStray(h, e)
      PROVE  Silent(g)' /\ NoStray(g)' /\ Ahead(g)'
  <2>1. CASE h = g
    BY <1>1, <1>5, <2>1, LoopInTime, RegistrarInTime
  <2>2. CASE h # g
    BY <1>1, <1>5, <2>2, StepSame, SameKeeps
  <2>3. QED
    BY <2>1, <2>2
<1>6. QED
  BY <1>2, <1>3, <1>4, <1>5 DEF RegNext

\* An account shown as registered is bound at the registrar.
THEOREM ShownAccountIsBound == RegSpec => []ShownIsBound
<1>1. ASSUME RegTypeOK, InTime PROVE ShownIsBound
  <2> SUFFICES ASSUME NEW g \in Gens, Shown(g), loop[g] # "off",
                      expires[g] > Margin, ~slow[g], took[g] <= Lag, Holds(g)
               PROVE  Left(g) > 0
    BY DEF ShownIsBound, Shown, Holds, Left
  <2> USE Constants, RegistrationAssumption, <1>1 DEF RegTypeOK
  <2>1. Silent(g) /\ Ahead(g)
    BY DEF InTime
  <2>2. loop[g] \in {"top", "ask", "sleep"}
    BY <2>1 DEF Silent, Shown
  <2>0. Left(g) \in Nat
    BY DEF Left
  <2>3. Left(g) \in Nat /\ took[g] \in Nat /\ rest[g] \in Nat /\ Lag + Lag < Margin
    BY <2>0
  <2>4. CASE loop[g] = "ask" /\ reply[g] = "granted"
    BY <2>1, <2>3, <2>4 DEF Ahead
  <2>5. CASE loop[g] = "ask" /\ reply[g] # "granted"
    BY <2>1, <2>3, <2>5 DEF Ahead
  <2>6. CASE loop[g] = "sleep"
    BY <2>1, <2>3, <2>6 DEF Ahead
  <2>7. CASE loop[g] = "top"
    BY <2>1, <2>3, <2>7 DEF Ahead
  <2>8. QED
    BY <2>2, <2>4, <2>5, <2>6, <2>7
<1>2. RegSpec => []InTime
  BY InTimeInit, InTimeStep, Invariant, PTL DEF RegSpec
<1>3. QED
  BY <1>1, <1>2, Invariant, PTL
=============================================================================
