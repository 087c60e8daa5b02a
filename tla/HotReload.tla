----------------------------- MODULE HotReload -----------------------------
(***************************************************************************)
(* The account bots of serve mode and the edits of their configuration     *)
(* (src/web/mod.rs, src/web/api.rs).  An HTTP handler reads the            *)
(* configuration, changes its copy, stores it, writes it to the file and   *)
(* starts a reload.  Reloads take turns (RELOAD_LOCK): each cancels all    *)
(* bots, gives them 1500 ms, aborts them, and spawns a bot per enabled     *)
(* account of the configuration that is then current.                      *)
(*                                                                         *)
(* A bot binds its port, listens, and when cancelled closes its transport  *)
(* once its calls are over (run_wait, whose inside is InboundCall's        *)
(* subject).  Time is abstract: 1500 ms are enough for a bot without calls *)
(* to close, and may or may not be for one with calls; the five seconds    *)
(* after which run_wait gives its calls up are longer.                     *)
(***************************************************************************)
EXTENDS Naturals, FiniteSets

CONSTANTS
  Total,      \* accounts of the configuration, in its order
  Automatic,  \* those without a transport_addr of their own
  FixedPort,  \* the port in the transport_addr of every other account
  Tries,      \* ports tried for an automatic one, from the first on
  Settings,   \* what an enabled account can be set to
  Handlers,   \* HTTP requests in progress at a time
  MaxEdits    \* bound: edits

Accounts == 1 .. Total

Off == 0

ASSUME ReloadAssumption ==
  /\ Total \in Nat /\ Automatic \subseteq Accounts
  /\ Tries \in Nat \ {0}
  /\ FixedPort \in [Accounts -> Nat]
  /\ Settings \subseteq Nat \ {Off} /\ Settings # {}
  /\ MaxEdits \in Nat

VARIABLES
  config,   \* ServeState.config: account -> its setting, Off if not enabled
  disk,     \* what the configuration file says
  req,      \* handler -> its request
  edits,    \* edits begun
  waiting,  \* reload_bots tasks that have not taken RELOAD_LOCK
  phase,    \* "boot", "idle", or the holder of the lock: "sleep", "spawn"
  plan,     \* the configuration spawn_bots has read
  next,     \* the account it looks at
  used,     \* the ports it has given out
  bot,      \* account -> its bot's task
  ran,      \* account -> the setting its bot was spawned with
  addr,     \* account -> the port its bot was given
  busy,     \* account -> its bot has calls
  leaked    \* ports of transports that nobody is left to close

http    == <<disk, req, edits>>
reload  == <<phase, plan, next, used>>
running == <<bot, ran, addr, busy, leaked>>

vars == <<config, waiting, http, reload, running>>

Configs == [Accounts -> Settings \union {Off}]

Idle == [step |-> "idle"]

Requests ==
  {Idle} \union [step : {"edit"}, copy : Configs, account : Accounts]
         \union [step : {"save", "queue"}]
         \union [step : {"write"}, copy : Configs]

TypeOK ==
  /\ config \in Configs /\ disk \in Configs /\ plan \in Configs
  /\ req \in [Handlers -> Requests]
  /\ edits \in 0 .. MaxEdits /\ waiting \in Nat
  /\ phase \in {"boot", "idle", "sleep", "spawn"}
  /\ next \in 1 .. Total + 1 /\ used \subseteq Nat /\ leaked \subseteq Nat
  /\ bot \in [Accounts -> {"none", "starting", "listening", "draining", "closed", "failed"}]
  /\ ran \in [Accounts -> Settings \union {Off}]
  /\ addr \in [Accounts -> Nat]
  /\ busy \in [Accounts -> BOOLEAN]

\* run_serve has loaded the configuration and is about to spawn the bots.
Init ==
  /\ config \in [Accounts -> Settings]
  /\ disk = config /\ plan = config
  /\ req = [h \in Handlers |-> Idle] /\ edits = 0 /\ waiting = 0
  /\ phase = "boot" /\ next = 1 /\ used = {} /\ leaked = {}
  /\ bot = [a \in Accounts |-> "none"]
  /\ ran = [a \in Accounts |-> Off]
  /\ addr = [a \in Accounts |-> 0]
  /\ busy = [a \in Accounts |-> FALSE]

-----------------------------------------------------------------------------
\* A configuration-editing request.

\* state.current_config(): the handler works on a copy.
Read(h) ==
  /\ phase # "boot" /\ edits < MaxEdits /\ req[h] = Idle
  /\ edits' = edits + 1
  /\ \E a \in Accounts :
       req' = [req EXCEPT ![h] = [step |-> "edit", copy |-> config, account |-> a]]
  /\ UNCHANGED <<config, waiting, disk, reload, running>>

\* The copy is changed and becomes the configuration (update_config).
Update(h) ==
  /\ req[h].step = "edit"
  /\ \E s \in Settings \union {Off} :
       config' = [req[h].copy EXCEPT ![req[h].account] = s]
  /\ req' = [req EXCEPT ![h] = [step |-> "save"]]
  /\ UNCHANGED <<waiting, disk, edits, reload, running>>

\* persist_config reads the configuration again ...
Save(h) ==
  /\ req[h].step = "save"
  /\ req' = [req EXCEPT ![h] = [step |-> "write", copy |-> config]]
  /\ UNCHANGED <<config, waiting, disk, edits, reload, running>>

\* ... and writes what it has read.
Write(h) ==
  /\ req[h].step = "write"
  /\ disk' = req[h].copy
  /\ req' = [req EXCEPT ![h] = [step |-> "queue"]]
  /\ UNCHANGED <<config, waiting, edits, reload, running>>

\* Mutant: no reload is started while one is going on.
QueueUnlessBusy == waiting' = IF phase = "idle" THEN waiting + 1 ELSE waiting

\* tokio::spawn(reload_bots)
QueueReload == waiting' = waiting + 1

Queue(h) ==
  /\ req[h].step = "queue"
  /\ QueueReload
  /\ req' = [req EXCEPT ![h] = Idle]
  /\ UNCHANGED <<config, disk, edits, reload, running>>

-----------------------------------------------------------------------------
\* A reload.

\* RELOAD_LOCK is free and a reload task waits for it.
Turn == phase = "idle" /\ waiting > 0

\* It takes the lock and cancels every bot; a bot that is still starting will
\* notice when it has bound its port.
BeginReload ==
  /\ Turn
  /\ phase' = "sleep" /\ waiting' = waiting - 1
  /\ bot' = [a \in Accounts |-> IF bot[a] = "listening" THEN "draining" ELSE bot[a]]
  /\ UNCHANGED <<config, http, plan, next, used, ran, addr, busy, leaked>>

Held == {addr[a] : a \in {b \in Accounts : bot[b] \in {"listening", "draining"}}} \union leaked

\* Mutant: the calls of every bot are waited for.
AllClosed == \A a \in Accounts : bot[a] # "draining"

\* The 1500 ms, enough for the bots that have no calls.
TimeUp == \A a \in Accounts : bot[a] = "draining" => busy[a]

\* The time is up: a bot still draining is aborted, and with it goes the
\* run_wait that was to close its transport.  spawn_bots begins.
Abort ==
  /\ phase = "sleep"
  /\ TimeUp
  /\ leaked' = Held
  /\ bot' = [a \in Accounts |-> "none"]
  /\ ran' = [a \in Accounts |-> Off]
  /\ busy' = [a \in Accounts |-> FALSE]
  /\ plan' = config
  /\ phase' = "spawn" /\ next' = 1 /\ used' = {}
  /\ UNCHANGED <<config, waiting, http, addr>>

\* Mutant: the probe alone, without used_ports.
FreeProbed == {p \in 1 .. Tries : p \notin Held}

\* pick_free_bind_addr: the ports not given out yet that the probe can bind.
Free == {p \in 1 .. Tries : p \notin used /\ p \notin Held}

\* The port of the next account; without a free one it is the default.
Port(p) ==
  \/ next \in Automatic /\ p \in Free /\ \A q \in Free : p <= q
  \/ next \in Automatic /\ Free = {} /\ p = 1
  \/ next \notin Automatic /\ p = FixedPort[next]

SpawnBot ==
  /\ phase \in {"boot", "spawn"} /\ next <= Total /\ plan[next] # Off
  /\ \E p \in 1 .. Tries \union {FixedPort[a] : a \in Accounts} :
       /\ Port(p)
       /\ addr' = [addr EXCEPT ![next] = p]
       /\ used' = IF next \in Automatic THEN used \union {p} ELSE used
  /\ bot' = [bot EXCEPT ![next] = "starting"]
  /\ ran' = [ran EXCEPT ![next] = plan[next]]
  /\ next' = next + 1
  /\ UNCHANGED <<config, waiting, http, phase, plan, busy, leaked>>

SkipAccount ==
  /\ phase \in {"boot", "spawn"} /\ next <= Total /\ plan[next] = Off
  /\ next' = next + 1
  /\ UNCHANGED <<config, waiting, http, phase, plan, used, running>>

EndReload ==
  /\ phase \in {"boot", "spawn"} /\ next > Total
  /\ phase' = "idle"
  /\ UNCHANGED <<config, waiting, http, plan, next, used, running>>

-----------------------------------------------------------------------------
\* A bot.

\* init_endpoint; a port that is held makes run_wait return its error, which
\* is logged.
Bind(a) ==
  /\ bot[a] = "starting"
  /\ bot' = [bot EXCEPT ![a] = IF addr[a] \in Held THEN "failed"
                               ELSE IF phase = "sleep" THEN "draining" ELSE "listening"]
  /\ UNCHANGED <<config, waiting, http, reload, ran, addr, busy, leaked>>

CallBegins(a) ==
  /\ bot[a] = "listening" /\ ~busy[a]
  /\ busy' = [busy EXCEPT ![a] = TRUE]
  /\ UNCHANGED <<config, waiting, http, reload, bot, ran, addr, leaked>>

CallEnds(a) ==
  /\ busy[a]
  /\ busy' = [busy EXCEPT ![a] = FALSE]
  /\ UNCHANGED <<config, waiting, http, reload, bot, ran, addr, leaked>>

\* The drain is over: transport_token is cancelled, and the port is free.
Close(a) ==
  /\ bot[a] = "draining" /\ ~busy[a]
  /\ bot' = [bot EXCEPT ![a] = "closed"]
  /\ UNCHANGED <<config, waiting, http, reload, ran, addr, busy, leaked>>

-----------------------------------------------------------------------------
Handler(h) == Update(h) \/ Save(h) \/ Write(h) \/ Queue(h)

Reload == BeginReload \/ Abort \/ SpawnBot \/ SkipAccount \/ EndReload

Next ==
  \/ \E h \in Handlers : Read(h) \/ Handler(h)
  \/ Reload
  \/ \E a \in Accounts : Bind(a) \/ CallBegins(a) \/ CallEnds(a) \/ Close(a)

\* Requests are carried out, reloads proceed and bots start and close.  Users
\* need not edit anything, and calls need neither begin nor end.
Fairness ==
  /\ \A h \in Handlers : WF_vars(Handler(h))
  /\ WF_vars(Reload)
  /\ \A a \in Accounts : WF_vars(Bind(a)) /\ WF_vars(Close(a))

Spec == Init /\ [][Next]_vars

FairSpec == Spec /\ Fairness

-----------------------------------------------------------------------------
\* No stored edit is still to be saved or queued, and no reload is due.
Settled ==
  /\ phase = "idle" /\ waiting = 0
  /\ \A h \in Handlers : req[h].step \in {"idle", "edit"}

\* Once the last reload is over a bot has been spawned for exactly the enabled
\* accounts (it may have failed to bind), each with the setting that is current, however edits, file
\* writes and reloads interleaved (a reload spawns from the configuration it
\* finds when the old bots are gone, and every edit is followed by one).
BotsFollowConfig == Settled => ran = config

\* Bot a was given the port that the transport_addr of another bot names: the
\* probe ran before that bot had bound it, and used_ports does not know it.
Clash(a) == \E b \in Accounts \ Automatic : ran[b] # Off /\ FixedPort[b] = addr[a]

\* An account without a port of its own is given one that it can bind, unless
\* it is the transport_addr of a bot spawned with it: whatever other automatic
\* bots were given and have not bound yet (used_ports), and whatever bots of
\* before the reload have not released (the probe).
AutoBinds == \A a \in Automatic : bot[a] = "failed" => Clash(a)

\* When the edits end, every enabled account with an automatic port comes to
\* listen, with the last setting, and stays, unless its port is another's
\* transport_addr: reloads do not wait for calls.
AutoComesBack ==
  <>[](\A a \in Automatic : config[a] # Off =>
         ran[a] = config[a] /\ (bot[a] = "listening" \/ (bot[a] = "failed" /\ Clash(a))))
=============================================================================
