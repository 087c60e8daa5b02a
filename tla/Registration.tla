---------------------------- MODULE Registration ----------------------------
(***************************************************************************)
(* The registration of one account across hot reloads (src/sip.rs          *)
(* start_registration_loop, src/status.rs, src/web/mod.rs reload_bots).    *)
(*                                                                         *)
(* Each reload cancels the account's bot and spawns its next generation.   *)
(* A generation's loop, a task that nothing but the bot's token ends,      *)
(* registers the contact of its bot, reports the outcome on the status     *)
(* board all generations share, and sleeps until the binding is to be      *)
(* refreshed.  The registrar, the network and register() itself (which     *)
(* answers challenges and times out) are external.                         *)
(*                                                                         *)
(* A tick is the unit the timers count in; it passes only when no task of  *)
(* the bot has anything to do (a task runs well within a second).          *)
(*                                                                         *)
(* A contact is user@host:port.  The ports are probed from the same base   *)
(* in every generation, so that a bot normally has the contact of its      *)
(* predecessor, and another one when its port was not free.  It registers  *)
(* it under a Call-ID of its own, so that nothing orders its REGISTERs and *)
(* those its predecessor left under way: the last to arrive sets the       *)
(* binding.                                                                *)
(***************************************************************************)
EXTENDS Naturals

CONSTANTS
  Margin,     \* seconds before the expiry at which a binding is refreshed
  Retry,      \* seconds between attempts after a failure
  Grants,     \* the expiries the registrar may grant
  Timeout,    \* ticks after which register() gives up
  Lag,        \* ticks an exchange takes at most once the network is good
  MaxGen      \* bound: generations of the bot

Gens == 1 .. MaxGen

ASSUME RegistrationAssumption ==
  /\ Margin \in Nat /\ Retry \in Nat \ {0} /\ Grants \subseteq Nat \ {0}
  /\ Timeout \in Nat \ {0} /\ MaxGen \in Nat
  /\ Lag \in Nat /\ 2 * Lag < Margin

VARIABLES
  gen,      \* the generation last spawned
  token,    \* generation -> the cancel_token of its bot is cancelled
  grace,    \* a reload has cancelled the bots and still waits
  loop,     \* generation -> where its loop is
  rest,     \* generation -> ticks its loop has left to sleep
  took,     \* generation -> ticks the exchange in progress has taken
  slow,     \* generation -> the last exchange took more than Lag
  reply,    \* generation -> what has become of its last REGISTER
  expires,  \* generation -> what the registrar granted last
  stray,    \* generation -> a REGISTER it gave up is still under way
  contact,  \* generation -> its contact, named for the first to have it
  bind,     \* contact -> ticks it stays bound at the registrar
  holder,   \* contact -> whose REGISTER has set its binding
  board,    \* the account's entry of the status board
  good      \* from now on the network and the registrar are well

bots      == <<gen, token, grace, contact>>
registrar == <<bind, holder>>
network   == <<stray, registrar, good>>

regVars == <<bots, loop, rest, took, slow, reply, expires, board, network>>

Status == [by : 0 .. MaxGen, registered : BOOLEAN]

RegTypeOK ==
  /\ gen \in 0 .. MaxGen
  /\ token \in [Gens -> BOOLEAN] /\ grace \in BOOLEAN
  /\ loop \in [Gens -> {"none", "init", "top", "ask", "sleep", "off"}]
  /\ rest \in [Gens -> Nat]
  /\ took \in [Gens -> Nat] /\ slow \in [Gens -> BOOLEAN]
  /\ reply \in [Gens -> {"none", "sent", "granted", "refused"}]
  /\ expires \in [Gens -> Nat]
  /\ stray \in [Gens -> BOOLEAN]
  /\ contact \in [Gens -> Gens]
  /\ bind \in [Gens -> Nat] /\ holder \in [Gens -> Gens]
  /\ board \in Status
  /\ good \in BOOLEAN

RegInit ==
  /\ gen = 0 /\ grace = FALSE /\ good = FALSE
  /\ token = [g \in Gens |-> FALSE]
  /\ loop = [g \in Gens |-> "none"]
  /\ rest = [g \in Gens |-> 0]
  /\ took = [g \in Gens |-> 0]
  /\ slow = [g \in Gens |-> FALSE]
  /\ reply = [g \in Gens |-> "none"]
  /\ expires = [g \in Gens |-> 0]
  /\ stray = [g \in Gens |-> FALSE]
  /\ contact = [g \in Gens |-> g]
  /\ bind = [c \in Gens |-> 0]
  /\ holder = [c \in Gens |-> c]
  /\ board = [by |-> 0, registered |-> FALSE]

-----------------------------------------------------------------------------
Goto(g, s) == loop' = [loop EXCEPT ![g] = s]

\* The loop returns, and its variables with it.
Return(g) ==
  /\ Goto(g, "off")
  /\ rest' = [rest EXCEPT ![g] = 0]
  /\ took' = [took EXCEPT ![g] = 0]
  /\ slow' = [slow EXCEPT ![g] = FALSE]
  /\ reply' = [reply EXCEPT ![g] = "none"]
  /\ expires' = [expires EXCEPT ![g] = 0]

\* spawn_bots starts the next generation, at a port that is free: that of an
\* earlier one, or another.  reload_bots has cancelled and aborted the one
\* before, which therefore starts no loop any more.
Spawn ==
  /\ gen < MaxGen /\ ~grace
  /\ gen > 0 => token[gen]
  /\ gen' = gen + 1
  /\ \E c \in {contact[g] : g \in 1 .. gen} \cup {gen + 1} :
       contact' = [contact EXCEPT ![gen + 1] = c]
  /\ loop' = [g \in Gens |-> IF g = gen + 1 THEN "init"
                             ELSE IF loop[g] = "init" THEN "off" ELSE loop[g]]
  /\ UNCHANGED <<token, grace, rest, took, slow, reply, expires, board, network>>

\* reload_bots cancels the bot and gives it 1500 ms.
Cancel ==
  /\ gen > 0 /\ ~token[gen]
  /\ token' = [token EXCEPT ![gen] = TRUE]
  /\ grace' = TRUE
  /\ UNCHANGED <<gen, contact, loop, rest, took, slow, reply, expires, board, network>>

\* run_wait has its endpoint and spawns the loop; without a valid URI of the
\* registrar the loop returns at once, and reports nothing.
Start(g) ==
  /\ loop[g] = "init"
  /\ Goto(g, "top") \/ Goto(g, "off")
  /\ UNCHANGED <<bots, rest, took, slow, reply, expires, board, network>>

\* Mutant: the loop has a token that the reload does not cancel.
StoppedNever(g) == FALSE

\* The loop's clone of cancel_token is cancelled.
Stopped(g) == token[g]

\* The top of the loop: cancelled, or register() begins.
Ask(g) ==
  /\ loop[g] = "top"
  /\ IF Stopped(g)
       THEN Return(g)
       ELSE /\ Goto(g, "ask")
            /\ took' = [took EXCEPT ![g] = 0]
            /\ reply' = [reply EXCEPT ![g] = "sent"]
            /\ UNCHANGED <<rest, slow, expires>>
  /\ UNCHANGED <<bots, board, network>>

\* report()
Report(g, ok) == board' = [by |-> g, registered |-> ok]

\* Mutant: the binding is refreshed when it expires.
PauseFull(e) == e

\* How long a granted binding is left alone.
Pause(e) == IF e > Margin THEN e - Margin ELSE e

\* Mutant: an outcome other than a 200 leaves the board as it is.
ReportSuccess(g, ok) == IF ok THEN Report(g, ok) ELSE UNCHANGED board

\* What register() has brought is reported, and the loop sleeps.
Outcome(g, ok) == Report(g, ok)

Answer(g) ==
  /\ loop[g] = "ask" /\ reply[g] \in {"granted", "refused"}
  /\ Outcome(g, reply[g] = "granted")
  /\ rest' = [rest EXCEPT ![g] = IF reply[g] = "granted" THEN Pause(expires[g]) ELSE Retry]
  /\ slow' = [slow EXCEPT ![g] = took[g] > Lag]
  /\ took' = [took EXCEPT ![g] = 0]
  /\ Goto(g, "sleep")
  /\ UNCHANGED <<bots, reply, expires, network>>

\* register() fails, or gives up; the REGISTER may arrive all the same.
Fail(g) ==
  /\ loop[g] = "ask" /\ ~good
  /\ Outcome(g, FALSE)
  /\ rest' = [rest EXCEPT ![g] = Retry]
  /\ stray' = [stray EXCEPT ![g] = @ \/ reply[g] = "sent"]
  /\ reply' = [reply EXCEPT ![g] = "refused"]
  /\ took' = [took EXCEPT ![g] = 0]
  /\ Goto(g, "sleep")
  /\ UNCHANGED <<bots, slow, expires, registrar, good>>

\* Mutant: an attempt that has failed is not made again.
WakeRegistered(g) ==
  /\ loop[g] = "sleep" /\ rest[g] = 0 /\ board.registered
  /\ Goto(g, "top")
  /\ UNCHANGED <<bots, rest, took, slow, reply, expires, board, network>>

Wake(g) ==
  /\ loop[g] = "sleep" /\ rest[g] = 0
  /\ Goto(g, "top")
  /\ UNCHANGED <<bots, rest, took, slow, reply, expires, board, network>>

\* Mutant: register() is awaited without the token.
WatchesAsleep(g) == loop[g] = "sleep"

\* The selects on cancel_token.
Watches(g) == loop[g] \in {"ask", "sleep"}

Cancelled(g) ==
  /\ Stopped(g) /\ Watches(g)
  /\ stray' = [stray EXCEPT ![g] = @ \/ (loop[g] = "ask" /\ reply[g] = "sent")]
  /\ Return(g)
  /\ UNCHANGED <<bots, board, registrar, good>>

-----------------------------------------------------------------------------
\* The registrar, and time.

\* A REGISTER of generation g sets the binding of its contact.
Register(g, e) ==
  /\ bind' = [bind EXCEPT ![contact[g]] = e]
  /\ holder' = [holder EXCEPT ![contact[g]] = g]

\* The REGISTER in progress is granted; older ones of this bot will be out of
\* order, those of its predecessors, of another Call-ID, will not.
Grant(g, e) ==
  /\ loop[g] = "ask" /\ reply[g] = "sent"
  /\ good => e > Margin
  /\ reply' = [reply EXCEPT ![g] = "granted"]
  /\ expires' = [expires EXCEPT ![g] = e]
  /\ Register(g, e)
  /\ stray' = [stray EXCEPT ![g] = FALSE]
  /\ UNCHANGED <<bots, loop, rest, took, slow, board, good>>

Refuse(g) ==
  /\ loop[g] = "ask" /\ reply[g] = "sent" /\ ~good
  /\ reply' = [reply EXCEPT ![g] = "refused"]
  /\ UNCHANGED <<bots, loop, rest, took, slow, expires, board, network>>

\* A REGISTER that nobody waits for any more is granted, whoever has the
\* contact by then, or lost.
GrantStray(g, e) ==
  /\ stray[g]
  /\ stray' = [stray EXCEPT ![g] = FALSE]
  /\ Register(g, e) \/ UNCHANGED registrar
  /\ UNCHANGED <<bots, loop, rest, took, slow, reply, expires, board, good>>

Recover ==
  /\ ~good /\ good' = TRUE
  /\ UNCHANGED <<bots, loop, rest, took, slow, reply, expires, board, stray, registrar>>

\* No loop has anything to do but wait.
Quiet ==
  \A g \in Gens :
    /\ loop[g] # "top"
    /\ loop[g] = "sleep" => rest[g] > 0
    /\ loop[g] = "ask" => took[g] < (IF good THEN Lag ELSE Timeout)
    /\ ~(Stopped(g) /\ Watches(g))

Down(f, S) == [g \in Gens |-> IF g \in S /\ f[g] > 0 THEN f[g] - 1 ELSE f[g]]

Tick ==
  /\ Quiet
  /\ rest' = Down(rest, {g \in Gens : loop[g] = "sleep"})
  /\ bind' = Down(bind, Gens)
  /\ took' = [g \in Gens |-> IF loop[g] = "ask" THEN took[g] + 1 ELSE took[g]]
  /\ grace' = FALSE
  /\ UNCHANGED <<gen, token, contact, loop, slow, reply, expires, board, stray, holder, good>>

Step(g) == Start(g) \/ Ask(g) \/ Answer(g) \/ Fail(g) \/ Wake(g) \/ Cancelled(g)

RegNext ==
  \/ Spawn \/ Cancel \/ Recover \/ Tick
  \/ \E g \in Gens :
       \/ Step(g) \/ Refuse(g)
       \/ \E e \in Grants : Grant(g, e) \/ GrantStray(g, e)

\* Tasks run, register() returns, time passes; a REGISTER under way arrives or
\* is lost, and a registrar that is well answers.
RegFairness ==
  /\ WF_regVars(Tick)
  /\ \A g \in Gens :
       /\ WF_regVars(Step(g))
       /\ WF_regVars(\E e \in Grants : GrantStray(g, e))
       /\ WF_regVars(good /\ \E e \in Grants : Grant(g, e))

RegSpec == RegInit /\ [][RegNext]_regVars

RegFairSpec == RegSpec /\ RegFairness

-----------------------------------------------------------------------------
\* What the account list shows is so: an account shown as registered is bound
\* at the registrar, while its loop sleeps and while it refreshes the binding,
\* if the expiry leaves room for the margin and neither this exchange nor the
\* one before takes more than Lag, for which twice has to fit into the margin
\* (sleep_time).  This is so until a REGISTER that a bot replaced since has left
\* under way reaches the same contact: what that one is granted may be less, and
\* the loop does not learn of it before it refreshes the binding.
ShownIsBound ==
  \A g \in Gens :
    /\ board = [by |-> g, registered |-> TRUE] /\ loop[g] # "off"
    /\ expires[g] > Margin /\ ~slow[g] /\ took[g] <= Lag
    /\ holder[contact[g]] = g
    => bind[contact[g]] > 0

\* The board never falls back to a generation that has been replaced, however
\* late its REGISTER is answered (the selects on cancel_token).
BoardForward == [][board'.by >= board.by]_board

\* Whatever becomes of its REGISTER, a bot that starts to register overwrites
\* what its predecessors left on the board, unless it is stopped first.
BoardCatchesUp == \A g \in Gens : loop[g] = "ask" ~> board.by = g \/ token[g]

\* The network is good and the account's bot is not reloaded any more.
InService == good /\ \E g \in Gens : g = gen /\ ~token[g] /\ loop[g] # "off"

\* Then its contact is bound, and shown as such, and stays so: the binding
\* never expires before it is refreshed, and what a REGISTER of a predecessor
\* has shortened, the next one of the bot itself mends.
StaysRegistered ==
  <>[]InService => <>[](/\ \E g \in Gens : g = gen /\ bind[contact[g]] > 0
                      /\ board = [by |-> gen, registered |-> TRUE])

\* A bot that was stopped, and never says that it goes away, stops renewing
\* its contact: the registrar forgets it, or has it from another bot that
\* took over the address; no REGISTER still under way brings it back.
ContactFades ==
  \A g \in Gens :
    token[g] ~> /\ loop[g] = "off" /\ ~stray[g]
                /\ bind[contact[g]] = 0 \/ holder[contact[g]] # g
=============================================================================
