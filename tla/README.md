# sipbot in TLA+

sipbot (`src/`) is a SIP test robot. It registers accounts, answers, rings, rejects, plays, echoes, records and hangs
up calls by a configured strategy, makes outbound calls in series, and in serve mode shows its calls in a web console,
keeps their history on disk and reloads its accounts while it runs. This directory holds TLA+ modules for the
concurrent core of that program, TLC models that check them on small instances, and TLAPS proofs of what matters most
for every instance. Paths below are relative to the repository (`src/src/sip.rs` is the file `src/sip.rs` of sipbot).

`PROJECT.json` lists the components with their status, the runs, a mutant of the code for every property, the source
lines each definition translates, the findings, the hazards and the theorems.

Contents: [the system](#the-system) - [the modules](#the-modules) - [the runs](#the-runs) -
[fairness](#fairness) - [the proofs](#the-proofs) - [what is only model-checked](#what-is-only-model-checked) -
[what is not modelled](#what-is-not-modelled) - [plan](#plan) - [working with it](#working-with-it)

## The system

Everything runs as tokio tasks on a multi-threaded runtime in one process. The SIP stack (`rsipstack`) and the RTP
stack (`rustrtc`) are libraries that are not part of the repository; the modules describe them only by what this code
relies on, and `PROJECT.json` marks such definitions as external.

| Component | Where | State it keeps | Operations |
|---|---|---|---|
| Call registry and history | `web/state.rs`, `web/inspector.rs` | deque of `CallRecord`s, newest first, trimmed to `MAX_CALLS`; JSON files in `records_dir` | find or create a record per message, move its state, flush it 1.2 s after an end, delete, clear, load at start |
| Inbound call task | `sip.rs` `handle_invite` | stage, dialog, media sessions, call and control tokens, the counter of current calls | reject, early media, ring, answer, announce and jump, talk, hang up; one monitor, one transaction handler and one guard per call |
| Bot | `sip.rs` `run_wait`, `listen_loop` | cancel token, transport token, current media session | serve requests, drain its calls on a stop, close the transport |
| Outbound call task | `sip.rs` `run_call`, `make_call` | the pending INVITE, events of the dialog, the random cancellation that is due | pace calls, invite, cancel, answer, talk, hang up, wait for all calls |
| Reload | `web/mod.rs`, `web/api.rs` | current configuration, configuration file, one task per bot, `RELOAD_LOCK` | edit, persist, cancel bots, wait, abort, pick ports, spawn |
| Media session, receiving | `media.rs` | `tracked_mids`, `echo_active`, loops per track | start record loops, take over for echo or bridge, yield, stop |
| Media session, statistics | `media.rs`, `stats.rs` | last sequence number and timestamp per loop, counters of loss, reordering, jumps and stream switches | count a frame, rewrite its timestamp in an echo |
| Media session, sending | `media.rs` | timeline of sent RTP, `audio_silent` | play, echo, DTMF, hold |
| Registration | `sip.rs`, `status.rs` | one loop per bot, one status per account | register, refresh, retry, report, stop |
| Recorder | `recorder.rs` | bounded queue, two sample buffers, WAV writer | record, tick, stop |
| In-dialog requests | `sip.rs` | hold state, current media session | re-INVITE, REFER, INFO |
| DTMF, strategies, matching | `dtmf.rs`, `config.rs`, `sip.rs` | none | pure functions |
| Reports, files, pages, audio analysis | `stats.rs`, `csv_stats.rs`, `web/*`, `audio_quality.rs` | counters, files | formatting, uploads, listings |

How they interact:

- Every message that passes the SIP stack, in or out, runs `MessageInspector` on some worker thread, which finds or
  creates the record of the Call-ID under the registry's lock, releases that lock, and then works on the record under
  the record's own lock. Call tasks hold the same record and write to it past the inspector (`finish_record`); HTTP
  handlers remove it; a timer flushes it; a detached task writes the file.
- A call task hands its responses to the dialog, which queues them; the transaction handler sends them later, and only
  then does the inspector see them. The end of a dialog reaches the call by way of the monitor, which cancels
  `call_token`; a stop of the bot cancels `cancel_token`, a hangup in the console `control_token`.
- `run_wait` watches the counter of current calls to know when it may close the transport. A reload cancels all bots,
  sleeps 1.5 s, aborts them and spawns new ones; the aborted task is the one that would have closed the transport.
- Registration loops of a bot and of the bot that replaces it in a reload share the status board, and are tasks that the
  abort of a bot does not end: only its token does.
- A media session is cloned into the call task, its guard, the bot's slot for in-dialog requests and the loops that
  read its tracks.

What is hard about it, and hardly reached by its tests: a CANCEL, BYE, UI hangup, stop or timeout at each of the two
dozen awaits of a call; a record dropped, deleted or finished between lookup and use; responses that are queued but
not sent; several timers for one record; restarts over a half-written history; edits and reloads that overlap; bots
that outlive the time they are given; loops that hand a track to each other while busy; registrations answered after
the bot was replaced; messages of two sides that cross. `PROJECT.json` lists these
hazards at their lines, with the properties that cover them or the reason why none does.

What makes each component correct:

- registry: one record per Call-ID; an ended call is shown as ended until it is recorded as failed; a file is written
  once and only for an ended call; a deleted call stays deleted; the trim keeps the cap; an end that the inspector has
  seen is flushed;
- inbound calls: every return path stops every session; a dialog that is over shows as ended; every end, hangup and
  stop is followed through; the transport is not closed under a call that still has to say BYE;
- outbound calls: no call is begun, answered or ended on a closed transport, and the transport is closed under no call
  that is up or still being placed; no answered call is left behind; a stop and a BYE of the peer end calls at
  whatever point they come;
- hold: a call that its caller holds is silent, and one that is resumed is not;
- both together: a call that one side ends, or cancels before it is answered, ends at the other;
- registration: an account shown as registered is bound at the registrar, as long as no REGISTER of a stopped
  predecessor sets the binding; the board follows the bot that runs; a binding is refreshed before it expires, and fades
  when its bot is stopped unless another has taken the contact;
- reload: bots follow the configuration that was stored last; a bot finds its automatic port free unless another was
  given it by name; accounts come back;
- receiving: no frame is handled by two loops; a stop ends every loop; the counted loss covers the packets that are
  missing, telephone events among them; jumps of the peer's clock are noticed, and an echo does not pass them on;
- sending: timestamps never go back and no two audio frames share one, whatever follows what; audio stays with real time
  through playbacks that are dropped, holds and pauses.

## The modules

### CallRecord

The pure part of the inspector: `DeriveState` is the state a message gives to a call (`derive_state`), `ApplyState`
what `apply_state` makes of it given the state already shown, `Ends` whether the message ends the call, which is what
broadcasts `CallEnded` and starts a flush timer. A message is its direction, CSeq method and status code. Note the two
notions of an end: `Terminal` (Terminated, Rejected, Failed) for flushing, `Past` (without Failed, since a challenged
INVITE is retried) for what may not come back and what may be trimmed.

### CallRegistry

A record is a heap object that outlives its place in the registry as long as somebody holds it, so it is named by its
*birth*, a number that grows with `started_at_ms`; the deque, newest first, is then a set of births.

| State | Code |
|---|---|
| `rec`, `calls` | the records; `CallRegistry.calls` |
| `held` | the record a thread has looked up in `record()` and not locked yet |
| `task` | the record `handle_invite` holds |
| `timers` | the sleeping tasks that `record()` spawns on an end |
| `picked` | the records that `persist_call` has looked up and not locked yet |
| `writes`, `disk` | the detached writes of `persist_call`; the JSON files |
| `flushes`, `gone`, `raced`, `over`, `untimed` | history variables of the properties |

`Lookup` is `record()` up to the point where it has the record (`get_or_create` with its trim, `Evicted`), `Apply` the
rest of it; `OpenTask` and `CloseTask` are the lookups and direct writes of call tasks, which inbound calls have;
`Flush` is a timer that fires, up to the point where `persist_call` has the record, `Persist` the rest of
`persist_call`, `Write` and `WriteFails` the file that it causes; `Remove` and `Clear` are the DELETE endpoints;
`Restart` loses everything in memory or in flight and runs `load_from_dir`. `Covers` and `ShortIds` describe which
file names contain a sanitized call id, which is how `remove` chooses the files it deletes; `Traffic` says which
messages a call may have.

Three properties have limits that are the code's. `GoneStaysGone` exempts a call that is deleted while a flush has its
record in hand, from the look-up of `persist_call` to the end of the write: it does come back. `FlushPending` exempts
an end that a call's task alone has recorded: `finish_record` starts no timer, and the inspector, which then finds
nothing changed, starts none either (the finding of `InboundCallReject`). `EndedStaysEnded` holds until a failing
response or write makes the call a failed one, which `apply_state` does not regard as past: when a 487 overtakes the
200 that answers its CANCEL, the call is shown as answered, and nothing corrects that.

### InboundCall

One call is a task that walks through stages (`pc`), the library's dialog with its queue of unsent responses (`dlg`,
`out`), the monitor's event (`event`), the tokens (`token`, `control`, `stop`), its record (`rec`, `timers`, `saved`;
`CallRecord` says what a message does to it) and its media sessions (`live` is `live_sessions`, `guard` the session
that `CallGuard` stops, `running` those that were made and not stopped). The account's configuration is chosen in
`Init` from a set. Every await of `handle_invite` at which something else may happen is a boundary between actions;
waits of bounded length are stages that may end at any time. A CANCEL may come until the dialog is confirmed; once the
200 is out only the inspector takes notice of it, which is what `Cancel` does then. `Drop` and `GuardStop` are the
guard's destructor, which can only spawn the stop; `Join` is the decrement of the counter after the call's logic has
returned. `Close` is the end of `run_wait`, with `late` if it gave up after five seconds. `Send`, `Cancel`, `Ack`,
`RemoteBye` are the network's side; `Inspect` is what the inspector does on each of these.

### OutboundCall

`Spawn`, `Spawned`, `EndListen` and `Close` are `run_call`: a pace of calls, the listen loop that runs only after the
last one was spawned, the wait for the tasks. A call's task polls `do_invite` and the channel of dialog events in one
select, so that the final response is taken by the poll that brings it (`Answered`, `Refused`) while earlier events lie
unread in `rx`; the monitor later reads what was left there. `known` is whether the dialog's id is known, on which it
depends whether a stop can send a CANCEL. `Event` includes the random cancellation, which awaits the CANCEL and does
not poll the INVITE meanwhile. "failed" is a `make_call` that returned an error.

The draw of the random cancellation (`CancelDrawn`) is `random_range(0..100) <= cancel_prob` (`sip.rs:507`), an
inclusive comparison: with the default probability 0, which `src/README.md:74` offers as the lowest, one call in a
hundred still draws a cancellation. The model takes the comparison as it is.

### CallService

The abstract specification of a bot that makes calls: each call is begun, answered and ended on an open transport, and
the transport is closed only when no call is up or still being placed. It names the calls that are lost instead, whose
end is left to the peer: one whose answer could not be used (`Lose`), and one that was not answered when the bot was
stopped (`GiveUp`). Such a call is cancelled only if its dialog is known (`sip.rs:566`), `make_call` does not wait for
what becomes of the INVITE, and a 200 may cross the CANCEL; nothing of this keeps `run_call` from closing the
transport. OutboundCall implements CallService under the refinement mapping `Seen`: what the peer sees of a call
follows from the library's dialog and from whether the task has given the call up. An INVITE that is pending when its
task returns is lost, cancelled or not, and the refinement shows that this comes about only after a stop.
`ServiceSpec` is the instance's specification, a property of the run and a theorem.

### TwoBots

A sipbot that calls a sipbot, which is how `tests/call_test.rs` tests the program: one call of OutboundCall and one of
InboundCall, instantiated side by side (`Out`, `In`) and joined by the messages of their dialog in two queues
(`toCallee`, `toCaller`). Every action that a module leaves to its environment, as the peer's answer, CANCEL, ACK or
BYE, happens only when the other side has sent that message: `Sends` and `SaysBye` say what a step of a side sends,
`Comes` and `Arrives` take a message from a queue. A message that nobody can take any more is missed (`Missed`,
`CallerMisses`), and an INVITE that nothing will answer times out (`TimesOut`). Left out of the composition: the
console's hangup and the flush timers, which are in InboundCall, and failures before the INVITE, which are in
OutboundCall.

`CallerEndKnown` and `CalleeEndKnown` are what holds at every moment: a call that is over at one side is over at the
other unless a message to that side is still on its way, for each direction. They exempt what the program does not
promise: a callee that has been stopped takes no BYE any more and ends the call by itself; the caller's transport may
be closed, or `run_wait` may have given the call up (`late`); and before its ACK a callee that hangs up can say BYE
while its 200 is still in the queue of responses, so that the BYE comes first and finds no answered dialog at the
caller. `CallerEndsCallee` and `CalleeEndsCaller` add that each end is in fact followed.

A caller that is stopped while its INVITE is pending (`sip.rs:564`) does not end its dialog: its task sends a CANCEL and
returns, and no longer hears what becomes of the INVITE. Both properties of the caller's end say what follows from such
a CANCEL (`Cancelled`): the callee's call is over, or had been accepted when the CANCEL came. In the second case nobody
acknowledges the 200 and nobody says BYE: the callee's task returns when its own hangup or media ends the call, and
stays in it if its mode is "remote" or its media never ends (`LeftAccepted`). A caller that is stopped before it has
read a provisional response does not know the dialog and sends no CANCEL (`sip.rs:566`); of its callee, which may ring,
answer and stay in the call, the properties say nothing. Both cases are behaviours of the model.

### Registration

One account and the generations of its bot: `Cancel` and `Spawn` are a reload, which cancels the bot, waits (`grace`),
aborts it and spawns the next one. A generation's loop goes from `top` to `ask` (`register()` in a select with the
token) to `sleep` (in a select again). `Answer` and `Fail` report on the board and choose the sleep: `Pause` is the
margin of five seconds, `Retry` the thirty. The registrar may grant any of `Grants`, refuse, or not answer; a REGISTER
that was given up may still arrive (`stray`, `GrantStray`). `bind` counts down what the registrar keeps of each
contact, and `holder` is whose REGISTER has set it. A contact is user@host:port: the ports are probed from the same
base in every generation and a fixed address does not change, so `Spawn` gives a bot the contact of an earlier one, or
another when that port was taken. Each loop has a `Registration` and so a Call-ID of its own, which orders its own
REGISTERs but not those of its predecessor: a stray one of a stopped bot then sets the binding that its successor
shows, to an expiry the successor does not know. The account is then shown as registered and may not be bound until
the next refresh, a behaviour of the model that `ShownIsBound` exempts (it is about bindings the shown bot has set)
and after which `StaysRegistered` requires the account to recover. `Tick` lets time pass when no task has anything to
do (`Quiet`). `Lag` bounds an exchange only once the network is `good`, which it may become at any time (`Recover`);
before, an exchange takes up to `Timeout`. Two lags have to fit into the margin, which is what the five seconds of the
code are for. Expiries of 0, on which the code spins, are excluded by the assumption; those up to the margin are
included, and a binding then does expire before it is refreshed.

### HotReload

A request is a copy of the configuration that is read, changed, stored, read again for the file, written, and followed
by a spawned reload (`Read`, `Update`, `Save`, `Write`, `Queue`): these are separate steps because the endpoints hold no
lock across them. `BeginReload` ... `EndReload` is `reload_bots` under `RELOAD_LOCK`. A bot binds, listens, drains and
closes; `leaked` holds the ports of transports whose bot was aborted before it could close them: nothing else cancels
`transport_token`, so they stay open, and a bot with a `transport_addr` of its own fails to bind it again. Time is
abstract: 1.5 s are enough for a bot without calls, may or may not be for one with calls (`TimeUp`), and are shorter
than the five seconds of `run_wait`. The inside of a drain is the subject of InboundCall.

`BotsFollowConfig` is about the bots that are spawned: one that fails to bind counts as spawned, and `AutoBinds` says
which can fail. `pick_free_bind_addr` knows the ports it has given out and the ports that are bound when it probes; it
does not know the `transport_addr` of an account whose bot has not bound it yet (`used_ports` holds automatic ports
only). In the repository's own example (`src/README.md:208`, a base of 35060 and an account at 35061) an automatic
account can be given 35061, and the bot that binds second fails. This is a behaviour of the run, whose fixed port is the
second of those tried, and what `AutoBinds` and `AutoComesBack` exempt (`Clash`): that nothing else keeps an automatic
bot from its port is what they show.

### RxOwnership

`Track`, `Check` and `Spawn` are the three steps in which a task starts a record loop: it marks the mid, looks at
`echo_active`, spawns. `TakeOver` and `SpawnEcho` are `start_echo` and `start_rx_bridge_to`. A loop receives frames
(`Recv`), handles them (`HandleFrame`, after awaits), yields, is cancelled or ends with its track. Frames that arrive
are handed to any non-empty choice of the loops that read the track, which covers both a library that shares them and
one that copies them. An agent may come across any track at any time, which covers scans of the transceivers and Track
events alike.

### RtpStats

What a receive loop does with the sequence number and timestamp of a frame. `RecordSeqGap` is `record_seq_gap` with
its 16-bit difference (`Ahead`), `Mark` is `record_ts_jump`, `Far` and `Rewritten` the rewriting that only
`process_sample`, the echo and bridge loop, does before it counts; `HandleAudio` is the frame's way through
`process_sample` or `process_recorded_sample`, with `SendOn` at the end of the former, which a hold (`Hold`,
`audio_silent`) suppresses. `Handle` passes over a telephone event, as the loops do. `last_seq`, `last_timestamp`,
`rx_lost` and `reordered` are the code's; `seen`, `first`, `arrived`, `echoed` and `withheld` are history. The widths
are constants (`SeqMod`, `TsMod`), so that TLC checks narrow numbers that wrap and the proofs hold for 16 and 32 bits.
The peer and the network are external: `Send`, `Jump`, `Lose`, and `Duplicate`, which is a packet that is received and
stays in flight. Two assumptions are about them and not about the code: packets are not reordered over half the
sequence numbers, and a loop does not lose as many in a row. `EchoContinuous` leaves out the one timestamp difference
(`u32::MAX / 2` exactly) that neither of the code's comparisons covers.

A telephone event takes a sequence number and leaves its loop before `record_seq_gap`, so the code counts each as lost,
arrived or not: `LossAccounted` is about the packets that are missing among the audio frames, of which events are part.
A hold does not stop `last_timestamp`: what follows it goes on where the withheld frames would have brought the stream,
and jumps by the hold. `EchoContinuous` compares a frame that is sent with the one sent before, or, after a hold, with
the last one withheld.

`Off` follows `record_ts_jump` also where it differs from its comment: a timestamp after the last one and a little
before the expected one is measured from the last one and wraps (`media.rs:1574`), so that a jump of milliseconds is
counted, and in an echo rewritten, as a stream switch, although the comment at `media.rs:1548` keeps that for jumps of
more than ten seconds. `QuietMeansSmooth` and `EchoContinuous` say that jumps are noticed and not passed on, not how
they are named.

### TxTimeline

`timeline` is `rtp_ts_state`, the pair of the next timestamp and the time it was marked; `StartTs`, `PeekTs` and `Mark`
are the three functions that touch it. A playback (`Start` ... `End`) takes its first timestamp from the pair and the
time since, and goes on from its own copy, one frame per tick: `SilentTick` while it is held, `MarkTick` and
`SendAudio`, which are apart because the pair is marked before the frame is sent, or `EmptyTick` when the encoder gives
nothing. `NextDue` is tokio's `MissedTickBehavior::Skip`. `End` covers the end of the samples, a frame that cannot be
sent, and a playback that is dropped with the select it is polled in. A digit (`Peek`, `SendDigit`, `MarkDigit`) is
`send_dtmf`, called by the DTMF flows, the web console and the keyboard, each in a task of its own, and may come between
any two steps of a playback. `SetSilent` is a re-INVITE.

Time is counted in ticks of the RTP clock and passes only while every task waits, since there is no await between the
steps concerned. Timestamps are plain numbers, because this code compares none with another. Echo loops and the local
device use the pair as well and are left out. Three history flags name what the properties exempt. `raced`: a digit met
a step of a playback, or another digit, between reading the pair and marking it; the frame that follows may then be
behind. `lagged`: a tick came a whole frame late, the encoder kept a frame, or a digit was sent while nothing was
played, which marks an old timestamp with a new time; audio then stays behind by that time. `split`: two tasks each made
up a first timestamp. These exemptions are what the code does, and the hazards at `media.rs:923` and `media.rs:2516`
say so; among them, two digits sent while nothing is played have the same timestamp, although the comment at
`media.rs:931` says that later DTMF continues from the event "instead of replaying the same timestamp".

### Hold

Calls of sipbots that come in to one bot, each with a flow of re-INVITEs. `HandleReinvite` is `handle_reinvite`, run by
the listen loop one request at a time and therefore one step: it silences the session in the bot's slot, renegotiates,
and answers 200 in any case. The slot is overwritten whenever a call makes a session (`Make`: at the INVITE, at an
answer with `sdp_jump`, after an announcement with `jump_after`). `gates` are the sessions whose `audio_silent` decides
whether a call sounds: its one session, and after an announced jump two, since the bridge keeps the old session's flag
(`media.rs:1299`) and the playback has the new one's. The callers are `reinvite_future` of `make_call`: the next entry
of the flow is sent or skipped, answered, given up, or aborted when the call ends. A re-INVITE that was given up stays
on its way; dialogs keep the order of their messages, as in TwoBots, and nothing orders those of different calls.

`AloneAgrees` is about the calls that no other call has `disturbed` and that were not jumped. The exemptions are what
the code gets wrong, although the README promises "RTP silence during hold" without a condition: without `disturbed`,
TLC finds a call on hold that sounds on because another call had the slot, and which silenced that other call instead;
without `Jumped`, a call whose old session echoes on, or whose new one plays on, while it is held.
A re-INVITE that crosses the bot's own BYE is handled as well, and disturbs the call that has followed.

## The runs

| Run | Instance | What it shows |
|---|---|---|
| `CallRegistry` | 2 call ids, 1 inspector thread, 2 births, cap 1, 2 timers, an inbound call with a CANCEL, its 487, a late 200 and a task that writes any end state, an outgoing call with a 200 and a BYE, a call id that is part of the other's file name | unique ids, files written once and only for ended calls, deletions that last, a timer for every end, ends that last, a trim that restores the cap |
| `InboundCall` | 1 call, 7 configurations | sessions released, records end, BYE before close, every end, hangup and stop followed through |
| `InboundCallReject` | 1 call turned away at once with 403, 480 or 486 | **finding**: a rejected call may never be flushed |
| `OutboundCall` | 2 calls, a cancellation drawn by both, endless playback, 1 unread event | CallService is implemented, nobody left, stop and BYE end calls |
| `TwoBots` | 1 call, a cancellation drawn, endless playback, a called bot that answers at once and hangs up or that rings and leaves the hangup to the caller, 1 stop of either | a call that one side ends or cancels ends at the other, unless a 200 crosses the CANCEL, and until then a message is on its way |
| `HotReload` | 3 accounts, 2 with automatic ports, 1 with a fixed port among those tried, 2 requests, 2 edits, 7 ports tried | bots follow the configuration, automatic ports bind unless they are the fixed port, accounts come back |
| `Registration` | 2 generations with one contact or two, margin 3, expiries 2 and 4, a lag of 1 | what is shown is bound, the board follows the running bot, bindings are refreshed in time, recover from a REGISTER of a predecessor, and fade after a stop or pass to the next bot |
| `RxOwnership` | 1 track, 2 agents, echo, 4 frames | no frame handled twice, a record loop yields to an echo, a stop ends every loop |
| `RxOwnershipJitter` | the same with a jitter buffer | **finding**: the record loop goes on beside the echo loop |
| `RtpStats` | 4 packets, one of them a telephone event, 8 sequence numbers, 16 timestamps, 1 jump to any of them, holds at any time | the counted loss covers what is missing, uncounted frames go on smoothly, an echo does not jump, and over a hold no further than the hold |
| `Hold` | 2 calls, flows of 2 and 1 re-INVITEs, one call jumped while it is up and one when answered | a call that has the bot for itself is silent exactly while its caller holds |
| `TxTimeline` | 3 playbacks, 2 digits of one sender, frames of 2 ticks, 5 ticks | timestamps never go back, audio frames differ, audio keeps up with real time |

Why the bounds are enough:

- Two births with a cap of one make every lookup of a second call trim, and let a record be held by a thread or a task
  while it is evicted, deleted or reloaded. Two timers are needed for two ends of one call (a CANCEL and its 487). The
  messages of the inbound call are those that race for its end, the CANCEL, the 487 and a 200 that may come late (the
  state does not depend on what it answers); the outgoing call is answered and ended by its peer. They come in any
  order, any number of times. Every message for both calls passes as well, in three minutes, and two inspector threads
  in five. A history that is more than one over the cap does not fit: that the trim is a loop and not a single step is
  not exercised; the theorems are for any cap and any number of threads. The call with the task is the one whose
  deletion also deletes the other's file.
- Two generations, which share a contact or do not, are a bot, its successor and a stray REGISTER of either; three also
  pass, in five minutes instead of ten seconds.
- One inbound call is enough because calls share nothing but the bot's tokens and the counter, which `run_wait` only
  tests for zero; the theorems are for any number. Seven configurations go through every stage, rejection, jump and
  hangup mode at least once.
- Two outbound calls are needed for the pacing: one may be up, and be hung up, while the other is not spawned yet. One
  unread event is enough to leave a Confirmed behind in the channel.
- The called bots of `TwoBots` are one that says BYE itself and one that does not. One stop, of either side, meets every
  state of the call; the drawn cancellation meets the ringing or comes too late. What only one side does is left to
  the runs of the two modules.
- Two generations are a bot and its successor; the theorems are for any number. One expiry is above the margin and one
  below; the timeout of 2 is longer than the lag, so that an exchange can be slow.
- Three accounts make an automatic port depend on an earlier one and leave one account, between the two, with its own,
  one of those tried; two requests and two edits are the least that can overlap. An account is enabled with one setting
  or disabled: a second setting makes the run too long for what it adds, and the theorem is for any settings.
- Tracks share only `echo_active`; two agents are the least that can meet at a track, and with four frames a loop can
  be busy with one, have one waiting and receive one after the takeover.
- In `Hold` one caller holds and resumes, so that a re-INVITE given up can be handled before or after the next one; the
  other call can take the slot at any time, send a re-INVITE of its own, and end before or after the first.
- In `RtpStats` the peer starts two packets before its sequence numbers wrap, and at a timestamp that wraps with the
  second frame. Ten seconds are three ticks and the tolerance is one, so that both thresholds, both halves of the circle
  and the gaps between them are reached. Four packets of which the network may reorder three are enough for a packet to
  be counted as lost, arrive late, and be followed by another, and for frames before, in and after a hold; the jump
  reaches every timestamp. Frames of several durations are left to the theorems.
- In `TxTimeline` a frame of two ticks lets a playback be dropped, a digit be sent and a tick be late within a frame;
  three playbacks with two gaps are enough for an error of one gap to add to that of another. Two digits by one sender
  are sent one after the other; several senders only add digits that meet, which the properties exempt and the proofs
  cover.

`CHECK_DEADLOCK FALSE` stands where the system may stop: when the bot is closed, every call is over or no edits are
left.

The type invariants (`TypeOK`, `RegTypeOK`, `RxTypeOK`) are theorems and not part of the runs. TwoBots has none of its
own: its variables are those of its two sides and two queues.

The findings are quoted in `PROJECT.json` with the sentence of the README or the comment they contradict.

## Fairness

Assumed: the runtime polls every task that is ready; a `select!`, which polls its branches in random order, takes a
branch that stays ready; timers fire; tones and rings, which have a length, end (but a ring without a duration on a
local audio device waits for the bot's token, media.rs:1830, and is outside what the liveness properties say); a BYE
or CANCEL is answered or its transaction times out; HTTP handlers and reloads proceed. All of it is weak fairness of
single actions, or of the disjunction of the steps of one task.

Not assumed: anything about callers, peers, users, disk errors, restarts, the length of calls or the arrival of
frames. So `HangupEnds` and `StopEnds` do not depend on the peer, and `AutoComesBack` does not depend on calls ending.
CallRegistry assumes no fairness: that a timer fires is all that is missing from `FlushPending` to the flush.

In TwoBots the tasks of each side run (`CallerRuns`, `CalleeRuns`) and messages arrive (`Arrival`), while the transports
are open; nobody has to stop a bot. In Registration tasks run, `register()` returns, time passes, and a REGISTER under
way arrives or is lost; the network need not become good, and `StaysRegistered` is about the executions in which it
does and the bot is not replaced any more. An answer is owed only while the network is good.

## The proofs

All proofs are checked by TLAPS for arbitrary constants, from the ASSUME of the module they are about (for
`FramesHandledOnce` and `RecordLoopsYield` also `~Jitter`; for `AutomaticPortsBind` also `Room`). ServeProofs is about
HotReload and Registration, the two parts of a bot that a reload replaces, ReceiveProofs about RxOwnership and
RtpStats, which loop has a frame and what it counts of it. Each extends two modules that are otherwise independent, so
the names that both would have carry a prefix in one: `RegSpec` and `RegTypeOK` are Registration's, `RxSpec` and
`RxTypeOK` those of RxOwnership.

| Module | Theorem | Statement |
|---|---|---|
| all but TwoBotsProofs | TypeCorrect | `Spec => []TypeOK` |
| | RegTypeCorrect, RxTypeCorrect | `RegSpec => []RegTypeOK`, `RxSpec => []RxTypeOK` |
| CallRegistryProofs | IdsAreUnique | `Spec => []UniqueIds` |
| | WrittenOnce | `Spec => []WriteOnce` |
| | HistoryIsFinished | `Spec => []FilesFinished` |
| | DeletionIsFinal | `Spec => []GoneStaysGone` |
| | EndIsShown | `Spec => []EndedStaysEnded` |
| | FlushIsPending | `Spec => []FlushPending` |
| | CapIsRestored | `Spec => TrimRestoresCap`, an action property |
| InboundCallProofs | DrainSaysBye | `Spec => []ByeBeforeClose` |
| | TasksRelease | `Spec => []SessionsReleased` |
| | RecordShowsEnd | `Spec => []RecordEnds` |
| OutboundCallProofs | TransportOutlivesCalls | `Spec => []CloseAfterCalls` |
| | NoAnsweredCallLeft | `Spec => []NobodyLeft` |
| | KeepsCallService | `Spec => ServiceSpec`, the refinement of CallService |
| TwoBotsProofs | CallerIsOutbound, CalleeIsInbound | `Spec => Out!Spec`, `Spec => In!Spec`: each side is a behaviour of its module |
| | CallerEndIsKnown | `Spec => []CallerEndKnown` |
| | CalleeEndIsKnown | `Spec => CalleeEndKnown`, a box within a box |
| HoldProofs | HoldAgrees | `Spec => []AloneAgrees` |
| ServeProofs | ShownAccountIsBound | `RegSpec => []ShownIsBound` |
| | BoardNeverBack | `RegSpec => BoardForward`, an action property |
| | BotsAreCurrent | `Spec => []BotsFollowConfig` |
| | AutomaticPortsBind | `Spec /\ []Room => []AutoBinds`, where `Room` says that the ports tried do not run out |
| ReceiveProofs | FramesHandledOnce | `RxSpec => []HandledOnce` without a jitter buffer |
| | RecordLoopsYield | `RxSpec => []RecordYields` without a jitter buffer |
| | OneLoopRecords | `RxSpec => []RecordedOnce`, also with one |
| | UncountedIsSmooth | `Spec => []QuietMeansSmooth` |
| | EchoGoesOn | `Spec => []EchoContinuous` |
| | LossIsAccounted | `Spec => []LossAccounted` |
| TxTimelineProofs | FramesGoOn, AudioGoesOn | `Spec => NeverBack`, `Spec => AudioAdvances`, action properties |
| | NeverTooFarAhead | `Spec => []NotAhead` |
| | AudioKeepsUp | `Spec => []KeepsUp` |

The arguments:

- *Registry.* Each theorem has its own strengthening, proved on top of the type invariant. Uniqueness needs that a
  record in the registry or in hand keeps its id. That files are written once needs that whoever was ever flushed is
  marked as persisted, in memory as well as when it is read back, so the files on disk are records that have been
  flushed. That deletions last needs that the births of deleted calls are in no place from which a record can return:
  registry, flushes under way, files, scheduled writes; threads, tasks and timers may still name them, and that does
  no harm because a timer flushes only what the registry holds. That an end is shown needs what `apply_state` and call
  tasks can write and, for restarts, that a birth names one file. That an end is flushed is an invariant by itself: a
  timer that fires hands the record to a flush, and a flush that finds the record unfinished leaves it to the timer of
  the end that is still to come. For the cap no induction is needed: if the trim spares a record it could drop, it has
  dropped all those older than the oldest one spared, and these are as many as the registry had over its cap.
- *Inbound.* A call's sessions that run are always among `live` and the guard's; each stage from which the task returns
  has either stopped `live`, of which the guard's is one, or leaves the rest to the guard. For the drain: a task past
  its BYE stage has said BYE or had found its dialog over, and the counter falls only afterwards.
- *Records of inbound calls.* Outside the two stages in which a rejected call is still released and finished, a dialog
  that is over shows in its record whatever is still queued (`RecordOk`); in those stages, what `finish_record` is going
  to write is an end. An end that the record shows is not taken back: the past states stay, and a record that shows
  "Failed" has only final responses to come. A final response is the last in its queue and is there only when the
  dialog is no longer early (`FinalLast`), so that nothing follows it. The queue may be of any length.
- *Outbound.* A task that is talking has a confirmed dialog or the end of it waiting in its channel (`Told`,
  `Waiting`), calls that are not spawned have no dialog, and "done" is only reached with the dialog over or before it
  was confirmed. The refinement needs the same invariant, that every task has returned when the transport is closed
  (`CloseAfterCalls`), and that a task gives its INVITE up only after a stop (`GivenUp`): each action then maps to one
  step of CallService or to none.
- *Two bots.* Every step of the composition is for each side a step of its module or none, so that the theorems of
  OutboundCall and InboundCall hold of the two. For the caller's end: a refusal is queued or on its way only if the
  callee's dialog is over, a 200 only if it has accepted (`Told`), so that a caller that has been answered has a
  callee that accepted, with the ACK on its way to it and ahead of any BYE, and a caller that has ended an answered
  call has a callee that is over or a BYE on its way (`Agree`, `AckFirst`). A caller that knows the dialog has heard
  of a callee that has the INVITE, so that its CANCEL is not missed; it finds the call ringing, and ends it, accepted
  or over (`Cancels`). For the callee's end: from the ACK on the caller's dialog is an answered one, and what ends the
  call at the callee is the caller's own BYE or one that is then on its way to the caller (`Shown`).
- *Hold.* The re-INVITEs of a call arrive in the order of its flow (`Ordered`), and a caller that accepts an answer
  awaits that of its last one, behind which nothing is under way (`Through`); so the last re-INVITE that was accepted
  is the last that set the flag. While the call has the bot for itself its one session is the one in the slot
  (`HasSlot`) and nobody else sets its flag, which is therefore what the last answer says or will say (`Flagged`).
- *Registration.* A board entry is written by a loop that has not been stopped or has not yet noticed, and a bot is
  spawned only after the grace, in which time passes, and time passes only when no stopped loop still waits in its
  select: so nobody but the latest generation writes (`Turns`). For what is shown, the binding is compared with the
  loop: it lasts at least the margin, less the lag of the exchange, beyond the rest of the sleep, and beyond the time
  the next exchange takes (`Ahead`), for a binding this bot has set (`Holds`); no REGISTER that this bot has given up
  can shorten it while a registration is shown (`NoStray`), and one of another bot makes it that bot's.
- *Reload.* Whenever the configuration differs from the one the last reload has read, another reload is due: one is
  waiting, one is still to read, or a request that has stored its edit is still to queue one (`Due`). A reload that has
  read spawns exactly the bots of its plan. For the ports: the port of a bot that is up with an automatic one is
  not leaked and no other automatic bot's, and while bots are spawned the ports of all of them are in `used`
  (`PortsKept`), so that only a bot with a `transport_addr` can hold it.
- *Receiving.* Two record loops cannot share a track, since an agent engages with a track only if nobody was engaged
  before (`OneRecorder`). A record loop and an echo loop can, but whatever the record loop has received it took when no
  echo was active, and then there was no echo loop to get the same frame (`Exclusive`, `EchoFlagged`, `Unspawned`).
  With a jitter buffer the record loop does not ask, which is the finding; that no two record loops share a track
  remains. `RecordYields`, the comment that the finding quotes, is a theorem without one: a frame that comes while the
  echo loop reads is new to every record loop, and none takes it, for the takeover is then past (`Unshared`).
- *Statistics.* The invariant says that the last frame's mark and timestamp are what `Mark` and `Rewritten` make of it
  (`Made`); what remains is arithmetic modulo `TsMod`, in lemmas that say on which arc of the circle the cases of the
  code leave a timestamp (`SmoothArc`, `ExpectedArc`, `NearArc`). They need that ten seconds and a frame together are
  less than half the circle. For the loss, `last_seq` stands for the highest packet that has arrived (`Heard`), which
  is unambiguous because packets in flight are within the window (`Recent`, `AheadIsDifference`); each arrival then
  changes the gap below it, the counted loss and the reordered packets by amounts that keep both bounds, and a
  telephone event changes none of them. That an echo goes on also needs that a frame sent on is the last one handled
  unless one was withheld since (`Sent`).
- *Sending.* A digit that met nothing finds no playback between its two steps and no other digit (`Alone`), so that the
  pair is on the grid of the playback: at the timestamp of the next frame, or one frame before it when a frame is
  marked but not sent (`Grid`). For the distance to real time, `Lead` is how far a timestamp is ahead of the time that
  passed since the first one. A playback's next timestamp never leads the time its ticker is due by more than one frame
  for each playback before (`Ahead`, `Credit`), because a ticker skips but never hurries (`DueLater`); and it never
  lags, nor does what it leaves marked, if no time was lost (`Kept`).

## What is only model-checked

Liveness (`EndReleases`, `HangupEnds`, both `StopEnds`, `PeerByeEnds`, `AutoComesBack`, `StopEndsLoops`,
`BoardCatchesUp`, `StaysRegistered`, `ContactFades`, `CallerEndsCallee`, `CalleeEndsCaller`), which is out of the
prover's reach: it needs fairness and ENABLED. Every safety invariant and every action property of a passing run is a
theorem. The pure functions of `CallRecord` have no theorem of their own; the lemmas of the registry and of inbound
calls say of them what is used.

## What is not modelled

- The libraries' inside: retransmission, transactions, authentication, ICE, SRTP, jitter-buffer order.
- The contents of messages: SDP, codecs, audio, recordings, wording of reasons. `CallRecord` keeps of a message
  what the lifecycle depends on.
- Real time. A delay is a step that may be taken at any time; where the code relies on one delay being shorter than
  another (HotReload) the guard says so. `ByeBeforeClose` therefore says nothing of a drain that gave up (`late`).
- In an inbound call: the scheduled REFER task, the health report. In an outbound call: the DTMF, REFER and INFO flows
  while it is up. `make_call`'s dropping of a pending `do_invite` is a return; what the library sends then is its own.
- REFER and INFO: `handle_refer` answers and sends NOTIFYs after fixed delays, the flows of the caller send; no state of
  the call changes. Of a re-INVITE, the SDP: that of a call whose re-INVITE the bot applies to another call's session.
- Registration details: authentication and the timers inside `register()`, the status line and its expiry field.
- The recorder: a queue and two buffers of samples in one task. Samples are dropped when the queue is full, and the loop
  ends when its queue does; nothing is promised about where in the file a sample ends up.
- The console's search for outbound calls, caller patterns, strategies: comparisons of strings without state.
- CSV, statistics other than the counter of current calls, WebSocket feed, uploads and the browser code: reports and
  pure I/O. Audio analysis is floating-point.

## Plan

Done, in this order: CallRecord and CallRegistry; InboundCall; OutboundCall; HotReload; RxOwnership; RtpStats;
TxTimeline; Registration; CallService and its refinement; TwoBots; Hold; the proofs above, those of TwoBots and Hold
last.

Next, most important first:

1. A composition of InboundCall's drain with the 1.5 s of HotReload, in which the abort of `run_wait` meets a call that
   still has to say BYE.
2. CallService for the other direction: what a bot that takes calls promises its callers, and InboundCall shown to
   implement it.

## Working with it

In this directory, `tlasany M.tla` parses a module, `tlc -config X.cfg M.tla` checks a run (module and configuration
are paired in `PROJECT.json`), and `tlapm MProofs.tla` checks the proofs. `CallRegistry`,
`TxTimeline`, `OutboundCall` and `TwoBots` are the longest runs, one to two minutes each; the others take from a second
to a minute. `InboundCallProofs` takes a few minutes, the other proofs less than that each.

Conventions: variables keep the code's names where there is one; an action is one step between two awaits or two lock
regions; operators that start with "Mutant:" in their comment are deliberate bugs that show a property can fail, and
nothing refers to them.
