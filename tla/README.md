# Brownie in TLA+

Brownie is a man-in-the-middle proxy and automation runtime for a game client.
The game connects to a local port; a *session* opens the connection to the real
server, deciphers both directions, runs every packet through a pipeline of
stages and plugins, and enciphers what comes out.  A module injected into the
game process (C++) talks to the runtime over a named pipe.  Plugins read the
world, set features of the module, rewrite packets and send packets of their own.

This directory holds TLA+ models of the parts where order, timing and failure
decide whether that works, the TLC configurations that check them, and proofs
checked by TLAPS.  Everything is translated from the code; where a comment or a
document says something else, that is a finding at the end.

- [Inventory](#inventory) - [Modules](#modules) - [Runs](#runs) -
  [Fairness](#fairness) - [Proofs](#proofs) - [Only model-checked](#only-model-checked) -
  [Not modelled](#not-modelled) - [Findings](#findings) - [Plan](#plan)

## Inventory

Paths are below `apps/runtime/src` unless they start with `packages/` or `apps/`.
The last column says how far the component is modelled and where.

| Component | State it keeps | What is hard | What makes it correct | Modelled |
|---|---|---|---|---|
| Outbound queue, `outbound/` | per lane: requests waiting, one in flight, the last packet and its spacing; hold after FAILURE; one timer | confirmation, deadline, complaint, map change and end of session race for one packet; the player's own packets; equal priorities at the cap; a timer that is left alone; callers that ask again while they are being told | every request is somewhere and its caller told once and truthfully; spacing; quiet after FAILURE; only behind a client message; the timer never sleeps through a deadline | yes: `ServerActionQueue`, `OutboundReentry` |
| Transport and peer link, `proxy/Transport.ts`, `PeerLink.ts`, `PacketFramer.ts` | queue, pending count, gate, draining flag; the cipher's place; the framer's buffer | backpressure while held, a drain that comes while the gate is shut, overflow, death of the socket between any two; chunks cut anywhere | the n-th frame on the wire was enciphered n-th; nothing dropped; nothing left asleep; bounded; every frame whole | yes: `SocketTransport`, `Transport`, `HeldChannel`, `Framing` |
| Session, `proxy/ProxySession.ts`, `pipeline/` | both links, opened, closed, what was asked to hold | a stage injects, overflows or closes in the middle of a frame; the connect window; one socket failing under the other's handler | neither keystream breaks; order on the wire; a hold is whole; both links end together and the owner hears once | yes: `ProxySession` |
| Proxy server, `proxy/ProxyServer.ts`, `SessionContext.ts` | live sessions, listeners | sockets that die or arrive while sniffed or during close | no session without its plugins; a stop ends with nothing open | partly: `Lifecycle` |
| Native link, `native/NativeLink.ts`, `packages/ipc`, `apps/native/src/ipc` | transport, handshake, two sequence counters, features, awaited pong | reconnections that cross late close events, restarts of either process, stale keys, features set during a handshake | both ends stay in sequence; trust is mutual and of this run; the module does what was asked for last; the two find each other again | partly: `NativeLink`, `Framing`, `Claims` |
| Plugin host, loader, hotkeys, preferences, `plugins/` | plugin states, settings and overrides, held keys, dirty mark and pending write | overlapping reloads across an `await`, one debounce timer, held keys against other switches, a failing or interrupted write | what runs is what the host says runs; a release restores; what is on disk was a state and is never an older one | partly: `PluginRuntime`, `PluginLoader`, `PreferencesFile`, `Settings` |
| Plugin API, `packages/plugin-api` | none of its own | what it promises is kept elsewhere | packets and settings behave as it says | partly: `Codec`, `Settings`, `ServerActionQueue` |
| Wire protocol, `packages/protocol` | definitions, one packet at a time | optional and conditional fields, bytes behind the last field, edits of a decoded packet | what was not touched keeps its bytes; an edit is what the peer reads | partly: `Codec` |
| Overlay, `overlay/`, `apps/native/src/overlay` | published records; in the module a mirror and one pending edit | records in several chunks, a reconnection in the middle, edits crossing changes of the host | the overlay comes to show what the host has | partly: `OverlayMirror` |
| Application, `Application.ts`, `main.ts` | what is started | a stop during a start, two signals, clients while stopping, a native side that fails or is off | nothing before its plugins, nothing after the stop | partly: `Lifecycle` |
| World state, `state/`, `pipeline/stages/StateStage.ts` | players, enemies, tiles, shots, blasts, figures, inventory | caches derived from membership, ids that wrap, news about what is not known yet | equals the fold of what was said | partly: `World`, `Shots` |
| Client frames and clocks, `native/ClientFrames.ts`, `ClientClock.ts` | who owns the frames, clock offset | wall clock that is set, two sessions, stale positions | a position is the session's own and fresh | partly: `ClientView` |
| Noclip, `features/noclip` | hold, budget, ticker | the ticker is the plugin's own and the host may stop it | a hold ends | yes: `PluginRuntime` |
| Ground, `features/hazardguard`, `pushtiles`, `sanctuary` | window and countdown; replaced tiles; rules of a map | re-entry, end of the window and the next report on one tick | the server hears of ground at least so often; only punished hits are withheld | partly: `HazardGuard` |
| Items, `features/autoloot`, `vaultsort`, `autodrink` | moves under way, guards, plans | results that are late, lost, refused or overtaken | no move repeated too soon; a sort that says done is | partly: `AutoLoot`, `VaultSort`, `AutoUse` |
| Survival and travel, `features/autonexus`, `serverswitch`, `portalentry`, `autoportal`, `autoteleport`, `autofollow` | simulated health and latch; chosen server and attempts; target and retries; trail | answers that overtake, escape under a hold, redirects over several connections | low health is left; play goes on where chosen; the trail never leads blind | partly: `AutoNexus`, `ServerSwitch`, `Portals`, `Following` |
| Dodge, `features/dodge`, `cursorwalk` | who steers, ring, patterns, pocket lock | three parties that may walk the character, the module's expiry | one writer, given back; the predicted turn is the one flown | partly: `Steering`, `Patterns` |
| Combat, `features/autoaim`, `autoability` | claim on the aim, cast clocks | a lease, refusals that back off | the best target is shot at; hands off while the player casts | partly: `AutoAim`, `AutoUse` |
| Chat, `features/autocallout`, `autoresponse`, `chatfilter`, `payrespects` | pauses, queues, counters | a reason that is gone when the pause is over | said in time, once; the player's own and the game's lines pass | partly: `AutoChat`, `ChatBox` |
| Presentation, `features/antilag`, `streamermode`, `skinchanger`, `collider`, `glow` | what the client was told instead | switches against announcements made before | what is shown follows the switch | partly: `AntiLag`, `Disguise`, `Claims` |
| Native module, `apps/native/src/app`, `hooks`, `core` | claims, mirror, move target | leases and replays | claims lapse | partly: `NativeLink`, `Claims`, `OverlayMirror`, `Steering` |
| Game data catalogues, packet census, debuffs, tools, scripts, example plugins | none that changes | - | - | no |

`PROJECT.json` lists the components with their files and, under `hazards`,
each place in the code where one of these difficulties bites, with the
properties that would notice.

How they meet: bytes go from a socket through `Framing` into a session
(`ProxySession`), which asks the pipeline, whose stages fold the packet into the
world (`World`, `Shots`), let commands and plugins see it (`PluginRuntime` and all
the features) and tell the outbound queue what passed (`ServerActionQueue`).  What
comes out is enciphered and handed to a transport.  Beside that the native link
carries features down (`Claims`, `Steering`), hotkeys and client frames up
(`PluginRuntime`, `ClientView`), and the overlay's records both ways
(`OverlayMirror`).  `Lifecycle` starts and stops all of it.

## Modules

Core, each a specification with runs of its own:

| Module | What it is |
|---|---|
| `ServerActionQueue` | the outbound queue: one action per entry point, pump included |
| `HeldChannel` | abstract: a pipe that carries what it accepted in order, can be held and cut |
| `SocketTransport` | one transport and its peer link as a record and operators on it |
| `Transport` | a state machine around one such record, driven as its owners drive it; implements `HeldChannel` |
| `ProxySession` | two links made of `SocketTransport`'s operators, the pipeline, injection, hold and end |
| `NativeLink` | runtime, pipe, key file and module: the whole conversation |
| `ServerActionQueueProofs`, `TransportProofs`, `ProxySessionProofs`, `NativeLinkProofs` | theorems about the four |
| `RuntimeProofs`, `ErrandsProofs`, `PlayProofs` | theorems about `MCRuntime`, `MCErrands` and `MCPlay` below, part by part and then together (the server switch by itself: at the end of `ServerSwitch`) |

The runtime's machinery, put together by `MCRuntime` (its subjects in brackets):

| Module | What it is |
|---|---|
| `PluginLoader` | [loader] files, the watcher's one debounce timer, reloads that `await` between unload and load |
| `PreferencesFile` | [preferences] changes, coalesced writes, temporary file and rename, failures and kills |
| `Lifecycle` | [life] start and stop in order, accepting, sniffing, sessions, the key file, signals |
| `PluginRuntime` | [plugins] the host with its error budget, hotkeys, noclip's bounded hold, what the overlay is told |
| `Settings` | [settings] declaration against a stored file, single settings, presets, pictured choices, writing back |
| `OverlayMirror` | [overlay] records, chunks, bracket, the module's mirror and the edit it waits on |
| `OutboundReentry` | [reentry] one lane whose outcome handlers submit again: the work left to do is state |

Errands, put together by `MCErrands`:

| Module | What it is |
|---|---|
| `ServerSwitch` | [switch] the chosen server over several connections of a client that is moved, dropped and falls back |
| `Following` | [trail, following] an ally's own route kept as crumbs; following by it, and jumping to players |
| `AutoLoot` | [loot, rules, arrow] the moves under way; as pure decisions, what is wanted and where it goes; bags announced once and the client's quest arrow borrowed for them |
| `VaultSort` | [vault] the plan of a sort over a chest, and the run that carries it out |
| `Claims` | [claims] a claim on the module with a lease, restated and replayed |

Features that act at once, put together by `MCPlay`:

| Module | What it is |
|---|---|
| `AutoNexus` | [nexus] health ahead of the server, acknowledgements held behind the ESCAPE, the latch |
| `HazardGuard` | [ground, sanctuary, push] the window over damaging ground; punished hits; tiles that push |
| `AutoUse` | [ability, drink] casting with its pauses and back-off; drinking |
| `Portals` | [portals] `/back`, `/enter` and walking in |
| `AutoChat` | [answers, callouts, respects] |
| `ChatBox` | [chat] the filter and streamer mode over one line |
| `AutoAim` | [motion, aim, walls] tracks of enemies; choice and lead of a target; the claim that lets shots through walls |
| `Disguise` | [disguise, streamer, wardrobe] figures, names and skins shown instead |
| `AntiLag` | [antilag] players and effects withheld |
| `Steering` | [steering] hands, chord and dodge over one character |

What the runtime makes of the bytes it reads, put together by `MCState`:

| Module | What it is |
|---|---|
| `Codec` | [codec] definitions, decoding, edits, encoding |
| `Framing` | [framer, pipe] the game's framer with its sliding buffer; the pipe's frame reader and message table |
| `World` | [world, self] entities, walls, tiles; the player's figures and slots |
| `Shots` | [shots, blasts] flights, their ends, and what is learnt of blasts |
| `ClientView` | [view] whose position a session may read and on which clock |
| `Patterns` | [patterns] how a monster's fire turns, and the gap the dodge keeps to |

**How the four put-together modules work.**  `subject` is chosen at the start and
never changes; it names the one part the behaviour is about, and the others stay
in a plain initial state.  The parts share no variable, so that this loses nothing
any of them could do and keeps the state space a sum instead of a product.  The properties of
such a run are conjunctions of the parts' own properties, which are defined, each with
its comment, in the parts' modules; they are put together by the question they
answer.  `Owed1` to `Owed5` are what the parts' fairness asks, one step of each
part to a disjunction: as only the subject's disjunct is ever enabled, weak fairness
of the disjunction is weak fairness of that step.

### Outbound queue

JavaScript runs an entry point to completion, so each is one action ending with
the pump the code ends with: `Submit` (`submit`), `SubmitClosed`, `Failure`,
`MapInfo` and `ServerPacket` (`observe`), `PlayerPacket`, `ClientMessage` and
`ShotAcknowledgement` (`clientPacketPassed`), `Wake` (the timer), `Dispose`,
and `Tick` for the clock.  `Pump` applies `PumpedLane`, `PumpedStatus` and
`PumpedWire` to each lane; a caller's `confirm()` is an arbitrary choice at every
pump.  `lane`, `holdUntil`, `failureStreak`, `lastFailureAt`, `wakeAt` and `closed`
are the object's fields (a lane's waiting list is a set: its order is that of
the request numbers).  `status` is what each caller has been told, `wire` what
the game server received, `flushing`, `complaints` and `maps` what an observer of
the connection knows; properties are stated over these, not over the fields.
A packet the lane table does not name is sent at once and touches none of this.
Outcome handlers are taken not to call the queue back; `OutboundReentry` is one lane
where they do.  Theorems are in `ServerActionQueueProofs`.

### Transport

`Link` is the record of a `SocketTransport`'s fields and the `PeerLink`'s place
in the keystream; a frame carries that place.  `Sent`, `Flushed`, `Paused`,
`Resumed`, `Closed`, `Drained`, `Ended` are the methods and socket listeners as
functions of the record; whether Node asks for a pause after a write is a choice,
hence sets of results.  A frame counts one unit against the bound whatever its
length.  Reading is not modelled: the framer and the receiving cipher are
sequential.  `HeldChannel`'s `accepted` is a history variable of `Transport`,
`delivered` the loads on the wire, `held` the gate, `cut` the end.

### Session

A `State` is both links and how the session stands; the steps of one handler are
functions from a state to its possible successors, so a frame that arrives is one
action from the pipeline to the outbound queue's answer.  Stages are choices:
drop, rewrite, rewrite into something that cannot be encoded, send either way.
`ClientFrame` opens the server's link on the first packet; `Refuse` is a first
packet whose target nobody vouches for; `Connected` is the connect listener.

### Native link

The runtime's half is a value `[link, heard, why, pipe]` that `Consumed`,
`Dispatched`, `Disconnected`, `Sent`, `Proved` transform; the module's half is
`ReadKey`, `Connect`, `Poll`, `SendEvent`, `PipeBroken`, from `Session.cpp` and the
reconnect loop of `Engine::Turn`.  `Start`, `Listen`, `Stop` and `Crash` are the
runtime process, `Drop` the game process or its pipe.  A signature is the secret
it was made with; a run's secret is its number, and so is a feature's value the
number of the call that set it.  The batch of a turn is written before the turn
ends, so a message sent is on the pipe.  Overlay records travel exactly as
features do and are not kept apart.  Both ends are the code in this repository; a
peer that says anything else is not modelled.  A pipe instance is reused when both
of its ends are closed; what one end had not read when the other left may be
lost; a socket is `destroyed` for a while before its `close` event.

### The runtime's machinery

- **`PluginLoader`**.  A file's text is a version number.  `LoadNext` is one round of
  `loadAll`, `Edit` and `DeleteFile` are what the watcher sees, `ReloadFile` the timer,
  `Import` and `Finish` the two halves of a load around its `await`: any number of
  them, up to a bound, overlap, and a load's `place` tells two of one file apart.  The
  state of a plugin's own timers is in `PluginRuntime`.
- **`PreferencesFile`**.  A document is the number of changes it holds, so that newer
  and older are plain.  The promise chain is the sequence `writing`; a write is two
  steps, and a kill or a failure may come before, between and after them.
- **`Lifecycle`**.  One action per stage of `start()`, one `StopStep` per awaited step of
  `stop()`.  A connection is where it has got to: accepted, sniffed, a session, gone.  The
  native side is off, or its secret is configured or minted for this run (`native`, any of the
  three at first).  Off, there is neither key nor pipe (`NoNative`); otherwise `PublishKey` and
  `ListenPipe` stand in one `try`, and what fails in it is warned of and the start goes on without
  (`NativeFails`, `warned`): the proxy serves without an overlay.  So `NothingBeforeReady` asks for
  the preferences and the plugins before anybody is connected, and for the pipe only where the
  native side is on and its start did not fail; `KeyBeforePipe` says that a pipe that listens has its
  minted key on disk.  A key that cannot be removed stays (`RevokeFails`).
- **`PluginRuntime`**.  `Boot`, `Panel`, `Control` and `Reload` are the callers of the
  host, `PacketThrows` a handler that fails; a plugin's error budget may disable it,
  ticker and all.  `Second` is what the host's tickers do in a second, noclip's included.
  A hold remembers where its switch stood; when the module goes, holds of one plugin are put
  back in the order they were taken, which a hold's `last` stands for.
- **`Settings`**.  Any numbers and presets, one pictured choice, one live switch, and one switch
  declared after the preset was bound, as the hit redirect's are.  A preset
  writes its numbers one after the other under the guard that keeps its label
  (`Written`, a recursive function over the numbers).  A label that a start finds untrue is put
  right before that last switch is declared, and the store written then is without it
  (`StartedLate`): it falls back to its default, and `RestartKeeps` gives it back only where
  the saved label is true of the numbers.
- **`OverlayMirror`**.  An option is the length of its cell; `Sums` and `Packing` are the loops
  that measure a list and cut it into chunks.  `OmFlush` writes the records of one publication, `OmApply` reads
  one, `OmDraw` is a frame of the overlay, which settles its edit.  `OmDrops` loses what is under way.
- **`OutboundReentry`**.  `orWork` is the call stack as a list of work; `OrAsksAgain` is a handler that
  submits before it returns.  Every loop looks only where its index has still to go, as the
  code's do: a handler that asks again under the very name a submission further out is
  making room for lands behind that loop, and then two wait under one name, which `outbound.ts:90-98`
  says cannot be.  `orPolite` marks the behaviours where no handler does that.  The rest is
  `ServerActionQueue`'s lane once more, without other lanes or streaks.

### Bytes and state

- **`Codec`**.  `FrameArrives` decodes, also a body cut short; `SetField` is a plugin's
  write with its coercion and refusal; `Forward` encodes.  An edit does not always arrive as
  written, and `EditIsRead` says what does: a byte out of range arrives masked, as
  `binary.test.ts:91` has it, a flag or a float of the wrong kind as false or 0, and any other value
  that does not fit refuses the packet whole.  Nothing else is moved by it unless the byte
  masked says how to read on, the exception the property makes (`ReadsOn`): the count of a list, the
  id of a stat where the two ids differ in kind, the mask of other fields.  The edits of the instance put such values into every
  kind of field.
- **`Framing`**.  The buffer is modelled place by place, because sliding and growing it
  is where it could go wrong; a byte is its number in the stream.
- **`World`** moves any entity a tick names, a wall too: the squares a wall keeps shut stay
  those it was announced at, and `WallsBlockAlone` and `NothingElseBlocks` are about these.
- **`ClientView`**.  `FollowedWithinTwo` says that a clock that was set is followed within two
  windows, which is what `client-frames.test.ts:36` asks.  The comment of `ClientClock.ts:18-21`
  says one; a clock set forward takes two, as the smallest of the window before is kept.
- **`Shots`** flies along a corridor a square a tick; the curve of a shot is left out.
- **`Patterns`** keeps angles as whole parts of a circle, the rounding of a spacing
  that does not divide it included.

### Errands and features

A variable is named for the field it is, with two letters of the module in front
where several modules are put together; `ours:` in a declaration marks what an
observer remembers and the code does not.  An action is a packet handler, a timer or
a change of a setting.  Times are ages or what is left of a pause, capped where
nothing tells them apart any more.  In particular:

- **`VaultSort`**, **`AutoLoot`**, **`Following`** queue what they send as the
  outbound queue does (one request under one key, which may be sent, superseded or lapse), without
  its spacing: that is `ServerActionQueue`'s.
  In the vault the player's own hand moves into empty slots only, the one rearrangement of a chest
  that the server carries out (`sortPlan.ts:119-127`), and a move that leaves after its sort has ended
  spaces nothing of the next.
- **`Disguise`**, wardrobe: showing a class remembers only where a setting moves (`WdMoved`).  What
  is stored of a class may name a skin it cannot wear and then stays as it is; `WardrobeTypeOK` says that the
  class shown wears what is stored of it, with the default in place of such a skin.
- **`ServerSwitch`** models the game client too, from what `HELLO` and `RECONNECT` mean to
  the plugin; a server that does not answer is `SwDown`.
- **`AutoNexus`** takes damage in steps of the drift it allows; which shots are about
  to hit is any set.
- **`Steering`** takes the trajectory search as any answer of a small set on a line of places; who
  may steer, the ring, the anchor, the expiry and the handing back are exact.
- **`AutoAim`** has enemies on a line, where the intercept is a fraction and exact; the tracker
  keeps displacements in the plane and takes no blend of samples.
- **`ChatBox`** keeps the characters the filter folds and the classes they stand for; a
  name is spelt with a token behind it or without.

## Runs

`CHECK_DEADLOCK FALSE` stands wherever the clock, the counters or the session
may end and nothing more is to happen; `MCTransport.cfg` keeps the check on, because a
transport can always be closed again.

| Run | Asks | Bounds and why they suffice |
|---|---|---|
| `queue_pacing` | are requests accounted for, callers told once and truthfully, packets spaced, one at a time, behind a message, still wanted, item requests fresh, lanes bounded, the timer early enough | two lanes, three kinds of unequal spacing, two requests, a cap of one, one player's packet per lane, one FAILURE, one map change, time 0..3: every pair of events that race for one request occurs, and replacing, trimming and expiring do |
| `queue_patience` | is a lane silent inside every hold, and is everyone told in the end | one lane, two FAILUREs (the second doubles), requests that outlive the hold, time 0..7, longer than the longest hold and deadline |
| `transport` | in step, complete, counted, awake, implements `HeldChannel` | bound of two waiting, four frames: overflow, partial flushes and a second hold all fit |
| `session` | keystreams, order, holds, the end | a queue of two frames, one packet each way, one injection, two holds or releases: rewriting, overflow, a hold at any moment and either socket failing all fit; with one packet each way the order is that of handlers and wire, and that of several packets of one side is left to the theorem, which is for any number |
| `native_link` | in sequence, mutual trust of this run, features reach, nobody accused, reunited | two pipe instances, two runs, two settings, two heartbeats, one event, one drop, one late close event; the counter wraps after 3, so the wrap happens inside a handshake and after it |
| `runtime` | does the machinery run, hold, store and show what was meant | loader: three files, two of one id, three edits, two reloads at once; preferences: three changes, two kills or failures; life: two clients, the native side off, configured or minted; plugins: two plugins, one with two slots that a key may hold, two sessions, a budget of two seconds in three, three turns; settings: two numbers, two presets that share one of them, the last switch kept either way or not at all; overlay: two lists, one that needs chunks, two edits, one change of the host, two connections; reentry: three requests, cap two |
| `errands` | do errands believe what is there, keep their pauses and end | three servers, one down, four turns; six moves round a wall; two bag slots; two bags; chests of three slots and two ranks for the run, up to five slots for the plan; a lease of two seconds |
| `play` | is what is shown and done what was switched and seen | two or three values of everything a feature compares, and a pause of at least two ticks wherever one is kept; three places and two turns at the wheel |
| `state` | are the bytes whole, and is what is known what was said | codec: bytes of base 16, so that two-byte fields and the compressed integer's continuation occur; framer: streams of whole, longest, too short and too long frames, a buffer that has to slide and grow; pipe: three frames, each sound or with a fault of one kind; two ids, walls, bullets whose number wraps; blasts that land sooner and later than supposed |
| `native_reconnect`, `streamer_real`, `pipe_held` | findings | the same instances |

What the conjunctions stand for:

- `LanesAreSound`: `OutcomeHonest`, `OneAtATime`, `NoStaleItem`,
  `BoundedAndDistinct`, `WakeArmed`.  `WholeOrOver`: `TypeOK`, `Unbroken`,
  `EndsTogether`.  `StillWhenHeld`: `HoldsStill`, `EndsStill`.  `NeverAtOdds`:
  `InSequence`, `TrustIsMutual`, `FeaturesReach`, `NobodyAccused`.
- `runtime`: `PluginsRunAsHosted` (a file owns what it loaded, no client comes before
  what the start awaits, no pipe listens before its key, nothing is left after the stop, no session
  without plugins), `SwitchesAreTrue` (a hold ends with its
  link, its setting or its seconds; the overlay's switches and lists are the host's), `StoredIsTrue`
  (the file is never half written and nothing is forgotten; a preset's label and
  what is stored are current), `ReentryLosesNothing`, `NothingUndone` (steps that may not
  undo), `EverythingSettles`.
- `errands`: `ErrandsAreTrue`, `ErrandsStepFairly`, `ErrandsEnd`.
- `play`: `ShownAsSwitched`, `ActsOnWhatItSaw`, `ActsInTime`.  `state`: `BytesAreWhole`,
  `WorldIsAsSaid`, `KnownStepByStep`.

Each property of a passing run has a mutant: one definition that models code
changed as a plausible mistake would change it, under which that run finds the
property violated.  The `Broken variant` operators in the modules are these.

Time in the queue is in units of an item use (250 ms): a move keeps 3 of them in
the instance rather than the code's 4, which only orders the spacings.

## Fairness

- Queue: time passes (`Tick`) and Node runs a due timer (`Wake`).  Nothing makes
  a plugin, the game or the server speak, so `EverySettled` says that silence alone
  settles everyone.
- Transport: Node emits the drain it owes as long as the socket lives.  This is
  the fairness `HeldChannel` asks of delivery.
- Session: Node emits `close` for every socket it destroyed.
- Native link: both event loops run and the operating system delivers
  (`Listen`, `Accept`, `Receive`, `PeerEnds`, `CloseEvent`, `Freed`, `ReadKey`,
  `Connect`, `Poll`, `PipeBroken`).  Starting, stopping, setting features, beating
  and dropping are nobody's duty; `Reunited` supposes only that the runtime is
  eventually up for good.
- Runtime: timers fire (`Fire`, `Second`, `OmFlush`), the file system answers one way or
  the other (`WriteTemp`, `Rename` or `WriteFails`), what `stop()` awaits
  settles (`StopStep`), the host publishes, and the two ends of the pipe read what came
  (`OmHandle`, `OmApply`, `OmDraw`).  No key, edit, client or kill is anybody's duty.
- Errands: clocks and the module's frames go on; a client that has been told where to go
  dials and greets; the server answers an item move in some way.  One step is strongly fair, `SortLeaves`: a
  move of the sort that the queue may send again and again is once sent.  The queue
  may send only behind a message of the client's, which come and go, so that weak
  fairness would never oblige it.
- Play and state: none is assumed, none of their properties is about the end of anything.

## Proofs

All theorems hold for every value of the constants that satisfies the named
assumptions of the modules, listed [below](#what-is-assumed).  Of the runs `queue_pacing`,
`queue_patience`, `transport`, `session`, `native_link`, `runtime` and `play` every invariant and
every property of steps is a theorem.  Of `errands` the
property of steps (`ErrandsStepFairly`) is, and, errand by errand, what
[the next section](#only-model-checked) does not except.  Each invariant below was
checked by TLC before it was proved.

- **The queue, `ServerActionQueueProofs`.**  `TypeOK` is not inductive: the pump
  looks up the request of whatever waits, which has to exist.  `Typed` adds `Placed`
  (what waits or flies in a lane is open, is a request of that lane, and never
  both waits and flies) and `Fresh` (numbers not yet given are new); from it `TypeCorrect`.
  `LanePumped` and `PumpStep` say once what the pump does to these, and each entry point cites
  them.  `RequestsAccountedFor` (every open request in
  exactly one place of its own lane) follows from `Placed` and its converse.
  `CallersToldOnce` is an action property from the same invariant: only open
  requests are told anything.  `KeepsSpacing` strengthens `SpacedFromLast` with what
  the lane remembers: `lastSent` and `spacing` never understate the last packet on
  the wire (a packet that could not be built moves them and adds none).
  `OnlyBehindAMessage` and `OnlyWhileWanted` strengthen with what a packet's history
  can be: moments are recorded as they are, and what waits was asked for on this map.
  `LanesStaySound` is from two invariants beside `Typed`.
  `Flight`: a packet of ours on a lane's wire belongs to a request whose caller was
  told that it was sent, or to the one in flight, behind which nothing of
  ours has gone; from this honesty and one-at-a-time.  `Kept`: no item packet waits that a move
  of the player's own has touched, every lane is within its cap, every
  deadline has a timer no later than it.  That trimming always finds a victim, so that the
  cap holds, needs a least number of a finite set; it is found by well-founded
  induction over inclusion.  `QuietWhileHeld` is from `Hushed`: the one number the queue
  keeps never falls behind what any complaint so far asked for, although a
  confirmation and the calm period start the streak again.
- **A transport, `TransportProofs`.**  `Sound` relates a link to the history: what is on the
  wire is a beginning of what was accepted, place by place, and while it is open
  the queue is the rest; the count is the queue's length.  `Driven` adds that
  whatever waits behind an open gate is owed a drain: `Owed` is why a flush that
  stops on backpressure may stop.  From these: `TypeCorrect`, `StaysInStep`,
  `HoldsWithoutDropping`, `CountsPending`, `NoLostWakeup`, and `ImplementsChannel`: a
  transport is a `HeldChannel`, every initial state one of its, every step one of its or none.
- **A session, `ProxySessionProofs`.**  The methods of a transport are functions, and so are a
  handler's steps; the proof follows that.  `Whole` and `Stays` are proved
  once of every function on a link, `Fine` of every function on a session's `State`, and an action
  only strings them together.  `Fine` holds for both links their keystream and the order
  of what they carry, wire and queue as one sequence (`Conveyed`), up to a bound on the
  numbers in it.  The bound is what makes it inductive: the client's n-th packet and what is sent
  around it carry 3n-2, 3n-1 and 3n, so that all before it lie below.  A hold is *whole*
  only once the connect listener has nothing left to open, which is why
  `SessionStillWhenHeld` speaks of holds of a connected session.  From it also
  `SessionWholeOrOver` and `SessionInOrder`.
- **The native link, `NativeLinkProofs`.**  The invariant says of each instance of the
  pipe how far the conversation on it has come.  What is under way is a chain: each frame bears
  the number after the one before, the first the one after its reader's
  (`Chain`), and the writer stands at the number of the last (`UpTo`); so a frame read in turn
  never shows a gap, around the end of the counter too.  `Queued`, `Reads`, `Hears` and `Talk`
  are kept apart because either end may be gone: an old instance may still hold what nobody
  will hear, and a module may read from a runtime that has left.  Nothing beyond the
  challenge is said before proof, and a module that is `ready` holds the secret of this run.
  That the module ends with what was asked for last is `Settled`: of the frames about one feature
  still under way the last has the value the runtime holds, and with none the module has it.  Replay
  after a handshake writes each feature once, which needs that features are finitely many.
  From it `LinkTypes` and `LinkNeverAtOdds`.
- **A lane that is called back, `RuntimeProofs` (`ReentryInv`).**  Everyone who was not told
  their end is in exactly one place: waiting, in flight, or in the hands of a piece of
  work still to be run (`Somewhere`).  Beside it what each loop still to run makes good: a lane
  over its cap has a trim to come, leave to dispatch has its end to come, a closed queue
  with something in flight its letting go (`Bounded`); a packet on the wire whose report
  is running has nothing in flight and this moment as its lane's last (`Paced`); and of a name
  being made room for all that wait are where the loop has still to look, as long as handlers are polite
  (`NamesKept`).  From it `LosesNothing` and `KeepsPace`.
- **Plugins on disk and running, `RuntimeProofs`.**  `LoaderInv`: a file with an id of its own
  whose last change was not missed runs what is on disk, or exactly one load of it that will
  read what is on disk is under way or due.  `RunInv`: entries are sound, a hold nobody interfered with
  is the last of its plugin and of a switch that can be moved (without which putting
  it back would be refused), a hold has its budget, and the overlay has what was published.  With the
  `Standing` of `Lifecycle` these give `RunsAsHosted`; with the overlay's `SwitchesShowTruly`; and
  `HoldsPutBack`, a property of steps.
- **What is kept, `RuntimeProofs`.**  `SettingsInv` is the three properties with their types.
  That choosing a preset ends with it is an induction over its numbers: after n of them the first n are
  the preset's, the label is, and the guard still stands; `PresetsTake` and
  `RestartsKeep` rest on it, and with `PreferencesFile`'s invariant `KeptTruly`.
- **What the overlay shows, `RuntimeProofs` (`OverlayInv`).**  In the pipe are whole
  descriptions of the host, one behind the other, behind what is left of the one being
  built, and what is being built is what its records so far come to.  Why the chunks of a
  list come to the list again, and each fits its record, is followed along both loops
  (`PackedIs`).  Hence a list is never seen in part, whatever connection
  broke (`WholeLists`).
- **All of it, `RuntimeProofs`.**  `RuntimeTyped`, `EndsAreHeard` (`HeardInv`: who was heard
  of has gone), `FileNeverBack`, and `NeverUndone`, which is the run's property of steps.
- **Preferences, `RuntimeProofs`.**  `Ordered`: the chain of writes is
  strictly increasing, above the file and not above memory, and below it when there is a mark; a
  temporary file ready to be renamed is the head of the chain.  From it `FileIsWhole` and
  `FileGoesForward`.  `Covered` adds that the newest change is marked, last in the
  chain, in the file or lost to a failure, and `ChangesAreCovered` follows.
- **The server switch, `ServerSwitch`** (at its end, for the part by itself:
  `SwitchInit /\ [][SwitchNext]_swVars`; `SwitchedTruly` in `ErrandsProofs` is the same of
  the run).  `PlaysOnlyWhereChosen` is inductive by itself; `BouncesStayBounded`
  needs `BouncesCounted`, that every bounce is one of the failed returns the plugin counts;
  `SeatsAreKept` is a property of steps.
- **Start and stop, `RuntimeProofs`.**  `Standing`, for any clients: a listener is there exactly when
  the start is done, connections only with it, and a run that was not stopped early is taken
  down stage by stage from everything to nothing, with its connections gone before its
  plugins.  It says how far the native side has come as well: off, failed with its warning, or up with
  its key before it.  From it `ReadyBeforeAnyone` (with `KeyBeforePipe`), `PluginsOutliveSessions` and
  `NothingLeftStanding`.

- **Errands, `ErrandsProofs`.**  `ErrandsAreFair` is the run's property of steps, out of one
  invariant for each errand.
  *Jumps*: `JumpShape` ties the request that waits in the queue, the jump the plugin takes for
  pending and what it keeps of the last one to each other, and `JumpCount` the failures to the
  jumps that led nowhere; without them `JumpsApart` fails at the first step, because the plugin's
  own clock starts when it asks and the rule is about when it was sent.
  *Looting*: `LootInv` says that the move pending is the one that waits or has left, that its age is
  that of what left, and that what is held back covers everything of ours that may still be settling.
  The guard of the player's own potions rests on the last.
  *The arrow*: `ArrowInv` follows the client's quest through a plugin that may be stopped with
  the arrow in its hands; what was announced is what is remembered of the bags that are there.
  *Claims*: of the pipe, that what is on the wire is a batch or what is left of one
  (`ClWritten`), so that a number is always ahead of the claim that applies it; of the link, that
  what it keeps for replay is what the plugin said last (`ClKeeps`); of the module, that
  what it holds together with what is still to come is that too (`ClAgree`).  `SignedInColour` and
  `NeverOnOld` follow, over lost links and new modules.
- **Features at play, `PlayProofs`.**  Twenty-five rules of steps (`FeaturesActInTime`), and three
  invariants (`ShownTruly`, `SeenTruly`, `PlayTyped`).  Where the property is not inductive by itself:
  *Auto Nexus* needs that whatever is held back stands behind an escape of this map, and that
  ticks are only counted once the health is known.
  *The ground*: an open window is as old as the last step onto the ground or the last report let
  through, whichever opened it, and never older than the latter; the countdown runs as long as it is open.
  *Casting*: the pause is the doubling of as many refusals as were counted, for any number
  of doublings.
  *Callouts*: `NewsInv`, that everything waiting to be said is unsaid, was not there on
  entering and stands only once in the queue; the interval holds across a map that
  forgets when the last was said because whoever enters first lets the map settle.
  *Walls*: `ClaimInv` is arithmetic over the lease: what is left of it in the module, what is
  left of the interval in the plugin, and what the player wanted last never drift apart by more than
  one lease.
  *Aim*: one pass over the enemies is a recursive function; that it ends at the best of those that
  can be hit, for any number in any order, is an induction over the pass, and that the scores are
  comparable is what it needs.  `FirstMeeting`: the two closing speeds, with and against the
  target, bound the times at which shot and target can meet; that the time found is the
  first is proved from them for any speeds.
  *The chat box*: `SeenThrough` follows two readers along a line, the text rules and whoever
  reads it, letter for letter, for lines of any length; the properties in `ShownAsSwitched` about
  names are from it.
  *Steering*: who walks is one of three and the owner named is the one that set the target; the
  push, being the difference of where the player stands and would, vanishes with it.
  *Types* (`PlayTyped`): most are part of the invariants above, or of a few more facts kept
  beside them.  The rest is arithmetic: what the ground is given up for is the least of at most three
  places and so one of the room's (`ShiftsWithin`), the push is never more than the character can do
  and lasts no longer than the hold (`PushesWithin`), an event is listened for no later than its
  window closes whatever pause is drawn (`TimedWhenAsked`), a doubled pause is longer than the wait
  for an answer (`OnceUnanswered`), and what is left of a list is no longer than it
  was (`StillWaiting`).
  *Disguise, looks, effects*: what the client was told is what the switch says, or a
  restatement is due; a switch off restates all of it.

The library's induction theorems take a predicate as a parameter, which the provers cannot
instantiate.  A loop that is a recursive function up to a bound is followed all the same:
`LeastOne` gives a least counterexample out of a set of numbers, `Upwards` induction
over a set, `Recursion` that the function exists and unfolds.  A predicate becomes
the set of the numbers that have it.

### What is assumed

Assumptions are named, stand where the constants are declared, and TLC evaluates them on the
runs' instances.  Most are types: of tables, of ages and pauses, which are counted in whole
ticks, and that what stands for "none" is none of the things.  Those that say more:

| Assumption | Says | Because |
|---|---|---|
| `LaneAssumption` | lanes of one rank are the same; the spacing of a packet kind is a number | the lane table, `outbound/actionLanes.ts` |
| `TuningAssumption` | `Never` lies so early that nothing waits for it; a positive cap | the queue starts from `-Infinity` |
| `NativeAssumption` | features are finitely many | they are a fixed list in `packages/ipc` |
| `RuntimeAssumption` | noclip has its switch and handles no packets; its budget ends within the seconds watched | `features/noclip`; the last is the clock's bound |
| `SettingsAssumption` | a preset gives every number a value within its bounds, and is not called `custom` | presets are written next to the settings they set |
| `NexusAssumption` | both lines lie below full health | the settings are percentages, 95 at most |
| `HazardAssumption` | the windows on offer are positive and one is the longest | a setting with a range, `features/hazardguard` |
| `AbilityAssumption` | an answer is waited for less long than the shortest pause before asking again, and that pause is shorter than the longest | three constants of `features/autoability` |
| `PortalAssumption` | the nexus is a place; a portal is asked for again only after a while | `RETRY_INTERVAL_MS` |
| `AnswersAssumption` | of two events of one speaker, a line that settles the later neither asks for nor settles the earlier | true of the catalogue and the lines the instance has; a line of the game's says one thing |
| `CalloutsAssumption` | a map settles no sooner than the interval between callouts; no portal is listed twice | two constants of `features/autocallout` and its table |
| `RespectsAssumption` | the longest pause is no shorter than the shortest | its two figures |
| `MotionAssumption` | a track goes stale after a positive time | a constant of the tracker |
| `AimAssumption` | the lease outlasts the interval between two claims; what the priority is at first is one it may have | the two constants the claim is restated by; the setting's default |
| `ChatBoxAssumption` | the player's name is neither empty nor the alias, and nobody else has it; lines of the player carry it | names are the game's and unique; under an alias that is the player's own name nothing is hidden |
| `StreamerAssumption` | an alias is not the real name; some alias is not blank | as above; under a blank one the name is left alone |
| `AntiLagAssumption` | sizes are positive; the player is one of those there | the game's own figures |
| `SteeringAssumption` | an answer of the search that goes nowhere has no steps; the dodge's share is part of the full push | what the search returns, taken as given |
| `TrailAssumption` | one crumb is kept at least, and what is reached lies beyond what is kept | `features/autofollow`: 24 tiles against a few |
| `FollowingAssumption` | the pause, the time to confirm and the failures allowed are positive | constants of `features/autoteleport` |
| `LootAssumption` | all pauses and waits of the looter are positive | constants of `features/autoloot` |
| `ArrowAssumption` | bags and quests have different numbers | object numbers are the server's and unique |
| `ClaimsAssumption` | numbers and the lease are positive | the module counts from one |
| `WardrobeAssumption` | no skin is of two classes but the default; nothing stored is no look | a skin is filed under its one class, `skinsForClass` |
| `VaultAssumption` | slots, ranks and pauses are positive | rank zero is an empty slot |

## Only model-checked

- Liveness (`EverySettled`, `LostEnds`, `Reunited`, the fairness half of
  `IsChannel`, `EverythingSettles`, `ErrandsEnd`): fairness and ENABLED are beyond the
  prover.
- `ErrandTypes` as a whole.  The types a rule of steps rests on are in its invariant
  (`FollowingTypeOK`, `LootTypeOK` and `ClaimsTypeOK` are theorems); what is not needed for
  anything is left to TLC.
- `ErrandsAreTrue` as a whole.  `PlaysWhereChosen`, `BouncesBounded`, `ArrowIsWhereSaid` and
  `SignedInColour` in it are theorems.  `NeverBlind` (no crumb of the trail is behind a wall from
  the one before) is about the wall of the instance; `PlansSort`, `PictureIsTrue` and
  `DoneIsSorted` are about what the walks over a permutation in `planMoves` come to, recursive functions
  within recursive functions; the rules of the items are pure decisions over all small cases.
- The run `state` (`BytesAreWhole`, `WorldIsAsSaid`, `KnownStepByStep`): `Codec` and `Framing`
  are written with recursive operators, which puts every module that extends them out of the
  prover's reach, `MCState` with them.

## Not modelled

- The dodge's search (trajectory optimizer, danger and shot fields, bodies, the scene and
  its pictures) and how a shot bends (`ShotMotion.ts`): real-valued geometry over time, which a finite model says
  nothing about.  Who steers by its answer is modelled.
- RC4 (a counter stands for it), HMAC and curve (a signature is its secret); widths
  of numbers are a few values.
- Game data catalogues, item names and enchantments, the packet census, debuff masks,
  world-status records, `TargetIdProbe`: tables, counters and single rewrites
  without behaviour over time.
- Configuration and logging; tools, scripts, build steps and example plugins.
- The hooks in the game's process and everything drawn.  The native module is modelled as
  far as its link, claims, mirror and move target go.
- A transport that overflows inside the dispatch of an outbound packet, so that the queue is
  disposed in the middle of its own pump (`ServerActionQueue.ts:568`): the
  packet is then in flight in a queue that no longer settles anything, as read; the
  composition of queue and session that would show it is not there.

Noticed while reading or modelling, each a place where the code and what is
said of it part, and not among the runs:

| The code | What is said |
|---|---|
| a handler that asks again under the name being replaced leaves two requests waiting under one name, `outbound/ServerActionQueue.ts:471` | `packages/plugin-api/src/outbound.ts:90` |
| a lane measures from its last packet only, so a cheap packet of the player's hides the move before it, `outbound/ServerActionQueue.ts:453` | `outbound/actionLanes.ts:42` |
| a packet whose sending closes the queue leaves its caller untold, `ServerActionQueue.ts:580` | `packages/plugin-api/src/outbound.ts:132` |
| a hold asked for before the server's socket connects is undone on the uplink, `proxy/NetServerConnector.ts:27` | `proxy/ProxySession.ts:172` |
| a rewrite that does not encode closes the session, `proxy/ProxySession.ts:278` | `docs/architecture.md:511` |
| a pong later than the next ping is a wrong answer and ends the link at once, `native/NativeLink.ts:465` | `native/NativeLink.ts:24` |
| an edit that changes nothing publishes nothing, so that the overlay goes on waiting for its answer, `overlay/OverlayControlPlane.ts:212` | `apps/native/src/overlay/Ui.cpp:1894` |
| a stored choice of a dynamic picture chooser is refused before its options have come, only a plain one waits for them, `plugins/SettingsRegistry.ts:270` | `packages/plugin-api/src/settings.ts:148` |
| the budget of a hold is counted by a ticker that stops when the plugin is disabled for failing, `features/noclip/noclipPlugin.ts:170` | `features/noclip/noclipPlugin.ts:38` |
| the outcome of any earlier request lets go of the pending move before both ends have shown it, `features/autoloot/autoLootPlugin.ts:447` | `features/autoloot/LootSession.ts:133` |
| a gap the player's own move has filled while a move of the sort waited is not looked at again | `features/vaultsort/vaultSortPlugin.ts:19` |
| of two walls on one square the first to go clears it for both, `state/EntityStore.ts:184` | `state/EntityStore.ts:97` |
| a wall that goes while a shot is on its way to it has already ended the flight, so that the shot is believed for too short, not too long | `state/projectiles/flightEnd.ts:36` |
| after switching off, what was resized stays so until the server says its size again | `features/antilag/antiLagPlugin.ts:31` |
| a link that comes up after switching off is told the old claim again, and it runs anew | `features/collider/colliderPlugin.ts:15` |
| the settings of the hit redirect are forgotten at a start that finds the preset's label untrue: the label is put right, and the store written, before they are declared, `features/dodge/dodgePlugin.ts:162` | `plugins/SettingsRegistry.ts:265` |
| a clock set forward is followed within two windows, not one, `native/ClientClock.ts:58` | `native/ClientClock.ts:18` |
| a write that failed is not tried again by `close()`, the mark being gone, `plugins/PreferencesFile.ts:120` | `plugins/PreferencesFile.ts:112` |
| a file another version wrote is replaced at the first change | `plugins/PluginPreferences.ts:6` |

## Findings

| Run | The code | What is said of it |
|---|---|---|
| `native_reconnect` | a connection adopted before the old one's `close` event swallows the departure, and that event then ends the new connection, `native/NativeLink.ts:150` | `native/NativeLink.ts:54` |
| `streamer_real` | a character announced while the mode was off is still taken for told, so the real name stays when the mode comes on, `features/streamermode/IdentityDisguise.ts:93` | `features/streamermode/IdentityDisguise.ts:33` |
| `pipe_held` | a malformed message ends the reading, so the whole messages read with it wait for more bytes, `native/NativeLink.ts:320` | `native/NativeLink.ts:321` |

## Plan

Written so far, in order: outbound queue, transport, session, native link; the runtime's
machinery, the errands, the features, bytes and state; the proofs of everything but liveness that the
first six runs check, of the features at play and of the errands' steps.  What is left:

1. **Errands**: `ErrandTypes`, for which the types of a sort need where `NextMove` can point; the
   rules of the items.
2. **State**: of `WorldIsAsSaid` the fold of what was said, with `World`, `Shots` and `ClientView` put
   together apart from the two modules that are recursive.
3. **Session with queue**: compose the two, overflow inside a dispatch included.
4. **Abstract specifications**: "the module does what was asked for last" for `NativeLink`
   to implement, "asked for, under way, settled" for looting, sorting and jumping.
