# A verification project for Advanced AutoDeafen

Advanced AutoDeafen is a mod for Geometry Dash. When a run passes a percent the
player configured for the level, it deafens the player on Discord; when the
attempt ends, it takes the deafen back. This directory holds TLA+ models of the
mod's logic, the configurations that check them with TLC, and theorems about
them that TLAPS checks. All models are written from the C++ code in
`src/mod/src/`; line numbers below refer to it.

The short answer to what the checks say:

* The game hooks are sound: no deafen is forgotten, none fires twice or at the
  spawn (proved for every level and every order of hooks), with one exception,
  a threshold reached on the very frame of the death or the completion.
* Direct mode keeps its contract message by message: whatever is late, refused
  or closed, it owns only what it set, deafens only on a report of "not
  deafened" and un-deafens only after its own deafen (proved as a refinement).
  It may however *lose* its own deafen, for two reasons and no third (proved):
  a repeated deafen request, and a `SET_VOICE_SETTINGS` that is not answered in
  time. Both leave the user deafened, and the hooks can bring about the first.
* Faults do not outlive themselves: once Discord answers again, the last request
  is served, whatever was lost before; and a worker that goes on asking gets
  through to a Discord that is there, on every platform. Three calls have no
  deadline, though, and may hold the worker for good: a write to Discord, the `recv`
  of the browser's redirect, and the HTTPS request for tokens.
* A deafen the user made by hand, before the game or during it, goes by their own
  hand only, unless that hand moved after the mod had looked (proved).
* The stream to Discord is never read or written from the middle of a message, and
  every message is taken once and in order (proved, the latter as a refinement).
* An authorization ends, unless a silent client or a call without a deadline holds
  it, and a code granted in it is never refused: refused are the
  code of a tab left open earlier, a stranger's, and one cut short (proved). Any of
  these does end the wait, since the redirect carries no state to compare.
* The settings row follows the worker, with one exception, a colour that may stay
  wrong for as long as its text does not change (proved).
* Hooks and delivery together: whenever nothing is under way, Discord is deafened
  only if the hooks want it; and if they want it, it is, unless direct mode lost the
  deafen with its session, to a logout or to a failed command, of which nobody tells
  the hooks. The exceptions are named (`upset`, `astray`; proved for both modes, any
  level and any schedule).
* Keybind mode's belief is wrong exactly while an odd number of toggles happened
  without it (presses by hand, lost presses, what direct mode did); proved.
  Nothing corrects it.
* The config store and its popup keep their data (proved: the store agrees with
  its file, and no edit touches another level), except for hand edits made while
  the level is open.

Four runs, listed under *Findings*, each show one statement of the documentation
or the comments that the code does not live up to; further differences met while
modelling are listed after them.

## Inventory

| Component | Code | State | Operations |
|---|---|---|---|
| RPC worker | `discord_rpc.cpp` | mailbox (`m_pending`, `m_pendingConnect`, `m_pendingLogout`, `m_auth`) under a mutex; connection, `m_authed`, `m_weDeafened`, `m_liveToken`, `m_nonce` on the worker; `m_state` shown | `requestDeafen`, `connect`, `logout` from the game thread; the loop of `threadMain` |
| Attempt hooks | `main.cpp`, `core/resolve.hpp`, `startpos.hpp` | per level `m_threshold`, `m_pendingResolve`, `m_deafenedThisAttempt`, `m_use21`; static `s_sessionUsed` | the `PlayLayer` hooks |
| Delivery | `deafen.cpp` | static `s_believedDeafened` | `request` |
| Key senders | `keysender_win.cpp`, `keysender_mac.cpp`, tables of `deafen.cpp` | none | `tapKey`, `keyNameFromCode`, `vkFor`, `keyCodeFor` |
| Config store | `config_store.cpp` | `m_levels`, `m_loaded`, `levels.json` | `refresh`, `levelConfig`, `setLevelConfig`, `removeLevelConfig`, `save` |
| Config popup | `level_config_popup.cpp` | `m_enabled`, `m_use21`, the inputs | open, type, toggle, close (which saves) |
| IPC framing | `rpc_conn.cpp`, `core/wire.hpp` | the byte stream, both ways | `sendJson`, `readJson` |
| Authorization | `discord_rpc.cpp`, `rpc_conn.cpp` | verifier and code of an attempt, a listening socket | the end of `authenticate`, `waitForOAuthRedirect` |
| Transport ladder | `rpc_conn.cpp` | static handle of the bundled bridge | `open`, `openTransport`, `launchBundledBridge` |
| Settings node | `discord_setting.cpp` | label, graying, text and colour of the row, the mirror of `delivery-mode` | `onButton`, `refreshDisplay`, the status and delivery-mode listeners |
| Wire encodings | `core/wire.hpp` | none | `sha256`, `base64UrlEncode` |

How they interact. The hooks call `deafen::request`, synchronously, on the game
thread. In direct mode `request` posts to the worker's mailbox and returns; the
worker talks to Discord through the IPC framing, over whichever transport the
ladder found, to the token endpoint over HTTPS and to the browser through the
redirect listener, and hands values to be saved back as closures that the game
loop runs later. In keybind mode `request`
taps a key that Discord sees later. The popup writes to the config store, which
the hooks read when they resolve a threshold. The settings node reads the
worker's status, is called back by the game loop when it changes, and calls
`connect` and `logout`.

What is hard in each, and what makes it correct:

* *RPC worker*: two threads, a mailbox that keeps only the latest target,
  answers later than their deadline, a connection that may go at every step,
  closures that run after what they should have preceded. Correct means:
  `OwnsWhatItSet`, `OrphanHasCause`, `PoliteSpec`, `KeepsUserDeafen`,
  `StatusTruthful`, `StatusSpec`, `WorkerReturns`, `LastLogoutServed`, and that the
  last request is served, even after faults (`LastDeafenServed`,
  `LastUndeafenServed`).
* *Attempt hooks*: the game calls them in many orders, some of them twice or
  with nobody dead; settings, config and spawn change while a threshold is
  armed. Correct means: `Remembered`, `AtMostOnce`, `OptIn`, `FiresPastSpawn`,
  `StaysDeafened`, `AttemptEndsUndeafened`.
* *Delivery*: a toggle that cannot be read, a mode that changes in mid-deafen, a
  session that goes and takes the deafen with it.
  Correct means: `BeliefTracks`, and end to end `FollowsHooks` and
  `EndsUndeafened`.
* *Config store and popup*: a file with any content, writes that fail, another
  writer, percents that the spawn point has already passed in one basis and not in the
  other. Correct means: `InSync`, `KeepsOthers`, `TypedIsResolved`, `Reopens`.
* *IPC framing*: short reads and writes, two deadlines, pings between, one
  connection after another. Correct means: `ChannelSpec`, `Aligned`,
  `WholeMessages`, `CallReturns`.
* *Transport ladder*: a helper process that dies, hangs or comes up late, with a
  static handle that outlives every connection. Correct means: `OneBridge`,
  `ReachesDiscord`.
* *Authorization*: strangers at the port, with and without codes, denials, tabs of
  earlier attempts, a request of which only the first piece is received.
  Correct means: `EndsForAReason`, `RefusedForAReason`, `ConsentEnds`.
* *Settings node*: three looks at a worker that goes on, a state that is changed
  before its listener is queued, two memories of what is drawn. Correct means:
  `FollowsEvents`, `ColourTellsState`, `ClickDoesWhatItSays`.
* *Key senders, wire encodings*: tables written apart that must agree; broken-off
  taps; the ends of an alphabet. Correct means: `TapsTheBoundKey`, `TapHeals`,
  `EncodesTheBits`.

## Modules

```
Thresholds --- Attempt -------------+
                                    +-- AutoDeafen --- MCAutoDeafen --- KeySender
               Delivery ------------+        +--- AutoDeafenProofs
Mailbox, Discord --- RpcClient --- RpcInvariants --- RpcClientProofs
                        |--- RpcRecovery (faults that end)
                        |--- PoliteDeafen (implemented by RpcClient)
                        +--- RpcStatus    (implemented by RpcClient)
                                +--- SettingsPage (written against RpcStatus)
                                          +--- SettingsPageProofs
IpcConn --- Channel (implemented by IpcConn, in Connection)
   +--- Connection --- ConnectionProofs
Transport ---+
OAuthRedirect --- Consent --- ConsentProofs
Thresholds --- ConfigStore --- ConfigStoreProofs          Wire
```

`MC...` modules instantiate a specification for TLC, `...Claims` modules state
what documentation or comments say and a run refutes, `...Proofs` modules hold
the theorems. A definition marked `faulty:` is not part of any specification:
it is what the definition below it would be after a plausible mistake, and each
property is known to fail with one of them in place.

**Mailbox, RpcClient.** `Mailbox` is the game thread's side: `RequestDeafen`,
`Connect` and `Logout` are the three calls, with everything they do under the
mutex, `RunPosted` is a closure run by the game loop. `TakeAll` is the critical
section of the worker's wait. `RpcClient` is the worker. Its control state is
`pc`, the place in `threadMain`, `ensureReady`, `authenticate` and `applyDeafen`;
`sendCommand` is the pair of a step `Send` and one of `Receive(...)`,
`SkipStale`, `TimedOut`, `ClosedWhileWaiting`, common to the six sites it is
called from. `AfterFailure` is where each caller goes on when it returns
nullopt. A successful `tryAuthenticate` is `Authenticated` (the name, if Discord told
one, is queued, and `m_authed` set) and then `AnnounceConnected` (the end of
`ensureReady`). `stalled` says that the worker is held in a call without a deadline:
`Stall` may strike at every write, in `open`, at the redirect's `recv` and at the HTTPS
request; `Unblock` ends a blocked write when Discord closes. Tokens are abstracted to
their presence: a refused token is an answer that is not `ok`. `orphan` is a history
variable that names why the mod may have stopped owning its deafen.

**Discord** is not in the repository; it is modelled as the worker uses it. It
executes the commands of a session in order at any later time, answers them,
and resets what the session controlled when the session ends (the comment at
`discord_rpc.cpp:464`). `Env` selects what it may do in a run: answer late,
refuse, close the session or not run, let a call never return, let the user toggle by
hand at any time. `touched` is a history variable: the user's hand has moved since the
last report to a session that holds no deafen of its own.

**RpcRecovery** adds one variable to `RpcClient`, `calm`: from some moment on none
of the steps that are faults (`Fault`) is taken. What they left behind stays:
broken sessions, commands in flight, answers nobody waits for, tokens that were
not stored.

**PoliteDeafen, RpcStatus** are two abstract specifications of direct mode.
`PoliteDeafen` is the contract with Discord's user, over the voice state, what the
session did last and what it was last told; the mapping is the identity on those
variables of `Discord`. `RpcStatus` is the contract with the game thread: the
phases `state()` may go through, whether Discord has accepted a token (`granted`),
what is stored, and the closures that will still change it; the mapping forgets tokens
and keeps the two keys the game thread reads. The calls of the status listener are not
part of it.

**SettingsPage** is the settings row, over `RpcStatus` in place of the worker. Every
`setStatus` is two steps, as in the code: `SetStatus` changes phase and text under
the mutex, and `QueueListener`, after the mutex is let go, queues a call of the
listener behind the closures queued before it (`pings` counts them). Between the two
(`telling`) the game thread runs, and may draw the row or take a click.
`refreshDisplay` is three steps, one per look it takes at the worker (lines 105, 106
and 123-157), with the worker free to go on between them. `mixed` and `unseen` are
history variables: the line was drawn from two states, and `delivery-mode` changed
since the last refresh.

**Thresholds, Attempt.** `ResolveThreshold` and `PercentForPos` are the pure
functions. In `Attempt`, one action is one hook. The game's own part is an
environment: a frame is `Update` (the game moves the player), any number of
`DestroyPlayer` and at most one `LevelComplete`, then `PostUpdate`; between
frames the game pauses, resumes, resets or quits. `call` is the request a step
makes, `want` the latest one.

**Delivery, AutoDeafen.** `Delivery` is `deafen::request`: `TapIfNeeded` in
keybind mode and `PostTarget` in direct mode. `astray` is a history variable,
whether an odd number of toggles happened without or against the belief. The
worker is one step per target: `Serve`, as `applyDeafen` with its connection up, or
`ServeFails`, a command that is refused or answered too late, which may have deafened
unowned, or given up an un-deafen with or without effect. `LoseSession` ends the
session and with it the deafen it holds, in mid-attempt, with or without a target
dropped; `Logout` and `ServeLogout` do so by way of the mailbox. `RpcClient` has all of
this message by message. `AutoDeafen` runs a hook and its `Deliver` in one step, as the
code does, with key presses, the worker, lost sessions, the user's hand and the
settings page interleaved. Two history variables name what the requests of the hooks
cannot make up for. `upset`: a repeated deafen in direct mode, a failed command that
leaves Discord deafened, a change of mode or key in mid-deafen, a toggle by hand in
direct mode; the end-to-end properties except exactly that. `lost`: the deafen the
hooks want was dropped, or ended with its session; then Discord may be un-deafened
during the run, but nothing else goes wrong.

**ConfigStore.** Configs, the file and the popup as values. An optional value is
a set of at most one element, so that the parsing of `loadFromDisk` is set
filtering. A file may be unreadable, hold wrong types, bad indices, empty keys
and percents out of range. `SpawnPercent` is the percent of each row's StartPos object
in both bases, which `resolveNow` hands to the arming guard (`Armed`).

**IpcConn, Channel.** The stream is the concatenation of the peer's messages; a byte
is known by its place, so that a read that starts in the middle of a message reads
anything as a header. Of the other direction only the numbers of bytes are kept: what
was asked for (`owed`), what is still to write (`writing`), what the peer took
(`handed`). `Channel` has whole messages and no bytes; its queue is mapped to the
messages that begin behind the place the reader has got to.

**Transport, Connection.** `Transport` is `openTransport`, rung by rung, on four
kinds of machines, with the bridge as a process that starts, serves and exits by
itself. `Connection` composes it with `IpcConn`: open, the HANDSHAKE, messages, drop,
open again; Discord may quit and come back, and the game may be restarted.

**OAuthRedirect, Consent.** `OAuthRedirect` is one wait for the browser's redirect,
time counted in turns of `select`. Each client is received from once, and anything
behind `code=` is a code (`Coded`): the redirect of this attempt, of an earlier tab,
a stranger's, or a code cut short by the end of the first piece. `Consent` is the whole
authorization, attempt after attempt: the verifier is the attempt's number, the prompt
in Discord, the link that the game loop opens whenever it comes to it, the tabs that
stay, the wait, and the exchange. `issue` is what the code in hand was issued for (a
stranger's or a cut one: any redirect, no attempt's challenge), `viaBrowser` the code's
own flag, by which it sends `redirect_uri`; the exchange succeeds where the two agree.

**KeySender, Wire** have no state: the tables of key names and codes, the events of a
tap, `base64UrlEncode`. Their facts are assumptions (`ASSUME`) that TLC evaluates
before a run: names agree over the three tables and the code sent is the one bound
(`TapsTheBoundKey`), a tap broken off is made good by the next (`TapHeals`), the text
is the bits of the data (`EncodesTheBits`).

## Runs and bounds

| Run | Shows | States |
|---|---|---|
| `RpcSafety` | `StatusTruthful`, `OwnsWhatItSet`, `OrphanHasCause`, the two contracts `PoliteSpec` and `StatusSpec`, `KeepsUserDeafen`, and the inductive invariant `IInv`, with every call, every fault, calls that never return and the user's hand | 3.3 M |
| `RpcFaults` | every job ends and the last logout holds unless a call never returns, and once the faults are over the last request is served; from three sets of stored tokens, all faults but the user's hand | 1.4 M |
| `AttemptHooks` | safety and liveness of the hooks, two edits | 135 k |
| `AutoBoth` | `BeliefTracks`, `FollowsHooks`, `EndsUndeafened`: hooks and delivery in both modes, with presses by hand, failures, lost sessions, logouts and changes of mode, key and settings; the facts of `KeySender` | 562 k |
| `StoreEdits` | store and popup, four edits, failing writes | 97 k |
| `IpcFrames` | framing, writes and the ladder, on one connection after another, four machines | 406 k |
| `Redirect` | authorizations, three of them, with four clients at the port, strangers with codes among them; the fact of `Wire` | 2.1 M |
| `SettingsRow` | the settings row against a worker that goes on, three things queued | 762 k |

Types are checked as a part of the inductive invariants (`IInv`, `AttemptInv`, `ConnInv`,
`ConsentInv`, `PageInv`); those of `Delivery` and `ConfigStore` are proved, and so is
`AutoInv`, the invariant of the composition.

The four `Claim...` runs stop at a counterexample; see *Findings*.

Why the bounds are enough:

* *Direct mode.* The worker's memory between jobs is four flags; two calls reach
  every combination of an earlier job (served, failed at each site, answered
  late) with the next. Nonces grow with the calls and need no bound of
  their own. `InitSaved` chooses the tokens of earlier sessions: with none the whole
  consent ladder runs, with an access token only its first step, and `RpcFaults`
  starts from none, from an access token and from both tokens. `RpcSafety` takes the
  access token alone, from which every site but those of the refresh is reached when
  it is refused. The theorems cover any number of calls, so that the run of the
  safety properties mainly guards the formulas; the liveness properties of
  `RpcFaults` rest on the run alone, where the last of two calls follows a job that
  failed in any way and at any place.
* *Hooks.* A level of five positions with startpos at positions 1 and 3 has
  thresholds below, at and above each spawn, in both percent bases; the configs
  include a disabled one, one out of range and one at the spawn percent.
  `MaxEdits` bounds changes of settings and config, of which two give
  "changed and changed back".
* *Composition.* Three positions suffice for "fires at the start of the run, on
  the last frame, or never". `MaxTaps` = 2 lets a deafen and its un-deafen be on
  their way together. One edit of config or settings and one turn of the player
  (a change of mode or key, a press by hand or a logout) reach each way to disturb a
  deafen; the theorem on the belief needs no bound.
* *Store.* Two levels, one with one startpos and one without, four files, four
  typed texts (empty, too small, good, too large); the row of the startpos has a percent
  that a typed one lies below in one basis and above in the other.
* *Framing.* Headers of two bytes and payloads of one (or of two, which is too
  long) break at every place; two messages on each connection give "one broken, one
  after", and connections follow one another without bound. The peer takes up to
  two bytes at a time, so that a write blocks or is cut. A machine with Windows, one
  with macOS, and two with Wine, one that has sockets and no bridge and one that has
  the bridge only, use every rung; two polls after a launch are "too early" and "in
  time".
* *Redirect.* Two turns, four clients of every kind and three attempts: a tab of the
  first may answer in the third.
* *Settings row.* Three things queued let two refreshes be under way behind a
  closure; the phases go round without bound.

Two runs are without deadlock checking. In `Redirect`, when the attempts are used up
and nobody connects any more, the system is at its end. In `RpcFaults` a worker held
for good in a call really stops direct mode once the calls are made; that nothing else
does is what `WorkerReturns` says. Everywhere else deadlock is checked: the worker's
loop, connections and the game never stop.

## Fairness

* The worker's thread is scheduled unless a call holds it (`WF(Worker \/ Unblock)`;
  a stalled worker takes no step, and nothing makes the call return but Discord
  closing the pipe it writes to), Discord executes what it was
  sent, and the game loop runs queued closures. The first is the operating
  system's promise for a thread that never takes a lock for long, the last is
  what `queueInMainThread` is for; that Discord answers eventually is *not*
  needed for `WorkerReturns`, since every wait for an answer has a deadline (with "slow"
  in `Env` an answer may come too late to count). `WorkerReturns` and `LastLogoutServed`
  except by name a worker that is stalled for good.
* No fairness on calls of the game thread, on Discord closing or on the user.
* In `Attempt`, frames end with `postUpdate` (weak), and whoever is dead or done
  respawns, restarts or leaves (strong, since a pause may come between). A
  player who stays on the pause screen for good with a living character owes
  nobody an end.
* In `Delivery` key presses arrive and the worker serves its target or its logout.
  Nobody has to lose a session.
* In `RpcRecovery` the same as in `RpcClient`; that faults end is not fairness but a
  premise of the two properties (`calm`).
* In `Connection` the worker goes on with what it began (`Work`), time passes, and a
  bridge comes to serve or to exit. Nobody has to call, to send or to take bytes. A
  write that a peer neither takes nor ends blocks for ever (`Stuck`), which
  `CallReturns` excepts. `ReachesDiscord` has as premises that Discord stays, that the
  worker asks again and again and that the game is not restarted for ever.
* In `Consent` the worker, the wait and the clock go on; neither the user, the game
  loop nor any client has to do anything. A client that neither sends nor leaves may
  hold `recv` for ever, which `ConsentEnds` excepts by name.
* `SettingsPage` states no fairness; its properties are about what is shown once the
  queued calls are through.

## Findings

Each run expects its property to be violated, and quotes the statement it tests.

| Run | Code | What happens |
|---|---|---|
| `ClaimSetting` | `discord_rpc.cpp:366` | a repeated deafen request disowns the mod's own deafen, and the un-deafen that follows does nothing. Two ways to the repeat: `undeafen-on-pause` is switched on while paused (`main.cpp:142`), or pause and resume come while the worker is busy (`discord_rpc.cpp:109`) |
| `ClaimLogout` | `discord_rpc.cpp:355` | tokens are stored again by a closure queued before the logout |
| `ClaimBelief` | `deafen.cpp:88` | a press by hand inverts keybind mode for good |
| `ClaimDeath` | `main.cpp:124` | a threshold reached on the last frame fires after the un-deafen |

Further differences between what is said and what is done, which the models
contain and their properties except or leave open:

* A deafen whose answer misses its deadline is done but not owned
  (`discord_rpc.cpp:371`); `OrphanHasCause` names it as "unanswered".
* A connect posted before the worker has taken a logout is dropped with it
  (`discord_rpc.cpp:164`).
* The connect at startup, said never to trigger the popup
  (`discord_setting.cpp:239-241`), asks for consent if Discord refuses the stored
  token (`discord_rpc.cpp:252`).
* The consent prompt is announced even if the connection it should appear on
  broke during `tryAuthenticate` (`discord_rpc.cpp:253`).
* A deafen made by hand between `GET` and `SET`, or after the mod's own was undone
  by hand, is taken for the mod's (`discord_rpc.cpp:378`); `KeepsUserDeafen` excepts
  exactly that (`touched`).
* A session that is lost in mid-attempt, or a logout, un-deafens the user for the rest
  of the attempt (`discord_rpc.cpp:458-466`): the hooks request once, and nobody tells
  them; `lost` in `AutoDeafen`.
* A change of `delivery-mode` while deafened strands the deafen
  (`deafen.cpp:79`); `upset` in `AutoDeafen`.
* The settings row keeps a colour that was drawn from two states of the worker for as
  long as its text stays the same (`discord_setting.cpp:159`); `mixed`.
* The "logging out..." branch (`discord_setting.cpp:123-126`) is for a worker that is
  still connected after a logout, but `isAuthorized` counts a connection as an
  authorization, so that only a change of state between lines 105 and 106 leads there.
  The row goes on saying "Log out", and a second click, made when the connection is
  gone, connects again.
* A code from a tab of an earlier attempt ends a later wait and is refused
  (`discord_rpc.cpp:298`, `RefusedForAReason`), and the link is opened even if the port
  turns out to be taken (`discord_rpc.cpp:290`).
* So does `code=` in any request whatever: there is no `state` parameter that would
  tell the real redirect (`rpc_conn.cpp:530`). And a redirect that comes in more than
  one piece is received in part, so that its code is missing or cut short
  (`rpc_conn.cpp:525`).
* "empty on timeout/denial" (`rpc_conn.hpp:43-44`): a denial does not end the wait, it
  goes on to the deadline.
* "Windows-under-Wine -> UDP datagram to the host helper" (`keysender.hpp`): there is
  no such sender; under Wine a tap does nothing.
* A `SendInput` that takes a part of the events leaves keys held until the next tap
  (`keysender_win.cpp:85`), and the belief changed.
* Writing has no deadline (`rpc_conn.cpp:210`), nor has the HTTPS request for tokens
  (`discord_rpc.cpp:336-340`): a Discord that does not read, or an endpoint that does
  not answer, holds the worker, and every later request waits behind it (`stalled`).
* Closing the popup drops what was added to `levels.json` by hand since the level
  was entered (`config_store.cpp:99`).
* `recv` of the redirect listener has no timeout (`rpc_conn.cpp:525`).

## Proofs

TLAPS checks all of them from nothing in a few minutes. They hold for every
value of the constants under the assumptions named in the modules
(`MailboxAssumption`, `EnvAssumption`, `AttemptAssumption`,
`DeliveryAssumption`, `StoreAssumption`, `IpcAssumption`, `TransportAssumption`,
`ConnectionAssumption`, `PageAssumption`, `RedirectAssumption`, `ConsentAssumption`),
which say that the constants have their types; TLC evaluates them in the runs.

**Direct mode** (`RpcClientProofs`). `OwnsWhatItSet` is not inductive: whether an
accepted answer makes the worker own a deafen depends on which command it answers,
whether Discord has done it, and whether anything came after it. `IInv` (in
`RpcInvariants`) strengthens it in named parts: `LinkInv` (no connection, no session,
nothing in flight), `PcInv` (what each place in the worker knows of the connection),
`NonceInv` (only the last command sent can carry the current nonce, and once its
answer is there nothing is in flight), `AnswerInv` (an accepted answer to the awaited
command means Discord has done it and nothing has changed since), `SetInv` (a `SET`
is decided on a report that still stands when it is carried out), `OwnerInv`,
`OrphanInv`, `UserInv` and `PhaseInv` (which phases are shown at which place). There
is one lemma per part, with one step per action. From it follow `TypeCorrect`,
`Ownership`, `ShowsTheLink`, `Disowned`, `Refinement` (initial states map to initial
states, and every step to a step of `PoliteDeafen` or a stutter) and `UserKept`,
which has no premise on the environment: by `UserInv` a user who is deafened, and
whose hand has not moved since the mod looked, has not been reported as un-deafened
and has not been deafened by the session, so that no un-deafen is on its way. The
proof uses that commands of a session are executed in order; it would not hold if
Discord reordered them.

`OnlyRepeats` sharpens `Disowned`: where Discord is never late and refuses nothing, a
repeated request is the only way to lose a deafen. This is what `Delivery` builds on
when `Serve` does a target in one step; all else is in `ServeFails` and
`LoseSession`. `RecoveryInside` carries all of it to `RpcRecovery`, which only takes
steps away.

`StatusRefinement` is the second refinement: every step of the worker is one of
`RpcStatus` or a stutter, by `PhaseInv` for the phases, by `PcInv` for the moment
between `m_authed` and "connected", and by lemmas on what the mapping makes of a
queue that is appended to or taken from.

**Hooks** (`AttemptProofs`). `AttemptInv` adds to the properties that flags do not
outlive the level, that a fired threshold is not armed again before a reset, and
that an armed one lies beyond the spawn percent of the basis it was resolved in.
`NeverAtSpawn` needs no monotonicity of percents: a threshold above the percent
at the spawn can only be met elsewhere, and the player never gets behind the
spawn. `KeepsDeafened` is an action property from the same invariant.

**Keybind mode** (`DeliveryProofs`). `Belief`: `BeliefTracks` holds for any
requests in either mode, presses by hand, lost presses, failures and changes of
mode and key, on any platform and for any bounds. With its types the property is
inductive (`BeliefInv`); the argument is the parity of the presses under way, one
lemma per kind of step.

**Hooks and delivery together** (`AutoDeafenProofs`). `HooksInside` and
`DeliveryInside` show that the composition restricts each part to what it may do by
itself, so that their theorems hold in it (`PartsKept`). `FollowsHooks` relates what
the hooks want to Discord's state, over presses and targets still under way; `AutoInv`
says how, mode by mode: in keybind mode the belief is what the hooks want and
`BeliefTracks` gives the rest (`KeysInv`), in direct mode the worker owns exactly what
is deafened and, unless a logout is about to drop both, the target that waits is the
one that would change it, and with none waiting what is owned is wanted and what is
wanted is owned or `lost` (`TargetInv`). Both are conditional on `~upset`, and `upset`
is never taken back.

**Settings row** (`SettingsPageProofs`). What the row shows is the state it read last,
and that may be old. `PageInv` says why it does not stay so: what the worker said last
goes with its phase (`WordsInv`), a closure that will change what is stored has a
listener call queued behind it unless the authorization goes on or the worker is about
to queue one (`QueueInv`), and what a refresh has read is out of date only while such a
call is queued or about to be (`RefreshInv`). `ColourInv` follows the text into its
colour. `RowFollows`, `ColourRight` and `LabelKept` are read off the invariant.

**Config store** (`ConfigStoreProofs`). `StoreInSync`: loading what was saved
gives back what was saved, hence memory and file agree whenever neither was
touched alone. `OtherLevelsKept`, `TypedArms` and `ReopensAsClosed` are action
properties of the close; they need besides that one level is edited at a time
(`StoreInv`), and, of texts, only that an input is at most one number (`IsInput`).

**Connections** (`ConnectionProofs`). `Aligned` is inductive only with `StreamInv`
(where messages begin and end), `PayloadInv` (a payload is read behind its own
header) and the types, which bound what has been read by what was written. A
deadline that strikes between two messages leaves the reader where one begins; one
that strikes inside ends the connection, and `Fresh` says that nothing of it is left
for the next. `WritesWhole` and `BridgeKept` come from the same `ConnInv`, for any
machines, lengths, buffers and bounds. There is one lemma per step of reader,
writer, caller and peer, and one per step of the ladder. `ChannelRefinement` maps the
queue of `Channel` to the messages that begin at or behind `Mark`, the place where the
one being read begins: `StreamInv` orders them, so that the messages before `Mark` are
the first k (`Earlier`, `Counted`), and a message read to its end is the first of the
rest (`FirstTaken`). Every other step of the reader leaves `Mark` alone or ends the
connection.

**Authorization** (`ConsentProofs`). `ConsentInv` adds to the two properties that
nobody is received from after the code, that what was received last carries it
(`CodeInv`), that there is an attempt while one is under way, and that the code in hand
was issued for that attempt, with a redirect exactly if `viaBrowser` says so, unless
something else than its redirect came through the port (`PromptInv`); the listener's
steps and those of `authenticate` have a lemma each. `OwnCodeNotRefused` follows.

Every invariant and every action property the runs check is stated by a theorem, and
so are the three refinements. Only model-checked is everything under fairness
(`WorkerReturns`, `LastLogoutServed`, `LastDeafenServed`, `LastUndeafenServed`,
`AttemptEndsUndeafened`, `EndsUndeafened`, `CallReturns`, `ReachesDiscord`,
`ConsentEnds`), which is out of TLAPS's reach here. What the recursive definitions of
the libraries compute, and the facts of `KeySender` and `Wire`, are evaluated.

## Not modelled

* The job object of the bridge, assumed to be had; the ten pipes and the candidate
  paths of the socket, one each; the bridge itself, a third-party program.
* `SIGPIPE` on macOS: `send` without `MSG_NOSIGNAL` (`rpc_conn.cpp:157`) to a socket that
  Discord has closed raises a signal, whose effect depends on the host program.
* `sha256`: bit arithmetic on 64 rounds, covered by test vectors.
* Floating point in `percentForPos` (`startpos.hpp:24`: a product may truncate to one
  percent less) and percents beyond the range of `int` in a hand-edited file
  (`config_store.cpp:91`).
* Platformer levels, in which every hook returns early.
* Two local levels of the same name, which share a config: `KeyOf` allows it, the
  run keeps it injective.
* JSON, HTTP and URL syntax, layout, wording and logging.

## Plan

1. *Done*: direct mode with its two refinements, its recovery and proofs; hooks;
   delivery; their composition and its proofs; config store and popup; framing and
   transport with the refinement of the channel; authorization; settings row; key
   tables and base64url.
2. A composition of `Attempt` with `RpcClient` itself in place of `Serve`, and
   `Serve` shown to be what `RpcClient` refines to when nothing is late.
