# velavps in TLA+

TLA+ models of the Vela relay (`src/`), TLC configurations that check them on
small instances, and proofs checked by TLAPS.

velavps sits between a phone and a desktop agent behind NAT. An agent is
*paired* with a phone by a code and a PIN, both receive a shared
`relay_secret`, the agent opens a WebSocket (`/tunnel`), and the phone's HTTP
requests (`/relay/{agent_id}/...`) are forwarded over it. The server is one
uvicorn worker: one asyncio event loop, one synchronous sqlite database, and a
few worker threads used for push delivery.

## Inventory

| component | code | state | operations | modelled in |
|---|---|---|---|---|
| pairing and credentials | `vela_database.py` 262-305, 360-630; `vela_relay.py` 140-375 | tables `agents`, `agent_pairing_sessions`, `agent_credentials`, `secrets` | start, complete, status poll, activate, revoke, legacy register | `Pairing`, `PairingCrash`, `PairingProofs`, `PairingCrashProofs` |
| transactions | `vela_database.py` 93-113 | an autocommit connection per thread | transaction | `PairingCrash`, `Push`, `PairingCrashProofs` |
| reverse tunnel | `vela_agent_registry.py` 23-172; `vela_relay.py` 378-456; `vela_forwarder.py` 41-99, 177-269 | `AgentConnection` (websocket, connection_id, connected_event, pending_responses, send_lock), `_waiters` | connect, replace, receive, remove; resolve, wait, forward | `Tunnel`, `RelayContract`, `TunnelProofs` |
| streaming relay | `vela_forwarder.py` 101-175; `vela_relay.py` 426-452 | `pending_streams`, a chunk queue per request | register, start, chunk, end, loss, timeouts, read, leave | `Stream`, `StreamProofs` |
| connectivity alerts | `vela_connectivity.py` | per agent: connected, offline task, notified flag, cooldown, connected_since | connected, disconnected, offline timer, status, push | `Connectivity`, `ConnectivityProofs` |
| WebSocket tokens | `vela_agent_registry.py` 174-234; `vela_database.py` 633-663; `vela_relay.py` 378-393, 624-647 | a token in memory and one in `ws_tokens` | issue, validate, restore, drop | `WsTokens`, `WsTokensProofs` |
| push devices | `vela_push.py`; `vela_database.py` 666-713 | table `push_devices`, `_firebase_initialized` | register, unregister, deliver, delete invalid | `Push`, `PushProofs` |
| rate limiter | `vela_relay.py` 28-43, 145-148, 180-186, 224-228 | hit times per key | hit | `RateLimiter`, `RateLimiterProofs` |
| ownership checks, pairing page, settings, admin stubs, unmounted routers | `vela_auth.py`, `vela_relay.py` 101-137, 249-282, `main.py`, `vela_settings.py`, `db_path.py`, `vela_admin.py`, `vela_agents.py`, `forward.py` | none of their own | | not modelled |

How they interact. The HTTP handlers call the database synchronously, so
pairing runs in steps no other coroutine can interleave with. The tunnel
coroutine and the forwarding coroutines share one `AgentConnection`: the
forwarder stores a future there, the tunnel coroutine completes it, and the
clean-up after a lost socket fails it. Connecting and disconnecting call the
connectivity monitor, which starts timers and sends pushes from a thread. A
socket is admitted with a token issued to whoever holds the agent's secret.

What is hard: the order of restarted, expired and repeated pairing steps;
`created_at` with a resolution of one second; a socket replaced while requests
are under way on the old one; values read before an await and used after it
(`connection_id`, `agent.websocket`); timeouts racing late answers; locks and
counters that must be given back on every error path; restarts, with every
statement committing by itself. The full list, line by line, is `hazards` in
`PROJECT.json`, with the property that covers each or the reason none does.

What makes each component correct:

- pairing: one open code per agent, a bounded number of PIN attempts, each
  secret handed out once to each side, agent and server agreeing on the secret,
  a paired agent able to finish, a secret changing only by a pairing;
- tunnel: no request waits for a tunnel known to be down, nothing leaks, only
  the installed socket's own end removes it, every accepted request is
  answered, and the answer means what it says;
- streams: the body is a prefix of what the agent sent, never silently cut;
- transactions: what a crash between two statements breaks, one more pairing
  repairs;
- connectivity: an agent that stays away is announced, one that is back is not
  reported away;
- tokens: the token issued last works until it expires, across disconnects and
  restarts, nothing works after that, and while the registry knows the agent no other
  token does (before that the code accepts any: second finding);
- push: a phone told it is registered is, and a delivery tries every phone;
- limiter: never more than the allowance in any window, and no refusal without it.

## Modules

### `Pairing`

State: `agents[a]` (status, secret), `sessions[s]` (the row of a pairing
session), `creds[a]` (credentials not revoked), the clock `now`, counters of
minted secrets and tokens, and two history variables (`given`, `toAgent`) that
record what was returned to whom. A session id stands for its random code and
PIN. One handler is one action: none of them awaits between its first and last
statement, sqlite is called from the event loop only, and there is one worker.
A handler that rejects before changing a row is a stuttering step.

| action | code |
|---|---|
| `Start` | `create_or_refresh_pairing_session` |
| `Complete`, `CompleteWrongPin`, `CompleteExpired` | the three outcomes of `complete_pairing` for an open session |
| `PollPaired`, `PollUnpaired` | `get_registration_status`, with `_mark_expired_sessions` |
| `Activate` | `activate_agent` |
| `Revoke`, `Register` | `revoke_agent_credentials`, the legacy `/register` |
| `Tick` | the clock |

Two details are kept because properties depend on them. `ORDER BY created_at
DESC LIMIT 1` has no tie-break and one-second resolution: `Newest` is the set of
rows the query may return, and `SameSecond` says whether one agent may start
two sessions within a second. `expires_at` is written by `isoformat()` and
compared as text with `CURRENT_TIMESTAMP`; `'T'` sorts after `' '`, so
`_mark_expired_sessions` closes a session only when the *date* of its expiry has
passed (`TextExpired`, `DayLength`), while `complete_pairing` parses the time.
Not modelled: labels and metadata, the audit log, the rate limiter in front
(it only removes behaviours), and the case of the legacy `/register` resetting a
registry entry (the id has no row, hence no tunnel).

Properties:

- `OneOpenSession`, `AttemptsBounded`, `SecretHandedOutOnce`, `SecretAgreement`,
  `PairedIsActivatable` (invariants) and `RotationNeedsPairing` (a property of
  steps), each explained where it is defined;
- `IInv`, the inductive invariant of the proofs, which `PairingProofs` establishes.

### `PairingCrash`

`Pairing` again, one SQL statement at a time. The connections are opened with
`isolation_level=None`: every statement commits by itself, `transaction()` groups
nothing and its rollback undoes nothing. `op` is the handler under way (its next
statement, agent and session); nothing runs beside it, since the handlers never
await, but the process may stop after any statement (`Crash`). The last step of a
handler is its reply, which a crash loses. Statements on `secrets` and
`audit_events` are left out, as nothing reads them to decide anything.

| actions | code |
|---|---|
| `StartAgent`, `StartExpire`, `StartInsert`, `StartReply` | `create_or_refresh_pairing_session`, `register_start` |
| `ExpireSession`, `WrongPin`, `LockSession`, `AgentExpired` | the refusals of `complete_pairing` |
| `PairSession`, `PairAgent`, `StoreSecret`, `PairReply` | `complete_pairing` |
| `PollExpire`, `PollToken` | `get_registration_status` |
| `ActivateCredential`, `ActivateAgent`, `ActivateSession`, `ActivateReply` | `activate_agent` |
| `RevokeCredentials`, `RevokeAgent`, `RegisterAgent`, `RegisterReply` | revocation and the legacy registration |
| `Crash`, `ClockTick` | the process, the clock |

`StatementsMakeHandlers` says that without a crash the statements refine the
actions of `Pairing` (instantiated as `Atomic` on the state in which the last
handler left the tables), so that what is proved of `Pairing` is about the code as it
runs; this is a theorem too (`StatementsRefineHandlers`). With crashes, `SecretAgreement`, `PairedIsActivatable` and the exact bound on
wrong PINs do not hold, and what does is stated: `OneOpenSession` and
`SecretHandedOutOnce` at every statement, `AttemptsWithCrashes` (each crash costs at
most one more attempt), and `CrashesHeal` (one pairing carried to its reply repairs
an agent: this includes an agent left ACTIVE without its secret by a crash between
`ActivateSession` and its reply, which can only pair again). `damaged` remembers the
agents with a crash since their last completed pairing; a code is usable only once
shown, because a ceremony whose reply was lost has a code nobody knows.

### `Tunnel`

One agent, its successive sockets, and the requests relayed to it. A step is
what one coroutine does between two suspensions of the event loop.
`registry._lock`, `pending_lock` and `_waiter_lock` are never held across a
suspension, so they leave no trace; `send_lock` is held across `send_json` and
is the queue `sendQ` (asyncio locks are first come, first served: a newcomer
does not overtake a waiter that has been woken). `connection_id` is drawn with
the socket and erased with it, so the id of a connection *is* its socket, and
`connected_event` is set exactly when a socket is installed.

| actions | code |
|---|---|
| `ArriveConnected`, `ArriveDisconnected`, `WaitTimeout`, `Resume` | `_resolve_agent`, `_wait_for_agent_connection` |
| `Register` (part of the two above), `Granted`, `Sent`, `SendFailed`, `Completed`, `TimedOut` | `_forward_via_websocket`, and the mapping of errors in `forward` |
| `Connect`, `Opened` | `set_websocket_connection`, and the start of `agent_tunnel` after the old socket was closed and `on_agent_connected` returned |
| `HandlerGranted`, `HandlerSent`, `HandlerSendFailed` | sending `connection_ready` and `heartbeat_ack` |
| `Receive`, `Disconnected` | the receive loop and its two except clauses; both run `remove_websocket_connection` (`Remove`) |
| `Drop`, `AgentReply`, `AgentHeartbeat` | external: the agent and the network |

The agent may answer a request any number of times, on any socket it has, with
the `connection_id` of the request, of the socket, or none; messages in flight
when it goes may be lost. Each request's caller gets one `outcome`: `ok`,
`unavailable` (503 with Retry-After), `lost` (502 `agent_connection_lost`),
`timeout` (504), `failed` (a send error), `invalid` (502 Invalid agent response).
Not modelled here: the admission of a socket by its token (`WsTokens`), the monitor
(`Connectivity`), streamed answers (`Stream`), and the contents of requests. An HTTP
client that leaves does not cancel a forward: the handler runs to its end. The direct
HTTP branch is left out, as the running server cannot reach it (see Not modelled).

`NoOrphans`, `PendingAccounted`, `WaitersAccounted` and `LockAccounted` say that nothing
is leaked or forgotten on any way out of a request, `LostOnlyIfLost` and
`OnlyOwnRemoval` that the late clean-up of a replaced socket harms nobody. Two
properties are about `connection_id`, which both sides read early and use late.
`IdsAreOwn`: a `/tunnel` coroutine that finds the id of a newer socket, or none, has
been closed, so no live socket works under another's id. `AnswersReach`: an answer to
a request that was registered on the agent's present connection is never dropped or
called invalid; one to a request that outlived a replacement may be, and the model has
both outcomes.

### `RelayContract`

What the callers of the relay may rely on, with no sockets or locks: a request is
accepted once and gets one outcome; `ok` and `invalid` only after the agent sent
an answer to this very request; `unavailable` only if the agent never was sent
it, so that the retry the server suggests cannot run it twice; and an accepted
request is finished whatever the agent does. `Tunnel!ImplementsContract` states
that `Tunnel` refines it (`phase` is read off `rpc`, `delivered` is `asked`,
`answered` is `replied`).

### `Stream`

The other way a request is answered (`POST .../assistant/stream`): the client is
given the chunks as they come. State: the table `streams`
(`agent.pending_streams`) and, per request, its `session` (started, status,
`terminal_error` as `lost`, the queue of chunks, in which `None` is the end),
the place of its coroutine, what the client has been given (`seen`, `body`) and how
the response ended (`result`). `answer` is history: what the agent has sent. The
sockets and their coroutines are those of `Tunnel`, less heartbeats and the order
in which `send_lock` is granted. A session taken out of the table is still held by
its reader, which is why `session` outlives membership of `streams`.

| actions | code |
|---|---|
| `Arrive`, `Write`, `SendFailed`, `Sent`, `StartTimeout`, `Started` | `forward_stream` up to its return |
| `Iterate`, `LeaveEarly`, `LeaveDuring` | `StreamingResponse` reading `body_iter`, or its client going away |
| `TakeChunk`, `TakeEnd`, `Stalled` | `body_iter` |
| `Connect`, `Opened`, `Disconnected` (with `Remove`, `Lost`) | `set_websocket_connection`, `remove_websocket_connection` |
| `Receive` (with `After`) | `forward_response_start`, `_chunk`, `_end` in `agent_tunnel` |
| `Drop`, `AgentStart`, `AgentChunk`, `AgentEnd` | external: the agent and the network |

Properties: `WholeIsWhole` (a response that ends normally is all of the answer),
`BodyIsPrefix`, `ForgottenIsFinished` (a session taken out of the table has been
started and ended, so no reader is left to a timeout), `NoOrphanStreams`,
`BrokenOnlyIfLost`, `StreamsAccounted` and `StreamsEnd`.

Two things the model makes visible and a reader should know. A client that goes
away after the response was made and before its body was first read leaves its
session in the table until the tunnel goes down, because the `finally` of a
generator that never ran does not run (`LeaveEarly`; `StreamsAccounted` allows
exactly this). Chunks carry no number, and the sessions survive a replacement of
the socket: if an agent went on with an answer on a new socket after chunks were
lost on the old one, the client would be given a body with a gap that ends
normally. How agents behave is not in this repository: the model has answers that
keep to the socket the request came on and answers that go on on another (`roams`),
`WholeIsWhole` and `BodyIsPrefix` are stated for the first, everything else for both.
And a streaming request waits for an absent agent as any other does: `forward_stream`
calls `_resolve_agent`, which waits and then answers 503. That wait is `Tunnel`'s; the
requests of `Stream` are those that found the agent connected.

### `Connectivity`

The monitor of one agent, driven by the registry as it is: `Connect`, `Replace` and
`Disconnect` are `set_websocket_connection` and `remove_websocket_connection` with
their calls of the monitor, and the sockets are those of `Tunnel` reduced to what the
monitor can notice. A replacement awaits the close of the old socket before it calls
`on_agent_connected`, so the call may come after the new socket was lost (`Opened`).
`tracked` is `_AgentConnectivityState`, `timers` the sleeping `_offline_after_delay`
tasks (named by the loss that made them), `told` the last alert handed to
`send_push`. Sleeps are untimed: a task wakes at any moment, and the cooldown ends at
any moment, so nothing depends on the settings. `lost`, `silent` and `unsaid` are
history: they record why an alert may be missing.

| actions | code |
|---|---|
| `Connect`, `Replace`, `Opened` (with `OnAgentConnected`) | `set_websocket_connection`, `on_agent_connected` up to its sleep |
| `StableOver`, `Told` | the rest of `on_agent_connected`, and its push |
| `Disconnect` (with `OnAgentDisconnected`) | `remove_websocket_connection`, `on_agent_disconnected` |
| `OfflineFires`, `CooldownOver` | `_offline_after_delay` |
| `AgentStatus` | `agent_status`, which corrects `connected` |
| `Restart` | the process, with `vela_state` and `monitor` made anew |
| `Drop` | external: the agent's end of a socket goes away |

Properties: `InStep` (monitor and registry agree), `AlarmIsTrue` (an "unreachable" is
about the absence that goes on), `AwayIsAnnounced` and `BackIsAnnounced` (liveness: a
loss or a return that lasts is announced, or one of the recorded reasons applies).
The reasons are the content of the last two, since each is a hole in the code: the
cooldown drops an alert for good, the late call after a replacement calls the timer
off, a replacement within the ten seconds loses "back online", a restart forgets
timers and flags. README.md:200-202 of the repository mentions none of them.
`OnlineOnlyIfStable` is the third finding.

### `WsTokens`

One agent's token, of which the registry keeps a copy in its entry (`memory`) and one
in `ws_tokens` (`row`). Tokens are numbered as they are issued, and the clock is in
the model because a token lives for `Validity` seconds.

| actions | code |
|---|---|
| `Issue` | `set_agent_ws_token`, with `store_ws_token` |
| `AdmitUnknown`, `RefuseUnknown` | `validate_agent_ws_token` without an entry: the row decides |
| `AdmitKnown`, `Restore`, `Refuse` | ... with one: the entry's copy, the row's copy, neither |
| `Enter`, `Leave` | a handshake becomes the tunnel; `remove_websocket_connection` drops the entry's copy |
| `Resolve` | a relayed request makes an entry without a token |
| `Restart`, `Tick` | the process, the clock |

`LatestTokenWorks`: the token issued last is accepted until it expires, whatever
disconnects, restarts and other handshakes came in between. One exception is needed,
and is the code's: a handshake whose token matches neither copy deletes the row
(`Refuse`), so with a disconnect as well both copies are gone and the agent must ask
for another token. `AdmissionNeedsLatest`: nothing is accepted once the token issued last
has expired, whatever was restored, and while the registry has an entry for the agent
nothing but that token is; no replaced token comes back, by any order of restoring and
reissuing. The condition on the entry is needed. Without one (after a restart, until a
handshake, an issue or a relayed request makes it) `validate_agent_ws_token` overwrites
the token it was given with the row's (`AdmitUnknown`), and accepts any token while the
row lives: `TokenIsValidated` says what the documentation says of this, and the run
`ws_tokens_unknown` refutes it. `cleanup_expired_ws_tokens` is never called and is not
modelled.

### `Push`

The rows of `push_devices` and any number of deliveries, statement by statement. A
registration or a delivery asked for by the agent blocks the event loop (`loop`);
a connectivity alert runs in a worker thread beside it. `want`, `steady`, `tried` and
`early` are history. A token that Firebase has dropped stays dropped, as a phone then
registers a new one.

| actions | code |
|---|---|
| `RegisterSelect`, `RegisterWrite` | `upsert_push_device`: SELECT, then UPDATE or INSERT |
| `Unregister` | `delete_push_device` |
| `Begin`, `Check`, `Create`, `Mark` | `push/send` or an alert; `_get_messaging` |
| `List`, `Send`, `Purge` | `send_push`: `list_push_devices`, the loop, `delete_push_tokens` |
| `Die` | external: Firebase drops a token |

Properties: `RegisteredStays` (a live phone keeps the row it was told it has, across
moves to another agent, removals and purges in other threads), `EveryPhoneTried` (a
phone that was the agent's throughout a delivery has been tried), `FailsOnlyAtStart`
(the unlocked check of `_firebase_initialized` loses a notification only among the
deliveries that began before Firebase was ready). A message that fails for a passing
reason is not sent again; a delivery promises an attempt, no more.

### `RateLimiter`

`events[k]` are the times `hit` remembers of a key, `passed[k]` those of all hits that
were let through. A request is the sequence of keys its handler hits, up to the first
that refuses (`LetThrough`, `TooMany`); `pair/complete` has two. Time is counted in
the grain of `time.time()` and does not go back. `WindowBound` compares the pruned
list with its definition over the whole history; `RefusalIsJustified` says that a
refusal is due to hits that passed, so refused requests do not prolong it. A request
that its second key refuses has spent a hit of its first. `Those` is the list
comprehension of `hit`: the members at the kept positions, in their order. It is not
written with `SelectSeq` because the prover knows nothing of that operator.

## Runs

| run | instance | states | what it shows |
|---|---|---|---|
| `pairing` | 1 agent, 3 sessions, clock to 4, TTLs 2 and 1, 2-second "days", `SameSecond` false | 286 921 | all pairing properties |
| `pairing_tie_stranded` | 1 agent, 2 sessions, `SameSecond` true | | violated: first finding |
| `pairing_crash` | 1 agent, 3 sessions, clock to 2, TTLs 1, 1-second "days", 1 crash, `SameSecond` false | 567 267 | the handlers refined by their statements; what crashes leave true |
| `tunnel` | 2 sockets, 2 requests, 1 waiter, 1 message in flight | 1 195 764 | the safety of the tunnel |
| `tunnel_live` | 2 sockets, 1 request, with fairness | 75 416 | the refinement of `RelayContract`, liveness included, and `GoneIsNoticed` |
| `stream` | 2 sockets, 1 request, 2 chunks, 2 messages in flight, with fairness | 179 764 | what the client is given, the table of sessions, and that every stream ends |
| `connectivity` | 4 connections, 1 restart, with fairness | 66 854 | which losses and returns are announced |
| `connectivity_stable` | 2 connections | | violated: third finding |
| `ws_tokens` | 3 tokens of 2 seconds, 2 handshakes under way, clock to 6 | 11 835 | which token opens the tunnel |
| `ws_tokens_unknown` | as above | | violated: second finding |
| `push` | 2 agents, 2 phones, 2 deliveries | 244 271 | registrations and deliveries beside each other |
| `rate_limiter` | 2 codes (2 hits in 2 s), their address (3 in 2 s), a poll (1 in 1 s), clock to 4 | 24 626 | the window |

Why the bounds are enough. Pairing: three sessions give a session before and a
session after the one under test, so a token or a secret can be left over from
an earlier ceremony and be met by a later one; a time to live of 2 leaves a
second before expiry, and the clock passes every expiry of a session started at
0, including the end of its "day"; two attempts distinguish the first wrong PIN
from the one that locks. The session set, `MaxTime` (the clock) and `MaxAttempts`
are the only bounds, and the last two are constants of the model. Starting twice in
one second is left to `pairing_tie_stranded` (with it `CrashesHeal` fails as
`PairedIsActivatable` does); the proofs of the properties that do not need the order of
`created_at` allow it. Crashes: one crash leaves
every intermediate state of every handler behind, with a ceremony before it and one
after it; two crashes were also run once, with the same result, but take longer
than a routine run should. Tunnel: two
sockets are what replacing one takes, two requests what waiting for `send_lock`
takes, one waiter makes the queue fill up; `MaxInbox` bounds the messages in
flight on a socket. Stream: two chunks are what an order takes, two messages in
flight let a loss cut an answer anywhere; one request is enough because requests
meet only in the table, which each touches at its own key and a loss clears whole.
Connectivity: an alert takes one connection, its return a second, a replacement in
the ten seconds a third, and a loss after it a fourth; the one restart may come
anywhere. Tokens: an old token, the one that replaces it and one after that; the clock
lets all three expire. Push: a phone that moves takes two agents, a delivery with one dead
and one live phone two tokens, the race on Firebase two deliveries. Limiter: budgets
smaller than their windows are long in hits, so that each can be full, slide and
empty again, and an address budget that fills before or after that of a code.
Deadlock is checked except in the runs of `Tunnel`, `Stream` and `Push`, where a
behaviour that has used up its sockets, requests or tokens stops.
Symmetry is used in safety runs only.

Fairness. `Tunnel!Fairness` (used by `tunnel_live`): the event loop runs every
coroutine that can go on, timers fire, a `send_json` that has begun returns or
raises, and the end of a peer is reported to its coroutine in the end. The last
two are the doing of uvicorn, which closes a WebSocket whose pings stay
unanswered; the code itself puts no timeout on a send. Nothing is assumed of the
agent, the callers or the network. `Stream!Fairness` (used by `stream`)
assumes the same of a request: its timers fire, its send returns or raises, it
gets `send_lock` in the end (in `Tunnel`, `LockAccounted` and `GoneIsNoticed` are
why), and the response is either read or abandoned. It assumes nothing of the
agent; that an answer is finite is the bound `MaxChunks`, since an agent that never
stops sending may hold a response open for ever. `Connectivity!FairSpec` assumes
that, for each connection, an awaited close returns, a sleep and a push end, and the
timer of its loss fires; neither that a loss is ever noticed (the properties begin
when it is), nor that the cooldown ends, nor that anyone asks for the status.

## Findings

1. `pairing_tie_stranded`. `get_registration_status` stores the activation token
   on the newest session of any status, `activate_agent` looks for it on the
   newest `PAIRED` one. If an agent starts twice within one second, `created_at`
   ties, and the poll may pick the superseded session: the agent polls `PAIRED`
   and a token, and every activation is rejected. `SameSecond = FALSE` is exactly
   what excludes this, in the `pairing` run and in the proofs.
2. `ws_tokens_unknown`. VELAVPS_ECOSYSTEM_DOC.md:58 says that tokens are validated
   against the registry, with the persisted copy as a fallback after a restart. For an
   agent without a registry entry the code never looks at the token presented
   (`vela_agent_registry.py:198` assigns the row's token to the same variable): after two
   issues and a restart the replaced token, of which no copy exists, would be accepted.
3. `connectivity_stable`. `on_agent_connected` means to send "back online" only for a
   connection that lasted ten seconds (`vela_connectivity.py:59`, `:66`), but it sleeps
   inside the coroutine that would notice the loss of that connection, so its test of
   `connected` cannot fail for it: an agent that left again is announced as back.

## Proofs

`PairingProofs` proves for every set of agents and sessions, all positive
lifetimes and attempt limits, any clock bound (assumptions `TimesAssumption`,
`NoAgentAssumption`, `AttemptsAssumption`, `SwitchesAssumption`):

| theorem | property |
|---|---|
| `TypeCorrect` | `TypeOK` |
| `OneOpen` | `OneOpenSession` |
| `AttemptsStayBounded` | `AttemptsBounded` |
| `HandedOutOnce` | `SecretHandedOutOnce` |
| `RotationOnlyByPairing` | `RotationNeedsPairing` |
| `InductiveInvariant` | `IInv` |
| `SecretsAgree` (assuming `~SameSecond`) | `SecretAgreement` |
| `PairedCanActivate` (assuming `~SameSecond`) | `PairedIsActivatable` |

The argument. None of the properties is inductive alone. `BaseInv` adds to them
that a session id in use has an agent with a row (`Owned`), and that the columns
`status` and `agent_secret_delivered_at` account for what was returned
(`Accounting`): a secret is returned once because the step that returns it also
leaves the state in which it can be returned. `OrderInv` adds that `created_at`
strictly orders the sessions of an agent with an open one last (`Ordered`), that
the newest paired session holds the agent's secret (`CurrentSecret`), and that
the newest session of a `PAIRED` agent is paired and undelivered
(`PairedIsNewest`); it is inductive only if an agent never starts twice within a
second. The proofs first describe what each action does to the columns the
invariants mention (most actions are `Quiet`: they pair, start and activate
nothing), then show that each keeps each part.

`PairingCrashProofs` proves the same of the statements, at any of which the server may
stop, any number of times, and that they are the handlers:

| theorem | property |
|---|---|
| `OneOpenAtStatements` | `OneOpenSession` |
| `HandedOutOnceWithCrashes` | `SecretHandedOutOnce` |
| `AttemptsBoundedByCrashes` | `AttemptsWithCrashes` |
| `PairingHeals` (assuming `~SameSecond`) | `CrashesHeal` |
| `StatementsRefineHandlers` | `StatementsMakeHandlers` |
| `SafeAtEveryStatement`, `CrashInvariant` | `SafeInv`, `CrashInv` |

`SafeInv` adds to the properties what the handler under way may count on (`OpInv`): a
session in the middle of a pairing is paired and not yet handed out, one that is being
locked is still open. It holds however sessions are started. `HealInv` needs the order
of `created_at`. `Healthy(a)` says what the tables and the histories must agree on for
an agent no crash has damaged, or whose damage a completed pairing has repaired, and
is suspended while a handler is under way for that agent (`Busy`); `WroteOp` says which
of the writes of that handler have been made, so that `Healthy` holds again when it
replies. The run has one crash, the proof any number of them.

The refinement needs to know, after each statement, how the tables differ from those
the handler found (`SoFar`: one clause for each handler, quantified over nothing but
the handler under way). A reply then has in front of it exactly the step of `Pairing`,
and every other statement leaves `atRest` alone. The clauses are stated for
`crashes = 0`, as the property is.

`TunnelProofs`, for any set of sockets, any set of requests, finite or not, and any limits
(`BoundsAssumption`, `NamesAssumption`):

| theorem | property |
|---|---|
| `TypeCorrect` | `TypeOK` |
| `NoRequestOrphaned` | `NoOrphans` |
| `TableMatchesRequests` | `PendingAccounted` |
| `WaitersBounded` | `WaitersAccounted` |
| `LockDiscipline` | `LockAccounted` |
| `LossIsReal` | `LostOnlyIfLost` |
| `CoroutineIdsAreOwn` | `IdsAreOwn` |
| `GoodAnswersReach` | `AnswersReach` |
| `RemovalIsOwn` | `OnlyOwnRemoval` |
| `StepsKeepContract` | the safety half of `ImplementsContract` |

The strengthening: the installed socket is the one not closed (`SocketInv`); nobody is
in the queue of `send_lock` twice (`QueueInv`, without which leaving the queue would
not give up the place); those who wait for the agent are finitely many although the
requests need not be (`WaitersInv`); a request in the table carries the id of a socket
that was made (`LossInv`); nothing is asked before it is written and no reply is in
flight that was not given (`CallerInv`, `InboxInv`). The last two are what the
refinement needs: each step of `Tunnel` is a step of `RelayContract` or leaves its three
variables alone. Its fairness is not proved.

The ids have an induction of their own (`IdsInv`). `IdInv`: a coroutine knows no id
before it has read one, and an id that is not its own only once its socket is closed,
because reading the shared id and being replaced cannot be one step. `MailInv`: an
answer in flight is to a request that was registered; if that request was registered
on the agent's present connection, the answer travels on that connection and carries
its id or none. Nothing in `Stale` can then turn a good answer away, which is
`AnswersReach`.

`StreamProofs`, for any sockets and requests and answers of any length
(`BoundsAssumption`, `NamesAssumption`):

| theorem | property |
|---|---|
| `StreamIsWhole` | `WholeIsWhole` |
| `NothingSkipped` | `BodyIsPrefix` |
| `ForgottenNotWaiting` | `ForgottenIsFinished` |
| `NoStreamOrphaned` | `NoOrphanStreams` |
| `BreakIsReal` | `BrokenOnlyIfLost` |
| `TableMatchesStreams` | `StreamsAccounted` |
| `TypeCorrect` | `TypeOK` |

The argument is about the place of each message in its answer (`Rank`): what is in
flight on a socket is in order (`MailInv`), and while a stream is live every message
sent for it has either been taken into its session or is still in flight, never both
and never neither (`DeliveryInv`). An agent sends its end last, so when the end is
taken nothing is in flight any more, and the queue with the body is the whole answer
(`ChunksInv`, `EndInv`). `Live` is the crux: a loss of the socket takes the sessions
out of the table in the same step in which the mail may be lost.

`RateLimiterProofs`, for any keys, budgets, windows and requests (`BudgetsAssumption`,
`RequestsAssumption`: no request hits a key twice):

| theorem | property |
|---|---|
| `WindowsBounded` | `WindowBound` |
| `RefusalsJustified` | `RefusalIsJustified` |

What passed is in the order of time (`InOrder`), what is remembered is the end of it
(`Remembered`), and the rest is out of the window (`Forgotten`). Pruning such a list
takes a beginning away (`KeptIsEnd`), which rests on two facts about `Those` and on the
least element of a set of naturals; the latter comes from `WFMin` and
`NatLessThanWellFounded` of the library, which have no operator parameter.

Three smaller modules are proved about in the same way, each from an inductive
invariant `IInv` of its proof module, for every value of the constants (assumptions
`BoundsAssumption`; `NoneAssumption` and `LoopAssumption`, which say that `None` and
deliveries are not taken for agents or registrations; `ConnsAssumption`):

| module | theorem | property |
|---|---|---|
| `WsTokensProofs` | `CopiesAreCurrent`, `LatestOpensTunnel`, `AdmissionIsCurrent` | `NoOldCopies`, `LatestTokenWorks`, `AdmissionNeedsLatest` |
| `PushProofs` | `PhonesStayRegistered`, `PhonesAreTried`, `OnlyEarlyFail` | `RegisteredStays`, `EveryPhoneTried`, `FailsOnlyAtStart` |
| `ConnectivityProofs` | `MonitorInStep`, `NoFalseAlarm` | `InStep`, `AlarmIsTrue` |

`WsTokens`: the strengthening `CopiesStay` says where the latest token still is while it
lives (in the row until a mismatch, in the entry until a drop), which is what makes
`LatestTokenWorks` follow. `Push`: `RowsInv` says that only dead tokens are taken for
invalid, so the row a registration found is there when it is updated; `TriedInv`
that what a delivery counts on is tried or still listed; `AppInv` that a delivery which
began after Firebase was ready neither initialises it nor fails. `Connectivity`:
`OneTimer` says that the only sleeping timer is that of the last loss.

Every inductive invariant was model-checked on the instance of its run before it was
proved.

Only model-checked: liveness, which the prover has no means for (`ENABLED` and
fairness): that every accepted request is finished and every gone socket noticed
(`ImplementsContract`, `GoneIsNoticed`), that streams end (`StreamsEnd`), that losses and
returns are announced (`AwayIsAnnounced`, `BackIsAnnounced`). No module declares a RECURSIVE operator.

## Not modelled

- Ownership checks, the pairing page and its CSRF cookie, settings, admin stubs: they
  keep no state of their own. The reply of a browser pairing leaves `relay_secret` out,
  so the phones an agent was paired with before hold a secret that is no longer checked;
  in `Pairing` this is a `Complete` whose client does not keep what it was given.
- Routers that `main.py` does not mount, and methods nobody calls
  (`cleanup_expired_ws_tokens`, the database's `heartbeat_agent`, `push_status`), and
  the direct branch of the forwarder. README.md:11 lists direct forwarding when the
  agent's public address is available, but no mounted code copies the address from the
  `agents` table to the registry entry the forwarder reads, so the branch is dead: an
  agent with an address and no tunnel is answered 503 as any other.
- slowapi, uvicorn, Firebase and sqlite, except for what the modules say of them; two
  worker threads that find the database locked for longer than its timeout.
- The order in which two alerts, each in a thread of its own, reach Firebase.
- Clocks that go back, and the creation and migration of the schema.
- The keys of the rate limiter are never removed from its table; this is a matter of
  memory, not of what it answers.

## Plan

1. Lemmas the proof modules repeat (sockets of `Tunnel` and `Stream`, columns of
   `Pairing` and `PairingCrash`), in one place where that shortens them.
2. The safety that the liveness of `Connectivity` rests on: why an alert is missing
   (`lost`, `silent`, `unsaid`) as invariants, and those proved.
