# Aqualung: TLA+ models and proofs

Aqualung connects phones to an agent that runs at home. Two programs do it:
`snorkel`, at home, joins the agent's unix socket to a TLS connection it dials
out, and `topside`, on a server, speaks the leader protocol on that connection
and ACP over WebSocket to any number of phones. This directory holds TLA+
modules of both, the TLC configurations that check them on small instances, and
proofs of their safety properties that TLAPS checks for every instance.

## The system

| component | source | state | operations | what is hard |
| --- | --- | --- | --- | --- |
| hub | `crates/topside/src/hub.rs` | home (`Away`, `BringingUp`, `Sole`, `Dual`), phones, watchers, driver, outstanding requests, reverse asks and claims, counters | one handler per `ToHub` message and one for the deadline | messages of many connections in any order; a home link replaced while phones use the old one; late and repeated answers |
| home connection | `net.rs`, `wire.rs` | TLS stream, half-read frame, out queue, halt channel | accept, register, read, write, ping, halt | `select!` cancels what it polls; every way out must reach the hub |
| phone connection | `net.rs` | WebSocket, out queue | hello, text, close | the end of a phone with requests in flight |
| accept loops, `serve` | `net.rs`, `shutdown.rs` | listeners, shutdown watch | accept, abort, shut down | order of shutdown |
| wire types | `wire.rs` | none | framing, `session_id_in`, `is_interaction` | lengths |
| link | `crates/snorkel/src/link.rs` | `Down`, `Up`, `Stopped`, failure count, backoff | sleep, check the socket, dial, run a session | shutdown, the socket and the server change during every await |
| session | `crates/snorkel/src/session.rs` | two streams, two buffers | copy both halves | one half blocked, the other ended |
| dialer | `crates/snorkel/src/endpoint.rs` | none | TCP and TLS with timeouts | timeouts |
| entry points | `main.rs`, `lib.rs`, `shutdown.rs` of both | shutdown flag, exit status | load, bind, serve, stop | a signal at any moment; which ends count as success |
| configuration | `config.rs` of both | none | parse, load certificates | what is taken for a host, a port, a token |
| leader at home | external | sessions and their subscribers | answers requests, sends requests of its own | trusted for nothing but the links it answers on |

How they interact: each connection is a tokio task that owns its socket and
sends `ToHub` messages into one unbounded channel; the hub owns all shared state
and answers through one unbounded channel per connection. The hub lets go of a
home link by dropping its `Link`, which fires the task's halt channel. A task
that ends on its own sends `HomeEof` or `PhoneEof`. snorkel and topside share
nothing but the TLS stream.

What makes each part correct:

- hub: the phones' view of the home is current; the newest home wins without
  costing phones the one they have; ids on the shared home link are never mixed
  up; a request is answered once, in both directions; the watch tables agree.
- home connection: the hub always hears of an end; a dropped link ends; frames
  stay aligned.
- hand-over: the sessions somebody watches stay subscribed, and their updates
  keep coming, while one link takes the place of another.
- phone connection: a phone is announced before it is heard, heard in order, and
  forgotten when it goes; the token and nothing else admits it.
- link: streams come and go in pairs; it stops when asked, and otherwise never
  gives up; failures are retried at intervals that grow up to a cap.
- session: what one side sends reaches the other; the end of one side is the end
  of both, and what that side sent before its end is delivered. Bytes of the other
  direction that are between the sides at that moment are dropped with their copy.
- entry points: a signal ends the process with status 0, and nothing else does
  but `--once`, with which the one attempt's end is status 0 however it went, a
  refused dial included.

## Modules

| module | models | state and actions |
| --- | --- | --- |
| `Hub` | `hub.rs` | Variables keep the names of the `Hub` struct's fields. `home` is `mux` (the link phones are multiplexed onto) and `cand` with its `stage` (the incoming link): `Away` is neither, `BringingUp` a `cand` alone, `Sole` a `mux` alone, `Dual` both. One action per handler, under the handler's name. |
| `HubProofs`, `HubHomeProofs` | | Theorems about `Hub`, with proofs: its tables and phones, its home side, and that it implements `HomeService`. |
| `HomeService` | | The abstract promise to the phones: which link serves, which is coming up, what each attached phone believes, and the state of each request. |
| `HubService` | | `Hub` with the refinement mapping to `HomeService`. |
| `Handover` | `on_home_notification`, and `Hub` composed with the leader | `Hub`'s actions, driven by an external leader through one FIFO stream per link; the leader's subscriptions and evictions; per phone, what it got and from where on it watched. |
| `HandoverProofs` | | Theorems about `Handover`, on top of `HubHomeProofs`. |
| `Topside` | `main.rs`, `Server::bind`, `serve`, `phone_accept`, `phone_connection`, `shutdown.rs` | One state per await of each phone's task, the hub's channel, and the hub reduced to what it does to a phone's connection. |
| `Gate` | `bearer_bytes`, `token_eq`, the upgrade callback, the token check of `Config::load` | Operators over every token and header; no state. |
| `MCTopside` | | `Topside` and `Gate` together: what the phones' port admits while it is open. |
| `TopsideProofs` | | Theorems about `Topside` and `Gate`. |
| `HomeConn` | `home_connection` of `net.rs`, `read_frame` and `write_frame` of `wire.rs` | One task, one state per await, and the hub reduced to what it does to that task. |
| `HomeConnProofs` | | Theorems about `HomeConn`. |
| `SnorkelLink` | `main.rs`, `link.rs`, `establish` of `session.rs`, `endpoint.rs` | The start-up, one state per await of `Link::step`, and the exit status. |
| `SnorkelLinkProofs` | | Theorems about `SnorkelLink` and `Endpoint`. |
| `SnorkelSession` | `Session::run` and `copy_half` of `session.rs` | Per half, the await it is in and how many bytes have come to each hand: sent, read, accepted by the writer, in the socket, read by the peer. |
| `SnorkelSessionProofs` | | Theorems about `SnorkelSession`. |
| `Endpoint` | `Endpoint::parse` of snorkel's `config.rs` | Operators over every `--server` value, cut into lexemes; no state. |
| `MCSnorkel` | | `SnorkelLink` and `Endpoint` together: what is dialled for a `--server` value. |
| `TextProofs` | | Lemmas about positions in texts and about texts cut and joined, for the proofs about `Gate` and `Endpoint`. |

Abstractions. In `Hub` a message is its kind, its session id and, for a result,
whether it is an error; texts, capabilities and logging are left out. Handlers
that only write into a channel and change no table (`authenticate`, parse
errors, `on_home_notification`, `forward_notification`) are stuttering steps, and
so are frames of a link the hub has already dropped. What the hub sends is
recorded in history variables (`asked`, `replies`, `answers`, `lastNote`) as far
as a property speaks of it; `heard` records what each link has said. The
iteration order of a `HashMap` or `HashSet` is a nondeterministic choice. The
leader may send anything at any time, repeat itself and answer late, but it
answers on a link only requests it was asked on that link, as a server of
separate `accept()`ed connections does. A session taking no entry in `watchers`
is the empty set, and one without a driver has `None`.

In `HomeConn` bytes come in pieces, two for the length prefix and one for the
body. A length read out of step with the frames is arbitrary: over the limit,
which ends the task, or any other. In `SnorkelLink` time is not measured: a
timer fires some time after it was set, and `delay` keeps the value computed,
in hundredths of a millisecond: the jitter is any whole percentage from 80 to 100.

`Handover` keeps `Hub`'s actions as they are and takes away what `Hub` leaves
open about the leader: it answers in order and once, subscribes a link to every
session a message of it names, sends updates to subscribers only, and evicts a
session with its last subscriber. All of this is external, from
`docs/topside-inputs.md:134` and `:147`. A load's error is not told from its
success because neither the hub nor the subscription depends on it. A phone is
owed the updates sent from when it began to watch on (`joined`): with a second
phone, the earlier ones of a session went to the first alone. No home
window subscribes, links are replaced but do not fail, and the phone stays: the
losses are `Hub`'s subject.

In `SnorkelSession` bytes are counted, each stream being FIFO. The TLS writer
accepts up to `TlsBuffer` bytes beyond what the socket takes and passes them on
only in a write, a flush or a shutdown; this is how rustls behaves behind
tokio's `AsyncWrite`, and it is external. In `Topside` the hub's reaction to a
text is any set of texts to the phones it holds. In `Gate` and `Endpoint` a text
is a sequence of symbols: the word `Bearer`, a blank, a tab, letters, and
characters outside visible ASCII, for which `HeaderValue::to_str` refuses the
header; a DNS name, an IPv4 literal, three numbers, colons, brackets and the
percent sign. The parsers of the standard library and of rustls are external and
modelled on those symbols. An IPv6 literal has its eight groups, or a `::` in place
of some of them, and may end in an IPv4 one; in brackets and with a port, where
`SocketAddr` parses it, a `%` and a scope may follow, which `addr.ip()` leaves out
(`config.rs:72`). `Endpoint::parse` writes an address it has parsed back with `to_string`,
whose text need not be the one it was given: a host is therefore compared by the
groups it stands for (`address`).

Operators whose comment begins with "Mutant" are not part of a model. Each is a
plausible slip in the definition after it, and the run named in `PROJECT.json`
fails when it takes that definition's place.

## Runs

| run | shows | bounds |
| --- | --- | --- |
| `hub_phones` | `TypeOK`, `SessionTables`, `OneReply`, `OneAnswer`, `ReverseBacked`, `DriverStable` | two phones, one session, one home link: two phones are what it takes to hand over a driver and to race for a claim |
| `hub_replace` | `AwayNoticeCurrent`, `NewestComesUp`, `NoAcpBeforeReady`, `RefusalForgotten`, `IncumbentStable`, `ImplementsService` | three home links, so a third meets an incumbent and a candidate; a right and a wrong protocol version; a request in flight |
| `hub_loads` | `RequestIdsUnique`, `MuxHandshakeDone`, `CandidateSettles`, `RequestsSettle` | two sessions to load on each of two links, one forwarded request; ids enough for all of them |
| `handover` | `SubscribedUpdatesArrive`, `HandedOverNotEvicted` | two links and two sessions to load on the second: the cutover must wait for the second load, with an update in either stream |
| `topside` | `TypeOK`, `PhoneEndReachesHub`, `PhoneSpeaksInOrder`, `SignalStops`, `GoneForgotten`, `OnlyTheToken` | two phones, one text each way: enough for a text behind another phone's messages and for a write that meets a close; tokens of three and headers of five symbols: a token with an inner blank, or a tab or a character outside visible ASCII anywhere, fits behind the scheme |
| `home_conn` | `TypeOK`, `EndReachesHub`, `EofIsLast`, `DroppedEnds` | two frames of three pieces, two outgoing messages, any number of pings |
| `snorkel_link` | `TypeOK`, `StreamsPaired`, `OnceDialsOnce`, `ExitZeroMeans`, `BackoffGrows`, `ShutdownStops`, `KeepsDialing`, `ParsedAsSpelled` | nine attempts: the delay reaches its cap of 30 s at the seventh, and the count saturates two later; six lexemes: an IPv6 literal in brackets with a port; a host of three before a scope; the eight groups written out take thirteen and are left to the theorem |
| `snorkel_session` | `TypeOK`, `NothingLostByEof`, `EofEndsBoth`, `DownDelivers` | three bytes each way, buffers of one and two: each byte can be in another hand, and every buffer fills |

The bounds (`MaxGen`, `MaxPhone`, `MaxReq`, `MaxForward`, `MaxReverse`,
`MaxFrames`, `MaxOut`, `MaxAttempts`, `MaxUpdates`, `MaxBytes`, `MaxText`) are
guards of the actions that count, and `MaxToken`, `MaxHeader`, `MaxLexemes` and
`MaxScoped` bound the values enumerated; each run's values let every case it is about happen. Deadlock is not checked:
the hub returns at shutdown, a connection or a session ends, both programs exit,
and a bounded instance of the hub runs out of ids.

`ImplementsService` is the refinement. An attached phone of `HomeService` is an
initialized one, what it believes is its last `host_away` note, and a forwarded
request is waiting while its link serves and its entry in `outstanding` stands,
answered when its phone has had a reply, and lost otherwise. The abstract `Next`
has no step that loses a request without its link, none that changes who serves
without telling every phone, and none in which a failing newcomer costs anything.

Four runs end in a violation; each states a sentence of the documentation that
the code does not keep:

- `handover_evict`: `docs/snorkel-on-grok-leader.md:87-88` has every session
  somebody watches loaded on the new link before the old one is torn down. The
  watched sessions are read once, before the loads are sent; a session first
  watched while they are awaited is not among them, and the cutover drops the only
  link that had it. The leader then evicts it. Those the successor was asked to
  load are safe (`handover`).
- `handover_gap`: `README.md:68-69` has session updates fanned out to every phone
  that watches. During a hand-over both links carry them; the new link's copies
  are dropped until the cutover and the old link's from the cutover on, and the
  streams are not ordered against each other, so an update can miss a phone on
  both. What the leader sends once the serving link is subscribed and loaded does
  arrive (`handover`).
- `home_conn_aligned`: `docs/topside-inputs.md:71` describes a message as four
  bytes of length and then JSON. `read_frame` is polled in a `select!` and loses
  what it has read when another branch runs first, so that the next read may
  start inside a frame.
- `snorkel_flush`: `README.md:58` has bytes copied in both directions. `copy_half`
  does not flush, so what rustls kept back stays until the next write.

The models also follow the code where it is laxer than a document in a way no
property here depends on: `session/close` needs no `initialize` before it, a session
that moved nothing sets the failure count to 1, a token with white space at an end
or a character outside visible ASCII is accepted at start-up and from no phone,
port 0 is taken after an address literal, and the scope of `[fe80::1%3]:443` is
dropped. The hazards in `PROJECT.json` name the lines.

## Fairness

- `LiveSpec` of `Hub`: `on_deadline` (weak), since a tokio timer that stays armed
  fires and `select!` polls it; `HubAnswer` and `PhoneAnswer` (weak, per link), the
  leader's answers to the hub's own `initialize` and loads and to the phones'
  requests on a link that stays up. The answers are an assumption about the leader:
  the code has no deadline once a link is ready, so without them a candidate may
  wait for ever. Nothing is assumed of a leader that is not ready: that a silent
  one gives the slot up rests on the deadline.
- `HomeConn`: the task and the hub are polled (weak), and a write ends, because the
  peer reads or TCP gives up; the code sets no timeout of its own, so until then a
  task that is writing does not see that its `Link` was dropped. The halt branch is
  strongly fair: `select!` starts polling at a random branch, so a branch that is
  ready on every round is taken.
- `Topside`: `serve`, the join of the hub and the hub's task are polled (weak).
  Nothing is assumed of the phones, so `SignalStops` does not depend on them.
  `GoneForgotten` is stated under `PhonesPolled`: a phone's task is polled, its
  writes end (external, as above), and the end of its stream, which stays ready, is
  taken at last by `select!` (strong).
- `SnorkelSession`: both copies are polled (weak), and the peers read what reaches
  them, which is external. While a peer does not read, `copy_half` waits in
  `write_all` or `shutdown` without a timeout and the EOF of the other side waits
  with it.
- `SnorkelLink`: the start-up and the return, the check, the timer, the dial (10 s timeouts), the connect and
  the shutdown branch are weakly fair. Nothing obliges a session to end or the
  socket to appear.

## Proofs

Eight modules hold theorems. They are proved for every value of the constants,
so for any number of links, phones, sessions, requests, frames and bytes, and
assume of the constants only what the modules' named assumptions say: natural
bounds; finitely many sessions and topside's own version among the versions
(`ConstantsAssumption`); a frame longer than its length prefix and a prefix that
is not empty (`SizesAssumption` of `HomeConn`); buffers that hold something
(`SizesAssumption` of `SnorkelSession`); at least seven failures counted, so that
the delay can reach its cap (`MaxAttemptsAssumption`); letters and characters
outside visible ASCII that are not the same and not one of the symbols `Gate`
gives a meaning to (`GateAssumption`); and natural bounds on the lexemes of a
value (`MaxLexemesAssumption`). TLC evaluates them in the runs.

| module | theorem | property |
| --- | --- | --- |
| `HubProofs` | `TypeCorrect` | `TypeOK` |
| | `AwayNoticeAlwaysCurrent` | `AwayNoticeCurrent` |
| | `SessionTablesAgree` | `SessionTables` |
| | `FirstAnswerWins` | `OneAnswer` |
| | `ReverseAlwaysBacked` | `ReverseBacked` |
| | `DriverAlwaysStable` | `DriverStable` |
| `HubHomeProofs` | `NewestAlwaysComesUp` | `NewestComesUp` |
| | `RefusalAlwaysForgotten` | `RefusalForgotten` |
| | `RequestIdsAlwaysUnique` | `RequestIdsUnique` |
| | `AtMostOneReply` | `OneReply` |
| | `NoAcpEverBeforeReady` | `NoAcpBeforeReady` |
| | `MuxHandshakeAlwaysDone` | `MuxHandshakeDone` |
| | `IncumbentAlwaysStable` | `IncumbentStable` |
| | `HubImplementsService` | `ImplementsService` |
| `HandoverProofs` | `HandoverIsHub` | `HandoverSpec => Spec` |
| | `HandedOverNeverEvicted` | `HandedOverNotEvicted` |
| | `SubscribedUpdatesAlwaysArrive` | `SubscribedUpdatesArrive` |
| `TopsideProofs` | `TypeCorrect` | `TypeOK` |
| | `PhoneEndAlwaysReachesHub` | `PhoneEndReachesHub` |
| | `PhoneAlwaysSpeaksInOrder` | `PhoneSpeaksInOrder` |
| | `OnlyTheTokenAlways` | `OnlyTheToken` |
| `HomeConnProofs` | `TypeCorrect` | `TypeOK` |
| | `EndAlwaysReachesHub` | `EndReachesHub` |
| | `EofAlwaysLast` | `EofIsLast` |
| `SnorkelLinkProofs` | `TypeCorrect` | `TypeOK` |
| | `StreamsAlwaysPaired` | `StreamsPaired` |
| | `OnceAlwaysDialsOnce` | `OnceDialsOnce` |
| | `ExitZeroAlwaysMeans` | `ExitZeroMeans` |
| | `BackoffAlwaysGrows` | `BackoffGrows` |
| | `ParsedAsSpelledAlways` | `ParsedAsSpelled` |
| `SnorkelSessionProofs` | `TypeCorrect` | `TypeOK` |
| | `NothingEverLostByEof` | `NothingLostByEof` |

Each rests on an inductive invariant; TLC checked it on a small instance before
it was proved, one lemma per action or group of actions preserves it.

**The hub.** `TypeOK` is inductive; one lemma per helper (`SendTyped`,
`WatchTyped`, `FinishTyped`, ...) says what it preserves, and `TypeStep` goes
through the actions. The cardinalities in the allocation of ids need the sessions
and the watchers to be finite (`WatchedFinite`, `PhonesFinite`).

`AwayNoticeCurrent` is not inductive: a phone's note is only written once it is
initialized, so a phone that attaches must be known to start without one, and
`on_phone_hello` must be known to hand out an id that is not in use.
`PhonesCounted` says that phones beyond `next_phone` are absent, and `NoticeInv`
that a phone's note says away exactly when the phone is initialized and the home
is away, so whoever is not initialized has none; with both every step keeps it.

`SessionTables` is inductive given types; the work is in the two places where a
driver is inherited, and `DriverStable` follows from it action by action.
`OneAnswer` needs `ClaimInv`: a claim that is still open has had no answer, and
one that has had an answer is taken and stays taken. Claims are created under
fresh ids, which that invariant records as well. `ReverseBacked` needs
`ReverseInv`: no aq id is above the counter it is taken from.

On the home side `GensInv` (the serving link was accepted, the one coming up is
the newest) gives `NewestComesUp`. `IdsInv` says that ids are given out once,
below `next_req`, and that what waits under an id was asked under it; `OneReply`
needs it and `ReplyInv`, that a request which still waits has had no reply.
`ReadyInv` says for each stage what the candidate has said by then, and
`HandshakeInv` what it was asked by then: nothing, its initialize, then loads that
are pending or answered. `MuxHandshakeDone` is what is left of `HandshakeInv` when
`cutover` moves the candidate to `mux`, and `IncumbentStable` follows because only
a candidate with no load pending gets there.

**The refinement.** `HubImplementsService` maps `Init` to `HomeService`'s `Init`
and each handler to one abstract step or a stutter. `Status` is the state of one
request as a function of what it depends on; the lemmas say how it moves when a
request is sent, answered or loses its link. The mapping needs `NoticeInv` (what a
phone believes), `IdsInv` and `ReplyInv` (a request's state), `GensInv` and
`HandshakeInv` (the link that takes over was coming up).

**The hand-over.** `HandoverIsHub` says that composing the hub with the leader
adds nothing to what the hub does, so the invariants above hold there too
(`HubKept`). `LeaderInv` ties the leader to the hub: an answer the hub has, or
will have, is to a request the leader took; a request it took has subscribed its
link; a link it lost is one the hub dropped. With `HandshakeInv` that is
`HandedOverNotEvicted`: a serving link's loads are answered, so they were taken,
so they are subscribed.

`SubscribedUpdatesArrive` needs to know where an update is before its link serves,
when the hub would drop it. `CandInv` says that once the leader has taken all a
candidate was asked, every update owed on it is in its stream behind the last
answer the hub waits for. This is an order inside one stream, kept because the
leader puts a subscription's first update behind the answer and the hub takes the
head only (`InTail`, `BehindTail`); `OnItsWayInv` says that the answer is there,
`PendingInv` that the hub does wait for it, `AboutInv` that no other session is
concerned. At the cutover the last answer is at the head, so all that is owed is
still behind it, and `MuxInv` takes over. An attempt to prove the property with
`Complete` over all updates failed for a second phone, which is owed only what was
sent from when it began to watch on; `joined` says so now.

**Connections.** `EndReachesHub` needs to know, for every point of the task and
every state of the hub, what is in the channel: `ChannelInv` of `HomeConn` says
that nothing of a link is there before its announcement, that an announcement in
the channel is unanswered, and that a hub that is gone holds nothing. The
`ChannelInv` of `Topside` does the same for any number of phones whose messages
share one channel (`ServeInv`, `PhoneInv`, `SaidInv`); the two properties are
conjuncts of it, each needing the other. `CountsInv` bounds what waits by what
was queued, without which a queue's length is not known to be natural.

**The token.** `OnlyTheToken` is a fact about `Gate`'s operators and no induction
is needed: `trim` is described by the text it leaves and the white space around it
(`Framed`), which determine it (`TrimFrames`, `FramedTrims`), a header by where the
scheme, the white space and the token lie in it (`Laid`). `bearer_bytes` finds a
token just in the headers laid out for it (`LaidIsFound`, `FoundIsLaid`), and these
are the ones spelled so (`SpelledIsLaid`). A header has a character outside visible
ASCII exactly when the token laid out in it has one (`LaidForeign`); `to_str` then
leaves nothing, in which no token is found (`EmptyHasNone`). That a set of positions has a least and a
greatest element comes from the library's well-foundedness of `<` (`TextProofs`).

**The `--server` value.** `ParsedAsSpelled` is about `Endpoint`'s operators, and
the theorem holds for values of every length, the written-out IPv6 literals TLC's
six lexemes have no room for included. A spelling has one of five shapes, each
given lexeme by lexeme (`Ported`, `Boxed`, `BoxedPorted`, `Scoped` and the host
alone: `SpelledIs`). In one direction each branch of `parse` that accepts a value has cut
it in one of them (`SocketAddrFits`, `BracketedFits`, `SplitFits`), because the
first closing bracket or the last colon is where the host ends. In the other each
shape comes to the branch meant for it and to no earlier one (`HostParsed`,
`BoxedParsed`, `PortedParsed`, `BoxedPortedParsed`, `ScopedParsed`). That needs of an IPv6 literal
only what `Ipv6Is` says: no brackets, no percent sign, and at least thirteen lexemes or two colons
in a row; so an address is never a socket address as well (`AddressHasNoPort`).
The one ambiguity is real and stated in the property: a literal such as `::1:443`
is the whole address, not `::1` and a port.

**snorkel.** `LinkInv` says at which state of the loop a stream is open, that
with `--once` nothing was dialled before the loop first comes to its dial, and
that the loop stopped for a reason. It
also bounds `delay` by the whole base delay of the failures so far. The next base
is twice that or the cap (`BaseDoubles`, `BaseCapped`), and the smallest jitter
leaves 1.6 times the bound, or 24 s (`BackoffBounds`, `FailureGrows`). `SessionInv` orders the hands a byte goes through, bounds what
the TLS writer keeps back, and says that a copy that reads has handed over all it
read and one that shuts its writer down all there will be: the completed shutdown
then leaves `out` equal to `sent`.

**Left to TLC.** Liveness (`CandidateSettles`, `RequestsSettle`, `SignalStops`,
`GoneForgotten`, `DroppedEnds`, `ShutdownStops`, `KeepsDialing`, `EofEndsBoth`,
`DownDelivers`) needs `ENABLED` and fairness, which this prover does not handle.
The properties of the four violated runs are false. Every invariant and every
safety action property of the passing runs is a theorem.

## Not modelled

Certificate loading and the certificate pin, which is one comparison after
rustls's own verification; JSON encoding and the fixed texts; the WebSocket and
TLS libraries beyond what the modules say of them; the container and the scripts.
The hub's tasks are assumed not to panic. `PROJECT.json` gives the reason for each
part, and a note at each hazard that no property covers.

## Plan

Modelled: all components that keep state. Proved: every safety property of the
passing runs. What is left:

1. What the hazards without a property would need: an answer to a reverse request
   against the link that asked (`hub.rs:838`), which takes a generation in the
   history of `Hub`.
2. Shorter proofs where one lemma serves several modules: the streams of
   `Handover` and the channels of `HomeConn` and `Topside` are all taken at the
   head and extended at the end.
