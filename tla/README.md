# A TLA+ verification of cffi-proxy

cffi-proxy is an HTTP/HTTPS proxy in Go: `main.go` registers handlers on a
vendored goproxy that uses `fhttp`, and sends requests with a TLS client that
imitates browsers. This directory holds TLA+ models of its core, TLC
configurations that check them on small instances, and TLAPS proofs.

## 1. The system

| Component | State | Operations | Talks to |
|---|---|---|---|
| Request pipeline (`proxy.go`, `ctx.go`, `actions.go`, `responses.go`) | `proxy.sess`, the handler chains, one `ProxyCtx` per request, the locals of `ServeHTTP` | `ServeHTTP`, `filterRequest`, `filterResponse` | net/http server, handlers, origin |
| CONNECT and man-in-the-middle (`https.go`) | `todo`, hijacked client, TLS client, deferred closes | `handleHttps` and its loops, `httpError`, the tunnel copies | https handlers, the pipeline's filters |
| Registration (`dispatcher.go`) | the three handler lists | `OnRequest`, `Do`, `HandleConnect`, `HijackConnect`, `OnResponse`, `HandleBytes` | pipeline |
| main and cffi transport (`main.go`, `mitm/transport.go`) | none | `handleConnect`, `handleRequest`, `handleResponse`, shutdown | pipeline, tls-client |
| Websocket (`websocket.go`) | the target connection | handshake, relay | pipeline, `filterResponse` |
| Proxy authentication (`ext/auth`) | none | `Basic`, `BasicConnect` | handler chains, `ctx.Resp` |
| RegretableReader (`regretable`) | buffer, `r`, `w`, `overflow` | `Read`, `Regret`, `Forget` | `ext/image` |
| Transport (`transport/transport.go`) | `idleConn`, per connection `numExpectedResponses`, `broken`, `reqch`, a `readLoop` goroutine | `RoundTrip`, `getConn`, `putIdleConn`, `CloseIdleConnections`, `bodyEOFSignal` | callers, servers |
| HTTP/2 relay (`h2.go`) | two connections, two framers, two channels | `RoundTrip`, `proxyFrame` | TLS loop |
| Upstream dialer (`https.go`) | none | `NewConnectDialToProxyWithHandler` | tunnels, websockets |
| Chunked writer (`chunked.go`) | the connection | `Write`, `Close` | TLS loop |
| Body handlers (`ext/image`, `ext/html`, `HandleBytes`) | the response's body | `HandleImage`, `HandleString`, `HandleBytes` | pipeline, RegretableReader |
| Signer, counter RNG, embedded certificates | a counter | `signHost` | `TLSConfigFromCA` |
| `uagen` | commented out | | |

What is hard here:

* **Concurrency.** One goroutine per connection shares the session counter; in
  the transport, callers, `readLoop`s and the readers of bodies share
  connections under two locks and, in `bodyEOFSignal`, under none. A relay is
  two copying goroutines and a third one that closes their connections.
* **Failure.** Dials, TLS handshakes, round trips, writes and closes fail; a
  panic is recovered in one goroutine and ends the process in another.
* **Ordering.** A handler chain, a reply that is promised before its dial, a
  connection that is given back before its response is delivered, bytes that
  sit in a buffered reader which is thrown away.
* **Framing.** Requests with bodies cut out of one stream, replies written in a
  dozen writes, bodies that several handlers read and replace.
* **Liveness.** A caller, a client, a copy or a `readLoop` that waits for ever.

`PROJECT.json` lists each hazard at its line with the properties aimed at it.

## 2. Modules

| Module | Models |
|---|---|
| `Proxy` | the pipeline, CONNECT, both loops, websockets, main's handlers |
| `MCProxy` | handler chains for TLC |
| `ProxyProofs`, `ProxyReplyProofs` | theorems about `Proxy`: types and sessions; what clients and origins are sent, bodies, tunnels, survival |
| `RewindableStream` | what `RegretableReader` promises (abstract) |
| `RegretableReader`, `MCRegretableReader`, `RegretableReaderProofs` | the reader, its instance, its refinement proof |
| `Transport`, `MCTransport`, `TransportProofs` | the connection pool and its goroutines, theorems about them |
| `DuplexStream` | what a tunnel promises its peers (abstract) |
| `Relay`, `MCRelay`, `RelayProofs` | tunnels, websockets and HTTP/2 sessions once bytes flow, and their setup; its refinement proof |
| `MitmLoop`, `MCMitmLoop`, `MitmLoopProofs` | the byte side of both man-in-the-middle loops, the chunked writer |
| `BodyHandlers`, `MCBodyHandlers`, `BodyHandlersProofs` | image, string and byte handlers on one body; instantiates `RegretableReader` |

`Proxy` has the control of a connection, `Relay` and `MitmLoop` refine two
parts of it that `Proxy` takes as one step: the end of a tunnel or relay, and
the reading of a request and writing of a reply. `BodyHandlers` does the same
for the bodies that `Proxy` only counts.

Operators whose comment begins with "Mistake" are plausible errors. They are
used by nothing in the models; substituting one for the operator after it shows
that the properties notice.

### Proxy

One goroutine serves each client connection `c`. `pc[c]` is the place it has
reached in the code and `loc[c]` its locals: the mode (`plain` for
`ServeHTTP`, `https` while a CONNECT is decided, `mitm` and `httpmitm` for the
loops), the number `n` of its current request, the original and current
request, the response, the index in the handler chain, and what will be closed
(`bodies` that are open, `defers` that are registered, the client connection).
`ctx[c]` is the `ProxyCtx`, `sess` the counter, `up` whether the process lives.
`seen`, `canned`, `sent` and `replies` are history variables: what handlers
were called with, which requests they answered, what went to origins and what
clients received.

Every handler call is a step, so connections interleave between any two. A
handler is a record: the kinds of request its conditions accept, and what it
does. A request handler may pass, edit in place, return a changed copy
(`rewrite`), answer, or be main's (`cffi`); a response handler may pass,
replace, return nil now and then (`drop`), be a `HandleBytes` filter, or be
main's. `looks` says that the first of its conditions reads the request's URL.
The kinds of request stand for what the code tells apart: two sites, a websocket
upgrade, a relative URL, a CONNECT, an HTTP/2 preface; and an ordinary request,
an upgrade and a preface whose URL cannot be rebuilt in the tunnel
(`Unparsable`). A response is reduced to where it came from, whether it has a
Header and a body (`made`) and whose origin body it holds.

Panics follow Go: in the goroutine of the TLS loop they end the process, in
`ServeHTTP` the server recovers them and closes the client unless hijacked. A
tunnel request with an unparsable URL has a nil `req.URL` from `https.go:237`
on, and the error is looked at only at `:280`: before that, conditions on the
URL and main's handlers panic (`MissesURL`), and so does the test of an
upgrade's scheme (`Route`).

A reply is on record with its source; `"cut"` is one whose body broke off when a
part of it was out. In the TLS loop the client is then closed; in the plain HTTP
loop the goroutine goes on to `"broken"`, where `httpError` writes a second reply
behind it.

### Transport

`call[g]` is a caller in `DetailedRoundTrip` (its place, connection, result and
the `bodyEOFSignal` of its response); `pconn[c]` a `persistConn` with its
`readLoop`'s place and locals, the requests on the wire and the replies that
wait to be read; `idleConn` the pool, where the empty sequence stands for an
absent key. A step ends where the code takes a lock, uses a channel or waits
for the network. `fn` is three steps, because the pool, `waitForBodyRead` and
`es.fn = nil` are visible to others at different moments. A read that returns
once data, EOF or a close is there stays enabled, so `Peek` and the test of
`numExpectedResponses` behind it are one step. A write into `bw` on a dead
connection may succeed: the code ignores what `Flush` returns. A body ends in one
of three ways (`BodyEnds`): it is read to EOF, closed, or closed with an error.
A caller that reads a body still uses its connection (`Users`). An upstream
proxy's refusal of a CONNECT is an error; that `getConn` panics when the refusal
has no reason phrase (`f[1]`, `transport.go:394`) is left out.

The repository's proxy does not use this package (it dials with `fhttp`'s own
transport); it is modelled as a component of its own.

### RegretableReader

`src` counts the bytes taken from the underlying reader, `buf`, `r`, `w` and
`overflow` are the code's. The refinement maps them to a stream with a mark, a
position and a high-water mark. Its `Forget` is the documented one, which drops
"everything read so far" (`regretreader.go:55`) and keeps what was pushed back
and not yet read again. The code drops that, too; `ImplementsRewindableStream`
excepts this call by name (`ForgetsUnread`). Nothing in the repository calls
`Forget`.

### Relay

`mode` is the kind of relay: `half` and `wait` for accepted CONNECTs whose
connections can or cannot both be half-closed, `ws` for an upgrade in
`ServeHTTP`, `wss` for one in the TLS loop, `h2` for an HTTP/2 session. `main`
is the goroutine that hijacks, dials (directly or through an upstream proxy,
whose answer is `ConnectAnswer`), shakes hands and then waits; `copy[p]` copies
what peer `p` sends. `conn[p]` is the proxy's connection to `p` and what `p` has
sent into it; `out[p]` is written and not yet read by the other peer, of which
`Room` items fit. An item is what one read returns. The setup discards buffered
readers at up to three places (the server's on hijack, the one that reads the
upstream proxy's answer, the one of the websocket handshake); `Swallow` takes
any number of the items that have arrived with it, and `eager` records which
peers sent while they could lose something (`AtRisk`). Frames keep what
`proxyFrame` tells apart: the end of a stream, an unsupported type, the rest.

A connection that is closed over unread input resets its peer, which may lose
what it has not read yet (`Reset`).

`DuplexStream` is two numbered streams that arrive in order and without a gap
and end behind their last item. Two switches say what the code does not
promise. `lossy`: the peer spoke before the tunnel stood. `cut`, for which
`CutShort` names the cases: the setup failed or a peer was lost; one peer of a
websocket has finished, which ends both of its streams; a frame of an unknown
type was read, or each direction of an HTTP/2 session has ended a stream (or
itself), which ends the session; a reset. So no stream may end early in an
accepted tunnel that has lost no peer, in a websocket whose peers both go on, or
in a session with a direction in which nothing has ended, short of an unknown
frame or a reset. Without any one of these cases TLC finds a counterexample to
the refinement.

### MitmLoop

Loop `tls` has one reader for the connection, loop `http` a new one for each
request. The client sends heads and bodies as tokens into `wire`; `Fill` moves
some of them into the reader's `buf`. A reply is written as the code writes it,
status line, header, empty line, and for each non-empty read of the body a
size, the data and a line end; `seen` is a client's decoder that reads each
write. The replies of the HTTP loop come in one piece from `resp.Write`, which
marks the end of a body by its length, by chunks or by the end of the connection
(`Framings`); when the body breaks off, or the round trip fails, `HttpError`
writes the 502 behind whatever is out, and the client's decoder takes it for what
it was waiting for. A client that waits for the connection to end stays there
("rest"): the loop does not close it. Body bytes are taken not to parse as a
request. `slips` records the things that put a loop out of step: a handler
that answers a request whose body nobody has read, and, in the HTTP loop, a
client that sends before it has its reply.

### BodyHandlers

A body is the stream of bytes `1..StreamLen`: stream 0 is the origin's, which
may break off, the others are made by handlers. `top` says whether `resp.Body`
is the stream or a `RegretableReader` on it, `closes` whether closing
`resp.Body` reaches the origin's body, `sized` whether the reply will still
have the origin's Content-Length. Handlers may fail at every point: a decoder
that stops, an encoding that fails, a content type the switch does not know, an
unknown charset. `Sent` is the end of the copy to the client, `Returns` that of
the function whose deferred close comes then: `ServeHTTP` at once, in the TLS
loop the goroutine of the tunnel, behind any number of other requests
(`https.go:302`). `HandleStringReader`'s nil for `ctx.Error` is `Proxy`'s
`drop`.

## 3. Runs

| Run | Instance | Shows |
|---|---|---|
| `reader` | stream, buffer and read sizes where reads meet the buffer's end exactly and beyond it | types, `BufferIsTail`, refinement of `RewindableStream` but for one call |
| `proxy` | 1 client, up to 4 requests with a CONNECT among them, every action, HTTP/2, unparsable URLs, main's handlers among others, nil responses, fair | types, `CannedSkipsOrigin`, `RepliesFiltered`, `RepliesInOrder`, `BodiesReleased`, `TunnelClientReleased`, `Answered` |
| `proxy_mitm` | 2 clients, plain and TLS tunnel, unparsable URLs, fair | `SessionUnique`, `BodiesReleased`, `ServerSurvives`, `Answered` |
| `proxy_main` | main's handlers in a TLS tunnel | violation of `ServerSurvives` |
| `proxy_compose` | two rewriting handlers | violation of `HandlersCompose` |
| `pool` | 2 callers, 2 connections, room for 1 idle, 2 sites and 5 connect methods, every end of a body, all dial failures, servers that close at any time and an unsolicited reply (2.3 million states, about a minute) | types, `ExclusiveUse`, `ResponseMatches`, `RightTarget`, `IdleBounded` |
| `pool_live` | servers close only while they owe an answer, fair | `RoundTripReturns`, `BodyReleasesLoop`, `SocketsAccounted` |
| `pool_hang` | servers close at any time, fair | violation of `RoundTripReturns` |
| `pool_fn` | bodies read to EOF | violation of `FnAtMostOnce` |
| `relay` | all five modes, direct and upstream dials, 2 and 1 items, room for 1, fair | types, refinement of `DuplexStream`, `EndReachesPeer`, `TakenDown`, `CopiesEnd` |
| `mitmloop` | both loops, 2 requests, bodies of up to 2 reads, a reader for 2 tokens, fair | `InSync`, `RepliesDecode`, `CompleteOnlyIfWhole`, `LoopReturns` |
| `bodies` | every chain of up to 2 handlers, a body of 4 bytes, 2 of which can be taken back | types, `WholeBody`, `PanicsOnlyIf`, `OriginReleased` |

The violations are disagreements between the code and its own comments; each is
described with both lines in `PROJECT.json` under `findings`. More were met
while modelling and have no run of their own, because the lines show them:

* The plain HTTP tunnel filters every request with the CONNECT's context, so
  that `ctx.Session` and `ctx.Req` are not those of the request (`https.go:179`
  against `ctx.go:14` and `:24`).
* A round trip that fails in the TLS loop ends the tunnel without a call of the
  response handlers (`https.go:295` against `actions.go:25`).
* Connections to an http proxy are pooled per target and not shared
  (`transport.go:487` against `:473` and `:479`).
* `Forget` after `Regret` drops bytes that were pushed back and not read again
  (`regretreader.go:68` against `:55`, "everything read so far").
* A tunnel request whose URL does not parse, `OPTIONS *` say, takes the process
  down as soon as a handler or condition reads its URL (`https.go:237` and
  `:244`, against the check at `:280`, which is there for it); main's do
  (`main.go:42`). An HTTP/2 preface is such a request: its URL is `*`.
* When the body of a reply breaks off in the plain HTTP tunnel, a 502 is written
  behind the part that is out (`https.go:194`); a client that was told a length
  can take its text for the missing bytes.
* A reply of that tunnel without a length and without chunks has no end: the
  client waits for one, the loop for the next request (`https.go:193-196`).
* "Okay to use and discard buffered reader here" (`https.go:433`) is true of TLS
  targets only; a plain target behind an upstream proxy that speaks first loses
  what it says.
* An HTTP/2 copy ends at the first END_STREAM of any stream (`h2.go:112`,
  `:126`), where `h2.go:17` and `:27` speak of all client frames and all
  contained streams; after an error the other copy stays blocked on its channel.
* A 204 or 304 gets a chunked body in the TLS loop (`https.go:320`), which its
  client does not expect; the reply is followed by bytes it cannot place.
* "returning orig" (`image.go:52`) returns what the decoder has left of the
  original; and `RespIsImage` accepts a content type with parameters, for which
  `image.go:75` panics.
* A broken origin body in a reply of `ServeHTTP` that has lost its
  Content-Length is ended as if it were whole (`proxy.go:203` only logs).

**Bounds.** `MaxReqs` (requests on a connection): 2 suffices for state that
leaks from one request to the next; `proxy` has 4, so that a plain request, the
CONNECT and two requests in its tunnel fit; `mitmloop` 2, a request with a body
and the one behind it. Two clients suffice for what connections share, the
session counter. Two callers and two connections are the fewest with one
connection idle and one that does not fit the pool; the five connect methods
differ in scheme, proxy and site, so that each part of the pool's key matters. `MaxJunk` bounds unsolicited replies.
`MaxRead`, `BufSize` and `StreamLen` bound the reader: a body of twice the
buffer overflows it in one read or in several, or fills it exactly. In `relay`,
two items from the client and `Room` for one make a copy wait in a write while
another item waits behind it. In `bodies`, chains have at most one image
handler, because the model has one reader.

The pool's runs do not check deadlock: the caller of `pool_hang` is one, so is a
`readLoop` behind a body whose Close failed, and in `pool_live`, where liveness
is checked instead, callers come to their end. Neither do `relay`, `mitmloop` and `bodies`, which end.

**Fairness.** `Proxy!FairSpec` is weak fairness of the steps a goroutine takes
with a request in hand: Go runs runnable goroutines. What such a step waits for
is assumed to come to an end: a handler, a dial, an origin that has been asked,
the rest of the client's request and the client's reading of its reply. The code
enforces this only for main's tls-client, which has a timeout; `proxy.Tr`
(`proxy.go:221`) and the tunnels' connections have none. Nothing is assumed of
when a client speaks next or leaves: the next request, a TLS handshake, and the
end of a tunnel, a relay or an HTTP/2 session (`ServeH2`) may never come.
`Transport!FairSpec` is weak fairness of callers and
`readLoop`s, and of a server that has a request: it answers or closes.
`Relay!FairSpec` is weak fairness of the three goroutines, and of peers as far
as they read what they are sent: a peer that never reads stops every relay. They
need not send, finish or vanish. `MitmLoop!Spec` is weak fairness of the loop's
goroutine, which includes that handlers, origin and writes come to an end.

**What the properties leave out, and why.** `SessionUnique` and
`TunnelClientReleased` exclude the plain HTTP tunnel, and `Answered` websocket
upgrades and that tunnel, because the code does not provide it there (see
above and the hazards). `BodiesReleased` covers tunnels only with response
handlers that close the bodies they replace, and the plain HTTP tunnel only
without a request handler that answers with an origin's body (main's): the loop
defers no close of what a handler answered (`https.go:180-192`), and when the
write of the reply fails early nobody closes that body. `IdleBounded` speaks of
the keys that are in `idleConn`: with a negative `MaxIdleConnsPerHost` nothing
is kept and no key is there. `ServerSurvives` holds for handlers that return
complete responses and read no URL that is not there, and for requests that are
no upgrades without one. `Answered` lets go of a connection that has become an
HTTP/2 session. `RepliesInOrder` excepts the 502 behind a CONNECT's 200 and
behind a reply that broke off in the plain HTTP tunnel. `ExclusiveUse` says
nothing once some body's `fn` has run twice (`pool_fn`): the second run pools a
connection that serves another caller. `SocketsAccounted` needs servers that do
not ask for a close and Closes that do not fail, and `ResponseMatches` servers
that do not speak unasked: a late unsolicited reply is indistinguishable from
the answer. `ImplementsDuplexStream` promises nothing for what a peer sends into
a reader that setup throws away, and excepts the ends that `CutShort` names.
`TakenDown` excludes `half`,
whose connections the code never closes, only shuts down in both directions.
`CopiesEnd` excludes HTTP/2 and a websocket of `ServeHTTP` whose client stays.
`InSync` excludes unread bodies behind a handler's answer and, in the HTTP loop,
pipelining; `RepliesDecode` a 204 or 304 in the TLS loop and a broken body in the
HTTP loop; `CompleteOnlyIfWhole` the last reply of the HTTP loop, if its body
broke off. The type invariant of `MitmLoop` is proved and not run: no error in
this repository's code would show in it. `WholeBody`, `PanicsOnlyIf` and
`OriginReleased` name their exceptions in the formula.

## 4. Proofs

Every invariant that a passing run checks, and both refinements, are theorems:
they hold for every value of the constants and are checked to the last leaf by
TLAPS. Two of them have hypotheses on constants (`ServerSurvivesHolds` and
`SocketsAccountedHolds`) and two say that what they state holds until some body's
`fn` has run twice (`ResponseMatchesHolds`, `SocketsAccountedHolds`); the
condition of `ExclusiveUse` is in the property itself.

**RegretableReader** (`RegretableReaderProofs`)

* `TypeCorrect`, `TailBuffered`: the inductive invariant is the conjunction of
  the two. That a buffered read returns the right bytes needs both that
  `r <= w <=` size before the overflow and that the buffer ends where the
  stream's consumed part does.
* `Refinement`: initial states map to initial states, each kind of read to
  `ReadAgain` or `ReadNew`, `Regret` to its own, and `Forget` to its own unless
  pushed-back bytes are unread.

**Proxy: types and sessions** (`ProxyProofs`)

* `TypeCorrect`: types and handler indices in range, for arbitrary chains. One
  lemma per action; `StepTypes` reduces a step to the typing of the goroutine's
  new locals.
* `SessionsTellRequestsApart`: `SessionUnique` is not inductive by itself.
  `SessionInv` adds that every session in use or on record is at most `sess`,
  that no two connections share a session other than 0 (the session of a
  connection that has had no request), that what is on record under a
  connection's session concerns its current request, and which modes go with
  which places. Steps are of two sorts: arrivals take a session above all others
  (`ArrivalKeepsSessions`), all others keep their request's
  (`KeepsSessions`).

**Proxy: requests, replies and bodies** (`ProxyReplyProofs`)

The module first says of each action what it changes in its connection, field by
field (the `...Effect` definitions and `...Does` lemmas; `StepDoes` collects
them), and that it leaves all others alone. The invariant `PipelineInv` is then
proved from the effects, one conjunct of `PipelineAt` at a time:

* `PlaceAt`: places and modes go together, the request in hand is the current
  one, and an upgrade that filters its handshake has hijacked the client.
* `CannedAt`, for `CannedSkipsOriginHolds`: an answered request is past the
  places from which requests are sent, and while the request handlers have one,
  nothing of it has been sent (but by a handler).
* `OrderAt`, for `RepliesInOrderHolds`: while a reply is `Due` none for the
  current request has been written. A plain connection that the websocket code
  hijacked and that goes on to the round trip is owed nothing; a second reply
  follows the first in two places, the TLSConfig failure and behind a reply that
  broke off (`"broken"`).
* `RanAt` and `FilteredAt`, for `RepliesFilteredHolds`: the handlers that have
  run are the first `hix - 1`, or all and then the first `hix - 1`; the second
  pass only has responses that handlers made.
* `BodiesAt`, for `BodiesReleasedHolds`: every open body is the response's or
  has a deferred close.
* `ReleasedAt`, for `TunnelClientReleasedHolds`.

`ServerSurvivesHolds` assumes `~Lending` (no request handler like main's cffi
handler, whose 502 has no Header), `~Dropping` (no response handler that returns
nil) and `URLsUnread` (no handler or condition reads the URL of a tunnel request
that has none, and no such request is an upgrade). `WholeAt` adds that in the TLS
loop every response is complete. The run `proxy_mitm` meets the hypotheses, with
requests without a URL; `proxy_main` shows that they are needed.

**Relay** (`RelayProofs`)

* `TypeCorrect`, and `Refinement`: `Spec` implies the safety of `DuplexStream`,
  in all five modes, for any number of items and any room. `Inv` adds to the
  types what holds before the copies start (`SetupInv`: nothing is written, and
  a peer that speaks while a reader is to be dropped is noted in `eager`), that
  what a peer has read, what is written and what is on its way are consecutive
  items (`Rising`, `Gapless`), that an end of stream is behind the last of them
  (`EndIsLast`), for tunnels, that a copy has ended only behind the last item of
  its peer (`TunnelInv`), and for websockets and HTTP/2 sessions, that what takes
  them down is a stream that was passed on to its end or one of the cases of
  `CutShort` (`PassInv`), which never turn false again (`Onward`).

**MitmLoop** (`MitmLoopProofs`)

* `TypeCorrect`, `InSyncHolds`, `RepliesDecodeHolds`,
  `CompleteOnlyIfWholeHolds`. On the reading side, `RequestsInv` and
  `ReadingInv` say that reader, wire and what the client still sends are the
  rest of its requests in order, and `StepInv` that the next token is a body
  exactly when the loop is owed one; `TurnsInv` that a client of the HTTP loop
  has one request under way. On the writing side, `ReplyInv` balances what is
  left of a body with what is left of the reply, and `DecoderInv` puts the
  client's decoder where the loop's writes are, or ahead of it behind a 204 or
  304. For the HTTP loop, `PlainInv` says that a client in step lacks at most one
  reply, and that one which is not whole is the last.

**BodyHandlers** (`BodyHandlersProofs`)

* `TypeCorrect`, `WholeBodyHolds`, `PanicsOnlyIfHolds`, `OriginReleasedHolds`.
  The invariant contains the reader's `BufferIsTail`, which gives the bytes that
  a regretted reader returns again; `SentInv`, `StartInv` and `EndInv` say which
  bytes have been sent when the body stands at a position; `CloseInv` that
  someone still closes the origin's body, or has done so once `ServeHTTP` or the
  tunnel's goroutine is over (`OverInv`). Chains have one image
  handler at most (`OneReaderAssumption`).

**Transport** (`TransportProofs`)

* `TypeCorrect`, `RightTargetHolds`, `IdleBoundedHolds`, from `BaseInv`:
  connections are pooled under their own key (`KeyInv`), and
  `numExpectedResponses` covers the callers that will count it down
  (`CountInv`), so that it never goes below zero.
* `ExclusiveUseHolds`, until some body's `fn` has run twice (`FnAtMostOnce`; the
  run `pool_fn` shows that it does, for a body that is read to EOF):
  `ShareInv` says who owns a connection at every moment: one caller between
  `getConn` and its answer, a body until its `fn`, or the pool, at one place
  (`TokenInv`, `PoolInv`), and what the `readLoop` and the body are doing
  meanwhile (`LoopInv`, `BodyInv`).
* `ResponseMatchesHolds`, under the same condition: what is on the wire or
  waits to be read of a connection that is not dead was asked by its owner and is
  at most one (`AnswerInv`), as long as no server has spoken unasked.
* `SocketsAccountedHolds`, under the same condition, if no reply asks for a close
  and no TLS handshake and no Close of a body fails (`NoneLeftOpen`): open
  connections have an owner (`SockInv`). Those are the cases in which the code drops a connection without
  closing it.

The assumptions are the ones named in the modules: `HandlersAssumption` (chains
are finite sequences of handlers), `TransportAssumption` (among others, that
`"none"` is no connection), `RelayAssumption` and the others on sizes, and
`OneReaderAssumption`. Every one is evaluated by a run.

Two formulas were corrected by proofs that failed. `BodiesReleased` used to
claim more of the plain HTTP tunnel (see above); no run had a `cffi` handler in
such a tunnel together with a failing write. `IdleBounded` used to hold only for
limits that are not negative.

Only model-checked:

* everything temporal under fairness (`Answered`, `RoundTripReturns`,
  `BodyReleasesLoop`, `EndReachesPeer`, `TakenDown`, `CopiesEnd`,
  `LoopReturns`): liveness and ENABLED are outside the prover;
* the violations (`ServerSurvives` with main's handlers, `HandlersCompose`,
  `RoundTripReturns` with servers that close at any time, `FnAtMostOnce`), which
  are counterexamples and not theorems.

## 5. Not modelled

* Contents of headers; host, URL and NO_PROXY matching; charset conversion and
  image formats: data that no property looks at, or library code.
* Certificates and cryptography (`signer.go`, `certs.go`, `TLSConfigFromCA`
  beyond its failure): pure functions TLC cannot compute. The counter of
  `CounterEncryptorRand` belongs to one goroutine.
* `RegisterProtocol`, the deliberate panic of `roundTrip` for proxies with
  credentials, and the one of `getConn` for a refusal without a reason phrase.
* Signals and shutdown in `main`: one call of the server's own `Shutdown`.
* `uagen`: the code is commented out.
* The `CertStorage` a user may supply: an interface, implemented by the tests
  only.

## 6. Plan

Done: all components with state of their own, their runs, a theorem for every
invariant of a passing run and for both refinements.

What is left to prove: action properties, such as that a `persistConn` once broken is never given out
again and that a history of replies only grows; that `Proxy`'s abstraction of a
tunnel's end is what `Relay` does.
