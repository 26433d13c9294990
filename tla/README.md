# tinyssh in TLA+

A formal model of tinyssh: the session channel, the main loop that serves it,
the transport under it down to the bytes it reads, the way from a public key to
a shell, the host key from its making to a signature, the start of the process
and its clock, and the pure algorithms. TLC checks the models on small
instances; TLAPS proves what they promise, liveness and the arithmetic of the
cryptography left out, for every value of their constants.

- [The system](#the-system)
- [Modules](#modules)
- [Runs](#runs), [bounds](#bounds), [fairness](#fairness)
- [Proofs](#proofs)
- [Differences with the documents](#differences-with-the-documents)
- [What is not modelled](#what-is-not-modelled)
- [Plan](#plan)

## The system

tinysshd serves one connection per process. The process is single threaded and
event driven; concurrency comes from the child it starts, from the two helper
processes it forks, from SIGCHLD and SIGALRM, from the client, and from other
users and administrators of the machine.

| part | source | state | operations | who calls it | what is hard |
|---|---|---|---|---|---|
| channel | `channel.c`, `channel_fork.c`, `channel_forkpty.c` | `struct channel`: pid, three descriptors, pty, input buffer, two windows, EOF flag | open, openterminal, exec, put, putextended, puteof, close, read, extendedread, write, waitnohang, incrementremotewindow | handlers and loop | any order of calls; one descriptor that is input and output of a terminal; window arithmetic |
| main loop | `main_tinysshd.c` 265-446 | self-pipe, what poll reported | poll, drain, write to child, read from child (twice), check child, send, receive, process | itself | poll's answer is stale when used; SIGCHLD against waitpid; packets left in the buffer by a phase before |
| start and clock | `main_tinysshd.c` 61-262, `connectioninfo.c` | options, source of the addresses, the alarm | options, connection information, phases, timeout | main | one alarm for several phases; four fields filled one by one |
| connection protocol | `packet_channel_*.c`, `packet_global_request.c`, `packet_unimplemented.c` | `flageofsent`, `flagclosesent`, `flagchanneleofreceived` | one handler per packet type | loop | closing messages sent from two places; replies in order; repeated requests |
| packet buffers | `packet_send.c`, `packet_recv.c`, `packet_put.c`, `packet_get.c` | `sendbuf`, `recvbuf`, packet numbers, flags | put, send, sendall, recv, get, getall | everyone | full buffers, blocking sends, numbers that wrap or are reset |
| key exchange | `packet_hello.c`, `packet_kex.c`, `packet_kexdh.c`, `sshcrypto_kex.c`, `sshcrypto_key.c`, `sshcrypto_cipher.c` | offers, hash, session id, keys, strict flag | hello, kex_send, kex_receive, receive_rekey, kexdh | main | keys change with packets on their way; wrong guesses; strict mode |
| authentication | `packet_auth.c` | number of tries | service request, user requests | main | two limits that race |
| authorization | `subprocess_auth.c`, `dropuidgid.c`, `getln.c` | a child process, the file it has open, the path it found | open, check the file, check the path, read lines | authentication | names change their meaning between two calls; the last and the over-long line |
| login | `newenv.c`, `channel_drop.c`, `logsys.c`, `loginshell.c` | a table of variables, identity of the child, login records | add, replace, drop privileges, exec, record | channel_open, channel_exec, the child | two limits and a value that is gone before the new one fits; steps that fail one by one; a record that outlives its process |
| host key | `main_tinysshd_makekey.c`, `main_tinysshd_printkey.c`, `savesync.c`, `subprocess_sign.c` | two files, a child and its pipe | create, print, load, sign | the administrator, kexdh | a crash between two writes; a child that ends in the middle of a signature |
| bytes and text | `buf.c`, `packetparser.c`, `stringparser.c`, `str.c`, `iptostr.c`, `log.c` ... | none | put, parse, convert | everyone | ends of buffers, numbers at their limits |
| arithmetic | `cryptoint/`, `crypto_*.c`, `fe25519.c`, `ge25519.c`, `sc25519.c` | none | compare, multiply, reduce, encode, sign | key exchange, signing, packets | carries and corrections that matter for few inputs |

How they interact: main reads its options and starts the alarm, runs hello, key
exchange and authentication with blocking `packet_getall`/`packet_sendall`, then
the loop. The key exchange forks a process that signs, the authentication one
that reads `authorized_keys`. A KEXINIT in the loop jumps back to the key
exchange and from there to the top of the loop; the channel, the child and both
buffers stay as they are. In the loop the handlers change the channel and put
packets; the loop moves bytes between the channel and the child and between the
buffers and the network.

What makes each part correct:

- channel: the window it offers fits its buffer; a descriptor is open exactly
  as long as it is named; one channel, one child, one end.
- loop and handlers: no wakeup is lost; all the child wrote is sent, before the
  EOF; EOF, status and CLOSE once and in order; both sides count both windows
  alike; a client that keeps the rules never ends in an error; the connection
  ends.
- transport: both sides agree on key and number of every packet; no nonce
  twice; a client that is not authenticated is bounded; an exchange that is
  begun is finished.
- authorization and login: a key is accepted exactly when a file that only its
  owner can change lists it; what runs is the account's program with the
  account's rights and variables; nobody waits for ever.
- host key: the secret is private at every moment; success survives a crash;
  whatever is signed belongs to the public key that is shown.
- start and clock: options mean what their last letter says; the addresses have
  one source; the short alarm bounds the unknown, the long one the silent.
- algorithms: the answer of the reference for every input, the edges above all.

## Modules

### The connection

`Channel` is `channel.c` function by function. Every function is an operator on
the fields of `struct channel`, with the outcome of its system calls as
parameters; `die` is `bug_proto()` and its relatives. `ChannelSpec` lets an
arbitrary caller call anything with anything. Bytes are counted; a descriptor
is the name of what it was opened for, and `openfds`, what the kernel has open,
is kept apart from `fd0`, `fd1` and `fd2`, so that a leak, a double close or a
close of a shared descriptor can be seen. `plus` and `WriteToChild` belong to
the loop and to `packet_channel_send_windowadjust`; they are here because
`localwindow` is only right together with them.

`Session` extends `Channel` by everything around it in one authenticated
connection. `pc` names the block of the main loop that runs next, `watch` what
poll reported. Each block, and each packet handler, is one action; between two
of them the child (`ChildWrite`, `ChildExit`...), the client and the signal
handler may take steps. `packet_sendall` blocks: it is a place (`flush_...`) in
which the server only sends. `packet_getall` is the wait for the end of
authentication or of a key exchange, after which the loop starts with whatever
else was received. The child's pipes, poll and the client are not in the
repository and are modelled from how the code uses them.

`Transport` is the connection from the version string on, with packets that
carry the key and the number they were sealed with. `pc` is the place where the
server waits for its next packet; `Verdict` is `packet_get`. A key is the pair
of exchange hash and session id, so two exchanges never derive the same. The
hash is what goes into it: both KEXINITs, and whether the client's public key
is the guessed one. The client keeps its own keys and counters and notes in
`bad` if a packet does not fit them. `used` and `taken` are histories for the
properties.

`Framing` is the receiving side in bytes: `packet_recv` reads pieces of any size
into `recvbuf`, `packet_get_plain_` and `chachapoly_packet_get` take a packet
out when all of it is there. A byte is a position in the stream of all bytes the
client ever sent (`taken` is the one at the head of `recvbuf`), and each packet
knows from where to where it lies, so a parser that lost its place or used the
wrong key can be seen: it reads any length at all. `PacketFifo` is its abstract
specification, a queue of whole packets; `Session` and `Transport` take the
network to be one.

`Session` refines `Channel`: the run `session_wild` has `ChannelSpec` as a
property and `SessionImplementsChannel` proves it, so each step of the server
under any client is a call the channel's specification allows, and what is
proved about the channel holds in the server.

### Around the connection

`Startup` is the process from its command line to the main loop, and the alarm
clock over all of it. A phase (hello, key exchange, authentication, loop) takes
any time or fails; what happens inside is the business of the modules above.
`connectioninfo` fills the four fields from its sources in the code's order,
each source failing after any field. The clock ticks in `timeout`.

`Account` holds what a user is to the kernel (`setgid`, `setuid`, the groups)
and `dropuidgid`. `Authorize` is `subprocess_auth`: the child that becomes the
user, opens `authorized_keys`, compares the file it has open with what the path
now means, checks every directory above it and reads line by line. Each system
call is an action that may fail; between any two of them `Meddle` lets another
user change what names mean, in directories the code would not trust.
`NewEnv` is the table of `newenv.c` as a value. `Login` extends both: from
`channel_open` over `channel_forkpty` to `execve`, with the login record written
by the child and taken back by the server.

`HostKeys` is makekey, printkey, the server and its signing child over one
directory. A file is how much of it was written and how much is safe; `Crash`
loses any part that is not, names included, since the directory is never synced.

### The algorithms

`CryptoInt` has every function of the templates `cryptoint/crypto_intN.h` and
`crypto_uintN.h`. A word is the set of its bits, so that masks are set
operations; `b` chooses the body the compiler would: the portable one, the one
with carries, or the conditional select. `Sntrup` is the key encapsulation with
its divisions, polynomial inverses, codes, sorting network and the hybrid around
it. `Field` has the limbs of `fe25519.c`, `Scalar` the signed digits of
`sc25519.c`, `Curve` the formulas of `ge25519.c`, ed25519 signatures and the
x25519 ladder over numbers. `Symmetric` has poly1305 with its limbs, the block
counter of chacha20 and the padding of the two hashes; the rounds themselves are
free. `Bytes` has the buffers, parsers, strings, conversions and the log line.
They are parameterised by widths and moduli; each begins with the form these
must have (`...Parameters`), and ends with what each algorithm promises for one
input (`...Right`).

### All of them

`MCSession`, `MCTransport`, `MCFraming`, `MCAccount`, `MCHostKeys`, `MCStartup`
and `MCAlgorithms` instantiate them for TLC. `Trial` is the algorithm that is tried
and its input, `TrialIntegers` and `TrialBytes` what such a trial should show;
`MCAlgorithms` chooses the input and the proofs take any. `SessionProofs` (with the channel's
theorems), `TransportProofs`, `FramingProofs`, `LoginProofs`, `HostKeysProofs`,
`StartupProofs`, `BytesProofs` and `CryptoIntProofs` hold the theorems, each about
the module of that name.

Names follow the code: an operator with the name of a C function stands for
that function, `loop_...` for a block of the main loop, `request_...` for a part
of `packet_channel_request`. Operators marked "Slip", or whose name ends in
`_slip`, are wrong versions of the definition below them; they show that the
properties can fail.

## Runs

| run | checks |
|---|---|
| `session_life` | a command without terminal: `WatchesHold` (poll's answers are good when used), `NoLostWakeup` (self-pipe), `InputWindow` (both sides count the input window alike over data, extended data, EOF and a child that stops reading), `CreditReturns` (a used up window comes back), `EndsInOrder` (output complete, then EOF, status and CLOSE, each once), `InputNotCutShort` |
| `session_pty` | the same dangers with a terminal and with pipelined and repeated requests, of which any may be refused: `PtyKeptOpen`, `RepliesInOrder` (each request that wants a reply has one, in order, and a SUCCESS to a start is said once and only with a child), `LegalClientSurvives` |
| `session_wild` | any client, with failing kernel calls, key exchanges and hangups: `DescriptorsMatch`, `InputFits`, `CloseIsFinal`, refinement of `ChannelSpec` |
| `session_ends` | `Termination` without poll's timeout, `OutputWindow` (what the client expects is what may be sent, what is on its way and the grants on theirs) with both streams of the child carrying data, more in all than the first window, to a client that grants more as it is used up |
| `transport_life` | `PacketsAgree` (keys, numbers, session id, the number in UNIMPLEMENTED), `ExchangeCompletes` over offers with and without strict mode, with right and wrong guesses, over several exchanges, with the method none allowed |
| `transport_limits` | `LimitsHold` (packets and tries before authentication), `NonceOnce` with small limits, small numbers and a client that sends NEWKEYS out of turn |
| `framing` | `FramingTypeOK` (recvbuf is neither overrun nor emptied of bytes that have not come), `CachedLength`, `NeverStuck`, refinement of `PacketFifo` over plain and sealed packets in any pieces |
| `account` | `KeyDecision` (a key is accepted only out of a safe file, and always if nothing interferes), `ShellSafe` (identity, home, variables, records, nothing left in the server), `OnlyNamedVariable`, `Returns` (neither wait for a child is for ever), `LoginTypeOK` (the table ends within its bounds, no name twice) |
| `hostkeys` | `FilesSound` (private at every moment, whole after success through any crash), `SignerSound` (one identity, no signer left), `SignReturns` |
| `startup` | `UnknownUserBounded`, `OptionsRight` (last letter wins, one source of addresses, the none method confined), `SilenceEnds` (the alarm ends the silent, and others that are known only if a key exchange takes them too long) |
| `algorithms` | `IntegersRight`, `KemRight`, `CurveRight`, `SymmetricRight`, `BytesRight`: every algorithm against its reference over inputs that hold its edges |
| `pty_output` | ends in a counterexample, see [below](#differences-with-the-documents) |

### Bounds

- `BufSize` 2: the window is given back at half of it, so packets of 1 and 2
  reach both sides of the comparison. `PacketLimit` 2 and `WindowMax` 4: a window
  of the client can be as large as a packet, smaller, and grow to twice that.
- `SendReady` 1 and `SendCap` 6 (3 in `session_wild`): `packet_putisready` is both
  true and false, and a client that pipelines can fill the buffer.
- `NetCap` 2, `PipeCap` 1, or 2 in `session_ends`: packets and bytes are on their
  way in every combination of empty, partly full and full that the loop can tell
  apart.
- `ClientMax` 3 or 4 in `Session`, 3 and 6 in `Transport`: what a client sends of
  its own accord; each run has the packet types its question is about, so that
  all their orders occur. Answers (window adjustments, CLOSE, NEWKEYS) are not
  counted.
- `OutputMax` bytes of output: 3 in `session_ends`, with a first window (`Windows`)
  of 2, so that one stream can use the window up, or leave the other one byte of
  it, and the rest needs a grant; 2 with a window of 2 in `session_life`, where
  end of output, exit and the packets are at stake; 1 in the other two.
- `Sizes` are those of data and of window adjustments: with a window of 2, sizes
  1 and 2 use it up in one packet, in two, or leave a remainder. `session_ends`
  sends no input.
- `Failures` are the kernel calls that may fail: `env` (the table of variables is
  full, which fails the open) in `session_pty`, `env` and `fork` in
  `session_wild`, none in the others.
- The descriptor of the client is in every set the model polls. The code leaves it
  out when `recvbuf` has no room (`packet_recvisready`); at the top of the loop
  the model's `recvbuf` never has more than one read in it, and the full buffer is
  the matter of `framing` (`NeverStuck`).
- `transport_life` has the code's limits 30 and 32 and `IdMax` 40, far enough
  not to interfere; `transport_limits` makes all three small (4, 4, 7) so that
  they are reached, and keeps `MaxTries >= MsgLimit` as the code does. `Rekeys`
  later exchanges, `OutputMax` packets of output between them.
- `framing`: a `Limit` of 11 is one byte more than the smallest packet takes, so
  packets lie on both sides of it; four packets fill `recvbuf` beyond the point
  where it is not read any more, and one change of keys is both the first one
  and the one that makes packets sealed.
- `account`: seven files, one for each reason to accept or refuse, under two
  paths of which one may be redirected; a table of 13 entries and 15 units of
  space, of which a large value takes 4, so that the variables of a login just
  fit and either limit can be the one that is reached.
- `hostkeys`: files in three parts (none, some, all), three makekeys, two
  crashes, two signatures: a crash in the middle of the makekey that follows a
  crash, and a signature after a signature.
- `startup`: a short alarm of 2 ticks and a long one of 4, command lines of four
  letters out of all there are, so that a pair of opposites is followed by
  another.
- `algorithms`: words of 8 bits; rings of degree 5 modulo 79; limbs of 8 bits
  for a field of the form 2^n - 19; a curve over 37 with both its group and its
  twist; scalars in four digits of base 8 for an order of the form 2^k + c;
  poly1305 in limbs of 2 bits modulo 2^10 - 5, where every key is tried; hash
  blocks of 8 and 4 bytes. The parameters keep the relations the code's have
  (`...Parameters`); the addition chains are checked at full size. The key
  exchange takes three steps, and the ciphertext may be changed in any of its
  first three places between the second and the third.

### Fairness

`FairSpec` of `Session` assumes that the process runs (`WF(Server)`), that the
child's process and each of its output ends close one day, that the child
reads, and that the client reads, grants window when it has used it up, answers
a key exchange and a CLOSE. Weak fairness is enough since none of these is
disabled again by others. Nothing is assumed of the 60 second timeout of poll:
`session_ends` shows that the end of a connection does not depend on it.
`Termination` excepts one case, `WindowStall`: a client that has sent its CLOSE
grants no window any more, and without window the loop does not look at the
child's output.

`FairSpec` of `Transport` assumes that the process runs and that the client
reads and goes on with what it has begun. In `Login` the server and the children
up to `execve` run, and nothing is assumed of requests or of when a shell ends;
a child may be killed at any point. In `HostKeys` the two processes of a
signature run. In `Startup` time passes, and nothing is assumed of the client.

## Proofs

Every safety property of a passing run is a theorem for every value of the
constants, but for three of the [algorithms](#only-model-checked). Each module
of proofs rests on the assumptions its model states of its constants and on
nothing else, unless the theorem has a hypothesis of its own. The theorems on
`Bytes` and `CryptoInt` are about functions: they hold for every input.

| module | theorem | says |
|---|---|---|
| `SessionProofs` | `ChannelInvariant` | `ChannelSpec => []ChannelInv` |
| | `ChannelTypeCorrect` | `ChannelSpec => []ChannelTypeOK` |
| | `ChannelInputFits` | `ChannelSpec => []InputFits` |
| | `ChannelDescriptors` | `ChannelSpec => []DescriptorsMatch` |
| | `ChannelOneLife` | `ChannelSpec => OneLife` |
| | `ChannelInputStaysClosed` | `ChannelSpec => InputStaysClosed` |
| | `SessionImplementsChannel` | `Spec => ChannelSpec` |
| | `SessionKeepsChannel` | `Spec => [](InputFits /\ DescriptorsMatch)` |
| | `WatchesStillHold` | `Spec => []WatchesHold` |
| | `NoWakeupIsLost` | `Spec => []NoLostWakeup` |
| | `PtyStaysOpen` | `Spec => []PtyKeptOpen` |
| | `CloseEndsAll` | `Spec => CloseIsFinal` |
| | `InputArrivesWhole` | `Spec => InputNotCutShort` |
| | `RepliesComeInOrder` | `Spec => []RepliesInOrder` |
| | `EndsComeInOrder` | `Spec => []((~flagterminal => EndsInOrder) /\ ClosingOnce /\ OutputBeforeEof)` |
| | `OutputStaysInWindow` | `Spec => [](~Wild => OutputWindow)` |
| | `InputStaysInWindow` | `Spec => [](~Wild => InputWindow)` |
| | `CreditComesBack` | `Spec => [](~Wild => CreditReturns)` |
| | `LegalClientsSurvive` | `Spec => [](~Wild /\ "fork" \notin Failures => LegalClientSurvives)` |
| | `SessionTypes` | `Spec => []((~Wild => SessionTypeOK) /\ Bounded)` |
| `TransportProofs` | `NonceUsedOnce` | `Spec => NonceOnce` |
| | `LimitsAlwaysHold` | `Spec => []LimitsHold` |
| | `TransportTypes` | `Spec => []TransportTypeOK` |
| | `PacketsAlwaysAgree` | `Polite` gives `Spec => []PacketsAgree` |
| `FramingProofs` | `FramingInvariant` | `FramingSpec => []FramingInv` |
| | `FramingTypeCorrect` | `FramingSpec => []FramingTypeOK` |
| | `FramingCachedLength` | `FramingSpec => []CachedLength` |
| | `FramingNeverStuck` | `FramingSpec => []NeverStuck` |
| | `FramingImplementsFifo` | `FramingSpec => FifoSpec` |
| `LoginProofs` | `KeyDecisionRight` | `Spec => []KeyDecision` |
| | `ShellIsSafe` | `Spec => []ShellSafe` |
| | `LoginTypes` | `Spec => []LoginTypeOK` |
| | `OnlyNamedChanges` | `Spec => OnlyNamedVariable` |
| `HostKeysProofs` | `FilesAreSound` | `Spec => []FilesSound` |
| | `OneKeySigns` | `Spec => []SignerSound` |
| `StartupProofs` | `UnknownUserIsBounded` | `Spec => []UnknownUserBounded` |
| | `CutOffOnlyInTime` | `Spec => CutOnlyInTime` |
| | `OptionsAreRight` | `Spec => []OptionsRight` |
| `BytesProofs` | `PacketsReadBack` | `WireRight(items, cut)` for every sequence of items and every cut |
| | `BlobsExact` | `BlobFits` gives `BlobRight(x)` |
| | `SecretsShortest` | `5 + Len(x) < Alloc` gives `SecretRight(x)` |
| | `Base64Exact` | `4 * ((Len(x) + 2) \div 3) < Alloc` gives `Base64Right(x)` |
| | `StringsFit` | `StringRight(size, s, list)` |
| | `NumbersRead` | `-n < 2^width` gives `NumberRight(width, n, r)` |
| | `ListsRead` | `ListRight(s)` |
| | `AddressesShortest` | `AddressRight(ip)` |
| | `LogsWhole` | `LogRight(m)` for every line |
| | `BytesAreRight` | `Legal`, an input as above, gives `BytesRight` |
| `CryptoIntProofs` | `MasksSay` | `MasksRight(b, x, y)` for every width, body and pair of words |
| | `WordsOrdered` | `MinMaxRight(b, x, y)` |
| | `ShiftsModulo` | `ShiftsRight(b, x, s)` |
| | `BitsAndBytesCounted` | `N <= 128` gives `CountsRight(b, x)` |
| | `IntegersAreRight` | `N <= 128` and any two words give `IntegersRight` |

### The channel

The assumptions are those of the code: the buffer is not empty, a packet limit
is at least the smallest a client can impose, a window can hold the buffer and a
packet.

The inductive invariant `ChannelInv` is the three properties and two facts they
rest on. `BeforeChild`: without a child no descriptor is named and nothing is
buffered, without an open channel there is no window and no terminal; so
`channel_exec` starts from nothing, and `channel_close` before a child frees all
there is. `NamesFitMode`: without a terminal the descriptors are the three
pipes, with one they are the master; so closing one of them never closes
another. `InputFits` is kept by data (the sum of buffer and window does not
change), by writes (the buffer shrinks) and by the adjustment, which the lemma
`PlusFits` shows to fill up to the buffer's size exactly and no further. Each
action has its step in `NextInv`, with one substep per part of the invariant.
The action properties follow from the invariant, one lemma each.

### The main loop

`SessionProofs` takes the channel's invariant over: a block of the loop and a
handler is a call of `ChannelNext`, or leaves the channel alone
(`SessionImplementsChannel`), under any client and any failure. So `Base` (what
lies in the pipes and on the way in, and `ChannelInv`) holds at every step.

Over it stands `LoopInv`. `Positions` says at which place of the code the server
is and what it holds there; `Watches` that what `watch` says of the child's
descriptors still is so; `Lives` which states the child can be in for each value
of `pid`; `Installed` that whoever has a child has the handler and the
self-pipe; `Woken` that a child that ended is in the pipe, in the flag or before
the `waitpid` that sees it. `Watches` is the interesting one: between poll and a
block that relies on it other blocks run; the order of the blocks (`IsNext`) says
which ones, and each of them has to leave the descriptors of the later ones
alone. The action properties are conclusions
of single steps from `LoopInv`.

### Both ends of a connection

The last part of `SessionProofs` has the properties that relate the client to the
server. All of its invariants have one form: a count or a list that one side keeps equals what the
other side keeps and what lies on the way, which is the sendbuf and the network
in one direction (`ToClient`) and the network and recvbuf in the other
(`ToServer`). A step adds packets at an end, takes one at the other, or moves
packets between the buffers, and the lemmas about `Bytes`, `Talk` and `Share` say
what that does to the sum.

- Replies (`ReplyInv`): what the client has heard, what is on the way to it and
  what the requests on their way will get (`Pending`) are one list. A reply that
  a full sendbuf delays, or a request that is refused because a child started
  before, cannot break it. Which request a SUCCESS answers is part of it: one
  to `exec`, `shell` or `subsystem` is on its way or was heard only if there is a
  child, and there is one such answer in the whole connection.
- The end (`EndInv`): what of EOF, status and CLOSE was said is said in order
  (`Tidy`), the server's flags are what was said (`Flags`), and each place at
  which the server waits with one of them half said is named (`Phases`).
  `Drained` carries `OutputComplete`: the loop closes an output only when it is
  empty and nobody writes to it any more. With a terminal that is false, since
  its one descriptor is closed by a write error too
  ([below](#differences-with-the-documents)); the theorem says there what is
  left, `ClosingOnce` and `OutputBeforeEof`.
- The windows (`Held`): `Outgoing` and `Incoming` are the two sums, `Opening`
  and `Allowed` say which of the packets that make a window are on their way and
  what a client that keeps to the rules may have sent, `Unopened` that there is
  no window before, and `Room` that a window used up with nothing buffered does
  not stay used up. They hold while the server runs (`Settled`): a server that
  stops in an error leaves its sums where they were.
- `LegalClientsSurvive` says that under `Held` no packet can be one that a
  handler refuses, and no data larger than the window. Its hypothesis on `fork`
  is needed: a fork that fails in `channel_exec` is a `bug()` of the code, and
  the run `session_pty` has no such failure either.
- `Bounded`, part of `SessionTypes`, is the part of the types that does not need
  a client that keeps to the rules: sendbuf, recvbuf and the network stay within
  their bounds.

The hypothesis `~Wild` is the constant with which `Session` is instantiated for a
client that keeps to the rules: a client that overruns the windows has no
account of them that could agree. With `Wild` the server's own properties still
hold; they are the theorems of the table that have no hypothesis.

`Bytes` and `Talk` are functions on sequences, defined by recursion on the length.
What they do to a longer sequence is induction over data, for which the provers
cannot use the library's induction rule. Instead the lemma `Climb` takes the
least length at which a set of numbers is left, which the library's theorem on
well-founded orders gives without a parameter, and the lemmas about the two
functions cite it.

### The transport

A key is used with each number once because it is made out of the server's
KEXINIT, of which no two are the same: every key that is in use or was used
belongs to an exchange that is over (`KeysAreOld`), and while it is in use
`sendid` is above every number used with it (`NumbersGrow`). In strict mode
`sendid` is set back between NEWKEYS and the new key, where the old key is still
there; `NumbersGrow` leaves that place out, and nothing is sent from it.

`TransportTypes` holds for any client, also one that breaks the rules. Its
invariant `TypeInv` says that there is a session id exactly after a first key
exchange, that a key in use is made out of a hash and that session id, and of
which kind the body of every packet on its way is. The client is part of it,
since an offer travels to the server and comes back as a hash. Its assumption
about `Chatter` is that the client says KEXINIT, KEXDH and USERAUTH in an
exchange or a login only, not as noise without a body.

The limits of a client that is not authenticated survive that reset since strict
mode says how many packets come before each NEWKEYS (`CountedSince`), and the
packets end `packet_auth` before the tries do since every request was counted as
a packet (`TriesCounted`). These three, the types among them, hold for any
client and any width of the numbers.

`PacketsAlwaysAgree` is about a client that keeps the rules, `Polite`: on top of
what it must, it says what is allowed (IGNORE, packets of the connection
protocol, known or not); its offers have something in common with the server; a
guess of its is taken for right by the code exactly if it is; and its later
offers name strict mode only if its first one did. `MCTransport` assumes that
the client of `transport_life` is polite, so TLC evaluates the hypothesis. Most
clients that are left out break a rule. One does not: by RFC 4253 a guess that
is wrong in the host key, or in the order of preference, is a wrong guess that
the server ignores. The code looks at the method only and takes it for right, so
such a client is not understood. No theorem and no run is about it; it is one of
the [differences](#differences-with-the-documents).

The difficulty is that neither side knows where the other is: a client goes on
while its packets wait, and offers a new exchange with answers to the old one
still on their way. The invariant `Agreed` is therefore a prophecy. `Script`
says for the packets in `c2s` what the server will know before each of them
(place, keys, numbers, offer, hash, session) and which answers will be on their
way; each packet is legal where it will be taken, and the end of the script is
what the client believes, in whichever of five stages of an exchange it is
(`Knows`, `Stage`). A step of the server goes one place along (`ServerStep`,
`HandlesAgrees`: whatever is legal is handled as foretold, unless one of the two
limits is reached); a step of the client makes the script longer
(`SaysAgrees`); an answer that is heard is struck from the whole of it
(`ScriptHeard`, `HearsAgrees`). `s2c` needs no prophecy: it has at most one
packet of each kind of an exchange, in order, all up to a NEWKEYS under the key
the client reads with and the rest under the one it will have then, numbered one
by one (`Readable`, `Paired`). `Owing` counts the unknown packets of one stream
and the UNIMPLEMENTED of the other against `client.owes`.

### The framing

The theorems hold for every packet limit, tag length, number of zero bytes and
size of `b`, every set of shapes of packets and any number of packets and key
exchanges, assuming that a packet limit holds a header and a tag, and that `b` is
at least as large as a packet. The inductive invariant adds to the properties
where the packets lie in the stream (`InFrame`: each begins where the one before
ends, the first at the head of `recvbuf`), which key each is sealed with
(`InKey`: the one its predecessor leaves, the first with the server's), and when
no length is remembered (`LengthForgotten`). From it `BytesAreFramed` concludes
that bytes in `recvbuf` are always the head of a packet sealed with the key in
use, and `GetEnds` that `packet_get` has only three outcomes: it waits, it takes
the whole head, or it refuses a packet that is not well formed. Both the
invariant and the refinement follow from these three.

### From a key to a shell

`LoginProofs` has two invariants. `AuthInv` is about the child that looks for the
key: `Vetted` says what it has checked at each of its steps, and of a path it
says only that *if* its directories are safe then it was never redirected, since
before the last check it may have been; `Searched` what it has read;
`Straight` that, undisturbed, it has the file its name leads to and has missed
nothing so far; `Decided` that an answer of the server is the child's. From
these `KeyDecision` has both its halves. `LoginInv` is about the shell: the
table of variables at each step (`Tables`), the identity of the child and what
the server has of it (`Stages`), the login records (`Records`), and the property
itself for each child that has started.

Both use the lemmas on the functions of `newenv.c`, which hold for every size of
the array and the buffer: a sound table stays sound, and a call changes what the
table says of no variable but its own (`UpdatedTable` and the lemmas before it).
They are cited for one call after the other by `channel_exec` and
`channel_forkpty`, where a refused call ends the login.

### The host key

The theorems hold for every length of a key file and any number of makekeys,
crashes and signatures, assuming only that a key is not empty. Both follow from
the invariant `Inv`. Of its parts on the files, `Durable` says that the files of a
makekey that reported success are synced to their end, which is what a crash
cannot take away. It is kept because a makekey that still writes has not
reported (`Unreported`), has written what it syncs (`Progress`), and synced the
public key before it opened the secret one (`FirstIsSafe`). Of the parts on the
signer, `OneMaker` says that the files of a directory come from the makekey that
made it, which is so since mkdir refuses a directory that is there. So a key
that was loaded stays the one in the files until the machine stops
(`StoredStays`), and what was loaded, shown or sent is that key
(`LoadedIsStored`).

### The start and the clock

`Unknown` bounds the life of a process whose client is not known: the alarm and
the age together are at most one short alarm during hello, and two from there
on, as only one phase starts the alarm again. `Silence` is the opposite: in the
loop the alarm and the silence together are at least one long alarm, so what it
ends was silent that long, and in a key exchange the alarm and the time since
the KEXINIT are at least one short alarm, which is all a client has for an
exchange that is begun in the loop, silent or not. A client that is known is in
one of the two, so `CutOnlyInTime` has no other case. `Settings` and `Confined` say what the letters read so
far have set, for command lines of any length. The clock's theorems assume that
the short time is not longer than the long one.

### Bytes and text

`BytesProofs` is about functions with loops, and what a loop does to the next
byte is induction over data, for which the provers cannot use the library's
rule. Two lemmas stand in for it. `Climb` says that a set with 0 in it, and with
each number the next one, has all of them: if not, the library's theorem on
well-founded orders gives the least that is missing. `StepsExist` says that a
function defined from each place to the next exists; TLA+ takes it from a
CHOOSE, which says nothing before something is shown to satisfy it. Each loop
has then a lemma that gives the function and the equation of one step
(`WrittenIs`, `ItemsAre`, `FedIs`...), one that says what holds after any number
of steps, and a theorem.

- `PacketsReadBack`: what was put so far fits or the process is dead (`Fits`), and
  each item is where the sum of the sizes before it says. A packet that is cut
  anywhere is refused by the item that is no longer whole.
- `SecretsShortest`: the number that is written is that of the bytes, its first
  byte is not zero unless the next has its top bit set, and that makes it the
  only one of its kind.
- `Base64Exact`: the k-th character is the k-th group of six bits of the whole
  text (`Sextet`), which holds over the remainder of two or four bits that one
  byte leaves for the next.
- `AddressesShortest`: `countz` finds the first of the longest runs of zero groups
  (`RunFound`): at each group it knows the best run before it and how many
  zeros end there.
- `LogsWhole`: whatever pieces the buffer is flushed in, together they are the
  text, each shorter than the buffer.

The hypotheses say that the answer fits the buffer it is written to: beyond it
`buf_put` ends the process, which is `Dead`, and a promise about what was
written has no subject. `WireRight` has that case too. The negative number of
`NumbersRead` is bounded since the code negates it in a word of that width.
`Alloc` is at most `Largest`, since `buf_put` refuses a larger length.

### The integers

`CryptoIntProofs` takes any width that is a power of two, as the headers' are, and
each of the three kinds of machine. Its first part is arithmetic of words:
`Value` is the sum of the bits, `Low` that of the lowest ones, so that a word
splits anywhere into two (`ValueSplit`), `Word` and `Value` undo each other, a
shift is a multiplication or division by a power, and adding words whose bits
do not meet is their union. On it stand the following.

- Masks: each body ends in the topmost bit, or in a flag, of a word that has it
  exactly when the answer is yes. For a comparison that is the difference,
  corrected where it overflows (`x ^ y` and `x ^ z` disagree); that the
  correction is right at the ends of the range is the case the code is careful
  about and that few tests meet.
- Shifts: the portable body tests one bit of the count after the other and shifts
  by that power of two; after l bits the word is shifted by the count modulo
  2^l, with the sign for the arithmetic shift.
- Counts: `ones_num` adds in lanes of two, four and eight bits and then folds the
  bytes together. `Counted` says that each lane holds the number of ones of
  the word's lane, and no sum leaves its lane (`NoCarry`); `Gathered` the same of
  the fold, where a byte's lane holds the bytes at a distance of a power of two.
  That is why the width is at most 128 here: the total must fit in a byte. The
  headers' widths are 8 to 64. `bottomzeros_num` counts the ones below the
  lowest bit, which is where `x` and `x - 1` differ.

### What the proofs changed

A property that is to be proved is read more closely than one that is only
checked. What that found:

- `InputWindow` was false for an open that fails inside `channel_open` (a table
  of variables that is full): the client then has no window and the server has
  one. No run has that failure with such a client. The property now says that
  the sides agree once the confirmation is on its way (`Confirmed`).
- `OptionsLastWins` had a conjunction and an implication without parentheses and
  said less than it meant.
- In `getln` and in `Verdict` two guards of a CASE could hold together, which for
  TLA+ is a choice and for TLC the first of them. Both are now chains in the
  order of the code.
- `WindowAssumption` now says that a window can hold a packet, which the code's
  numbers do and the bounds on adjustments need.
- `CutOnlyInTime` was about the loop only. A client that is known can be cut off
  in a key exchange too, by the short alarm, and the property says so now.
- `TransportTypeOK` left out the keys, the session id and the packets on their
  way, which is where a wrong type would come from.
- `OutputWindow` is one equation over both streams and the grants on their way,
  and `RepliesInOrder` tells a SUCCESS that starts a child from the others.
- `UnimplementedNamesPacket` counts the answers by their places in the stream
  instead of filtering it, which says the same; what a client that keeps the
  rules is has a definition, `Polite`.
- `Bytes`, `Talk` and `Share` of `Session` became functions, as no prover sees
  through an operator that is RECURSIVE, and `RepliesInOrder` and `ClosingOnce`
  are stated with them.
- `WireRight` now says how many bytes are written, and that a cut is refused also
  when the last items are empty; it used to count items. `ListRight` says which
  item stands where instead of sorting; `NumberRight` takes the width and all of
  the random bytes. The `Right` operators share `ValueOf`, the number that digits
  stand for.
- The module `Bytes` allowed a key of no bytes, for which its reader's promise
  is false, and buffers larger than the code's own limit. `ed25519_parsesignpk`
  is a chain in the order of the code. In base64 at most fourteen bits ever wait,
  and the domain of the loop says so.
- `CryptoInt` took any width of at least 8. The loops of its shifts end only if
  it is a power of two, which `CryptoIntParameters` says now. Powers and values
  of words are functions.

### Only model-checked

- Liveness: `Termination`, `ExchangeCompletes`, `Returns`, `SignReturns` and
  `SilenceEnds`. They rest on fairness and so on `ENABLED`, which is out of the
  prover's reach.
- Three of the algorithms' properties. `KemRight` (division by multiplication,
  inverses, codes and sorting of the key encapsulation), `CurveRight` (field,
  scalars, group and signatures) and `SymmetricRight` (poly1305 and the padding of
  stream and hashes) rest on products modulo a number that is a constant: with
  neither factor known the arithmetic is not linear, and some of it, such as
  the group law, is algebra that no installed prover has.

`BytesAreRight` and `IntegersAreRight` are stated of any trial with a legal input;
that the trials of `MCAlgorithms` are such is left to the reader of its sets.

## Differences with the documents

One place where the code does not do what its own comment says has a run:

| run | property | the code | the document |
|---|---|---|---|
| `pty_output` | `OutputComplete` | with a terminal a write error closes the descriptor the output is read from; the output left is lost | channel.c:425 |

Three statements of `tests-plan.md` that the model contradicts; they are
expectations of tests to be written rather than promises, so they have no run:

- ORD-11 (line 698) expects no output after the local EOF. On the client's CLOSE
  `packet_channel_recv.c` 118 sends EOF and CLOSE though the child still runs,
  and the loop goes on sending its output.
- ORD-17 (line 704) expects no dependence on another poll event. Packets received
  with the last packet of authentication or key exchange wait until poll returns
  (`main_tinysshd.c` 316).
- WIN-19 (line 644) says that control messages need no window. With no window
  left the end of the child is not noticed (`channel.c` 390), so EOF, status and
  CLOSE are not sent.

Smaller ones seen while modelling: data behind the client's EOF reaches the
child while earlier data is still buffered, and data that is dropped does not
use up the window while dropped extended data does (`channel.c` 241-251); the
window spent on extended data is given back only when data is written to the
child; a later KEXINIT can switch strict mode on (`sshcrypto_kex.c` 136); a guess
counts as right if the first method the client names is one the server has,
whatever host key was guessed and whatever the server's order of preference
(`packet_kexdh.c` 33, `sshcrypto_kex.c` 124-162), where GSS-05 of `tests-plan.md`
(line 239) expects the host key to count; the comment of `str_copyn` (`str.c` 43) counts the length
without the zero at the end, the code with it; `newenv_env_` loses the old value
of a variable when the new one does not fit (`newenv.c` 71), which
`OnlyNamedVariable` shows to be all that is lost.

## What is not modelled

- The round functions of chacha20, sha512 and sha256, and `randombytes`: mixing
  has no property short of its own definition. In the connection's modules a
  packet opens under the right key and number and under no other, and a
  signature is right or wrong.
- `cryptoint/crypto_int8.h` to `crypto_uint64.h`: generated from the two
  templates that are modelled. Timing, the reason they exist, is not visible in
  a model; inline assembly is modelled as the result it is written for.
- The code of `crypto_kem_sntrup761_tinyssh.c` under `#ifdef LPR`, which is not
  compiled, the bindings to other libraries (`crypto_*_lib25519` and the like),
  and the programs and headers that find out at build time what the platform has.
- The contents of packets in `Session` and `Transport`: fields, names, parsing.
  `Bytes` has the parsers; a malformed packet stops the process there. The bytes
  of `sendbuf`.
- In `Session` a write or read of a ready descriptor moves at least one byte or
  fails for good (EAGAIN and EINTR only repeat the round); in the loop the
  kernel does not fail to make the self-pipe. poll's timeout is a step that may
  come when nothing is ready.
- Channel numbers: there is one channel, and a packet for another stops the
  process.
- Wrappers of one system call (`blocking.c`, `coe.c`, `sig.c`, `trymlock.c`): the
  callers' models have their effect.
- The tests and fuzzers of the repository.

## Plan

Done: the modules and runs above, and the theorems above. Left to prove are the
parts of the three properties of the algorithms that are linear (the padding of
the hashes, the counter of the stream, the carries of poly1305), and what follows
from the theorems when the modules are put together: `Framing` under
`Transport`, and `Transport` under `Session`.
