# xhnet in TLA+

This directory models xhnet, a C++ network library around libevent: the IO server
with its mailbox, timers, TCP and UDP sockets, the message layer of `net-qyfh`
above them, the buffers messages travel in, the counted references all of them are
held by, the memory pool, and the parts of its utilities that compute something.
`PROJECT.json` maps every definition to the source lines it stands for and lists
the model-checking runs, the theorems, and the hazards of the code the properties
were written for. Paths below are relative to `src/`.

## 1. The system

Components, their state and operations, how they interact, what is hard and what
makes them correct.

**CIOServer** (`source/net/impl_ioserver.cpp`). One libevent base, run by one IO
thread in `Run`. State: `m_status`, `m_binit`, two `std::queue`s of jobs
(`m_postdata`, selected by `m_curpost`, guarded by `m_postmutex`), the unguarded
flag `m_haspostdata`, and the registries of sockets and timers. Any thread calls
`Post`; a 1 ms timer calls `real_post`, which decides whether the server may
finish, Fini's everything registered if it is closing, swaps the queues and
drains the one it took without the mutex. Hard: posters against the drain, a job
that throws, the flag read without the lock, the order of the last releases,
termination. Correct when: jobs run once and in order, closing always ends, and
the server outlives every use of it.

**CTimer** (`impl_timer.cpp`). `m_status` null, init, begin, common, end; `Init`
retains the callback, `Async_Wait` posts `real_wait`, `Fini` posts `real_fini`;
the event calls `timer_clock`, which calls back and arms again. The post timer is
a CTimer whose callback is the server. Hard: Fini before `real_wait`, Fini from
inside the callback, a callback that throws, the callback that is the server
itself. Correct when: Fini is final, `timer_end` is the last callback and does
come, and what is registered can fire.

**CTcpSocket** (`impl_tcpsocket.cpp`). Listener, connecter or accepter. State:
type, `m_binit`, status, descriptor, two events, two queues of buffers, a
reference count, callbacks. Users call from any thread, `real_*` run as jobs,
`on_inter_*` as event callbacks, and everything that ends a connection goes
through `on_inter_close`. Hard: a close from four directions, calls overtaken by
jobs, reference counts taken for jobs and for the registry, queues that change
inside the callbacks that serve them. Correct when: references and descriptors
balance, callbacks tell the truth, a Fini'd socket is out of the server, and a
closing server gets rid of every socket.

**CTcpSocketServer, CTcpSocketClient, CTcpSocketListener** (`net-qyfh/`). A
connection that was accepted, a connection that is made and made again, and a
port: a CTcpSocket each, the first two with timers and with framing (a head, then
a body of the length in the head). State: `m_busing`, `m_status`, `m_socket`, the
timers, a reference count. Calls come from the main thread and are posted to the
IO thread; what happens there is posted back to the main thread. Hard: flags
tested on the caller's thread and acted on later; three threads that each may be
the last to let go of an object; a reconnection between a loss and a Close.
Correct when: counts balance over all threads, the main thread hears a true story
in order, what has ended is forgotten, a client keeps trying until it is closed,
and a closing thread ends.

**CNetIO** (`net-qyfh/qyfhnet.h`). The main thread's side: maps from ids to
listeners, servers and clients, `Listen`, `Connect`, `Close`, `Stop`, and the
`mainio_*` handlers. Hard: maps keyed by an id another thread assigns; entries
released before the connection has ended. **CThreadIO** (`threadio.h`) runs a
server in a thread and joins it.

**CIOBuffer** (`include/net/iobuffer.h`). Read and write cursors on pooled
memory, with typed `<<` and `>>`, two byte orders and strings with a length of
one, three or seven bytes. Correct when what is written is what is read.

**CMPage** (`source/memory/mpage.cpp`). One page cut into equal blocks; the free
list lives in the free blocks and is built lazily: a NULL link means "the block
that follows". Hard: links are read from memory users have written. Correct when
it is an allocator.

**CSameSizeMPageMgr, CMPageMgr, CMPool, COPool** (`mpagemgr.cpp`, `mpool.h`,
`opool.h`). Pages per aligned size: those in use, those waiting, the current one,
and maps from pointers to pages. Hard: five places hold pointers to pages that
one of them deletes. Correct when: they are a heap, no page is lost, idle memory
is bounded.

**CPPRef, CPPRefPtr** (`include/ref/cppref.h`): an atomic count, and a pointer that
counts. Hard: assignments through what only the old object holds; one Release that
sets off others. Correct when: counts are exact, nothing is used after its end, and
what nobody holds is destroyed. **CScopeGuard** (`include/xhguard.h`): the Releases
at the ends of handlers.

**CMsTimer** (`net-qyfh/mstimer.h`). A CTimer with a function for a callback, and
the only user of CTimer that is counted itself: the two objects hold each other
while the timer runs. State: the members of both. Hard: Start and Stop on several
threads, Fini before Async_Wait, a last Release in the middle of `timer_clock`.
Correct when: it lives once, both counts are exact, and a stopped timer lets go.

**CUdpSocket** (`impl_udpsocket.cpp`). The shape of CTcpSocket for datagrams,
unfinished: its events are given the callbacks of CTcpSocket. State: status,
descriptor, two events, two queues of buffers, a reference count. Hard:
`real_close`, which calls the user for every buffer while the status still lets
the user submit more. Correct when: a close gives everything back and happens.

**utility** (`source/utility/utility.cpp`). Calendar functions on `struct tm`,
bounded counters, a random range, `SplitString`, which tells the kinds of
addresses; and conversions, directories, libraries, UUIDs, which are calls of
others. **MD5** (`source/md5`): messages in pieces, padded blocks. Hard in both:
boundaries. **The rest**: logging, statistics, stack traces, exceptions, tests,
vendored dependencies.

Interaction: CNetIO makes listeners, servers and clients; those own sockets and
timers; sockets and timers `Post` to their server and register with it; the
server fires their events, calls `Fini` on them when it closes, and finishes when
its registries and mailbox are empty; buffers come from the pools.

## 2. Modules

| module | models | composed with |
|---|---|---|
| `Mailbox` | what Post promises: one FIFO mailbox | abstract specification of `PostQueue` |
| `PostQueue` | `Post` and swap, drain, catch of `real_post`, statement by statement | refines `Mailbox` |
| `IOServer` | the server from Init to the last Release, post timer and user timers | its inbox and batch are the mailbox, split at the swap |
| `TcpSocket` | CTcpSocket in its three roles | uses the server as mailbox, registry and sweep |
| `NetServer` | accepted connections: accepter, CTcpSocketServer, its timer, CNetIO, over three threads | mailboxes; sockets and timers reduced to what their modules show |
| `NetClient` | a made connection: connecter, CTcpSocketClient, two timers, CNetIO, Stop of the thread | the same |
| `NetListener` | a port: listening socket, CTcpSocketListener, CNetIO | the same |
| `IOBuffer` | CIOBuffer, written on one machine and read on another | |
| `BlockAllocator` | what a page promises | abstract specification of `MPage` |
| `MPage` | the lazy free list | refines `BlockAllocator` |
| `Heap` | what the pools promise | abstract specification of `PageMgr` |
| `PageMgr` | the page lists, the map, and the arithmetic of alignment | each page is a `BlockAllocator`; refines `Heap` |
| `MsTimer` | CMsTimer and its CTimer, who holds which | the server as mailbox, registry and gate |
| `UdpSocket` | CUdpSocket up to its first event | the same |
| `RefPtr` | CPPRef and CPPRefPtr but for assignments between two CPPRefPtrs, objects that hold each other | its counts are those of all the others |
| `Calendar` | beginnings and ends of days, weeks, months, years; comparisons | |
| `UIntMath` | `UINTAdd`, `UINTSub`, `GenRandUINT` | |
| `SplitString` | the loop of SplitString | |
| `Md5` | MD5Init, MD5Update, MD5Final | |
| `MCLibrary` | one instance for TLC of the modules that stand alone | `MPage`, `IOBuffer`, `RefPtr`, `Calendar`, `UIntMath`, `SplitString`, `Md5`, `UdpSocket`; a behaviour is one of a single part |
| other `MC*` | instances for TLC | |
| `*_proof` | the proofs about `PostQueue`, `IOServer`, `TcpSocket`, `NetServer`, `NetClient`, `MsTimer`, `PageMgr`; `Library_proof` has those about all that `MCLibrary` puts together | each extends what it is about |

Correspondence. Variables are the members of the classes, named after them
(`tstat` is `CTimer::m_status`, `sstat` is `CTcpSocket::m_status`, `armed` says
whether an event is pending in libevent, `fds` counts open descriptors); history
variables say so in their declaration. Actions:

* `PostQueue`. `Post` is three steps (lock and evaluate `m_postdata[m_curpost]`;
  push; flag and unlock); the IO thread swaps under the mutex, then looks at the
  front, runs the job and pops it in steps of their own. A job of the IO thread
  may post. A job in `Poison` throws whenever it runs.
* `IOServer`. The application's Post is two steps so that the IO thread can read
  the flag in between; `real_post` is gate, swap, jobs one by one; `timer_clock`
  is one step for user timers (their callbacks' effect is that of
  `AppFiniTimer`, which may happen at any time) and is split for the post timer,
  whose callback is `real_post` and whose end releases the server. `FireThrows`
  is `timer_clock` left by an exception of the user's callback, which leaves
  `event_base_loop` too, with libevent's `running_loop` set
  (`event-internal.h:207`): `Run` calls it again and again, and it returns without
  handling an event (`LoopHead`). The owner joins
  before it releases (`AppRelease`), or does not (`AppReleaseUnjoined`).
* `TcpSocket`. A handler is one step because every handler runs on the IO thread
  and shares no unguarded state with the others; what users' threads do happens
  between handlers. Handlers model everything they call, in particular
  `CloseLink` is the whole of `on_inter_close`. The kernel and the peer are the
  variable `net`. Payload is abstracted to "empty or not" and room to
  `AvailWrite()`, which may be none. `Open` tests what `Listen` and `Connect` test
  and nothing more, so a second one may be posted before the first has run; the
  job that then overwrites `m_socket` is in the model, with the descriptor and the
  reference it loses, and puts the socket into `overlaid`.
* `NetServer`, `NetClient`, `NetListener`. A step is one handler of one thread;
  `jobs` and `main` are the mailboxes of the IO thread and of the main thread.
  The count is that of the server, client or listener, not that of its socket,
  which is in `TcpSocket`. In `NetServer` the listener's thread accepts in four
  steps, because the other threads may run between its posts: On_Accept, the post
  to the main thread, the look at `m_type`, which finds the accepter
  (`FindsAccepter`) or closes the descriptor (`TurnsAway`), and the post to the
  server's thread. In `NetClient`,
  `Stop` closes the server and `Sweep` is its gate. A message is a head, whose
  buffer has room, and a body, which may have none.
* `IOBuffer`. `Put` is one `<<`, `Get*` one `>>` or `readcstring`, `Transfer`
  moves some bytes of the sender's buffer to the receiver's. Bytes have `Base`
  values, so that a string of two, seven or eight elements needs the next longer
  form of the length; `sizeof` is not scaled.
* `MPage`. Block numbers for addresses; the link of a block is a variable that
  users and malloc fill with anything.
* `PageMgr`. A step is a call of `Allocate` or `Free` (CMPool and COPool hold a
  mutex around them). Which of several pages `m_using_pages.Find` returns depends
  on addresses and is left open. Addresses are real numbers of bytes where
  alignment matters. COPool is the instance with one request.
* `MsTimer`. `Start` is two steps, `Stop` is two (the test of `m_status` and the
  Post), and the end of `timer_clock` is split at the callback, since other threads
  run between them. `Sweep`, `Finishes` and `Goes` are the gate of `real_post`.
* `UdpSocket`. `real_close` is taken apart at the user's callbacks (`draining`).
  The first event that fires ends the behaviour (`undefined`).
* `RefPtr`. An operation on a pointer leaves its Retains and Releases in `todo`;
  each of them is a step, and the last Release of an object adds the one of its
  member's destructor.
* `Calendar`, `UIntMath`, `SplitString`, `Md5`. Functions of the code are operators,
  in a machine that calls them: a clock that is looked at, an account that is kept,
  a loop, a message that comes in pieces. localtime and mktime are written from
  what they do; a byte of `Md5` is where it comes from, and a compressed block is
  the block.

## 3. Runs

Passing runs check every property named in their cfg.

* `postqueue_fifo`: two threads and the IO thread, two posts each, nothing
  throws. The two queues are one FIFO mailbox (`FifoExactlyOnce`,
  `ImplementsMailbox`), and the flag is right when the gate reads it
  (`FlagCoversQueues`).
* `postqueue_throw`: the same with one job that throws. Only the swap protects the
  drained queue and that is enough (`DrainExclusive`), nothing is lost
  (`JobsConserved`; both are parts of `Inv`), but the job is never removed and what
  is behind it in its own queue never runs (`BlockedForever`); every other job does
  (`UnblockedJobRuns`).
* `ioserver_life`: two user timers, of which one may throw, every order of
  starting, ending and stopping, owners that join and that do not.
  `EarlyTimersEnded`: nothing posted before Fini is left behind when the server
  finishes. `StopFinishes`: the loop ends, whatever timers run, unless a callback
  has thrown, and then never, because no event is handled after that.
  `FiniedTimerEnds`, `FiniIsFinal`: `timer_end` comes and is the last callback.
* `tcpsocket`: a connecter or a listener, opened twice, one after the other or one
  over the other, and the accepter the listener creates; buffers of any room.
  References and descriptors balance and a Fini'd socket is out of the server
  (`Inv`), the user's view is right (`ViewMatches`), queued buffers will be served
  (`QueuedIsArmed`), no Listen, Connect or accept stays without its one answer
  (`OpensAreAnswered`), a closing server drains (`ServerDrains`).
* `netserver`: two connections. Counts balance over three threads (`Inv`), the
  main thread hears accepted, connected, messages, closed, in order and once
  (`EventsInOrder`), messages and registered sockets have an owner
  (`OwnerIsThere`), and what has ended is forgotten by everyone
  (`EndedIsForgotten`).
* `netclient`: one client over any number of connections. `Inv`, `EventsInOrder`
  as above; a closed client ends (`ClosedEnds`), one that is not closed tries
  again after every failure (`KeepsTrying`), and a closing thread ends although
  the last expiry of the reconnect timer connects again (`StopEnds`).
* `pagemgr`: four pages, two sizes (one asked for with two alignments, one too big
  for an ordinary page), one waiting page per size. Pages are symmetric. `Inv`: no
  page is lost (`PagesAccounted`), the map is exact (`MapIsExact`), idle memory is
  bounded (`IdleIsBounded`), blocks are aligned and inside (`BlocksWellPlaced`).
  `GrowsOnlyWhenFull`, and no block is handed out twice (`ImplementsHeap`).
* `mstimer`: two users, four calls, with and without the end of the server. Counts
  are exact (`Inv`), the timer lives once (`OneLife`), a stopped one or one whose
  server closes lets go of its callback (`StoppedLetsGo`).
* `library`: the parts that have nothing to do with each other, one at a time.
  `MPage` with pages of one to three blocks and any content of memory: `Inv` (the
  head is free, no block is lost) and `ImplementsAllocator`. `IOBuffer` with two
  values of any kinds through buffers that may be too small: `RoundTrip`, and the
  bounds of the cursors, which the buffer's own overflow checks, on unsigned
  differences, could not enforce. `RefPtr` with three objects and two variables:
  `HeldExactly`. `Calendar`, six years in three zones, at every change of hour, day,
  week, month and year the steps reach, with the exceptions named below, `UIntMath`, all arguments of integers of
  five values, and `SplitString`, all strings of up to six and separators of up to
  two characters: `UtilityIsRight`. `Md5`, a message of up to 140 bytes in any
  pieces: it is hashed as if it came whole and padded as the standard says, and the
  count of bits is right over both its words (`HashesTheMessage`). `UdpSocket`, two
  buffers, which may wait in both directions: what an event finds, all counts and
  what real_close gives back (`UdpInv`), and that every Fini and every end of the
  server closes (`FiniedCloses`).

Runs that find a disagreement, one property each (details with quotations in
`findings`):

* `tcpsocket_refused`: a refused non-blocking connect is reported as success.
* `netclient_close`: a closed client can be destroyed while messages that need it
  wait for the main thread.
* `netlistener_close`: a listener that the user closes, or that fails to listen,
  is released once too often.

Some properties name a history they except. Each exception is a behaviour of the
code that the model contains, and without it the property fails:

| property | excepted | why |
|---|---|---|
| `ServerAlive` | `unjoined` | `test/test.cpp:468-481` polls `IsFinshed` and releases before it joins; the tail of `timer_clock` may still be ahead |
| `EarlyTimersEnded`, `FiniedTimerEnds` | a timer Fini'd between Init and `real_wait` | it has no event and never ends (`impl_timer.cpp:104, 111`) |
| `StopFinishes`, `FiniedTimerEnds` | `thrown` | a callback that throws leaves `running_loop` set: no event of the server is handled again (`impl_timer.cpp:176`, `impl_ioserver.cpp:222`) |
| `RefsBalanced`, `NoLostDescriptor`, `ViewMatches`, `QueuedIsArmed`, `OpensAreAnswered` | `overlaid` | a second `Listen` or `Connect` before the first has run is carried out over it (`impl_tcpsocket.cpp:130-154`, `262`, `332`), although `tcpsocket.h:112-115` says that it is ignored |
| `FiniedIsQuiet`, `ViewMatches`, `ServerDrains` | `revived` | an accepter Fini'd while `on_inter_accept_accept` waits is connected all the same (`impl_tcpsocket.cpp:547`) |
| `OwnerIsThere` | `refused`, `overtaken` | a refusal before `postin_beconnected` closes nothing (`qyfhnet.h:615`), or overtakes the accept between the look at `m_type` and the job (`impl_tcpsocket.cpp:500`, `547`) |
| `EndedIsForgotten` | filed under 0, or lost | `GetSocketID()` is 0 until another thread has run `postin_beconnected` (`qyfhnet.h:621`) |
| `UdpInv` | `late` | what is sent from On_Recv in `real_close` is never answered nor released (`impl_udpsocket.cpp:238`) |
| `FiniedCloses` | `undefined` | the callbacks of another class (`impl_udpsocket.cpp:194`), events that were never assigned (`:221`) |
| `StoppedLetsGo` | a server that ends already | it had found nothing left to wait for before the timer was started |
| `ClosedEnds` | `ignored` | a Close before `postin_connect` finds `m_busing` false (`socketclient.h:123`) |
| `EndsAreWhereTheyAre` | December, and every end of a year | `tm_yday` is incremented where the year is meant, and mktime ignores it (`utility.cpp:694`, `715`, against `utility.h:120`, `124`); theorem `YearEndsAreEarly` says what is returned instead |
| `DaysAreOrdered` | two times of different years, for `IsSameDay` | it compares days of the year only (`utility.cpp:732`, against `utility.h:127`) |

`ServerDrains` excepts `overlaid` too, for another reason: it holds of these sockets in
the model, but the model has not what libevent does with events that were assigned
while pending, so nothing is claimed.

Divergences met that no run is about, because each is one line of code against
one line of text:

* A second `Listen` or `Connect` before the first has run is not ignored, contrary
  to `tcpsocket.h:112-115`, and loses a descriptor and a reference (`overlaid` in
  `TcpSocket`). Its events are assigned anew while they are pending, which libevent
  forbids; of such a socket only the counts are modelled. A second `Listen` of a UDP
  socket before `real_listen` has run returns true, contrary to `udpsocket.h:53` (in
  `UdpSocket` the job then does nothing).
* A receive into a buffer without room is reported as `tcp_close_closedbypeer`,
  because `recv` of nothing returns 0 (`impl_tcpsocket.cpp:589`). The close is in
  `RecvCloses`; its errid is left out.
* Init after Fini is refused because `m_io` stays set (`impl_tcpsocket.cpp:104`,
  `tcpsocket.h:53`).
* A Stop of a CMsTimer from another thread between Init and Async_Wait leaves a
  timer without an event that never hears `timer_end`: CMsTimer and CTimer hold
  each other for ever, although `timer.h:39` says that after Fini an object whose
  count has come down is destroyed. `MsTimer` has the behaviour; `StoppedLetsGo` is
  about registered timers.
* The events of CUdpSocket are assigned the callbacks of CTcpSocket
  (`impl_udpsocket.cpp:194-195`), so that `Async_RecvSomeFrom` (`udpsocket.h:59`)
  never receives.
* `p = q` between two CPPRefPtrs copies the pointer and counts nothing: the
  operator that counts is a template (`cppref.h:95`), which is never a copy
  assignment operator. The old object is never released, the new one once too often.
* `GetLastMDay_23H59M59S` in December and `GetLastYDay_23H59M59S` always return the
  last second of the year before, contrary to `utility.h:120` and `124`: they
  increment `tm_yday`, which mktime ignores. No property claims these ends.
* `IsSameDay` compares days of the year only (`utility.cpp:732`, `utility.h:127`);
  `IsTimeStr` asks for a time below `time_t(-1)`, which is signed, and is false for
  every time after the first hours of 1970 (`utility.cpp:575`, `utility.h:104`).
* A manager of CMPageMgr keeps the alignment of its first request
  (`mpagemgr.cpp:283`; `BlocksWellPlaced` promises no more). `CMPage::Clear` does
  nothing for a used up page (`mpage.cpp:49`) and is called by nobody.
  `COPool::GetStat` walks the pages without the mutex (`opool.h:250`).
* A client whose host has no address when `postin_connect` runs is never connected
  and nobody is told, because no timer has been started yet
  (`socketclient.h:326-331`); a CNetIO without server threads indexes an empty
  vector (`qyfhnet.h:593`); one that is destroyed does not release what its maps
  hold.
* `readcstring` terminates the array and not the string. SplitString with an empty
  separator never ends (`utility.cpp:137`; in `SplitString`). Pieces of more than
  2^32 - 64 bytes wrap the loop of MD5Update (`md5.cpp:34`).

Every property has a mutant in its module: an operator, written before the
definition it replaces and marked "Mutant", with a plausible bug that violates
the property under the same cfg.

### Bounds

All bounds are constants or named in the module headers.

* `PostQueue`: two posters are enough for every pair of conflicting steps, and two
  posts each fill both queues and come back to the first.
* `IOServer`: each timer is started and Fini'd once by the application. Two let
  one be registered, or have thrown, while the other is being started.
* `TcpSocket`: `MaxOpens = 2` shows a socket used again after a close, and a second
  call over the first, a Fini per
  user beside those of the sweep, two buffers in each direction with room or
  none, so that one is served while another waits.
* `NetServer`: two connections share the mailboxes and compete for key 0 in
  `m_servers`; the peer of one sends a message. Each is accepted once and closed
  by the user at most once.
* `NetClient`: reconnections are not bounded. No data arrives while `MaxMain = 3`
  posts wait for the main thread: up, message, down and their repetition fit. The
  reconnect timer (ten seconds) does not expire before both threads have handled
  what was posted to them (`Reconnect`, a bound on time that is not in
  `socketclient.h:371-385`); with a thread stalled for longer two connects could
  wait at once, which is the overlaid socket of `TcpSocket`.
* `NetListener`: one Close by the user is enough for the count to be wrong.
* `IOBuffer`: strings on both sides of every change of form, arrays of no, small
  and sufficient size, a receiver's buffer smaller than the sender's.
* `MPage`, `PageMgr`: three blocks let a chain have a linked and a lazy part with
  blocks in use on both sides of the frontier, and the proofs are for any number;
  four pages give one size a current page, a waiting one, one that must be deleted,
  and a page for the other size.
* `MsTimer`: four calls let both users start and stop, in each other's way, and once
  more after the end. `UdpSocket`: `MaxCalls = 4` Listens and Finis; two buffers per
  direction; `MaxAgain = 2` submitted within real_close, one for each loop.
  `FiniedCloses` needs this bound: a user who submits a buffer for each that comes
  back keeps the IO thread in the loop.
* `RefPtr`: three objects make chains, rings and sharing, two variables let an object
  be held from outside while others go.
* `Calendar`: `Until` is the end of 2004, so that there are two leap years; `Steps`
  wander through the day and over whole years. Years are those from 1970 to 2099;
  the proof is for all of them and for any zones.
* `SplitString`: six characters hold every overlap of a separator of two;
  `MaxPieces` is above what any string can need. `Md5`: blocks of four bytes and
  words of 32 values, so that both words of the count wrap within 140 bytes;
  a piece is at most `Word - Block` long, where the loop would wrap. `UIntMath`:
  `Width` is 5, and any in the proofs.

Deadlock is not checked where the system really stops: a released server, users
and peers that do nothing more, a message that has been read.

### Fairness

`PostQueue`: a thread inside `m_postmutex` leaves it, and the post timer ticks
(it is armed again after every callback), so the IO thread goes on; posters need
not post. `IOServer`: the IO thread goes on; an armed event falls due and is
handled by some pass of the loop (strong fairness, because a pass handles events
one after the other and the loop head disables them in between); the application
leaves Post and starts the thread it initialised. Nobody has to call Fini or
Release. `TcpSocket`: the mailbox is drained, a closing server's gate runs again
at every tick; the network, the peer and users owe nothing, so `ServerDrains` is
the work of the server alone. `NetServer`, `NetClient`: every thread drains its
mailbox, the listener's thread leaves its handler, armed timers expire, a socket
that is connecting becomes writable or runs into `sf_connect_timeout`, and a
closing server sweeps. `Reconnect` is strongly fair because the bound above
disables it while posts wait; it also stands for a host that is resolved in the
end. Peers and users owe nothing. `MsTimer`: strong fairness for jobs, for the event
of a timer and for the gate, because a pass of the loop handles one after the other
while users keep posting; a thread inside Start or Stop leaves it. `UdpSocket`: the
IO thread goes on (`UdpIOStep`); events need not fire. The other parts of
`MCLibrary` have no liveness properties and no fairness.

## 4. Proofs

TLAPS proves, for every value of the constants:

* `PostQueue_proof`: `InvHolds` (from `TypeCorrect`, `DrainIsExclusive` and
  `NoJobIsLost`) and `ThrowerBlocksForever` (any threads, any bound, any set of throwing jobs);
  `Fifo`, `Implements` and `FlagIsRight` (from `Poison = {}`). The invariant
  `IInv` adds to `DrainExclusive` that a thread inside the mutex has evaluated the
  queue that is current now and that a job that runs is the head of its queue; for
  FIFO and for the flag also that the drained queue is empty whenever no drain is
  under way, which is what a throw breaks. `NoJobIsLost` needs in addition that no
  job occurs twice (`InOnePlace`): the next job of a thread is new because
  `sent` counts. Assumptions: `ThreadsAssumption`, `PostsAssumption`,
  `PoisonAssumption`.
* `IOServer_proof`: `InvHolds`, `ServerAliveHolds`, `FiniIsFinalHolds` and
  `EarlyTimersEndedHolds`, for any finite set of timers, of which any may throw
  (`TimersAssumption`, `PostTimerAssumption`, `ThrowingAssumption`). `ServerAlive` is not inductive:
  the invariant says at every position of the IO thread which status, timer state
  and thread the count comes from (`Progress`, `Counted`), how the post timer
  lives (`PostTimerLife`: until its first callback has returned no `real_fini` of
  it waits in a queue, so that overwriting `m_status` undoes nothing), and what
  state armed and registered timers are in (`TimerLife`). That no early timer is
  left behind is a second invariant on top (`EarlyInv`): the stop runs after every
  start posted before it (`Ordered`); a started timer is registered, waits for a
  job, or has been ended (`TimersRight`); so when the gate sees neither timer nor
  data there is none left, and its unlocked look at the flag does not miss one
  (`EndsLast`).
* `TcpSocket_proof`: `SocketsAreSound`, `CallbacksTellTheState`, `BuffersAreServed`
  and `OpensAreAnsweredHolds`, for any sockets, queues of any length, any number of
  calls and any behaviour of the network (`KindsAssumption`, `UsesAssumption`,
  `BoundsAssumption`). The counts alone are not inductive: that an opening job adds
  one descriptor and one registration rests on null meaning that nothing is
  registered (`WatchedAt`); that `on_inter_accept_accept` always finds null, on the
  mailbox holding it once and only while the socket is in null (`JobsAt`). A
  `real_listen` or `real_connect` that does not find null makes the socket overlaid;
  what is left of the invariant then is that no count is too low. That a socket
  without callback has nothing queued (`LifeAt`) is needed because `on_inter_close`
  then leaves the queues alone. `OpensAreAnsweredHolds` counts the opening jobs in the
  mailbox.
  The accepter that comes to life after its Fini stays in the invariant: its count
  is right, only its view is excepted.
* `NetServer_proof`: `ServersAreBalanced`, `MainHearsInOrder` and `ServersOutlive`,
  for any number of connections and messages. The jobs that hold a reference are
  counted by a cardinality over the mailbox (`Owned`), with lemmas for what taking
  and adding a job does to it. The invariant adds that the main thread is told of a
  connection once, while the creation reference is still with the listener's thread,
  and that `postin_beconnected` runs once, before there is a timer. For the order of
  the events and for the owner of a message a second invariant, `JInv`, gives every
  connection its story, what the main thread has heard followed by what waits for
  it, and ties the end of the story to the state of the socket: `postin_beconnected`
  comes before `on_inter_accept_accept`, which opens the socket at most once, after
  the main thread has been told, and not at all when the listener's thread has seen
  `real_fini`; only an open link receives or closes. One lemma (`Framed`) lets a step
  be about one connection.
* `NetClient_proof`: `RefsAreBalanced` and `EventsComeInOrder`, for any bound on
  what waits for the main thread. The invariant adds that the first
  `postin_connect` is alone (`Fresh`) and that a second `real_connect` never waits
  behind another or meets a socket in use (`OneOpen`), although the last expiry of
  the reconnect timer posts one too; that is where the assumption about the
  reconnect timer enters.
* `MsTimer_proof`: `TimersAreBalanced` and `TimersLiveOnce`, for any finite set of
  users and any number of calls. To the counts the invariant adds in which states
  of the timer jobs, event and registry can be (`Life`): an event is pending only
  for a timer that is registered, a timer that has ended without one is never armed
  again because `m_status` never comes back to init.
* `PageMgr_proof`: `PagesRight`, `GrowsWhenFull` and `PagesImplementHeap`, for any
  pages, requests, bounds and places of memory. To `Inv` the invariant adds that only
  blocks of a page are ever out (`OutOfPage`), so that the page a pointer is mapped
  to accepts it, and that a page is cut by a manager that exists and has room for a
  block (`HasManager`), so that a page that is used up is not idle. That blocks are
  aligned and inside their page is arithmetic for any sizes; it needs alignments
  below the size of a pointer to divide it (`AlignAssumption`: both are powers of
  two in the code). `ImplementsHeap` follows from the map being exact.
* `Library_proof`, the parts that stand alone:
  - `MPage`: `PageIsSound` (from `PageTypeCorrect`, `NextBlockIsFree` and
    `NoBlockIsLost`) and `PageImplementsAllocator`, for pages of any size
    (`BlocksAssumption`). That the next head is free is a fact about links, so the
    invariant is about the whole list (`FreeListIsSound`): the free blocks in the
    order they will be handed out, linked by written links below the highest block
    ever reached and by adjacency above it.
  - `RefPtr`: `PtrHoldsExactly`, for any finite sets of objects and variables
    (`ObjectsAssumption`). While a statement is under way the counts differ from the
    holders by the Retains and Releases still in `todo` (`PtrBalanced`); that none
    of these meets a destroyed object rests on a Retain being done first
    (`RetainsFirst`) and on all that can be reached being alive.
  - `UdpSocket`: `UdpRight`, for any buffers and bounds, the returns from inside
    `real_close` included. It and the former count how often a value occurs in a
    function or a sequence; the lemmas about `CountOf` say what one change does.
  - `UIntMath`: `AccountsBalance`, `DrawsInRange`, for integers of any width.
  - `Md5`: `MessageIsHashed`, for blocks, length fields and words of any size
    (`Md5Assumption`: a word of bits is a multiple of a block). The invariant is
    `Holds`: a context is the count, the whole blocks and the rest of one sequence
    of bytes; `UpdateHolds` shows that MD5Update appends its input to that sequence,
    with `AddedCounts` for the carry, `IndexOfCounts` for the place in the block,
    which the low word still tells after it has wrapped, and `PadLengthFits` for the
    padding, which is the only one the standard allows.
  - `IOBuffer`: `ReadIsWritten`, for bytes of any base, buffers and arrays of any
    size, any values in any order and all four pairs of byte orders
    (`BufferAssumption`: sizes and numbers are of four bytes, values are of the type
    their schema says). `RoundTrip` alone says nothing of where the reader is. The
    invariant does (`Faithful`): as long as no exception has left half a value written
    or half a value read (`intact`), there is a place at which each written value ends, the bytes between
    two places are those of a value (`Laid`), and `pread` is such a place. A write
    adds a place (`LaidMore`), and a read that returns has met the value written
    there (`NextHeld`): numbers come back from their digits (`MemoryBack`), lengths
    from the form their first byte tells (`LengthAtHeld`). An exception that leaves
    the cursor where it was, of a number or of `readcstring` into a small array,
    keeps all this (`ThrowsKeeps`). One that leaves a length without its string, in
    the buffer or behind the cursor, ends it; from then on only the cursors are shown
    to stay in the buffer.
  - `SplitString`: `StringIsSplit`, for any strings and separators, also empty ones
    and such that overlap themselves: the pieces and the separators between them join
    to the string (`JoinedMore`), and no piece holds a separator, because `find` stops
    at the first (`FindIs`).
  - `Calendar`: `CalendarHolds`, for any zones and any way to look at the clock from
    the first Sunday of 1970, whose week is the first that begins in the calendar, to
    the end of 2099 (`CalendarAssumption`). `DateIs` is the argument: a day is in one
    month of one year only; each function is then shown to return a time of the day
    that is meant. `YearEndsAreEarly` is about the exception, the functions that
    return the end of the year before.
  - `MCLibrary`: `LibraryIsItsParts`, a behaviour of the instance is a behaviour of
    each of the eight parts, so that what is proved of a part is proved of the run;
    with it `UtilityHolds`, from the theorems of `UIntMath`, `SplitString` and
    `Calendar`.

  The library's induction theorems take an operator, which no prover here can
  instantiate. Where `IOBuffer` and `SplitString` compute by recursion (recursive
  functions on `0..n`), that the function exists is lemma `Recursion` and what it
  returns follows by `Induction` over the *set* of numbers for which it is right; both
  rest on every set of numbers having a least one (`LeastNat`), which is the
  well-foundedness of the natural numbers, for which no operator is needed.

With this every invariant and action property that holds is a theorem, and so are the
three refinements. Only model-checked: liveness under fairness (`UnblockedJobRuns`,
`StopFinishes`, `FiniedTimerEnds`, `StoppedLetsGo`, `ServerDrains`,
`EndedIsForgotten`, `ClosedEnds`, `KeepsTrying`, `StopEnds` and `FiniedCloses`), which
is beyond the proof system; and `NetListener`, whose run shows a counterexample. No
module uses a RECURSIVE operator.

## 5. Not modelled

* The event handlers of CUdpSocket: its events are assigned the callbacks of
  CTcpSocket (`impl_udpsocket.cpp:194-195`), so `on_inter_recv` and `on_inter_send`
  are dead code and every event is undefined behaviour. Numbers of descriptors:
  that `real_close` closes one before it deletes its events is a hazard with a note.
* Send of servers and clients: `async_send` names variables that are not declared
  (`socketserver.h`, `socketclient.h`), so it cannot be instantiated. `Async_Send`
  of the socket is in `TcpSocket`.
* Heartbeats: they carry an id to the main thread and change nothing; the timers
  they run on are modelled.
* CNetIO: the choice of a thread for a connection, the queries, the setters and
  the destructor. Stop is modelled for a thread of clients; what the main thread
  has not handled by then is lost with it.
* Failures of malloc, of libevent and of `CIOServer::Init`; the destructors of the
  pools; `COPool::GetStat`, which reads without the mutex.
* The counts of sockets and timers in the `Net*` modules (they are in `TcpSocket`
  and `MsTimer`), and memory model effects: unguarded flags are read and written
  atomically.
* `MD5Transform`, arithmetic on bits without control flow. Of utility the
  conversions of numbers, letters and code pages, directories, dynamic libraries,
  UUIDs, hashes and the reading of clocks: calls of the C library, iconv and the
  system. Daylight saving time, and what strptime does with text.
* Logging, statistics, stack traces, exceptions and assertions, the lua engine and
  the tests: output and diagnostics, without a state other components depend on.
* Vendored code: `dependencies/` (libevent's and other headers) and `StackWalker`
  are five sixths of the repository's lines: of some 60,800 lines of
  implementation about 9,700 are xhnet's own, and these include the parts named
  above. The map covers the library's network, memory, reference, calendar and
  digest code; a share of the whole repository's lines says little about it.

What would come next: several clients and servers on one thread in one module, where
they share its mailbox and its end; daylight saving time in `Calendar`, where a day
is not always 24 hours and the beginnings that subtract seconds would miss midnight.
