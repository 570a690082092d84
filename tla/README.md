# A verification of the wireless J-Link adapter

The program (`src/application`, with `src/utilities`) runs on a V831 board and
shares a J-Link probe: over USB, over WiFi as a station, or over WiFi as an
access point. One process, five threads, a handful of daemons and child
processes it starts and kills, and a configuration file on flash.

This directory holds TLA+ modules for the parts of it where order and
interleaving matter, TLC configurations that check them on small instances, and
proofs for TLAPS. `PROJECT.json` maps each definition to the lines it models and
lists the hazards of the code with the properties that cover them.

## The system

| part | state it keeps | operations | talks to |
|---|---|---|---|
| `main.c` | `__g_state`, `s_state_init`, `s_state_next`, `__g_thread_run` | init and release of everything; every 10 ms: read the keys, mode machine, `key_process` | saves to cfg, raises the flag of wifi_ctl, sets `__g_is_run` of jlink_ctl |
| `key.c` | `__g_key_info` per key, two input devices | `key_process`, `key_info_get` | called by main only |
| `cfg.c` | two files, current number, mutex, write count | `cfg_init`, `cfg_*_get`, `cfg_*_set` | called by every thread |
| `wifi_ctl.c` | copy of the settings, update flag, station state | thread: flag, read settings, kill and start daemons, poll the status | cfg, `process.c`, wpa_supplicant, hostapd, udhcpc, dnsmasq |
| `jlink_ctl.c` | `s_state`, `__g_is_run`, `__g_sn` | thread: kill, fork, USB switch, retry after 5 s | `process.c`, gpio, the J-Link server |
| `web.c` | 8 client slots, HTTP machine per client, one login flag | thread: accept, receive, pages, save | cfg, wifi_ctl |
| `udp_ctl.c` | socket and retry state | thread: discovery frames (c2000) | cfg |
| `rngbuf.c` | two indices, a buffer | put, get, count, flush without locks | a library: no source of the application calls it |
| `led.c`, `gpio.c` | none (sysfs) | write a file | |
| `process.c`, `file.c` | none | find, start, kill processes; copy files | |

What is hard here:

* *Concurrency.* Threads talk through volatile flags and the configuration; a
  request is "save some keys, then raise a flag" against "clear the flag, then
  read the keys". Saves lock twice and then copy a file without the lock.
* *Crashes.* The device is switched off by a key or a flat battery, and the
  program itself calls `reboot -f`. Every save is several writes and two syncs.
* *Slow calls.* A save blocks main, a kill may block its thread for ten
  seconds; the keys are timed by the clock of the thread that is blocked.
* *Other processes* die, resist a kill, or are not yet recognisable.
* *Streams.* A request of a browser arrives in pieces cut anywhere, clients come
  and go, and eight slots are used again and again.
* *Start and end* of five threads around one barrier and a chain of labels.

What makes each part correct: a start always finds a configuration and a save
that returned survives (cfg); the thread ends up with the last settings saved,
and one daemon drives the radio (wifi_ctl); one press moves the device one step
along USB, STA, AP (main, key); the server runs, once, exactly in the WiFi modes
(jlink_ctl); every client is answered or let go, and what the page says is saved
is saved (web); the process starts together and ends cleanly (main).

## The modules

**CfgStore** is `cfg.c` with `file_copy`. A file is two 512-byte chunks, `hd`
with the write count and `tl` with the other keys, because that is the unit in
which the mirror is copied and in which it can be seen half done. `cache` is
what a read returns now, `onDisk` the images a power loss may leave: all since
the last `sync()`. A save is the sequence `SetBegin`, `SetWrite` (the first
locked rewrite), `CntGet`, `CntSet`, `CntWrite` (the count), `SyncSave`,
`CopyStat`, `CopyTrunc`, `CopyRead`, `CopyWrite` (the unlocked copy) and
`SaveReturn`. `InitFile`, `InitDecide`, `InitEnd` are `cfg_init`. `Restart` may
come at any step.

**WifiCtl** is the wifi_ctl thread with its requesters, main (`MainSetMode`,
`MainRaiseFlag`) and web (`WebSave*`). A `cfg_*` call is one step, which
CfgStore justifies for readers and writers. Reading is three steps (mode, SSID,
password); killing is one step per daemon; the daemons and the radio are an
environment that may do what it likes. `Stubborn` is the set of daemons that
may outlive a kill.

**KeyScan** and **ModeCtl** are `key.c`, the mode machine of `main.c` and
`jlink_ctl.c`, with wifi_ctl reduced to "take the flag, go by the saved mode".
Times are counted in units of 500 ms and only while the code compares them. A
finger may stay on its key while the program starts anew; its press then counts
from the first event the new start reads.

**Web** is `web.c` with `str_get`. A client sends one request, a sequence of units
(the text of a line, its CR LF, a field of the form), and a read returns any
non-empty part of what is left of it. The thread takes one event at a time, so
each event is one step (`Accept`, `Refuse`, `Receive`, `ReceiveReboot`,
`RemoteClose`, `ServerInit`, ...). `RecvProcess` is `__recv_process` with its two
loops: `HeadLoop` takes lines, `BodyLoop` takes the pieces of the body with the
index as the code moves it (`NextIndex`). `ReqProcess` is `__req_process`: the
login, its end after 120 s, the save, the address that reboots the device.
Units count as equally long; what that leaves open is which cuts are read
twice, and the properties do not depend on it: of the cuts, `SavedUnlessTorn`
excepts the whole class in which the head's end and a part of the form come
together. **MCWeb** is the instance.

**RngBuf** is `rngbuf.c` with one producer and one consumer. A call is a look at the
other's index, a copy byte by byte, and a write of its own index; the two sides
interleave at each of these. That the steps take effect in the order of the
source is an assumption: the indices are plain ints, which is enough on the one
core of the V831 as long as the compiler keeps the order.

**Lifecycle** is `main()` with the init, deinit and thread functions of the four
services: a level of what is initialised, the barrier, the loops, the joins.

CfgStore, WifiCtl and ModeCtl are three views of one system, and each states what
the next assumes. Three abstract specifications say so:

| abstract | implemented by | what it promises |
|---|---|---|
| **DurableStore** | CfgStore with one writer (`ImplementsStore`) | a save takes effect at one moment, one that returned survives every restart, one that did not may survive or not |
| **WifiService** | WifiCtl (`ImplementsService`) | the mode the thread works with changes only to the saved one, by taking a request; a request stays until it is taken, and is taken in the end |
| **BoundedFifo** | RngBuf (`ImplementsFifo`) | a queue of `size - 1` bytes; a call decides at its begin what it moves and moves it at its end |

The mappings are at the end of each implementing module. `Visible` of CfgStore is
what a reader would get: the last complete content while a rewrite holds the
mutex. `Asked` of WifiCtl counts a request as open until the mode is read, which
is later than the flag is cleared. `WifiTakes` in ModeCtl is `Take` of
WifiService. DurableStore promises nothing for a setting that a start has shown
without its save having returned: equal write counts are taken for equal files,
and such a setting may be gone after the next start.

## The runs

| run | question | bounds |
|---|---|---|
| `cfg_one_writer` | power loss at any step of saves and of `cfg_init`; DurableStore | 1 thread, 3 saves, 3 restarts |
| `cfg_two_writers` | two savers interleaved, no power loss; liveness | 2 threads, 2 saves each |
| `cfg_two_writers_power_loss` | fails: see below | 2 threads, 1 restart |
| `wifi_safe` | requests, deaths and a stubborn udhcpc; liveness; WifiService | 2 mode changes, 1 save, 1 fault |
| `wifi_kill_timeout` | fails | 1 mode change |
| `mode_cycle` | the mode machine with keys, faults, restart; liveness | 2 presses, 1 fault, 1 restart, queue of 1 |
| `jlink_stray` | fails | 1 press, 1 failed fork, the real times: 1000, 500 and 5000 ms |
| `lifecycle` | start, signals, failing threads, end; liveness | 7 resources, 4 services: the real numbers |
| `lifecycle_init_fails` | fails | the same |
| `web` | slots, requests cut anywhere, login, leaving clients, reboot; liveness | 3 clients, 2 slots, 1 fault; login of 1, clock of 2 units |
| `web_split_body` | fails | the same |
| `rngbuf` | two sides at every byte, every position; BoundedFifo | 4 cells, calls of up to 3 bytes, 2 values of a byte |

The bounds let the interesting cases meet: three restarts let a power loss hit
a `cfg_init` that repairs an earlier one; two savers are what a race needs, and
each saves again after the other; two mode changes and a save let a request
arrive in each of the stages of another; two presses from each of the three
starting modes go round the cycle, and a restart in the middle of one leaves
the two saved settings in disagreement. Three clients on two slots are one more
than fit and let a slot be used again; the choice of requests has a login before
saves, a save without a login, a refused address, and the reboot; a login of one unit and a clock
that goes round after two let a login be fresh, stale and fresh again. Four
cells let both indices wrap, and three bytes fill the buffer; two values tell
the bytes apart. In `rngbuf` deadlock is checked: neither side ever waits.

In the five runs that check liveness no step is forced on users, faults, power or radio.
Fairness is weak for each thread's own steps, because each runs on a 10 ms
timer and every mutex is held for a bounded piece of work, and for a forked
child. In ModeCtl it is strong for the passing of time, which other steps
disable and enable. In Web it is weak for
the timer and for the events of each connection: `epoll_wait` returns one
descriptor at a time and turns to the other ready ones before it returns to the
same, and a client that has not left goes on sending. The code has no timeout
for one that does not: it keeps its slot. Where time passes in ModeCtl is an assumption there: while main saves
or has nothing to do, and while jlink_ctl kills a server that is there or has
nothing to do (`Elapse`): a kill that finds no server ends at once;
and a child calls `execl` before jlink_ctl comes to its second pass (`JlinkIdle`).
Without the second one two servers can run, which is listed as a hazard.
`CHECK_DEADLOCK FALSE` is used because the bounds, or the end of the process,
stop the models.

Deadlock, in the sense that matters here, is what the liveness properties
exclude: every save returns, the thread settles, the process ends.

### What does not hold

* `SavedSurvives` with two writers. The mirror is copied without the mutex. One
  thread's copy can empty the mirror while the other has just truncated the
  current file; the power fails; both files are empty. With one writer it holds.
* `OneRadioUser` when wpa_supplicant resists. `process_kill` returns 0 on a
  timeout (it sets `pid`, not `err`), so the reboots in wifi_ctl are dead code.
* `SavedAsSent`: when a read holds the end of the head and a part of the form, the
  index of the body loop goes back instead of on (`i -= num`), bytes of the head
  are taken for the form, and fields that come later are dropped; the page says
  that saving succeeded.
* `ServerStops`: told to stop between fork and `execl`, jlink_ctl finds nothing
  to kill, and the server runs on in USB mode. As a mode lasts at least 1.5 s
  and a fork follows its begin at once, this takes a fork that was late: in the
  trace the first one fails, and the one 5 s later falls on the end of the mode
  AP. (A left-over server that takes its time to die has the same effect.) The trace
  does not need main's saves to take long. With a restart allowed there is a
  second way: a server that a killed program leaves behind is looked for only when
  one is to be started, so that it runs on if the next start is in USB mode.
* `InitFailureEnds`: a service that cannot be initialised leaves main joining a
  thread that waits at the barrier.

Two more weaknesses are in the models without a run of their own. The station
state is kept when wpa_supplicant is gone, or the mode is DISABLE, so that
`StatusDrops` makes exceptions of both. And keys are timed by when their events
are read: main, held up by a save, can read a short press as a long one.

## The proofs

`CfgStoreProofs` proves `TypeOK`, `ReaderSeesWhole` and `NoLostUpdate` for any set of
threads, saves and restarts. The inductive invariant `StoreInv` says for each
stage what the mutex, the current file and the thread's buffer are: outside a
rewrite the file is whole and agrees with `latest`; inside one it is empty, the
writer holds the mutex, and its buffer is what the file was, with its own key
changed. The steps of the copy touch the mirror only, and during the start only
one thread runs. The assumption is `CfgAssumption`.

`WifiCtlProofs` proves `TypeOK`, `NoMissedUpdate`, `DaemonsOfMode` and
`OneRadioUser` for any bounds, the last one if neither wpa_supplicant nor
hostapd is in `Stubborn`. The first rests on: a setting that differs
from what the thread has read is announced, by a raised flag, by a requester
that is about to raise it, or by a read that is still to come. The others rest
on which daemons are gone at each stage of the kills. `ServiceRefined` is the safety
part of `ImplementsService`: the initial states and each step of the thread, its
requesters and the daemons map to WifiService or leave its variables alone.

`RngBufProofs` proves everything the run `rngbuf` checks, for every size, every
length of a call and every set of bytes: `TypeOK`, `CountsAgree`, `NoOverlap` and
`ImplementsFifo`. The arithmetic comes first: at any two indices the cases of the
code are "as much as is free" and "as much as there is" (`Counting`). The
inductive invariant `BufInv` then says of a producer at work that its bytes
still fit, whatever the consumer has done since the look, and that those it has
copied are in their cells; of a consumer that what it wants is still there, and
that what it has copied is the front of the queue. A step of one side keeps
what is said of the other because it writes outside the cells the other uses.
The assumption is `RngBufAssumption`, a size that is not 0.

`LifecycleProofs` proves the four invariants of Lifecycle for any number of resources
and services, whether or not initialisation may fail. `LifeInv` adds to them the
level that goes with each stage of main, that main is among the waiting exactly
in stage `barrier`, and that a thread above the level has not been created or
has ended. The barrier opens when as many wait as it was made for; as none but
its parties can wait, all of them do (`BarrierFull`, by cardinality), main too,
so that everything is initialised. The release takes a level away only after
the thread on it has ended. The assumption is `LifecycleAssumption`.

`WebProofs` proves `SlotsMatch` and `SaveNeedsLogin` for any number of slots,
connections and requests. The first is inductive with the types of the two
tables it relates, given that the slot `Accept` takes is free (`FirstFreeIsFree`,
which needs that a set of naturals has a least element). The second needs only
that the age of the login is a natural: whatever the machine makes of a read,
the request goes through `Expire` first, and below one round of the clock the
age reduced modulo `Wrap` is the age. The assumption is `WebAssumption`.

`CfgDurableProofs` proves what CfgStore promises across a power loss when only main
saves: `SavedSurvives`, `BootSucceeds`, `PicksNewer` and `ImplementsStore`.
`DurableInv` adds to `StoreInv` what the images of the two files may be. Its core
is `PairInv`: the power loss takes any image of the one file with any image of the
other, and of each such pair the one `cfg_init` prefers is one it can go on with
and holds every save that returned. That this is kept needs, stage by stage, that
the file which is not being rewritten has one write count in all its images
(`SaveInv` and `CopyInv`: one behind from the bump of the count to the copy, equal
otherwise), that no image is ahead of the saves begun (`ImageInv`), and what
`cfg_init` has noted of each file (`BootScan`). The hypothesis `OneWriter` says
that main is the only thread that saves, which the run `cfg_two_writers_power_loss`
shows to be necessary, and that there are at most `CntMax` saves: at `INT_MAX`
the count goes on with a value `cfg_init` takes for older, or refuses. That is
the hazard at `cfg.c:67`, two thousand million saves away.

`ModeCtlProofs` proves the three invariants and the two action properties of ModeCtl,
for any number of presses, faults and restarts. `ModeInv` says what is still true
when main acts on what it has read: the store holds the mode main is in, except
between the first pass in a mode and the end of that pass; the mode after WAIT is
the successor of the saved one; and a press that changes the mode, or has changed
it, has been read, so that it cannot be taken twice. From this follow
`OneChangePerPress` and `CycleOrder`. `PressNeverIgnored` needs in addition that
in state WAIT no press is older than the wait (`YoungInv`), and the hypothesis
`WaitTime < LongPress`: `long_press_ms` is a setting (1000 ms by default), the wait
is a constant of 500 ms, and with a setting of 500 ms or less main may drop a
long press in WAIT. `OneServer` rests on `ServerInv`: from the end of
`process_kill` to the fork no server is alive and none is between fork and `execl`,
given, as in the run, that a child calls `execl` before the next pass (`JlinkIdle`).

`WebRequestProofs` proves the rest of Web's invariants: `TypeOK`, `OwnUnits` and
`SavedUnlessTorn`, wherever the network cuts a stream. The two loops of
`__recv_process` are recursive functions, and an induction theorem is out of reach;
but that a set which has 0 and with each n also n + 1 is all of Nat is first-order
and follows from the least-number principle. From it come the existence of such a
function and that each value has what every step keeps (`UpExists`, `UpValues` for
the head; `DownExists`, `DownValues` for the body, whose index decides how much is
left). `RecvOwn` then says that a line, a request and a form are made of the
client's own units; `CloseStep` that no client is closed by a mark left in its slot;
`SavePart` and `SaveWhole` that, unless the head's end and a part
of the form share a read, the machine holds exactly what the units read so far make
of a save, and gives both fields when they are all there. `WebInv` states both per
slot (`SlotInv`, `SaveSame`); its preservation has one lemma for each kind of event.
That `HeadUnit` and `BodyLoop` yield functions on the progress of a loop, and are not
operators of two arguments, is for the provers, which take recursive functions of
one argument only.

So every invariant of the passing runs, both action properties of ModeCtl, and the safety
part of each refinement is proved. Only model-checked are the liveness properties (`SaveReturns`,
`StatusDrops`, `TerminateEnds`, `Served`, `Settles` of WifiCtl and of ModeCtl, the fairness in
`ImplementsService`), which are outside what the prover does, and what the
runs that end in a violation show.

## Not modelled

LEDs, the battery log, signal strength, HTML pages, the text of commands and
replies and the blocking write of a reply, requests that fill the 4096 bytes of
a buffer, the contents of libconfig files, full disks. udp_ctl is in Lifecycle
only: beside its thread it has the retry of Web and an answer that keeps no
state. `filter` and `crc` are pure functions that the application does not use.
Third-party code is taken as used.

## Plan

1. **UdpCtl**: retry and discovery frames, with the answer that `udp_ctl` builds
   from the settings another thread may be saving.
2. The age of a press that main reads late (`key.c:167`): a model in which time
   passes during a save, to say how long a short press may be held up.
