# Verification of OT-sim

TLA+ models of OT-sim, the modular simulator of field devices, with the TLC
configurations that check them on small instances and TLAPS proofs of the
properties that carry over to every instance. All paths below are relative to the
root of the repository unless they start with a module name; `go/` stands for
`src/go/`, `python/` for `src/python/otsim/`.

- [The system](#the-system) - inventory of parts, state, operations, interactions
- [Modules](#modules) - what each module models and how it corresponds to the code
- [Runs](#runs) - what TLC checks, bounds, fairness
- [Disagreements](#disagreements) - where the code does not do what it says
- [Proofs](#proofs) - what is proved and along which argument
- [Not modelled](#not-modelled)
- [Plan](#plan)

To check a run: `tlc -config <run>.cfg <module>`; to check proofs: `tlapm` on
SupervisorProofs, CPUProofs (ModuleControl and Health), LogicProofs, IOProofs,
ModbusServerProofs, ModbusClientProofs, MQTTProofs and SunSpecProofs.

## The system

A *device* is a set of processes around one message bus (a ZeroMQ proxy between a
PULL and a PUB socket). Processes push envelopes (Status, Update, ModuleControl,
Confirmation, Metric, HealthCheck) on the topics RUNTIME, INTERNAL, HEALTH and LOG.
A Status says what a point is, an Update asks for a point to change.

| Component | State it keeps | Operations | What is hard |
|---|---|---|---|
| CPU supervisor `go/cpu/execute.go`, `cpu.go`, `go/cmd/ot-sim-cpu-module/main.go` | map of modules, `canceler` per module, a goroutine and a process per started module, `otsim.Waiter` | start, restart, cancel, stop, kill after 10 s, wait for all | goroutines and handlers share `canceler` without a lock; select among several ready cases; a process may die, ignore signals, not start |
| CPU module control `go/cpu/internal.go`, `api.go` | none of its own | enable, disable, list through the bus or HTTP | two kinds of concurrent handlers; test and use of `canceler` are separate steps |
| CPU monitors `go/cpu/monitor.go` | an error channel | subscribe, dispatch to a handler, restart | INTERNAL ends on the first error; errors sent after cancellation |
| CPU metrics `go/cpu/metrics.go`, `go/msgbus/metric.go` | metrics of each module, maps of registered counters and gauges | count, push every 5 s, register, add or set | modules and monitors restart; totals are added up; names may collide or be illegal |
| Telnet module `go/telnet` | sessions, registered confirmation channels | list, enable, disable, query | answers racing a time limit of 5 s |
| Go message bus `go/msgbus` | `confirmationHandlers`, handlers | subscribe, push, confirm | one goroutine runs all handlers and an unbuffered send |
| Logic module `go/logic/logic.go` | environment, program, mutex | tick: evaluate and publish; apply Status and Update | two goroutines, error paths inside a lock, dynamic types, NaN |
| I/O module `python/io/io.py`, `python/helics_helper` | dictionary of updates, values to send and received | time step of HELICS, Update handler | two threads, two consumers of one dictionary |
| Modbus server `go/modbus/server` | tags, registers by type and address | eight function codes, Status handler | a request is several critical sections; failure in the middle; numbers in words |
| Modbus conversions `go/modbus/util` | none | value to words and back, bits to bytes and back | truncation, sign, byte boundaries |
| Modbus client `go/modbus/client` | registers by tag, points of the scan | scan every period, write on Update | scan and writes interleave; partial scans; link down |
| DNP3 outstation and master `src/c++/dnp3` | points, buffers of outstanding commands | select, operate, update, cold restart | threads, restart flags |
| SunSpec server and client `go/sunspec` | register file laid out from models; models found, points, positions | configure, read, write; discover, scan, write on Update | positions computed twice; replies of several registers; a write that never ends; lost answers |
| MQTT client `go/mqtt` | index of the endpoint, client, values, a context per connection | connect, lose, reconnect, publish periodically or at once | generations of goroutines; retries; goroutine per publication; SIGTERM |
| Node-RED, Tailscale `go/nodered`, `go/tailscale` | child processes | start, supervise | restart loop |
| Ground truth, GPIO, wind turbine `python/...` | last values | copy between bus and outside | emergency stop across handlers |
| Message bus proxy `src/c` | none | forward | - |

Interactions. The CPU starts all other processes and passes them the configuration
file. A telnet session asks the CPU through INTERNAL and is told the result through
INTERNAL. On RUNTIME the protocol servers (Modbus, DNP3, SunSpec) turn writes of
masters into Updates; the I/O module carries Updates into the simulation and reads
the simulation back as Status; the logic module consumes and produces both; the
protocol clients turn what they read from other devices into Status and Updates into
writes to them.

What makes each part correct, and what was chosen to be checked:

- *Supervisor*: every process it started is watched until it is gone; the wait group
  counts the goroutines; shutdown ends; a process that dies is restarted; disabling
  ends the right process; what is listed is true.
- *Module control*: a request is carried out at most once, and a session is told the
  result of its own request only; a delivered request is answered.
- *Logic*: a tick works on one snapshot; no change is left unannounced unless a push
  fails; both goroutines make progress.
- *I/O*: the simulation ends up with the last value commanded; a Status describes one
  time step.
- *Modbus server*: an acknowledged write has been announced in full, a read is not
  torn, a master reads back what it wrote.
- *Modbus client*: a Status holds what the outstation had during that scan, the last
  command wins, and the other modules come to see the outstation.
- *MQTT*: one publish loop, the order of the endpoints at the start, a connection
  whenever a broker can be had, the latest values at the broker.
- *SunSpec*: the client finds exactly the models of the server where they are, and what
  it reports of a point is what that point was.
- *Metrics*: restarts register nothing twice, a topic whose monitor failed is monitored
  again, what was counted arrives in spite of lost messages.
- *Conversions*: words survive a round trip; a value loses at most the fraction, one step
  where the float product falls below a whole number, and what the products are rounded by.

The complete list of what can go wrong, each at its line and with the properties that
would show it, is `hazards` in `PROJECT.json`.

## Modules

One module per component; `MC...` gives the constants for TLC, `...Proofs` holds
theorems. No module uses RECURSIVE, so that all can be proved about. Definitions whose
comment starts with *Mutant* are not part of any specification: each is the action or
operator below it with one plausible mistake, and `mutants` in `PROJECT.json` names the
property that notices.

### Supervisor

One *supervisor* is a goroutine of `StartModule` (`execute.go:69-258`). Its `pc` names
the place in the code where another goroutine may come in between:

| `pc` | place |
|---|---|
| `starting` | top of the loop, `cmd.Start` is next (line 111) |
| `started` | the process runs, `canceler` is not made yet (before line 210) |
| `armed` | `canceler` is made, the select statement is next |
| `select` | in the select statement of line 212; `sel` is the channel it evaluated |
| `disabling`, `stopping` | in the second select of a cancelled / stopped process |
| `idle` | no such goroutine |

`Spawn` is the part of StartModule in the caller (`Waiter.Add(1)`, `go`), `Return` the
deferred `Waiter.Done()`. `Supervise(s)` is one step of the goroutine. A handler works
on a list of operations (`todo`): `Receive` takes a message of INTERNAL (several
names; enables before disables) or an HTTP request (one name), `Examine` reads the map
and the canceler, `Enable` and `Close` act on what was read. Closing a channel that is
nil or closed panics (`ClosePanics`), which net/http recovers and the bus goroutine
does not. `MapRace` is the Go runtime's abort on concurrent use of the plain map
`modules`. The INTERNAL monitor looks at the context between messages, hence
`listening`: one more message after the signal. `main` follows the main function:
`boot` (Run), `up`, `waiting` and `released` (inside `Waiter.Wait`), `returned`,
`exited`; `failed` is a Run that returned an error, `crashed` a panic. Channels are
taken from a finite pool and reused once nothing refers to them.

`Settled = TRUE` restricts requests to moments in which the earlier ones have taken
effect: an operator who looks at the list before the next command. The code does not
enforce it; the properties that hold only then are stated in runs that say so.

`ModuleSwitch` is the abstract specification for that case: modules that are on, the
number of processes of each, and whether the CPU is done. A process starts only for a
module that is on and has none; a module is switched on only when its old process is
gone; the CPU is done only when all is off. `Switch` in Supervisor is the refinement
mapping: a module is on while a supervisor that has not been told to end works for it.
It says nothing of *which* request switches: a Disable that meets the death of the
process may be lost (see Disagreements).

### ModuleControl

`Ask` registers a channel under a UUID and pushes the request; a failed push leaves the
channel registered (`telnet/modules.go`). `Serve` is `internalHandler` with its
confirmation; since INTERNAL's monitor has no error channel, a failing push or a
malformed message ends it (`internal` becomes FALSE). `Dispatch` and `Deliver` are the
confirmation case of the telnet module's subscriber: the send at `subscriber.go:135` is
unbuffered, so it needs the session to be waiting. `Timeout` is the session's five
seconds. `Lose` is the PUB socket; `lost` remembers what it dropped.

### Logic

`Lock`, `RunProgram`, `PublishStatus`, `PublishUpdate`, `Unlock` are one period of the
ticker goroutine (`logic.go:195-300`), `Receive`, `HandlerLock`, `Apply` the subscriber
with `handleMsgBusStatus` / `handleMsgBusUpdate`. A line of the program is a variable
and a function of the environment, which may fail, as `expr.Run` may. Values carry
their dynamic type, because Go's `!=` compares it and points from the bus overwrite a
boolean by a float. A pushed message may come back (`Echo`). `continue` on an encoding
error goes to the next tick with the mutex held, as in the code. A push that fails is only
logged: the environment keeps the new values, and `failed` (history) remembers which of the
two messages of the tick nobody got.

### IO

The loop of `helics_helper/__init__.py` with the actions of `io.py`: `pc` is the next
call in the order of the loop, and a phase is skipped where the loop tests that there
are no publications, endpoints or subscriptions. What a device has configured
(`kinds`: publications, endpoints or both) is chosen initially. `updated` is `self.updated`, guarded
by a mutex in the code, so an access is one step. `Update` is
`handle_msgbus_update`. HELICS is external: `RequestTime` chooses new inputs; what was
published, sent and delivered is kept in `published`, `mail` and `field`. `latest` is a
history variable: what the device commanded last.

### Register and ModbusServer

Register holds the conversions as operators, for words of Radix values (2^16 in the
code); `factor` stands for `math.Pow(10, scaling)`, a scaling being positive after
`Register.Init`. A tag's float64 is an integer in units of 1/Unit, so that truncation is
visible. With a scaling both products, `value * math.Pow(10, scaling)` on the way out and
`float64(val) * math.Pow(10, -scaling)` on the way back, are rounded, by far less than any
difference that matters, but upwards or downwards: 0.29 * 100 falls below 29 and is
truncated to 28 (with scaling 2 this happens to 1418 of the 65536 raw values of a uint16),
and 3 with scaling 1 comes back as 0.30000000000000004. `Rounded(x, factor)` therefore is
the product or either neighbour, one unit standing for any rounding error, and `Raw`,
`Bytes` and `Value` are sets. A float outside the integer type converts to
anything (Go leaves it to the implementation). A float64 has 53 bits of precision: a
64-bit register does not come back as it was above 2^53, and no claim is made about such
registers (`Exact`).

ModbusServer is a request as the code serves it: a loop over addresses with one
critical section per register (`ReadNext`, `WriteNext`), early replies at an unmapped
address or too little data (`NoRegister`, `TooShort`), the push and the reply
(`WriteDone`, `ReadDone`), and `Status` of other modules between any two of them. The
mbserver library hands over one request at a time. Three history variables say which
written values nobody was told of, what was written to which register, and which values
a tag had during the request.

### ModbusClient

The gateway of `testing/e2e/README.md`: the client with the outstation it polls.
`Init` is Run after `subscriber.Start`, with `this.client` still nil; `NewClient` is line 215.
An Update for a coil or a holding register in between is a call of a nil interface: `Panic`
ends the process with all it has received, and `Restart` is the CPU, which starts it again.
`BeginScan`, `ReadRegister`, `PushStatus` are one period of the scan goroutine
(`client.go:215-290`), in any order of the registers, since the code ranges over a map;
`HandleUpdate` and `WritePoint` are `handleMsgBusUpdate` point by point. The library lets
one request through at a time, so that a request is a step. A request that fails (no
link, no such address) leaves its register out of the Status and the scan goes on; a
Status without any register says `connected = 0`. The outstation is the tags of a
ModbusServer, and requests about one register are atomic there. `Configure` is the rule
that the last of two elements with the same tag counts. Values pass through the
conversions of Register in both directions. `held`, `could`, `told`, `last` are history: what
the outstation had during this scan, which states the link was in, those of the scan behind
the last Status that was delivered, and what was commanded last.

### MQTT

A *generation* is one connection: it begins in `connectAndRun`, gets a context of its
own, and the handler that the library calls when the connection is lost begins the next.
`Dial`, `DialResult` are `connect` and its retry with the index of the endpoint
(`mqtt.go:200-245`), `Spawn` is `go this.run(cctx)`, `ConnectionLost` and `HandleLost`
the handler with `cancel()` (`335-343`), `Tick`, `StopLoop` the publish loop. Each
publication is a goroutine (`pending`, a bag) that uses the client there is when it runs:
none panics, one without a connection loses the message. Without a `<period>` a Status is
published at once. `Sigterm` and `Exit` include that main looks at the signal only after
`otsim.Start` has returned. `steady` is history: brokers reachable ever since the present
search began.

### SunSpecModel, SunSpecServer, SunSpecClient

SunSpecModel holds schemas, data types, scaling and `Configure` of the server: loops
over the models, their points and their elements, written as recursive functions
(`AddModels`, `AddPoints`, `AddChildren`), that yield registers by address and points by
name. As in the code, points of all models share one name space, an element is also put at
the next free address, and model 1 has to be *among* the models. The text of an element is a number
or a tag, and no text at all is a tag too: `""` gets an entry in `this.tags` (`tags` of the
result), and from then on every register without a tag reads as 0 (`Current`).
SunSpecServer serves one request register by register (`ReadNext`) with `Status` in between;
`Write` is the handler of function 16, whose loop never advances its address (`Hung`). SunSpecClient composes the
two over the Modbus library: `waiting` and `reply` are the one request on the wire, a
request may time out and its late answer is dropped. `Ask`, `Identified`, `GotModel`,
`GotData`, `DiscoveryFails` are `Run` and `discover`; `Wake`, `Scanned` the scan; `Skip`,
`WritePoint`, `WriteEnds` the Update handler. `Process` is told whether its Status could be
pushed (`sent`): a failed push ends Run during discovery and is only logged during a scan.
Positions of points for writing are counted in bytes, as in `util.go`. `MapRace` is the abort of the Go runtime on concurrent use of
`this.points`.

### Health

The metrics pushers of the modules, the monitors of the CPU with the goroutine of
`cpu.go:182-198` that starts them again, and `metricsHandler`. `MonitorFails` is an error
of the socket or of a handler: HEALTH, LOG and RUNTIME report it and are started again,
INTERNAL has no error channel and ends. `naming` is what `nameRegex` makes of the names, of
which Prometheus accepts those in `Legal`. The library panics in three cases (`Panics`): a
name is registered already, a name is illegal, a counter would go down. A counter is added
to, although what arrives is a total (`Updated`).

## Runs

All numbers of states are distinct states.

| Run | Instance | Checks |
|---|---|---|
| supervisor_races | 1 module, 2 supervisors, 3 channels, the bus and an HTTP handler, all faults; 1.1 million | `TypeOK`, `Watched`, `WaiterCounts`, `WaitMeansStopped` |
| supervisor_live | 1 module, 2 supervisors, 2 channels, dying processes; 77 000 | `ShutdownCompletes`, `RestartedIfItDies`, `DisableStops` |
| supervisor_settled | 2 modules, settled requests; 390 000 | `Orderly` (one supervisor per module, no panic, a true list), `ImplementsSwitch` |
| control | 3 sessions, losses, failing pushes, malformed messages; 6 400 | `ControlInv` (types, `OnceOnly`, `StuckOnlyByTimeout`), `AnsweredUnlessTimeout` |
| logic | 4 variables (3 tagged), 4 lines, one message handled and one waiting, failing pushes; 540 000 | `LogicInv` (types, `Snapshot`), `NoLostChange`, `KeepsEvaluating` |
| logic_nan | the same with an average over no reading | `KeepsEvaluating` is violated |
| io | 2 publications, 2 routes, 1 subscription, 3 values, all three kinds of devices; 155 000 | `IOInv` (types, `StatusOfOneStep`), `PublicationNotLost`, `EndpointNotLost`, `SimulationFollows` |
| modbus_server | 3 tags, coils, one- and two-word registers, gaps, 15 requests, failing pushes; 723 000. Conversions: words of 3 bits, values -840..840 in steps of 1/200, factors 1, 10, 100, up to 10 bits | `ServerInv` (types, `ReadNotTorn`), `AckedIsPushed`, `ReadBack`, `RoundTrip` (`WordsSurvive`, `ValueTruncated`, `BitsSurvive`) |
| modbus_client | 3 tags, one of them missing on the outstation; 2 commands of up to 5 points, 1 loss of the link or failed push, 1 change of the field, panics before the client exists; 973 000 | `ClientInv` (types, `ScanComplete`, `ConnectedHonest`), `StatusFresh`, `LastCommandWins`, `MirrorConverges` |
| mqtt | 2 brokers, 3 generations, 2 changes of brokers, with and without a period; 84 000 | `MQTTInv` (types, `OneLoop`, `NilClientOnlyAtStart`, `PriorityAtStart`), `Reconnects`, `BrokerCatchesUp`, `TermEnds` |
| sunspec | 8 schemas, 12 configurations, 4 writable points; 1 Status, 1 Update, 1 lost answer, 1 failed push; 96 000 | `TypeOK`, `Discovered`, `ReportsTrue`, `HangIsReported`, `Converges` |
| health | 2 modules, 2 counters, 1 gauge, names that are distinct, collide or are illegal, 2 faults, 1 restart; 283 000 | `HealthInv` (types, `CrashOnlyByName`), `MonitorsRevive`, `CounterArrives`, `GaugeSettles` |

What some of the runs show. *modbus_client*: however the scan, the writes, the field and the
link interleave, nothing of an earlier scan gets into a Status, and a Status that was
overtaken by a write is corrected by the next one; the unmapped meter does not keep the
other registers from being reported. *mqtt*: losing a connection again before the old
loop has noticed never leaves two loops, the search wraps around the list, and
publications that overtake each other are corrected. *sunspec*: the layout that the
client computes from what it reads is the one the standard gives the configuration
(`ModelAt`, `Homes` do not use what Configure computed); the twelve configurations are one
for each way to accept or refuse a list, one in which two models have the point DA and one
model has texts only, and one with an element without a text, which the client never gets
through with. *health*: restarts of modules and monitors at any point lose messages, never
metrics.

Bounds and why they are enough. Two supervisors for one module are the least number with
two goroutines that fight for one canceler; three channels let one of them make a new
one while the field holds another and the second supervisor still waits on a third. (In
supervisor_live there are two, and that last step waits; the state it would lead to is
that of the previous restart up to the name of the channel.) Two handlers are one of
each kind, and a request that enables and disables in one message reaches the
two-operation case. With two modules (`settled`) a channel freed by one may be reused
for the other. Three requests let one block
the subscriber, one be behind it, and one be made afterwards. In Logic the program
assigns a tagged variable twice, has a line that fails for one of the types, and an
untagged intermediate; one message can be handled while another waits and the ticker is
anywhere in its tick. In IO three values separate a boolean conversion (0, not 0) from
the identity; several tags in one message, several topics and several endpoints per tag
all occur. Registers with words of 3 bits meet the limits of every integer type of one
and two words; ten bits cross a byte boundary with and without a remainder. The Modbus
server is run with words of one bit, which keeps a two-word signed register with a
scaling down to four raw values. In ModbusClient the two commands conflict on both tags,
one of them names a tag twice, and half a unit separates truncation from the identity;
one loss and one return of the link, or one push that fails, fall anywhere in a scan. In
the conversions one unit of 1/Unit is the rounding of a product; Unit is at least twice every
factor, so that a rounding is less than half a step. MQTT needs three
generations for a second loss while the first loop still runs, and two brokers for the
index to wrap. In SunSpec, Modulus 1024 keeps every address, identifier and length below
the end mark; the writable points are one for each effect a write can have (a register
with a value, a gap, a text, a point without an address). MaxUnsent 1 is a push that fails
during discovery or in any scan. In Health a total of 1 with Cap 3 tells a counter that
holds the total from one that holds more.

`CHECK_DEADLOCK FALSE` appears where the system may stop: the CPU has exited, every
telnet session has ended, the logic module waits for its own lock, the MQTT module has
exited, the SunSpec client has given up, or the CPU has panicked.

Fairness. Nothing is assumed of operators, masters, the bus, signals, brokers, links,
field devices, faults, or of processes that should exit. Assumed is:

- goroutines and threads that can run do run (weak fairness of each);
- a Go select statement picks among ready cases at random, so a case that is ready
  again and again is taken in the end (strong fairness of `Stop` and `Cancel`: without
  it a process that always dies first would hide the end of the context);
- `sync.Mutex` hands the lock to a waiter that has starved for a millisecond (strong
  fairness of the two lock actions of Logic);
- a timer fires, a ticker ticks, a sleep ends, and SIGKILL works (weak fairness): the
  scan and the handler of ModbusClient, the connecting, ticking and publishing goroutines
  of MQTT, server, reader and writer of SunSpec, `Push`, `MetricsHandler` and `StartAgain`
  of Health; that the process of ModbusClient makes its client and is started again;
- HELICS grants the times that are requested.

`ShutdownCompletes` and `SimulationFollows` assume in addition that requests and
updates cease, `MirrorConverges` that the link stays up, `Reconnects` and `TermEnds` that
some broker stays reachable from some time on, `BrokerCatchesUp` that the connection
lasts, `Converges` that the server answers; that is part of the formulas.

## Disagreements

One run expects a violation. `logic_nan`: an average over no reading is 0/0; a NaN cannot
be encoded, and the `continue` at `logic.go:243` leaves the mutex locked: the module never
evaluates again (README.md:54-56).

Other facts about the code that the models contain, and that bound what can be claimed:

- *Requests that meet.* `Orderly` and `ImplementsSwitch` hold for settled requests only:
  the unsynchronised canceler is no protection against two requests at once. A Disable
  that arrives while the process is being restarted closes the channel of the earlier
  process and is lost. If `cmd.Start` fails on a restart the goroutine returns, and as
  `canceler` stays non-nil the module is still listed as enabled (`execute.go:120`).
- *Enable after Wait.* An Enable that is handled after `Waiter.Wait` has returned
  (`main.go:43`, "wait for all started modules to stop") starts a process that outlives
  the CPU. `WaitMeansStopped` is about the moment in which Wait returns.
- *Telnet.* A session that gives up before its confirmation arrives, and nothing else,
  blocks all later confirmations for ever (`subscriber.go:135`). A malformed message ends
  the INTERNAL monitor, which is never started again (`cpu.go:182-198`).
- *I/O with publications and endpoints.* `action_publications` clears the dictionary
  before `action_endpoints_send` looks at it (`io.py:205`, `209`), so an update for an
  endpoint is lost unless it arrives between the two. The properties and theorems are
  about devices with one of the two.
- *Modbus writes of several registers* that meet an unmapped address leave the earlier
  tags changed and unannounced (`coil.go:109`, `holding.go:108`); `AckedIsPushed` is about
  acknowledged writes.
- *MQTT.* The order of endpoints counts at the start only: after a loss the search goes
  on behind the endpoint that failed (`mqtt.go:213-218`; compare `mqtt.go:26`). SIGTERM
  before the first connection has to wait for a broker (`mqtt.go:200`). Without a period,
  a Status before the first attempt to connect finds a nil client and panics (`236`).
- *Logic.* A push that fails is not repeated: the environment has the new value, so the next
  tick sees no change and no Update announces it (`logic.go:291-293`). Other modules learn it
  from the next Status.
- *Modbus client.* An Update before `client.go:215` finds a nil client and panics; the CPU
  starts the module again and the command is lost.
- *Metrics.* Modules push totals every five seconds (`metric.go:44-68`) and the CPU does
  `counter.Add` with each (`metrics.go:51`). A counter described as the "number of status
  messages processed" (`modbus/server/server.go:201`; `io.py:133-136`) therefore shows more
  than that from the second push on, and grows while nothing is counted; in Health,
  `shown[x] <= value[x]` fails after six steps. `CounterArrives` claims only that what was
  counted is contained in what is shown. Two names that `nameRegex` makes one, or one with a space or a leading digit,
  which it leaves as it is, panic the CPU (`metrics.go:43`, `55`).
- *SunSpec.* The client never applies scale factors, so the other modules see raw
  numbers. Addresses for writes are counted in bytes (`util.go:89`, `111`), so a write
  reaches another register or none. A write that reaches a register with a value never
  ends (`server.go:288-331`). The server accepts lists whose first model is not 1
  (`server.go:179`), which the client refuses, and numeric scale factors, which the client
  rejects (`util.go:92-101`). A number written to a text point panics the client, and so
  may the unprotected map of points (`client.go:227`, `290`). Models that have a point
  name in common share one entry, and the other modules hear of one or the other in turn
  (compare `go/sunspec/README.md:63-64`); a model of texts only clears the connected flag.
  An element without a text makes every register without a tag read as 0 (`server.go:157-163`), the
  header of the list among them, so that no client gets past it.

## Proofs

The proof modules prove their theorems for every value of the constants that satisfies the
assumptions of the modules. These say that constants have the types the code gives them and
that marks such as Nil or None differ from values; TLC evaluates them in every run. The ones
with content are:

- `ConstantsAssumption` (Supervisor): there are finitely many supervisor identities, so that
  they can be counted;
- `RegisterAssumption`: the number of values of a word is even, so that signed numbers are
  half of them;
- `RegistersAssumption`: registers are of one or two words (see above), Unit is a multiple of
  their factors, coils and discrete inputs are one unsigned address;
- `RequestsAssumption`: a request has the shape mbserver gives it and, unless it is function
  6, does not end inside a register; a write that does runs beyond its data in the code and is
  listed as a hazard;
- `ClientAssumption` (ModbusClient): registers are of one or two words, and points are
  integers;
- `SchemaAssumption`: what the published SunSpec schemas have in common. A model begins with
  the points ID and L of one word, no two of its points have the same name, a point has the
  size of its type if Register.Init knows the type, no id is that of the end mark, and a
  length fits into a word;
- `ServerAssumption`, `ClientAssumption` (SunSpec): types of configurations, levels, updates.

Some theorems have a hypothesis that the code does not ensure: `Patient`, `Disjoint`, and for
SunSpec `Plain` and `Fitting`, see below. MCSunSpec assumes the last two of all but one of its
configurations, so that TLC confirms them of the instance of the run.

| Theorem | Statement |
|---|---|
| `SupervisorProofs!TypeCorrect` | `Spec => []TypeOK`; in particular the wait group never becomes negative |
| `SupervisorProofs!WaiterCorrect` | `Spec => []WaiterCounts` |
| `SupervisorProofs!WatchedCorrect` | `Spec => []Watched` |
| `SupervisorProofs!WaitCorrect` | `Spec => WaitMeansStopped` |
| `SupervisorProofs!OrderlyCorrect` | `Patient => (Spec => []Orderly)` |
| `SupervisorProofs!SwitchImplemented` | `Patient => (Spec => ImplementsSwitch)`: the refinement of ModuleSwitch |
| `CPUProofs!ControlCorrect` | `Spec => []ControlInv`, for any set of requests, with all faults |
| `LogicProofs!LogicCorrect` | `Spec => []LogicInv`, for any program |
| `LogicProofs!NoLostChangeCorrect` | `Spec => []NoLostChange`, for any program, with failing pushes |
| `IOProofs!InvCorrect` | `Spec => []IOInv`: the types, and every Status is of one time step |
| `IOProofs!PublicationCorrect` | without endpoints, `Spec => []PublicationNotLost` |
| `IOProofs!EndpointCorrect` | without publications, `Spec => []EndpointNotLost` |
| `ModbusServerProofs!WordsComeBack` | words, converted to a value and back, yield the same number, or with a scaling the next one towards zero, however the products are rounded; for words of every size |
| `ModbusServerProofs!ValueTransported` | a value the register can hold loses less than one step, with a scaling a step and two roundings; it comes back beyond itself by at most one rounding and never across zero; for words of every size |
| `ModbusServerProofs!BitsComeBack` | coils, packed into bytes and unpacked, come back with fewer zeros behind them than a byte has bits; for bytes of every size |
| `ModbusServerProofs!AckedCorrect` | `Disjoint => (Spec => []AckedIsPushed)` |
| `ModbusServerProofs!ServerCorrect` | `Disjoint => (Spec => []ServerInv)` |
| `ModbusServerProofs!ReadBackCorrect` | `Disjoint => (Spec => []ReadBack)` |
| `ModbusClientProofs!StatusFreshCorrect` | `Spec => []StatusFresh` |
| `ModbusClientProofs!ClientCorrect` | `Spec => []ClientInv` |
| `ModbusClientProofs!LastCommandCorrect` | `Spec => []LastCommandWins`, for any sequence of Updates |
| `CPUProofs!HealthCorrect` | `HealthSpec => []HealthInv`: the CPU panics over a metric only if two names become one or one is illegal |
| `MQTTProofs!MQTTCorrect` | `Spec => []MQTTInv`, for any list of endpoints and number of lost connections |
| `SunSpecProofs!SunSpecLayout` | `Plain => (Spec => [](dev.ok => Layout))`, for any schemas and configurations |
| `SunSpecProofs!SunSpecTypes` | `Plain => (Spec => []TypeOK)` |
| `SunSpecProofs!SunSpecDiscovery` | `Plain => (Spec => Discovered)` |
| `SunSpecProofs!SunSpecReports` | `Plain /\ Fitting => (Spec => ReportsTrue)` |

*Supervisor.* `TypeOK` alone is not inductive: `waiter - 1` is a natural number only if
the goroutine that returns is counted. The invariant is

    IInv == TypeOK /\ WaiterCounts /\ Watched /\ Assigned

where `Assigned` says that every live supervisor works for a module of the map. Each action gets a
lemma about how it changes `Live`: Spawn adds one element, Return removes one, all
others leave it; the cardinality facts of FiniteSetTheorems turn that into `waiter`.
`WaitMeansStopped` follows from `WaiterCounts` and `Watched`: Wait returns at count
zero, so nothing is live, so nothing that runs is watched, so nothing runs.

*Supervisor, orderly requests.* `Patient` is what an operator has to do for the code to be
right: wait until a request has taken effect, name a module once in it; and what must not
happen: a process that refuses to be restarted (exit 101) or cannot be started again
leaves a canceler behind that no supervisor serves. Missing executables and processes that
die at any moment are allowed. Then

    OInv == SingleSupervisor /\ Booting /\ AfterSignal /\ OneRequest /\ Loop /\ Kept /\ Requests

is inductive together with `PrivInv`, which says that the cancelers of two modules are distinct
channels: one request is handled at a time (`OneRequest`), until the signal a canceler
belongs to a live supervisor (`Kept`), which waits on just that channel (`Loop`), and the
modules of operations that are still to be done are as the request found them (`Requests`).
`Orderly` follows. For the refinement, `SingleSupervisor` turns the counting of processes
into a yes or no per module (`Mapping`), every action is shown to be one of the few changes
that `SwitchStep` allows, and each of these is a step of ModuleSwitch or a stutter.

*ModuleControl.* `Located(r)` says where request r can be, given the state of its session:
waiting for the CPU and not served, or served and then in the queue to the telnet module,
in the send, or answered, one of them. With queues that hold nothing twice, `OnceOnly` and
`StuckOnlyByTimeout` follow. Appending and taking the head of a queue are two lemmas.

*Logic.* `Execute` is a recursive function over the lines of the program. That it is a
function at all, keeps types, and remembers every tagged variable that changed is an
induction over its lines: `NatSetInduction` states induction for a *set* of numbers (from
the well-founded minimum, without an operator as parameter), and is applied to the set of
lengths for which the claim holds. `Published` adds what the ticker has put into Status and
Update at each point of the tick; the mutex keeps the handlers out in between.

*ModbusServer.* The conversions need a handful of facts on division (`DivMod`, `DivUnique`,
`DivDiv`, `ScaleDiv`), from which every word is recovered as a digit. `Disjoint` says that no
register begins inside another: nothing in Configure prevents it, and then a loop that steps
over one register passes the other by, so that `AckedIsPushed` and `ReadNotTorn` fail for it.
For requests, `Progress`, `Collected` and `Reading` say what the loop has done for the
registers it is through with (`Past`): the points are exactly those of the registers, without
a gap, and each part of the buffer encodes a value that the tag had (`Seen`). `ReadBack`
relates two requests and needs `Remembered` (a tag that no Status has set since holds what the
last write made of its data) and, in the middle of a write, `Held`.

For bits, a byte is built from its last bit on, `2 * rest + bit`, and taken apart by halving:
each halving undoes one step of the former (`BitOfByte`).

*ModbusClient.* `ScanInv` is `StatusFresh` with what a scan has collected so far: values held
during the scan, from the registers it is through with, for the states of the link it met;
`ConnectedHonest` follows when these become `told`.
`LastCommandWins` is about the end of a queue, so its invariant is about the whole of it:
`Awaits` says that the last point about a tag, in the waiting Updates or the one being
written, is the newest command, or else that the outstation has what it asks for.

*IO.* `TInv` adds to the types that a value waiting in the dictionary is the latest one
and that all inputs have been read when a Status is put together. Without endpoints only
action_publications empties the dictionary, after copying it; the proof of
EndpointCorrect adds an order between the outbox and the mail: an entry of the outbox is
never older than what has been sent. The restriction to one kind is part of the
properties.

*Health.* `HealthInv` is inductive: a metric over which promauto panics is new, and it has an
illegal name or that of a known one or another new one, so the two differ; a counter that
went down would need a negative total, which the types exclude.

*MQTT.* `OneLoop` needs to know that generations come one after the other (`Order`: when
one has begun, all earlier ones are done with connecting) and that a handler which has
gone on has cancelled the generation before (`Cancels`); two loops that both run are then
impossible unless the earlier is cancelled. `Client` ties `this.client` to the phases,
`Nothing` says that with a period nothing is published before there is a client, and
`Tried` that brokers the first search has passed were out of reach.

*SunSpec.* The proof has two halves. The first is about `Configure` alone and is an induction
over its three loops: `LoopEnds` says that a recursive function over an interval exists and
`UpTo` is induction for a set of numbers. `Laid(st, Q)` is what holds when the points Q have
been added: registers lie side by side without a gap (`Row`), each point where the lengths of
what comes before put it, and the only entry that is not a register of its own is the one an
element has left at the next free address, which the next point or the end of the list
replaces. At the end that is `Layout`. `Plain` says that no element of a configuration is
named ID or L or has an empty text; the former would change the header a client reads, the
latter make it 0, and nothing in Configure refuses them. MCSunSpec checks what happens with
an empty text.

The second half is the invariant

    IInv == TypeOK /\ Fixed /\ Turns /\ Steady /\ Levels /\ Reading /\ Asked /\ Walk /\ KnownOK

`TypeOK` is not inductive for two reasons. The client takes ids and lengths from the wire, so
that its types depend on what the server sends: `Reading` says that the words a read has
collected are, register by register, those of a value the register had since the request began
(`Genuine`), and that the loop is always at the beginning of a register. And an answer could be
that of an earlier question: `Turns` says that there is one request at a time and `Asked` that
the one served, or answered, is what the client wants now, which is where a time limit that
runs out, a busy server and the shared connection come in. `Steady` is the reason why a write
does no harm to reads: the only writes that change a register are the ones that never end.
`Walk` ties the place of discovery to `Layout`. With these, the header that is read is that of
the next model, hence `Discovered`; and a read fails only if a scale factor is missing, hence
the list of excuses in it. `ReportsTrue` needs in addition that a number comes back from its
words (`IntegerOfWords`, from the digits as in ModbusServerProofs), which is `Fitting`: raw
numbers of the configuration and of the bus are within the range of their register types. In
the code they wrap around silently.

Only model-checked:

- everything under fairness (`ShutdownCompletes`, `RestartedIfItDies`, `DisableStops`,
  `AnsweredUnlessTimeout`, `KeepsEvaluating`, `SimulationFollows`, `MirrorConverges`,
  `Reconnects`, `BrokerCatchesUp`, `TermEnds`, `HangIsReported`, `Converges`,
  `MonitorsRevive`, `CounterArrives`, `GaugeSettles`): the prover does not support ENABLED;
- `RoundTrip` as such, which is about the probes of its run. Its three parts are, for words and
  bytes of every size, the theorems `WordsComeBack`, `ValueTransported` and `BitsComeBack`.

The library's own induction theorems take an operator as a parameter, which these provers
cannot instantiate; hence the detour over sets of numbers in LogicProofs, ModbusServerProofs
and SunSpecProofs.

## Not modelled

- *Process output, log shipping to Elastic and Loki*: I/O without influence on control.
- *Configuration parsing*: its results are constants.
- *DNP3 module* (`src/c++`): its points and commands live in the OpenDNP3 library; planned.
- *Tailscale and Node-RED modules*: supervisors without a canceler, and settings files;
  planned.
- *HTTP queries, web sockets, the telnet shell*: requests without a state of their own.
- *`go/sunspec/common/types.go`*: types generated from the JSON schemas; the schemas
  themselves are a git submodule.
- *Float and double registers, contents of texts*: the IEEE layout is `math.Float32bits`.
  *64-bit registers* have their layout, but no property is claimed of them (53 bits of a
  float64).
- *Requests that end in the middle of a register, or are longer than 125 registers*: the
  slices of the write handlers then run beyond the data; listed as a hazard. The clients
  of this repository do not send the former.
- *TLS material and payload templates of MQTT; serial settings of Modbus.*
- *The end of the logic module's context*: the ticker simply returns.
- *A boot that fails*: Run returns and main exits with processes left behind; the state
  `failed` is reachable, but no property is claimed of it.
- *Ground truth, GPIO, wind turbine*: copies between the bus and a database or hardware.
- *Message bus proxy*: a call of a library; loss and order are part of the models.
- *`src/old`, test drivers, documentation, Node-RED's JavaScript nodes*: not part of the
  running core.

## Plan

Done: Supervisor with ModuleSwitch, ModuleControl, Logic, IO, Register, ModbusServer,
ModbusClient, MQTT, SunSpec, Health with their runs; proofs of the safety properties of all
of them and of the refinement of ModuleSwitch.

Next, most important first:

1. **DNP3 outstation**: select before operate, points updated from the bus while a
   master reads, cold restart of one outstation of several.
2. **Gateway**: ModbusClient over ModbusServer instead of over its tags; a register file as
   the abstract specification of the server.
3. **Node-RED, Tailscale**: supervisors without a canceler. **IO** with several devices in
   one federate. **Wind turbine**: emergency stop across handlers.
