# A TLA+ verification project for tf_packeges

tf_packeges is a feed of OpenWrt packages for TFortis PoE switches. It has two
halves. The C half is a set of small daemons around a microcontroller (MCU) that
powers the cameras on the ports. The JavaScript half, by far the larger one, is
the web interface: LuCI as this repository carries it, with the pages of the
TFortis and TN applications. This directory models both, checks them with TLC
on small instances, and proves what matters most about them with TLAPS for every
value of the constants.

## 1. Inventory

| part | state it keeps | operations | talks to |
|---|---|---|---|
| realtek-poe: command queue (`realtek-poe-tfortis/src/main.c`) | `cmd_pending`, `cmd_seq`, retry timer, read buffer of the tty | queue a command, send the head, consume a reply, retry after 100 ms, exit on a tty error | MCU (12-byte frames, serial line) |
| realtek-poe: command map | `bcm_to_rtl_map` | close the table at start, look up in both directions | queue |
| realtek-poe: grouping of ports | local arrays of `poet_setup` | pack the enabled ports into groups of four | queue |
| realtek-poe: configuration and ubus | `config`, `state.ports` | load, reload, manage, poll every 2 s, info, sendframe | UCI files, ubus clients, queue |
| tf_autorestart | `portInfoArr`, `rebootParam`, `demonParam`, pipe | a round over the ports every `test_delay` s, five tests, a restart state machine, manual requests | realtek-poe (`ubus call poe manage`), cameras, clients on a socket |
| LuCI: cache of the configuration (`uci.js`) | copies of the sections, creates, changes, deletes, mark of a changed order | add, remove, move, set, save, load | rpcd |
| LuCI: forms (`form.js`) | values of the widgets, visible fields, the open dialog | input, dependencies, parse, save, reset, add, remove, drop, dialogs | cache, widgets |
| LuCI: the forms of the views | none; declarations of fields | | forms |
| LuCI: loader, requests, polling (`luci.js`, `rpc.js`) | classes, request queue, batches, pollers, session | require, batch, match replies, probe the session, poll | web server |
| LuCI: apply (`ui.changes` of `ui.js`, `uci.uc`, `footer.ut`) | deadline, token, timers | apply, confirm, roll back, revert | rpcd |
| LuCI: widgets (`ui.js`) | selected items, hidden inputs, lists | click, own texts, set and read values | forms |
| LuCI: networks and zones (`network.js`, `firewall.js`, their pages) | references between three packages | add, delete, rename, attach, choose a zone | cache, netifd |
| LuCI: VLAN tables (`8021q.js`, `tools/network.js`) | cells and saved rows | click, save, add and remove rows and ports | cache |
| LuCI: realtime graphs (`luci-mod-status*`, `luci-bwc.c`) | ring of samples, windows | sample, poll, shift | collector |
| LuCI: firmware upgrade (`luci-app-tn-swupdate`) | flags set by events, timers, the dialog | upload, wait, verdict, reboot | installer (event stream) |
| LuCI: package manager, accounting, statistics, legacy CBI | none that outlives a view | list, draw | tools of the device |
| tf_poe_restart_ctrl | none | send a status or reboot request | tf_autorestart |
| dm_client | state machine over HTTP requests | start, settings, update, reload | management server |
| hwsys | GPIO state | daemon that serves a socket, control tool | kernel GPIO |
| dmhash, request_ctrl, flash_mcu, tf_file, log_test | none that lasts | tools and scripts | |
| tf_clish | the UCI files | command line | UCI files, ubus |
| mstpd, syslog_fc, jsonLibLua | | third-party code | |

Interaction: a page of the web interface edits the cache, saves it to rpcd's
staging area, and applies it; the daemons read the UCI files on `reload`.
tf_autorestart calls `manage` to cut a port's power and give it back; both end
as enable commands in the queue of realtek-poe, which sends them one at a time
to the MCU. What is hard in the C half: rejected, lost, garbled and surplus
replies; callbacks that all may send; restarts of the daemon while the MCU keeps
its state; a restart of a camera that takes several rounds. What is hard in the
web interface: everything between a promise and its answer. Saves of which some
calls were carried out, a device that goes out of reach because of what was
applied, batches cut short, sessions that end, events of somebody else's
upgrade, and fields, rows, zones and widgets that keep the same fact in several
places. `PROJECT.json` lists these hazards line by line, with the properties that
cover them.

## 2. Modules

| module | models | used by |
|---|---|---|
| `PoeQueue` | the command queue, the retry timer and the line | `MCPoeQueue`, `PoeProofs` |
| `PoeService` | what the queue promises: a serial executor | `PoeQueue` (`Implements`) |
| `PoeCmdMap` | `close_map`, one step per round of its loop, and the lookups | `PoeStart` |
| `PoeSetup` | the two loops of `poet_setup` | `PoeStart` |
| `PoeStart` | the start of the daemon: the map, then the set-up | `MCPoeStart`, `PoeProofs` |
| `PoeProofs` | theorems about `PoeQueue`, `PoeCmdMap` and `PoeSetup` | |
| `PoeDaemon` | configuration, `reload`, `manage`, polling, on top of the queue as `PoeService` describes it | `MCPoeDaemon`, `PoeDaemonProofs` |
| `Autorestart` | tf_autorestart | `MCAutorestart`, `AutorestartProofs` |
| `PoeDaemonProofs`, `AutorestartProofs` | theorems about these two | |
| `UciClient` | the cache of `uci.js` and the batches it sends | `FormMap` |
| `FormFields` | a form's fields: declaration, dependencies, rendering, parsing | `FormMap`, `Views*` |
| `FormMap` | a page with one form, its dialogs and its saves | `MCFormMap`, `FormProofs` |
| `FormProofs` | theorems about `FormMap` and `UciClient`, and about `Dropdown` and `DynList` in `WebElements` | |
| `ViewsTfortis`, `ViewsNetwork`, `ViewsApps`, `ViewsMoreApps` | the sections of fields of the views | `MCFormViews` |
| `FormViews` | each of these sections filled in and saved | `MCFormViews` |
| `LuciLoader`, `LuciPage` | the class loader; the life of a page | `MCLuciPage`, `WebPageProofs` |
| `FoldInduction` | what a fold over a list computes and keeps, for handlers that go through a list | `FormProofs`, `WebPageProofs` |
| `LuciApply` | applying, confirming and rolling back | `LuciDevice` |
| `SwUpdate` | the firmware upgrade page | `LuciDevice` |
| `LuciDevice` | a page that does one of the two | itself, `LuciDeviceProofs` |
| `LuciDeviceProofs` | theorems about `LuciApply` and `SwUpdate` | |
| `NetConfig` | networks, wireless networks, zones and their references | `MCNetConfig`, `NetConfigProofs` |
| `NetConfigProofs` | theorems about `NetConfig` | |
| `Dropdown`, `DynList`, `VlanTable`, `LiveGraph` | elements of a page that keep state | `WebElements` |
| `WebElements` | a page with one of these | `MCWebElements`, `FormProofs`, `WebPageProofs` |
| `WebPageProofs` | theorems about `LuciPage` and about `LiveGraph` and `VlanTable` in `WebElements` | |

**PoeQueue.** uloop is single threaded, so each callback is one action that
keeps the name of its function: `poe_cmd_queue(b)` (the calls one callback
makes, a batch `b` of command ids), `poe_stream_msg_cb(k)` (a read event that
brings `k` frames; consumes one of them through `poe_reply_consume` and
`handle_poe_f0_reply`, then sends the head), `mcu_clear_timeout`, `Restart`.
`McuAnswer`, `LineStray` and `LineLose` are the surroundings. A frame is a
record of id, sequence number and a history number `n`, its place among all
commands ever queued, which no guard reads. `applied`, `executions` and
`accepted` are history variables for the properties. Frames are lost and
garbled as a whole; the loss of single bytes, after which the 12-byte
framing would not recover, is left out.

**PoeCmdMap.** The table is chosen in `MapInit` from the constant `Tables`; the run
takes the table of the source, the theorems hold for every set of tables.
`UnsharedKept` is stated at every point of the pass, not only at its end.
`PoeStart` puts `close_map` and `poet_setup` one after the other, as `main` does.

**PoeSetup.** One action per path through the loops. The three arrays that are
filled together from the same port are one array of whose settings a slot holds.

**PoeDaemon.** A configuration is the list of `port` sections of `/etc/config/poe`
(id and name) and the list of the `lan` sections of `/etc/config/port`
(enable or not). The queue holds enable and status commands; its head is
executed and retired (`Retire`), executed with a garbled reply
(`RetireGarbled`) or aborted after its retries (`RetireAborted`). These
are the steps of `PoeService`, with execution and retirement in one step,
for no other step of the daemon reads the state of the MCU in between.

**Autorestart.** A port's record joins `portInfoArr[p]` and `rebootParam[p]`;
`errorCode`, `event` and `rebootEvent` are sets of bits. `mainHandler` is a
round: the tests (`createTread`), then one step of each port's state machine
(`HandlePort`). Time is relative: `due` seconds to the next round, `wait`
seconds to the end of the restart timer. At this commit the two calls that
run the tests are commented out (`mainHandler.c:291`), which is the constant
`RunTests = FALSE`. With `RunTests = TRUE` the model is the daemon with these
two lines active. A round without tests is a round in which every link
test passes, up to the bit OK, which then decides nothing; so the properties
checked with tests hold for the shipped daemon too. That dead cameras are restarted
is claimed of neither: the shipped daemon does not, which is the run
`autorestart_title`.

**UciClient and FormMap.** `uci` is one record with the layers of the cache;
`srv` is what rpcd has staged. JavaScript is single threaded, so a handler up to
its first `await` is one action and each answer is another: `handleSave` parses
the form into the cache and sends the batch, `AnswerBatch` or `LoseBatch` follows,
then the order and the load. While a save is under way the user may go
on typing, drag a row and dismiss the dialog, but opens no other one: the end of the
save would close it. A batch may be carried out up to any of its calls
and lost after that. `last` records what was visible when the save began. An
option without a value is `NoVal`, which is what uci.js makes of null and of the
empty string. A page is a typed one (all sections shown) or a grid (one section
at a time in a dialog with a map of its own).

**FormFields and Views.** A field is a record of what form.js decides by: kind of
widget, option, alternatives it depends on, `rmempty`, `optional`, `retain`,
default. `Effect` is parse, write and remove of the classes together. A dependency compares
(`isEqual`), matches a regular expression (`Matching`) or looks for a part (`!contains`,
`Containing`); strings are not taken apart, the two tables say which of the values that
occur in the forms are accepted. The `Views*` modules translate the calls `s.option(...)`, `o.depends(...)` and the
assignments that follow them, section by section. Of long lists of choices those
are kept that something depends on; a field the view loads or writes with
functions of its own is marked `Own` and exempt from what is claimed of values.
`Variant` resolves fields that a view declares under different conditions.

**LuciPage.** A call is named after its owner, who has one at a time: the calls of
`setupDOM`, the load function of the view, the polled functions. `queue` is
requestQueue, `flights` the batches under way. `poll` is the object Poll with, as
a history, whether the user paused it. `menuRequest` is the request for the menu,
which no call waits for: with an ended session it is answered with 403, on which the
interceptor that `setupDOM` adds shows the end (`luci.js:2708-2718`) by throwing, and the promise of the request is never
settled.

**LuciApply.** Seconds that are left in every timer of the page, of rpcd and of the
token in the session. Configurations are numbers; `shaky` is a new configuration
that may yet make the device unreachable. A confirmation or a rollback that fails is
asked for again at once: the interceptors hand on the response alone, and `call` waits
for no duration (`luci.js:829`). `Load` is a page loaded by the user at
any time; footer.ut makes it confirm what is pending. rpcd's `uci` object is
external.

**SwUpdate.** The flags of the view and the two interval timers, one of which
looks at the flags while the other looks for a sign of life. The installer and its
jobs are external; `foreign` records an event of a job that is not the page's. The
page does not look at the HTTP status of its upload (`swupdate.js:742-799`), so it
waits for the events of an upload that the device refused.

**NetConfig.** The packages network, wireless and firewall as sets and functions of
names, `run` what netifd runs meanwhile. An action is one saved dialog. The
wireless, interface and zone dialogs are modelled with the order in which their
fields are written.

**Dropdown, DynList, VlanTable, LiveGraph.** Widgets as records, their methods as
operators that keep the source's names (`toggleItem`, `setValue`,
`handleDropdownChange`); a page's clicks and calls are the actions. The cells of
the VLAN table are drop-downs with a `toggleItem` of their own. `cleared` marks a
drop-down whose choices were cleared with reset and in which nothing has been
selected since (section 6). A menu of a dynamic list offers no empty text
at the start (a bound of `DynInit`). A sample of a
graph is its time stamp.

## 3. Runs

| run | what it shows |
|---|---|
| `queue_faults` | with rejections, garbled replies, up to two stray or duplicated replies, a lost frame and a restart, in any order: at most one frame under way plus the strays (`StopAndWait`), no stall without a loss (`NoStall`), an accepted reply is that command's own (`AcceptedIsOwn`, up to the first restart), the MCU never goes back to an older command (`NeverReordered`), nothing is executed twice without strays (`AtMostOnce`), every command is retired (`QueueDrains`), and up to a stray or a restart the queue is a serial executor (`Implements`) |
| `poe_start` | the table of the source: ids of one dialect only are kept at every point of the pass (`UnsharedKept`) and replies reach their handlers although shared ids are damaged (`ReplyReachesItsHandler`); then every set of enabled ports: each in exactly one slot, no stale slot (`SetupIsExact`) |
| `daemon` | three configurations (both ports, one gone, one off), `reload`, `manage` and polls in any order, an aborted command, a garbled reply, a restart: power follows the configuration, what is disabled ends off, a status that settles is reported and logged |
| `autorestart` | each test, three parameter sets, requests, a dying camera, a port switched off and on, late rounds: no hasty restart, off only within a restart, bounded restarts and a given-up port that says so (`RestartDiscipline`), off long enough and on again (`PowerCycles`), manual requests served (`RequestServed`). `RunTests = TRUE`: the two calls of `mainHandler.c:291-292`, commented out in the source, are made; the tests may also never fail, and those behaviours are the shipped daemon's |
| `autorestart_title` | *violation*: the shipped daemon, see section 6 |
| `page_edit` | a form with fields that share an option, edited, dragged, extended and saved while a request fails at any of its calls: what was shown is stored (`SavedIsShown`), exactly and in order if nothing failed (`SavedExactly`), and a dismissed dialog leaves no section (`CancelledAddIsGone`) |
| `views` | the sections of fields of the views (section 5 names the fields left out), with nothing and with everything stored: the visible fields are those the dependencies ask for (`FieldsFollowDependencies`), a save keeps what is shown (`SaveKeepsShown`), a second one writes nothing (`SecondSaveIsQuiet`) |
| `page_life` | files and batches that are lost or cut short, a session that ends at any time: replies meet their calls, every call settles, the page starts, a refused call logs nobody out, polling follows page and session |
| `device` | apply and upgrade of a device that goes out of reach: what the page says is so (`VerdictIsTrue`, `UpgradeVerdict`) and it says something (`ApplyEnds`, `UpgradeEnds`) |
| `network` | sequences of edits on four pages, with and without applying in between: no dangling reference, a zone is as its dialog asked, a network moves between zones |
| `elements` | drop-downs of every kind, dynamic lists, both VLAN tables, all graphs: the value that is read is the one that is seen, list and box agree, ports are consistent, the window is the newest part of the samples |
| `vlan_untagged` | *violation*: a port saved untagged in two VLANs, see section 6 |

**Bounds.** `SeqMod = 3` with four queued commands makes `cmd_seq` wrap within
the queue (256 in the code). `MAX_RETRIES = 1` reaches retry, abort and retry of
the next command (5 in the code). Two strays suffice to shift the pairing by more
than one; `StopAndWait` is proved for every number. `GroupSize = 2` and five ports
give two full groups, a partial one and every position of the disabled ports (4
and 24 in the code). In `daemon` two ports are two groups of one. `TimeDelay = 3`
with `test_delay` 1, 2 and 5 lets the timer run for several rounds, for about one,
and for less than one.
`page_edit`: two sections, one that can be created, four user actions and one
failed request: enough to drag, add, fail and save again, or to fill three
dependent fields. `views`: two inputs before a save reach a field that depends on
another one; fields declared alike, on which nothing depends, are changed through
the first of them. `page_life`: six classes with the requires of luci-base, three
owners of calls besides two pollers, two losses; `TickMod = 4` with intervals that
divide it. `device`: rollback after four seconds, two configurations, two losses,
two installations. `network`: three names, three zones, three edits after the
shipped configuration, where a zone dialog counts as many edits as settings it
changes (`Spend`). `elements`: three choices, the empty one among them, lists of
four, three rows, two ports (interchangeable: the run declares the symmetry), a
ring of three samples and a window of four. Bounds on faults stand in the guards
of the fault actions and are constants with `Max` in their names.

**Deadlock** is not checked where the bounds make the environment stop (all
commands done, the map closed, all edits made); in `autorestart` it is: the
daemon's clock never stops.

**Fairness.** `PoeQueue`: uloop serves a readable tty and an expired timer, and
the MCU answers what it received (a lost frame is the separate, bounded action
`LineLose`, after which `QueueDrains` claims nothing). `PoeDaemon`: the poll
sets its timer again each time, and the queue drains, which is what
`QueueDrains` shows. `Autorestart`: the loop of `mainApp` keeps turning and
time passes; a client which connects also sends its request. `LuciPage`: the
browser goes on with promises, frames and timers, and every request is answered
or fails with its time limit (`Answers` is fair per owner, losses are bounded).
`LuciDevice`: time passes, the timers of browser and rpcd fire, a request to a
reachable device is answered and one to a device out of reach fails; nothing says
that a device comes back except rpcd's rollback; an installation ends.

Each property has a mutant in `PROJECT.json`: a definition of the model
changed as a plausible bug would change it, under which the property fails.
Mutants stand before the definition they replace (`Mut...`). The modules' type
invariants are `TypeOK`; those of all modules with theorems are proved, as part
of the inductive invariant.

## 4. Proofs

`PoeProofs` proves of the queue, from `ConstantsAssumption` alone (no command has the
id `NoCmd`, batches are not empty, the bounds are naturals):

* `TypeCorrect`: `Spec => []TypeOK`. `TypeOK` is inductive; the bound on
  `num_retries` is part of it.
* `StopAndWaitHolds`: `StopAndWait` is inductive relative to `TypeOK`. It
  counts a running timer and an empty list as outstanding, which is what
  makes it inductive: a send uses up exactly one of them.
* `NoStallHolds`: inductive relative to `TypeOK`.
* `BacklogIsSurplusHolds`: from `StopAndWait`, since a read event takes one of at most
  `1 + strays` frames.
* `OrderHolds`: `OrderInv`, the strengthening for the order: the list holds the
  youngest commands with consecutive numbers; the frames to the MCU are
  sorted, not older than the last one executed and not younger than the head.
  `NeverReorderedHolds` follows for every step.
* `OnceHolds`: `OnceInv`, without strays a head that is under way, rejected or
  waiting for its retry has not been executed. `AtMostOnceHolds` follows.
* `ImplementsHolds`: `Spec => Service!Spec`; until a stray frame or a restart
  a step maps to accepting, executing or retiring a command or to a stutter,
  and from then on `PoeService` allows everything. `OnceInv` gives that an execution is the first one,
  `OrderInv` that it is the oldest command's.

* `PairHolds` and `AcceptedIsOwnHolds`: with `MaxStray < SeqMod`, and up to the
  first restart. `PairInv` says of every frame on the line how far it lags
  behind the command that will be at the head when it is consumed: not further
  than there were strays. Sequence numbers are places modulo `SeqMod`, so that two
  commands with the same number are at least `SeqMod` apart. The hypothesis is what
  the code needs: 256 stray replies would bring a number round again.

Of the start it proves, for every size and every set of tables: `MapTypeCorrect`,
`UnsharedKeptHolds` (strengthened by `WrittenBack`: a value the pass has written
is the id whose entry led there) and `AssumptionSufficesHolds` (strengthened by
`CloseInv`: entries of the table stay, ids passed can be read back, nothing
else was written). `ReplyReachesItsHandlerHolds` has the hypothesis that each table
sets the ids with a handler apart (`HandledApart`); `MCPoeStart` assumes this of
the table of the source, so that TLC evaluates it. For `poet_setup`, with any
number and choice of ports and any size of a group, `SetupInvariant`: the ports
below `Reached` that are enabled are in the groups sent or in the filled slots,
each once, and a group is left with room only behind the last port
(`SetupIsExactHolds`).

`PoeDaemonProofs`, for any ports, configuration files and group size: `Invariant`,
whose core is `LastDecides` (the last enable command queued for a port leaves it as
the configuration and `manage` want it) and `SettledIsWanted` (a port with no
command in the queue is that way). `PowerFollowsConfigHolds` is the second with an
empty queue, `DisabledEndsOffHolds` the part of the first that survives aborted
commands and restarts. The lemmas say what `poe_port_setup` appends.

`AutorestartProofs`, for any ports, tests and parameters: `Invariant` relates, per
port, the two state machines, the events, the error code, the power, the timer of
the restart (`TimeInv`: rounds, timer and time without power move together, up to
`MaxLag`) and the history counters. `NoHastyRestartHolds`, `RestartDisciplineHolds`
and `OffLongEnoughHolds`, the half of `PowerCycles` that is no liveness, follow.

`LuciDeviceProofs`: `ApplyInvariant` and `VerdictHolds` under the hypothesis
`MinRollback <= Rollback` (section 6 says why). `DeviceInv` ties token, timer and
running configuration together; `ConfirmInv` says that the configuration the page
asks about is pending with the page's deadline not behind rpcd's, rolled back with
that deadline over, or kept and confirmed. `UpgradeInvariantHolds` and
`UpgradeVerdictHolds`: as long as no event of another job came in, the flags are
about the page's own job, and a success on the wire is of a job that succeeded.

`NetConfigProofs`, from a complete configuration (`StartAssumption`), for any names
and any number of edits: `Invariant` (`TypeOK`, `ReferencesResolve` and
`ZoneAsChosen` are inductive together), `ReferencesResolveHolds`,
`ZoneAsChosenHolds`, `KeepsOneZoneHolds`. There is one lemma for each operator of
network.js and firewall.js (what it changes, that it leaves no reference behind),
one for each part of a dialog, and one for each group of actions.
`CoveringAfter` and `FewerOrSwapped` count the zones of a network for
`KeepsOneZone`.

`FoldInduction` holds lemmas about handlers that go through a list; they say nothing
of the system and serve the two modules below. The library's induction
theorems take a predicate as a parameter, which the provers cannot instantiate;
here the operator `Op` and the property `Good` are constants of the module, and a
proof instantiates the module with its own. Its proofs use that every non-empty set
of naturals has a least element. `FoldTrace`: the intermediate results exist and the
fold is the last of them; `FoldOf`: there is only one such sequence; `FoldAppend`:
an element at the end is taken last; `FoldKeeps`: what holds of the start and is
passed on by each element holds of the result.

`WebPageProofs` proves of `LuciPage`, for any classes, calls, pollers and losses:
`Invariant`, `RepliesMatchHolds`, `ExpiryIsRealHolds`. The handlers that answer a batch
(`flushRequestQueue`) and that run the pollers (`Poll.step`) are folds over a list
of any length.

Of the elements it proves two of the four properties; `FormProofs` has the others.

* `WindowIsAlwaysLatest`, from `GraphAssumption` (ring and window are not empty).
  The invariant `GraphOk` says: the samples the collector stored are increasing, the
  ring holds the last of them, and there is a number `m` of samples the page
  knows such that each line is empty places followed by the last of these `m`. A
  poll brings a part of what was stored; `FreshIs` shows that the entries newer than
  the page's time stamp are the end of the answer, from a place `a` on, and
  `PushKept` follows `pollData` through the answer. Of a counter line the first entry
  of the first answer gives no value, which is why the count `fill` may be one larger than
  the number of points; a sample that left the ring between two polls is `missed`,
  and then the line is still increasing but need not be without gaps.
* `PortsAreAlwaysConsistent`, for any ports and any number of rows. `PropCells` are the
  boxes a cell can be, five of them; `toggleState` leads from one to another, which
  is proved by cases. The invariant `VlanOk` adds to what the property says of
  the cells what holds of the entries saved (`SavedUnique`, `Untagged`), since a
  redraw makes the cells from them. `parse` is a fold over the rows, and in its
  middle the rows gone through have their new entries and the others their old ones:
  `ParseKept` says that the cells are as before, that two untagged entries of a port
  differ in the primary mark even then, and that, unless one was refused, the rows gone through save
  what their cells show. At the end all rows do, and inherit from the cells that a
  port is primary once. A refused row keeps its old entry, and from then on a port
  can be primary in two rows (the property excepts it).

`FormProofs` is about forms and the widgets in them.

`CancelledAddIsAlwaysGone`, from `UciAssumption` and
`FormAssumption`, for any form. The invariant `AddedOnly` says that on a grid page
the one section that may be pending in the cache is the one `map.addedSection`
names, which is that of the open dialog, and that none is pending while the
configuration is loaded again after a save. Each operation of the cache (`Set`, `Unset`,
`Remove`, `Move`) is shown to keep it, the passes of `Parse` over sections and
fields by `FoldInduction`, and the naming of new sections after the answers
(`AssignNames`) is shown to add none.

`ChoiceIsAlwaysRead`, from `ChoiceAssumption`: a page offers different choices, at
least one, and none of them is a mark of the two items that are no choices (the
placeholder and the text input), and nobody types or sets the placeholder's mark.
A menu may offer the empty text, and has no placeholder then.
The invariant `PageInv` adds to `ChoiceInv` that after `clearChoices(true)`, and until
something is selected, nothing is. `ChoiceInv` has two parts.
`Held`, for every box: items are distinct, a box has its placeholder and its text input
if it should, and either `BoxInv` holds (a single choice has exactly one selected item,
the hidden inputs are what is selected) or, after a reset, nothing is selected and the
hidden inputs may be those of before. `Plain`, for a box on a page of its own: the text
input alone refuses to be selected, and is not selected. `setValue` goes through the
items and toggles each one, and while it does a list that may not be empty refuses to
give up its last value. `SetEachIs` and
`SetOnlyIs` follow this item by item with `FoldInduction`; that at most one old value
survives, and none if the choice may be empty, is what they show at the end.
`FilterKeeps`, `ClearKeeps` and `ChoicesAddKeeps` are for the calls that exchange the choices,
`RenderKeeps` for the first state.

`ListAlwaysMatchesBox`, from the same assumption. The invariant `ListInv` says of the
box of a list `BoxInv` and, between two events, that it shows its placeholder
(`Unpicked`), that no item waits to be marked as the user's (`Settled`) and that what it
refuses, or the user made, is in the list (`Refused`). Inside an event
none of the last three holds: the box has a selected item when
`handleDropdownChange` runs, which adds the value, marks the item and sets the
box back; `ChangeKeeps` takes it from one state to the other.

The texts of these two theorems are `STRING` and, by name, the literals that the
modules use, since the prover does not know that a literal is a string.

Only model-checked:

* liveness under fairness (`QueueDrains`, `StatusSettles`, `PowerReturns` in
  `PowerCycles`, `RequestServed`, `CallsSettle`, `PageStarts`,
  `PollingFollowsSession`, `ApplyEnds`, `UpgradeEnds`): out of this prover's reach;
* `SavedIsShown` of `FormMap` and `FieldsFollowDependencies` of `FormViews`: what they
  say is computed by the passes of `checkDepends` and `parse` over the fields of a
  concrete form. That two passes reach a fixpoint is a fact about each form and
  false of some, so there is no theorem about all forms to prove;
* `SavedExactly` of `FormMap`: the order in which the sections are saved is computed by
  sorting (`SetToSortSeq`, whose `SortSeq` is opaque to the prover), and a drag moves a
  section with `SelectSeq`.

## 5. What is not modelled

* dm_client and hwsys: planned, section 7. tf_poe_restart_ctrl: one request and
  one answer per call; the request is `ServeClient` of `Autorestart`.
* Values that are passed through: power budgets, priorities, measurements,
  version strings, the text of logs and of `info`.
* Loss of single bytes on the tty; ids beyond those the daemon uses.
* In tf_autorestart: the date arithmetic of the alarms, the interleaving of the
  test threads of one round (each works on its own port), failing
  `pthread_create`, clients that connect and send nothing, and
  `totalResetCount`, which is only reported.
* In the web interface: HTML, tabs, sorting, texts and translations; the getters
  of `network.js`, which read what netifd and iwinfo report; data types
  (`validation.js`), which are a verdict on an input here; `opkg.js`, `nlbwmon` and
  the statistics pages, which fetch and draw; `cbi.js`, for server-side pages that
  these packages no longer have; the bodies of functions with which a view loads
  or writes a field itself, unless `NetConfig` or `VlanTable` models them.
* Fields of the views. Left out because their names, classes or dependencies are
  computed when the page is loaded: `acme.js:538`, the status fields of `aria2` (198)
  and `minidlna` (43), the parameters of `https-dns-proxy` (250, 282) and of the
  plugins of olsrd, the DSCP tags of `pbr` (254), `iptables.js:19`, the sections per
  bridge of `mstpd` (`config.js:468`, `status.js:529`), `uhttpd.js:55`, `switch.js`
  184-348, `ip6hint` and the two fields per protocol of `interfaces.js` (574, 1025,
  1164), the WEP keys of `wireless.js:1532`, and the generic `tools/network.js:382`. The
  port cells of `8021q.js:305` and `tools/network.js:866` are in `VlanTable`.
  `ieee80211w` (`travelmate`, `wireless.js`), `multicast_querier` and `force_link` have a
  default that moves with other fields (`defaults`, `form.js:1704-1727`): they are
  declared and take part in dependencies, but are marked `Own`, so nothing is claimed
  of their values.
* Tools, scripts and third-party code, with the reasons in `PROJECT.json`.

## 6. Findings

* `autorestart_title`: the tests of tf_autorestart are commented out, so that
  no camera is restarted automatically, against the package's description.
* `vlan_untagged`: `8021q.js:170` says that an untagged port is not met in other VLANs.
  The check at line 178 compares entries as texts, so that `lan1` in one row and
  `lan1:u*` in another are both saved. What holds is that two such rows differ in the
  primary mark (`UntaggedApart`, part of `PortsConsistent`).

Met while modelling, and listed as hazards or as exceptions of a property:

* The comment above `close_map` (`main.c:135`) assumes that the two dialects
  share no id. The table shares 0x10, 0x13 and 0x15; after `close_map` the daemon
  sends "port detection type" (0x10) as 0x17, "disconnect type" (0x13) as 0x16 and
  "power limit type" (0x15) as 0x1a.
* The shipped `/etc/config/poe` gives the sections `port4` and `port5` the same
  id 5. Port 4 has no name, and `manage` on `lan4` fails.
* `uci.js:880` names new sections after the first answers of a batch, which are
  those of the deletions if there are any; an order saved with them is wrong
  (excepted in `SavedExactly`).
* A save whose answer was lost creates its new sections again when it is repeated.
* `form.js:629`: `reset` does not revert inputs that a failed save has parsed.
* `zones.js:183`: renaming a zone and changing its networks in one dialog loses
  the networks (`Plain` in `NetConfig`).
* A name chosen while its interface is deleted but still running gets no section
  (`ghosts` in `NetConfig`).
* `ui.js:4711`: a lost apply request leaves the page without a verdict; a late
  answer to it moves the page's deadline behind rpcd's (`late` in `LuciApply`).
* `uci.uc:71`: the token of a confirmation expires after the configured rollback
  time, rpcd's timer after that time or 90 s, whichever is longer (line 52). With a
  shorter time a confirmation between the two is answered with 204, and the page
  says "applied" of a configuration that rpcd rolls back. The proof of
  `VerdictIsTrue` found this: it needs `MinRollback <= Rollback`, which holds of the
  shipped value, 90.
* `ui.js:1677-1692`: `clearChoices(true)` removes the selected items and then sets no
  value; where no item is left to toggle, the hidden inputs are not written and a form
  reads the old value (`cleared` in `Dropdown`, excepted in `ChoiceIsRead` until
  something is selected).
* `ui.js:1953`: `setValue([])` on a drop-down for one value asks for the item
  "undefined"; a widget that takes own texts makes one.
* `luci.js:2705`: a lost probe of the session is shown as its end.
* `tools/network.js:549`: ports added to a bridge under a row with changes are
  written as `lan1:` (`slipped` in `VlanTable`).

## 7. Plan

1. Done: the PoE daemon, tf_autorestart and the stateful parts of the web
   interface, with the proofs of section 4.
2. Done: the safety properties of all modules are proved but for `SavedIsShown`,
   `SavedExactly` and `FieldsFollowDependencies` (section 4 says why).
3. A composition of `Autorestart` and `PoeDaemon`: `poe_Control` as `manage`
   calls on the queue, a `reload` in the middle of a restart, a restart of
   either daemon between power down and power up.
4. `DmClient`: the state machine of `state_handler.c` with failing requests,
   then `HwSys`, and the socket of tf_autorestart with silent clients.
