# Daqster in TLA+

Formal models of Daqster, a Qt application that runs data-acquisition
plugins: a launcher that starts child processes, a framework that loads,
creates, disables and unloads plugins, and plugins that move audio, video,
numbers and sampled data between the nodes of a graph, talk to language models,
and manage requirements. The modules are translated from the code under `src/`;
TLC checks them on small instances and TLAPS proves theorems for every value of
the constants. `PROJECT.json` lists, for every definition, the lines of code it
stands for, and the runs, the hazards, the findings and the theorems.

Paths below are relative to `src/src/`; `base/` is `frame_work/base/src/`,
`demo/` is `plugins/demo_nodeditor_nodes/`.

## 1. Inventory

### 1.1 Components, their state and their operations

| Component | Code | State | Operations |
|---|---|---|---|
| Process manager | `base/process/QProcessManager.cpp` | next handle, handle → QProcess, handle → descriptor | StartProcess, Kill, KillAll, OnProcessFinished, destructor |
| Launcher | `apps/Daqster/main.cpp`, `ApplicationsManager.cpp`, `AppToolbar.cpp` | running applications shown, quit request | launch, kill one/all, quit, destruction |
| Shutdown signals, console listener | `base/platform/UnixShutdownHandler.cpp`, `apps/Daqster/ConsoleListener.cpp` | self pipe, listening thread | signalHandler, onSignalActivated, finishedGetLine |
| Plugin manager | `base/QPluginManager.cpp` | (in the registry) | SearchForPlugins, CreatePluginObject, EnableDisablePlugin, ShutdownPluginManager, AllPluginObjectsDestroyed |
| Plugin registry | `base/registry/PluginRegistry.cpp` | hash → description, hash → interface | registerPlugin, takePlugin, createPluginObject, instances |
| Plugin interface | `base/QPluginInterface.cpp`, `QBasePluginObject.cpp`, `QPluginLoaderExt.cpp` | descriptor, loader, object pool | CreatePlugin, ShutdownAllPluginObjects, pluginInstanceDestroyed |
| Plugin persistence, discovery | `base/persistence/`, `base/discovery/` | `[Plugins]` section of the user's .ini file; search path | load, save, remove; discoverPlugins |
| Log manager | `base/LogManager.cpp`, `base/gui/DebugConsoleWidget.cpp` | master switch, categories, level, log file, filter rules; check boxes | message handler, setters, reset, shutdown; the dialog's slots |
| Profiler | `base/perf/PerfProfiler.cpp` | per-domain ring statistics, switch | begin/end of a scope, add, flush, figures |
| Framework dialogs | `base/gui/`, `apps/Daqster/AppSelectionDialog.cpp` | view state | list, filter, enable |
| Video frames | `plugins/common/GL/TexturePool.cpp`, `NodeDataTypes/VideoFrameData.h` | pool of GL textures, a frame's cached image and textures | acquire, release, setFrame, asTexture, asImage |
| Video sources | `demo/Sources/Video/*SourceNode.cpp` | player or camera, place, widgets, audio port | play, pause, stop, choose, connect, errors |
| Video filters | `demo/Sources/Video/FrameSamplerNode.cpp`, `VideoEffectNode.cpp`, `CustomShaderNode.cpp` | gate, effect, programs, pool | pass, transform, compile, render |
| Video output | `demo/Sources/Video/VideoOutputNode.cpp`, `VideoGLBlitWidget.cpp` | display mode, widgets, last frame | setInData, mode switches, present, paint |
| Audio source | `demo/Sources/AudioSource/` | capture buffer, device, format, running and connected flags | start, stop, updateDevice, onReadyRead |
| Sampled data, DAQ display | `plugins/common/NodeDataTypes/SampledData.h`, `demo/Displays/DaqDisplay/` | blocks, ring, cards, task in the pool | decode, append, compute, show |
| Number nodes | `plugins/node_editor_ide/BuiltInNodes/` | inputs, type, expression, strobe, result | edit, wire, recompute, save/load |
| Requirements manager | `plugins/requirements_manager/` | files, parsed list, selection, editor, history | parse, edit, create, mark done, archive, validate, layers, tree, export |
| LLM chat source | `demo/Sources/LLamaSource/` | sessions, requests under way, connection, server process | send, answer, health check, start/stop server |
| QtCoinTrader, test and template plugins | `plugins/QtCoinTrader/`, `plugins/tests/` | – | QML front end of a library not in the tree; samples |

### 1.2 How they interact

* The launcher starts every application as a child process of itself through
  the process manager (a base class of `ApplicationsManager`). Signals between
  manager, `ApplicationsManager` and toolbar are direct connections: slots run
  inside the emitting statement.
* Every child, and a launcher with one argument, is a Daqster process that owns
  a plugin manager. All of them share one thing: the user's .ini file, which
  each reads once, at start, and later only writes.
* A plugin's objects report their destruction to their interface, which tells
  the manager, which drops the interface, whose destructor drops the loader,
  which unloads the code. Each of these hand-overs goes through `deleteLater()`,
  so the event loop decides when it happens.
* Nodes pass `std::shared_ptr` data along connections synchronously
  (`dataUpdated` → `setInData`); audio capture runs in a thread of its own, the
  DAQ display computes on a thread pool, and both reach the GUI thread through
  queued calls.
* Players, cameras, HTTP replies and a local model server answer through the
  event loop, whenever they like.

### 1.3 What is hard

* **Blocking calls that run handlers**: `waitForFinished` delivers `finished()`
  from inside `Kill` and `KillAll`, which are iterating over the map.
* **Failure half-way**: a child that never started; a plugin whose constructor
  crashes between the mark and its removal; a rendering that fails with a
  texture in hand; a file that is written but not moved.
* **Several processes, one file**: every save writes a whole description.
* **Deferred deletion**: between `deleteLater()` and the event loop everything
  may be called again.
* **Threads**: audio thread, worker, compute pool and GUI with queues between.
* **Late answers**: frames of the old source, replies to a request of another
  session, a search timer, a check of the GL context one turn later.
* **Sharing mutable data**: a video source overwrites the frame it handed out;
  a number wire is a weak pointer.
* **Two copies of a state**: check boxes and rules, tree selection and current
  index, toolbar and process map, description and .ini entry.

### 1.4 What makes each component correct

* Process manager: events come in order and once; the map is what listeners
  believe; a running child is never out of reach; a stop is enforced.
* Launcher: the toolbar shows exactly the running applications; every way of
  asking it to quit ends; no child is left that was not forced to stop.
* Plugins: copies of one description agree; a crash leaves its mark and a
  marked, ill or disabled plugin stays so; code outlives its objects; unused
  libraries go; a shutdown reaches every object.
* Video: pooled textures are held by at most one frame and come back on every
  path; a presented texture is alive; there is one surface at most and a frame
  that arrives is on it; CPU and GPU compute the same picture; a click plays
  what the text field names.
* Audio and DAQ: samples are decoded in the format they were captured in; tasks
  do not overlap; a stop stops.
* Numbers: what is displayed follows from the numbers on the wires.
* Logging: the dialog shows what the manager does, and what is chosen in it is
  what is heard; the open file is the one that is named.
* Requirements: the list is what a fresh parse would give; a button acts on what
  is shown; only a text that somebody edits makes two identifiers equal; nothing
  is archived before what it needs.
* Chat: what is displayed is the active session; requests and answers alternate
  as the protocol wants.

## 2. Modules

| Module | Models | Extends / instantiates |
|---|---|---|
| `QProcessManager` | the process manager and the children as the OS and QProcess show them | |
| `AppList` | abstract specification: the list of applications a user sees | |
| `Launcher` | main, ApplicationsManager, AppToolbar, signals, console, destruction | EXTENDS `QProcessManager`, INSTANCE `AppList` |
| `PluginLifecycle` | plugin manager, registry, interface, loader, persistence, discovery, in several processes | |
| `VideoFrames` | frames and pooled textures along source → effects and samplers → output → GL window | |
| `VideoEffects` | the pictures the effects compute, on the CPU and in shaders, from the colours each begins with, and which way up they are | |
| `VideoSources` | file, stream and camera nodes with their players | |
| `FrameSampler` | the gate of the sampler node | |
| `ShaderNode` | the custom shader node: editor, programs, pool, every failing step | |
| `VideoOutput` | the display of the output node in both builds | |
| `SampledData`, `SampleDecoder` | blocks of samples; how bytes become numbers | |
| `AudioCapture`, `DaqDisplay` | the two ends of a stream, with their threads | EXTEND `SampledData` |
| `SampledStream` | both with the edge between them | EXTENDS `AudioCapture`, `DaqDisplay` |
| `ExprParser` | the expressions of the Arithmetic/Logic node | |
| `NumberNodes` | number sources, Arithmetic/Logic, Modulo and display with their wires | the value of an expression is a parameter, `ExprParser`'s in `MCNumberNodes` |
| `LogManager` | the log manager under its dialog, and where a message goes | |
| `PerfProfiler` | a profiling domain | |
| `ChatWidget`, `ChatNodes` | a chat panel as a value; the LLaMA and Console nodes around two of them | `ChatNodes` EXTENDS `ChatWidget` |
| `RequirementFiles` | the requirement files and what the parser does to them | |
| `RequirementsWidget` | the browser and editor on top | EXTENDS `RequirementFiles` |
| `DependencyLayers` | the dependency graph: references, layers, places | |
| `RequirementGraph`, `RequirementTree` | validation, order within the layers; the tree | `RequirementTree` EXTENDS `RequirementGraph`, this `DependencyLayers` |
| `Conversions` | one call of an effect, a chain, the blur, save and load, the decoder, the csv exporter, the layers or the places of the graph, on any input | EXTENDS `VideoEffects`, `SampleDecoder`, `DependencyLayers` |
| `AlgorithmsProofs` | theorems about `NumberNodes` and `Conversions` | EXTENDS both and TLAPS |
| `NodesProofs` | theorems about the seven machines of `MCNodes`: log, sources, shader, chat, sampler, profiler and, from `VideoOutputProofs`, the display of the video output | EXTENDS `MCNodes`, `VideoOutputProofs` and TLAPS |
| the other `*Proofs` | theorems; `RequirementsProofs` is about `RequirementsWidget` | EXTEND their module and TLAPS |
| `MC*` | instances for TLC | EXTEND one module, or several that run side by side |

A definition whose name ends in `Mut` is a plausible slip in the definition
below it; no specification uses it. It is there to show that the property named
with it in `PROJECT.json` would notice the slip.

### 2.1 QProcessManager

`m_processMap`, `m_processDescriptors` and `m_nextHandle` are the members of
those names. `child` is what the operating system knows of a child (`forked`,
`live`, `noexec`, `dead`), `state` what QProcess knows (`NotRunning`,
`Starting`, `Running`): the two differ between `fork` and the startup pipe, and
between a death and the delivery of `finished()`. `signal` is the strongest
signal sent. `pc`, `cur` and `rest` are the place of the GUI thread inside a
blocking call: `waitForStarted` (`waitStarted`), the two waits of a kill
(`waitTerm`, `waitKill`) and `KillAll`'s loop over its snapshot (`loop`).
`events` records the process events per handle, `requested` the handles somebody
asked to stop; both are history variables the code does not have.

A blocking wait is left either because the child died (`WaitFinished`, which
runs `OnProcessFinished` inside the call) or because its time is over
(`WaitTimedOut`); time itself is not modelled, so both are always possible.
That is what makes the proofs independent of the 5 s, 10 s and 1 s of the code.

### 2.2 Launcher

Adds `m_runningApps` (the toolbar's mirror), the phase of
`main()` and of the destructors, the quit request, the bytes in the signal pipe
(`s_sigPipe`, with the notifier that reads one of them per turn of the event
loop) and the line that the console thread posts. The action that emits a
signal contains its slots, in the order of connection. `toolbar`, chosen in the
initial state, is which of its two ways `main()` takes. `m_headlessMode` is no
variable: `SetHeadlessMode` has no caller in the repository, so the flag keeps
its initial FALSE, and the hook in `OnProcessEvent` that would quit after the
last child (`quit'`) never does.

`AppList` is the promise to the user: entries are added while the window is
open, disappear for good, never come back, and go with the window. `ListSpec`
is the statement that the launcher implements it under
`listed <- m_runningApps`; the window is open while `toolbar` and `phase =
"exec"`, and without one nothing is ever listed.

### 2.3 PluginLifecycle

A plugin is known by the hash of its file. `file` is the disk, `ini` the shared
`[Plugins]` section; per process, `descs` and `m_pluginMap` are the registry,
`root` the interface object of each library (with the number of its `live` and
`dying` objects), `loader` the library handle, `orphans` the objects whose
interface was deleted before them, `busy` the plugin whose constructor is
running, `todo` the plugins `PluginsInit` has still to try.

A process handles one event at a time, so a handler is an action, except that
`CreatePluginObject` is cut where it calls the constructor of the plugin: the
process may crash there, and the constructor may call back (`Reentrant`). It
then looks at plugins by `instances()` (`PluginRegistry.cpp:160-161`): one that
is found marked, as its own is, becomes ill. That `instances()` also creates an
object of yet another plugin, one constructor inside the other, is left out.
`deleteLater()` only marks; `DeleteObject`, `InterfaceDeleted` and
`LoaderDeleted` are the event loop. The constant `CallsDuringTeardown` says
whether a call may come in between.

### 2.4 The video modules

**VideoFrames.** A chain of `N` nodes of the kinds `Kind` stands between a
source and the output, which is node `N + 1`. A frame is known by what it holds:
an effect's frame is the pooled texture in its handle (`<<node, name, size>>`),
a source has one `VideoFrameData` for all its pictures (`Src`), a frame made on
the CPU has no texture (`Cpu`). `tex` is what the texture names of the shared GL
context hold, `m_all` and `m_free` the `TexturePool` of each node (the output
has one for its embedded effect), `m_lastInput` and `m_output` the frames each
node keeps, `m_textureOwner` and `m_textureHandle` what the window keeps; the
picture in `m_textureHandle` is a history variable, what the window was asked to
show. Frames are shared pointers: `Held` is the set of those that somebody
holds, and every step that changes a holder does what the destructors of the
frames that are let go of do. `pos` and `arg` are the call of `setInData` that
is due inside the `dataUpdated` of the node before. `acquire` distinguishes a
free texture of the size asked for, one of another size (same name, new storage)
and a new one. Simplified: the closed window is deleted at once, though the code
uses `deleteLater()`; the planes of an upload are one name; a name deleted in a
step is not handed out again in that step; the step of a sampler leaves open
whether the frame passes, which `FrameSampler` decides.

**VideoEffects** has the pixels: what each effect does to them on the CPU
(`VideoTransformOps`) and in its shader, with the quad's texture coordinates,
the flips and the readback, so that `PicturesAgree` of `Conversions` can compare
the two. A planar frame (YUV) has no colours before somebody converts it: the
shader with a fixed matrix and range (`VideoGLShaders.h:272-286`), the CPU with
Qt's (`asImage`). So it comes as two pictures, `picture` and `shaded`, which
need not be the same, and the first node of a chain decides which of them the
chain is about.

**VideoSources** is one of three nodes (`kind`) in one of two builds (`qt5`)
with its text field, its buttons, the player or camera behind it, which fail and
end by themselves, the consumers on the audio port, and the frames that wait in
the event queue and may be of an older source.

**ShaderNode** is the GPU path of the custom shader node as one action with a
`fault` at each of its steps; `pool` counts the textures and those that are
free, `programs` what is compiled under which key.

**VideoOutput** is the state machine of the display: native video widget and GL
window, in-scene item and label, the "GPU display" box, the context that turns
out broken one turn of the event loop later (`CheckGlWidget`), edges that come
and go. Each window has what it `shows`, whether it is `visible` and whether the
user `closed` it. What the window does with textures is in `VideoFrames`.

### 2.5 Samples and numbers

In `AudioCapture` the audio thread writes bytes under the mutex and emits
`readyRead` after it, two steps; the worker takes calls from its queue; the GUI
thread takes `samplesReady` from its own. A block is known by the formats its
bytes were recorded in and the one its descriptor states. In `DaqDisplay` a
30 Hz tick hands the latest block with a copy of the cards' configurations to a
task in the pool; the task alone touches the ring; its series come back through
the queue, after cards may have been added or removed. `SampledStream` adds the
edge between the two, and deletion of both nodes.

`ExprParser` is the recursive descent of `ExprParser.cpp` over tokens; the nodes
take what it makes of an expression as the parameter `Meaning`. In `NumberNodes`
numbers flow from sources through one operator to a display inside one call;
ports come and go with the number of inputs, with the strobe and with a change
of type, and the wires with them. A stored input is a weak pointer to its
source's number; the source replaces that number only together with an update,
so the model stores the number.

### 2.6 Log manager, profiler, chat

`manager` is `LogManager::Private`, `rules` the `QLoggingCategory` filter rules
in force, `Passes` what Qt lets through under them: also the debug messages of a
category that no rule names. `Sinks` is where the message handler then takes a
message, with its early return when nobody listens. `dialog` is the check boxes.
A slot that sets a check box runs that box's own slot, inside the same action.
Not everything writes the rules: a process starts with those of its environment.

`PerfProfiler` has the stack of open scopes, the ring of each stage and the
switch, which another thread may turn at any time.

`ChatWidget` makes each slot of the panel a function from panel to panel;
`ChatNodes` puts two of them (LLaMA and Console) into a graph with HTTP replies
in any order, a health check, a server process with its output, and the wire.

### 2.7 Requirements manager

`RequirementFiles` is the disk and the parsed list: a path is a section and the
number in the file's name, the content is the identifier in the title, the
status, the dependencies and whether the one criterion is checked; writes and
moves may fail. The editor may change any of these, so that a file's identifier
need not be its name. `RequirementsWidget` is the browser: the tree's selection
and `m_currentIndex` are two things, as in the code; the search timer, the
dialogs with their nested event loop, the editor's hidden text and the history
of links are kept. `Careful` says whether the user saves only what is on the
screen and opens no dialog within 150 ms of a change of the search; the run
`requirements` assumes it, and `requirements_save` shows what happens without.

`DependencyLayers`, `RequirementGraph` and `RequirementTree` are pure: what a
reference means, Kahn's layers and the places of the nodes in the graph view;
the errors of the validator, the barycentre sweeps and the exporter's count of
cycles; the rows of the tree. A round of Kahn's loop is `NextRound`; the
counters of incoming edges are the set of nodes whose predecessors are all
placed (`Free`). An identifier is a number with its spelling: `Respelled` above
it stands for the same one in other letters, since the code compares some
identifiers as they are written and others in any letters.

### 2.8 Conversions

What turns data into other data has no state of its own. A behaviour of
`Conversions` is one call: `request` is its input, `answer` what the code
returns. `Request` is every input the program can meet: pictures of any size,
the ranges of the sliders, chains of any nodes whose shaders do not round, from
frames with colours or planar ones, channels of any integer types with any
frames and an unfinished one at the end, fields of any characters, lists of any
requirements with cycles, duplicates, other spellings and references to nothing,
layers and widths of any sizes. The properties compare the answer with what it
should be (the CPU's picture, the mean over a square, the numbers that were
recorded, to the precision of a float where the code narrows to one, what a
reader of RFC 4180 finds in the row, what the cycles reach, whether two nodes
that are drawn around their centres overlap). The run takes a small set of
requests, the theorems all of them.

## 3. Runs

| Run | Instance | Shows |
|---|---|---|
| `launcher` | 2 handles, 1 signal in the pipe, with toolbar and with arguments, fair | no child is lost, mirror exact, orderly exit, refinement of `AppList`, every request to quit ends |
| `plugin_lifecycle` | 1 process, 2 plugins and a file that is none, 2 files, 2 objects, reentrant constructors, fair | crash is marked, the .ini file is the process's copy, ill and disabled stay; registered interfaces live, code outlives objects, disabling and shutdown reach all, unused is unloaded |
| `video_chain` | effect, then sampler; 3 names, 2 pictures | every texture is free or carried by a frame somebody holds, and alive; one from a pool keeps its picture while it is held |
| `sampled_stream` | 1 device, 2 rates, 2 writes, 1 queued call, 1 card, 1 new wire | what is drawn is decoded as it was recorded; the worker follows the model; the ring is in order; display and stop get there |
| `requirements` | identifiers of one digit up to 2, 2 writes, 2 links, careful user | list is disk, buttons act on what is shown, identifiers become equal by an edit only, nothing archived early |
| `algorithms` | every input of small sets, see below | reference definitions of the pure algorithms; the number nodes |
| `nodes` | seven small machines, one at a time | chat, log, sources, sampler, shader, profiler, and the display of the video output: one surface at most, a frame that arrives is given to it, a broken window goes |
| `plugin_crash` | 1 process, 1 plugin | *violation*: the mark of a crash is lost at the next start |
| `video_sampled` | a sampler and no effect | *violation*: the source deletes the textures that the window paints |
| `video_output_hidden` | as the video output of `nodes` | *violation*: a GL window that a null frame has hidden stays hidden |
| `requirements_save` | as `requirements`, any user | *violation*: Save writes one requirement's text into another's file |
| `number_strobe` | as the number nodes of `algorithms` | *violation*: a strobe never lets anything through |

Three more configurations are kept for use by hand, each showing one property
fail where its neighbour run holds: `MCVideoSize.cfg` (a frame in a texture of
another size), `MCPluginShared.cfg` (two processes: the other one enables a
disabled plugin again), `MCPluginTeardown.cfg` (a call during teardown makes an
object outlive its code).

**Bounds.** The launcher has two children, one to be stopped and one to
interfere; no handler looks at more. `MaxSignals` is one byte in the pipe: each
byte calls the same idempotent `quit()`, and another can arrive once it is read.
Two plugins and two files are what it takes for duplicates, replaced files and a
constructor that looks at another plugin and at its own; two objects per plugin
are one that dies while one is made. `MaxHandle`, `MaxSignals` and `MaxObjects`
stand in guards.

For video, one effect in front of the sampler and the output gives two pools, a
frame held in several places, a failing step between any two of them and a pool
that outlives its node with a frame further down the chain. Three names are a
frame on display, one being drawn and the source's upload; the run also shows
what happens when names are used up (no upload, no new texture: the frame takes
the CPU path).

In `sampled_stream`, two writes of the audio thread are one in the old and one
in the new format; `MaxCalls` is one call of the GUI waiting in the worker's
queue, among the audio thread's notifications, while the state it was made in
changes; `MaxWirings` is one new wire to a source that has a block already,
which brings that block a second time. Both formats have one channel: what
several do to the bytes is in `algorithms`. A ring of two seconds holds two
blocks, so one can fall out. `requirements` has identifiers that run out
(`Limit` stands for 999), and one requirement that can depend on the other; its
`Bound` allows a write and a link, or two of either, and one step more.

`algorithms` calls each algorithm on every input of a set given in
`MCAlgorithms`: four requirements with up to `MaxDeps` dependencies among them,
which is enough for two cycles with something downstream, three with ambiguous
and dangling identifiers, and two that refer to each other and to themselves in
either spelling (`SpelledLists`); layers of three by three with every set of
edges; nodes of which one is much wider than the others (`Widths`); every pair
of operators nested either way; csv fields of up to two of the characters that
matter; pictures of up to four pixels with bytes at the boundaries, through
chains of up to three nodes, from frames with colours and planar ones; samples
of one to four bytes, in base 16 instead of 256, at the ends and in the middle
of their ranges. The number nodes have two sources, up to three inputs, two
wires, two expressions (one with a division), and one source at a time that
changes by itself (`OneAtRandom`).

`nodes` runs its seven machines one at a time: they share no variable, so a
behaviour of several interleaves behaviours of each, and a property of one sees
none of the others. In the chat, `Bound` keeps stored messages and requests
under way to three in all, to four when two requests are under way, and to two
when the node runs a server of its own; the Console keeps to one session. The
sampler runs for six ticks of a seven-tick second with intervals of two or three
ticks; the ring of the profiler has two places instead of 256, so that it wraps.
The video output has both builds, a machine with and one without GL, and one
zero timer not fired yet (`MaxTimers`), which can meet every other event.

Deadlock is checked except where the system may stop: when the process is gone,
when an algorithm has answered, when the bounds are used up.

**Fairness.** Only the program's own steps are fair, never the user, never a
child's own death. Launcher: the GUI thread goes on when it can, a blocking call
returns (the code passes timeouts to all of them), the event loop delivers what
is posted (strong fairness where blocking calls recur and disable it: `Asked` is
the delivery of a signal or of a console line), the OS runs a forked child and a
child that was sent SIGKILL dies. Plugins: the event loop deletes what was
handed to `deleteLater()`. Stream: the worker and GUI threads take their queues,
the timer ticks, the pool runs its task; strong fairness for the worker, because
only its `stop()` keeps the audio thread from writing again. Nodes: the zero
timer of the video output fires (`ZeroTimersFire`), nothing else.

**Violations** are disagreements between the code and what its own comments or
documents say; `PROJECT.json` quotes both under `findings`.

## 4. Proofs

`LauncherProofs` begins with the process manager: for every `MaxHandle`,
`TypeCorrect`, `EventsInOrder`, `MapsAgree`, `ChildrenReachable`,
`StopsEnforced` and their conjunction `NoChildIsLost`. The invariants are not
inductive: that STOPPED comes once needs that the map holds a handle only
between its two events, and that a stop was forced needs to know what `cur` and
`rest` are at each place inside the blocking calls. `IInv` adds these, and that
handles not yet given out are fresh. One step per action, then PTL.

Its second part builds on that. `LauncherInv` is `IInv`, `MirrorExact`, and what
each phase of `main()` and of the destructors implies about the manager and
about signals sent. The manager's steps are those of its own specification as
long as its object exists (`ManagerSteps`), which hands `IInv` over; the
launcher adds steps that leave the manager alone (`QuietSteps`) and `~QProcess`,
which kills what is left (`Destroyed`). Proved: `LauncherTypes`,
`LauncherLosesNoChild`, `MirrorStaysExact`, `ExitStaysOrderly`, and
`ToolbarImplementsList`, that the launcher refines `AppList`.

`PluginLifecycleProofs` proves, for any sets of processes, contents and files:
`PluginTypes` and `DescriptionsAgree` unconditionally, from `OwnInv` (types,
copies agree, a process that is down is empty, a busy plugin is registered and
marked); `IniFollowsProcess`, `CrashLeavesMark`, `IllStays` and `DisabledStays`
for one process (`SoleProcess`), from `SoleInv`, which adds `IniIsCopy`. An ill
plugin stays ill, but for one that was found ill while its own constructor asked
for its instances: when that returns an object, the plugin is well again. The
guards read the copies of the process, the properties speak of the file, and
only that the two agree carries a property of the file over a step.
`RegisteredStaysLive`, `CodeStays` and `EveryObjectIsReached` hold for any
number of processes when no call comes during a teardown
(`~CallsDuringTeardown`), from `CalmInv`: each plugin of a process is `Whole`
(registered with a live interface and a held library, or on its way out with no
object left) and `Silent` (nothing of it is used when it is disabled or the
process ends). That needs both: only because an interface loses its last object
before it is doomed is nothing orphaned, and only because a doomed one is asked
nothing does it stay so. The calls that come during a teardown are thus not
covered by a theorem: there, only the agreement of the copies and what is said
of the .ini file is proved. The assumptions are real: `MCPluginShared.cfg` and
`MCPluginTeardown.cfg` show what happens without them.

`VideoFramesProofs` proves, for every chain and any sets of names, sizes and
pictures: `TypeCorrect`, `PoolsAreSound`, `TexturesStayAlive` and their
conjunction `TexturesStayAccounted`. `IInv` is the type invariant, `Pools` (each
pool's entries are distinct and split into free and carried), `Alive` (pooled
and uploaded names are textures, with one owner each) and `Flow`: the frame on
its way is held by somebody or carries no pooled texture, and nothing flows to a
node that is gone. Two lemmas carry the proof: `HoldStep`, that changing the
holders keeps pools sound and textures alive, and `DrawStep`, the same when a
texture is acquired and drawn into. The only assumption is `FramesAssumption`.

`PooledPicturesKept` adds, for every chain of effects and samplers, that a
texture of a pool keeps the picture that was drawn into it as long as anybody
holds its frame or the window has it to paint, and that the window has the
source's own frame only if no effect is in front of it. Two facts make that
inductive: the source's frame never gets beyond the first effect
(`SourceStaysBefore`), and the texture of the frame the window holds is the one
it paints, with the picture of the time it was presented (`PaintsItsFrame`): a
texture is drawn over only after it came back to its pool, and it does not while
the window holds the frame. The source's own textures have no such protection,
which is the violation that `video_sampled` shows.

`VideoOutputProofs` proves `SurfacesStayRight` and `FramesAreShown` for any
pictures and effects, in both builds. The slots of the node are functions of the
display, so the lemmas are about displays: `Intact` says which surfaces go
together and in which mode, and each function keeps it. A native window is
sound only while GL is out of the question, or the same frame would make a GL
window beside it; that is what connects `OneSurface` to the fallback and to the
late check of the context. `FrameIsShown` says of a native window and of the
scene's item that they are visible unless the user closed them; of the GL window
it cannot, as `video_output_hidden` shows.

`RequirementsProofs` proves `ListStaysDisk`, `ActsOnShown`, `IdsStayUnique` and
`ArchivesFinished` for any width of the identifiers, any number of writes and of
links, and a user who is careful or not. `FilesInv` relates list and files,
`ViewInv` the current requirement to the screen and the list; each needs the
other, since an operation rewrites what is current: so it is one that was
parsed, and its file is there to be moved. That `generateNextId` gives a fresh
identifier needs that a finite set of numbers has a greatest. `IdsAreUnique` is
about the steps in which every file keeps its identifier (`KeepsIds`), since any
other may be typed into the editor. Stating
`FinishedFirst` for all these showed a case that the small instance had not: a
Save whose write fails leaves its text, but not the fields parsed from it, in
the list (`RequirementsWidget.cpp:374`, `:441`), and "Mark done" then checks the
dependencies of the text before. The property therefore leaves such requirements
(`Edited`) out until they are parsed again.

`AlgorithmsProofs` proves `NumbersStayCurrent` for any sources, numbers, counts
of inputs and expressions. The expression language is a parameter of the module
(`Meaning`), of which the proof needs only that it gives a number or an error
and that a variable nobody set counts as 0 (`Unset`; `ExprParser::parse` puts
every variable to 0 first); TLC checks both of the parser's model. The invariant
says that the display has the result, the result is what `recompute` makes of
the inputs that are stored, and these are what the wires carry
(`InputsAreWired`). For that to last, no port has two wires, nothing is stored
beyond the inputs, and no strobe by a node without one: that is why the wire
which a strobe leaves behind does no harm when a longer list of inputs takes it
over.

Its second part proves `PicturesAlwaysAgree`, `DataAlwaysReadsBack` and
`DrawingsAreSound`: of every
request, not only those of the run. The invariant is that an answer is what the
operator makes of the request (`Conversed`); the work is in what the operators
return, one lemma for each kind of request.

* `FallbackIsNear`: an effect of one pixel at a time is a quotient rounded down
  on the CPU and rounded to the nearest in the shader, clamped to a byte in
  both; `PixelsNear` has the arithmetic of each effect.
* `FilmedIsUpright`: the picture a frame stands for (`asImage`) is what each
  stage changes, whichever side the stage runs on; by induction over the chain.
  The shaders that round are not among its stages, since their errors add up. A
  planar frame becomes the colours of the side its first node runs on, and the
  theorem is about these.
* `SoftenedIsMean`: a mean of means that are rounded down (`MeanOfMeans`). Each
  pass loses less than one (`TotalOfQuotients`), and the sum over a window is
  the sum over the whole row with zeros outside (`TotalInWindow`).
* `EncodedIs`, `DecodedReadsBack`: the digits of a number make the number again,
  and in two's complement also a negative one; a channel's bytes are where
  `Offset` says, since the bytes of a frame are those of its channels one after
  another, and a recording's are those of its frames (`Recording`). A physical
  number is then rounded to a float (`Precision`).
* `RowIsRead`, `ExportedReadsBack`: the reader's state after each character of
  a field as it was escaped; then field by field.
* `ReloadedSurvives`: the values of the widgets are within the bounds of
  `load()`, so clamping changes nothing.
* `KahnEnds`, `LeftIsStuck`, `BuiltIsLayered`: after every round of Kahn's loop
  the layers and what is left share out the nodes, and an edge into a layer
  starts in an earlier one (`Sound`); there are as many rounds as nodes, and
  each places one or finds nothing free (`Nearer`). What is left is what the
  cycles reach: what reaches a placed node was placed before it
  (`ReachedIsLater`), so no node of a cycle is placed and nothing behind one;
  and a walk against the edges that never leaves what is left, with more steps
  than there are nodes, meets a node twice (`ClosedIsCyclic`, by the pigeonhole
  principle).
* `PlacedApart`: a layer's step is the widest of its nodes and a padding
  (`StepIs`), and a sum of steps only grows (`TotalGrows`). Since a node is
  drawn around its centre, that keeps two apart unless the one on the right is
  wider than the one on the left by more than both paddings (`Covers`).

The base of a byte is a constant, any even number above 0; the run takes 16.

`NodesProofs` has the theorems about six of the machines that `nodes` runs,
takes those about the seventh from `VideoOutputProofs`, and says of them
together (`PartsBehave`) that `MCNodes` implements the safety specification of
each: the parts share no variable, so the theorems about each carry over to what
the run checks (`GraphStaysSound`).

* Log: `ConsoleStaysTrue` for any categories, files and sessions. What is heard
  depends on the rules in force, which only some slots write; `RulesFollow` says
  when they are those of the manager: always, but for the inherited ones, which
  stay until the first change. Unchecking a category silences its debug messages
  only under the master switch; with the master off they pass, and the property
  says that too. After shutdown only a fatal message goes anywhere.
* Sources: `SourcesAreSound` and `ClicksPlayWhatIsNamed` for any media, cameras
  and consumers. The strengthenings are that the count of the audio port is the
  number of its wires and each holds the last block (`Port`), and, for clicks,
  that the player's source is `m_loadedPath` (`LoadedIsSource`).
* Shader: `TexturesReturn` and `EditedShaderRuns` for any texts of the editor.
  The key is that a rendering begins with at most one texture held by the node
  and one by the display, so that three textures suffice whatever step fails.
* Chat: `DisplayStaysActive` and `RequestsStaySound` for any sessions, prompts
  and texts. `Shows` says of one panel that its row, display and store are those
  of one session; every slot is a function from panel to panel that keeps it.
  The display is built by a loop over the messages, whose result `DialogueIs`
  gives in closed form: that a reload shows what was shown as the messages came,
  and that what is sent has the prompt first and only there, follows from it.
  The flag that refuses the input is set from a request to the first reply after
  it (`BusyUntilTheFirstReply`). The server's button says Stop just while the
  server runs and was not told to stop (`CaptionsFollow`).
* Sampler: `RateStaysKept` for any settings. The counter is the number of frames
  since the last change, so it is a multiple of N exactly when a round is over;
  by time, no more passes than the quotient of what has gone by and the
  interval.
* Profiler: `FiguresStayRight` for rings of any capacity and any times. `Holds`
  says where in the ring each of the last measurements is (`Place`) and that the
  running sum is their `Total`; the sum changes by a difference, so the proof
  needs what `Total` makes of one more at the end and one fewer at the front.

`Dialogue`, `Total` and those of `Conversions` are recursive functions over the
length of a sequence. The library's induction theorems cannot be used for them
(they take operators), but that inclusion of finite sets is well-founded can:
`SetInduction` is induction over the numbers up to N in terms of sets, and
`Recursion` says that such a definition has a value, which is what the provers
need of it.

`SampledStreamProofs` proves `CaptureStaysSound` and `DisplayStaysSound` for any
devices, formats, cards and bounds. Three facts make the invariant inductive.
The source records in the worker's format, and so did all that is in its buffer
(`Recording`), hence each block that is labelled has one format, the one it
states (`Labelled`). The last start or stop on its way to the worker is what the
button says (`ButtonFollowed`). And a generation names a block (`Known`): a task
whose generation is the ring's finds its own block there, so that the ring's
format is the task's; with a newer one, the block goes behind older ones only
(`NoneIsNewer`, since the source delivers what it has last). The assumptions are
those on the constants; `StreamAssumption` says that "no task" is not a task.

Only model-checked: everything under fairness (`QuitEnds`, `UnusedIsUnloaded`,
`DisplayKeepsUp`, `StopStops`, `BrokenWindowGoes`), which is out of the prover's
reach; and what recurses over data by RECURSIVE operators or uses bitwise
arithmetic (`AnswersAreRight`): the validator's and the exporter's searches for
cycles, the tree, the sweeps with their crossing count, the parser. Every other
property that a passing run checks is a theorem, under the assumptions named
above.

## 5. Also visible in the models

These have no run of their own, because nothing in the repository promises the
contrary in words one could check, or the case is out of a bound.

* **Launcher.** A child that fails to start is announced as STARTED
  (`StartReturns` emits whatever `waitForStarted` returned), gets no
  `finished()`, and so stays in `m_processMap` and in the toolbar, also after
  KillAll; the parts of `ChildrenAccounted` are stated so that they cover it. A
  launcher of several arguments whose children have all ended stays in `exec()`:
  nobody turns the headless mode on that `ApplicationsManager.h:14` describes
  for it, so the hook for its end never quits. A SIGINT or SIGTERM after
  `exec()` has returned writes a byte that nobody reads.
* **Plugins.** `EnableDisablePlugin` preserves the enabled state only against
  the own process (`QPluginManager.cpp:412`). A call during teardown
  re-registers a root object that is about to be deleted
  (`QPluginManager.cpp:359-366`). A plugin that asks for `instances()` in its
  own constructor is taken for one that crashed (`PluginRegistry.cpp:161`), and
  healthy again when it returns. Of two files with the same content the later on
  the search path wins (`PluginDiscovery.cpp:119`); no document says which must.
* **Video.** `acquire` reuses a free texture of another size and keeps the old
  handle (`TexturePool.cpp:73`, `TexturePool.h:37`).
  A planar frame has other colours after the shader (`VideoGLShaders.h:272-286`,
  `VideoEffectGLProcessor.cpp:55-58`, a fixed matrix and range, or those of
  `DAQSTER_GL_MATRIX` and `DAQSTER_GL_RANGE`) than after Qt's conversion in
  `asImage()`, so a chain that begins on the GPU may differ in colour from one
  that begins on the CPU. `PicturesAgree` takes the colours of either as given,
  and leaves out the rounding between conversion and effect.
* **Video output.** The in-scene branch returns before the output port is
  served (`:634`; `VideoOutputNode.h:69` says frames pass through). A stale
  `m_image` is drawn again when the label is resized. A CPU-only effect is
  skipped for a frame that comes in a texture (`:567`), though the comment at
  `:565` promises the CPU path for it; `FrameIsShown` excepts such frames.
* **Video sources.** After an invalid medium `m_loadedPath` stays, so a repaired
  file is not set again until Stop. An error clears `m_isPlaying` while the
  player may go on, so the next click plays instead of pausing. Frames of the
  old device or file may arrive after a change. A camera's "running" is saved
  but not restored, and its errors leave `m_running`. The sampler drops the
  first frame in its MaxFps mode.
* **Shader.** "Failed to get GPU texture" leaves the old output. An invalid
  framebuffer object of the same size is used again. A frame or a slider runs
  the editor's text though the button says "Compile & Apply". `setInData`
  refuses to work without hardware GL, the button does not.
* **Audio and DAQ.** Wiring an edge again appends the last block once more,
  since it gets a new generation, though the comment at `DaqDisplayNode.cpp:149`
  says that the same block must not be appended twice; `RingInOrder` allows it
  for a new edge only. Physical samples are floats (`SampledData.h:413`,
  `:433`), so those of 32 bits lose their low bits. Blocks between two ticks
  never reach the ring (`:503`). Restoring sets `m_ringSeconds` without its spin
  box, and the recommended duration overrides the user's choice at every block.
  The play button stays checked when capture fails to start. A block that is no
  multiple of `bytesPerFrame` loses its tail. A card may show another card's
  channel for one pass (`:339`).
* **Numbers.** `load()` sets the combo boxes with signals blocked and never
  `m_currentType`. Turning the strobe off leaves its wire, which becomes an
  input when the count grows; with eight inputs the strobe's slot is past the
  vector. A source on two ports gives a transient result. Ternaries and `&&`,
  `||` evaluate both sides, so `b != 0 ? a/b : 0` is an error; `%` tests its
  operand before the cast, so `5 % 0.5` divides by the integer 0; what follows a
  complete expression is ignored.
* **Log.** A category that no rule names lets debug messages through, so with
  the master switch off unchecked categories are heard all the same, although
  `LogManager.h:29` and `docs/LoggingSystem.md:5`, `:133` say that debug is off
  by default. After shutdown the handler returns before its fallback to standard
  error (`LogManager.cpp:34-41`, `:90`), which only a fatal message reaches.
  Nothing is connected to `messageLogged`, so with the console off and no file
  warnings go nowhere (`docs/LoggingSystem.md:40`); `:75` says that a shutdown
  resets the rules, which it does not. A second dialog does not follow the
  first. A failed `setLogFile` closes the old file and keeps its path. The
  handler emits while it holds a mutex that is not recursive
  (`LogManager.cpp:97`), which is harmless only as long as nothing is connected.
* **Profiler.** `count()` is 0, not -1, for a stage whose samples were flushed
  (`PerfProfiler.h:52`). A scope begun while the domain is off is not recorded,
  nor one that ends while it is off.
* **Chat.** An answer goes to the session that is active when it arrives. Wiring
  again delivers the last request or answer again. The first of two replies
  clears `m_processingInput` while the other is under way. The server's button
  says Start while a server is starting, and after a stop which the process
  outlives (`LLamaModelDataModel.cpp:350-358`): a click then ends it. A question
  of the Console that comes while the model is busy is dropped without a word.
  The rows of the list all bear the active session's name. "listen" on the
  server's stderr sets the connected state without a base URL.
* **Requirements.** A failed write in "mark done" leaves DONE in memory, so what
  depends on it can be archived. Following a link starts a search timer that
  clears search and selection 150 ms later, and with them unsaved edits. A timer
  within the dialog of dependencies can leave `m_currentIndex` at -1.
  `moveToArchive` removes an existing target before a rename that may fail (the
  failure after the removal is left out). An identifier edited into a text may
  be that of another requirement, and a file made or moved later may overwrite
  one whose name is no longer its identifier. CANCELLED, which the run does not
  use, differs from ACTIVE in no operation. After identifier 999 a new
  requirement is not parsed, and the next one overwrites it. `pushNavHistory`
  truncates without updating the buttons. Criteria that are indented are parsed
  but not counted by `setCriterionChecked`.
* **Requirements, algorithms.** The last layer of the graph holds what the
  cycles reach, not only "members of a cycle" (`DependencyGraphData.h:62`,
  `.cpp:125`). Long titles can overlap (`DependencyGraphLayout.cpp:171`, `.h:36`
  say never) when the node on the right is much wider, since a layer's step is
  that of the layer on the left. The graph resolves duplicate identifiers by
  repository, validator, exporter and tree take the first. A requirement that
  depends on itself in other letters has no error, against the comment at
  `RequirementsValidator.cpp:242` that self references are reported above, and
  the exporter counts it as a cycle; `AnswersAreRight` says so. The markdown
  export does not escape `|`.

## 6. Not modelled

* Framework and configuration dialogs, drawing, axes, decimation, geometry,
  captions, icons, themes, translations: presentation of state that is modelled
  elsewhere.
* Plugin filters (one comparison per property), a rescan while plugins are
  registered (`SearchForPlugins` has no second caller), file-name tests, the
  Windows variants.
* The memory accesses of races: `setLogFile` and `shutdown` delete the log file
  without the mutex of the handler, an outcome no model can go on from.
* The scene, which is the QtNodes library and not in the tree: only the delivery
  of data along wires is modelled, from how the nodes use it. Likewise Qt's
  players, cameras, sockets and OpenGL, which succeed or fail at will.
* Floating-point sample types, what `decodeToNormalizedF32` narrows to a float,
  fonts and the text of markdown.
* `QtCoinTrader` (QML over a submodule that is not in the tree), test and
  template plugins, obsolete widgets that are not built, generated and vendored
  code.
