# Upgradr, specified in TLA+

Upgradr (`src/ieaddon/Upgradr`) is an add-on for Internet Explorer 6 and 7 that
injects user scripts into the documents of every tab, gives them a shell object to
work with, and lets a developer debug them.  This directory holds TLA+ modules of its
core, configurations that check them with TLC, and proofs checked by TLAPS.

IE loads the DLL once per process.  Every tab has a browser thread of its own with a
browser helper object (BHO) and a helperbar; the windows of all tabs (DOM explorer,
console, text views) belong to one UI thread.  All of them share a set of managers
behind one root object, and each manager is protected by a recursive lock of the root.

## Inventory

| Component (source) | State | Operations | What makes it correct |
|---|---|---|---|
| Lock manager (`Module.cpp`, `Module.h`) | `m_Ownership`, `m_Resources`, `m_CS`, `m_StarveMap`; the guards of the callers | `Acquire`, `Release`, `ReleaseAll`, `AcquireMany`; `CResourceLock`, `CResourceUnlock` | counts equal guards in force; `Enter` inside `m_MainCS` never blocks; one owner; no lost wake-up; no circle of waits among threads that keep the order |
| Clients of the locks (`WindowManager.cpp`, `UpgradrBHO.cpp`, `UpgradrScriptEngine.cpp`, `ScriptDebugger.cpp`, ...) | the section `CWindowManager::m_CS`, messages between threads, `m_WindowsMap`, site infos | BHO events, `InitializeDefaultPanes`, `Log`, injection and removal of scripts, the UI thread's message handlers | no deadlock; look-up-then-create makes one window, one site |
| Root lifecycle (`Module.cpp`, `WindowManager.cpp`) | `giRootInitRefcount`, `gpUpgradrRoot`, `m_Inited`, `m_UIThread`, `m_Ready` | `InitRoot`, `DoneRoot`, `RunUIThread`, `KillUIThread`, `CUIThread::Run` | the root lives as long as the objects that use it; the UI thread does not outlive its manager |
| Frame table and BHO events (`FrameTable.cpp`, `FrameManager.cpp`, `UpgradrBHO.cpp`) | id -> frame, a frame's child links, the id kept in each document, refresh and download flags | `Create`, `Destroy`, `Clear`, `UpdateLinks`; `OnDocumentComplete`, `OnBeforeNavigate2`, `OnRefreshStart/End`, ... | a managed document has its frame; links are a forest of live frames; a refresh misses no document |
| Browser manager (`BrowserManager.cpp`) | browser id -> browser, BHO, helperbar, two reference counts | `AllocBrowserId`, `ReleaseBrowserId`, `FindBrowserId`, `SetBHO`, `RequestDOM` | an id lives while anybody holds it and names one browser; the BHO asked is a live one |
| Script engines and sites (`UpgradrScriptEngine.cpp`, `UpgradrScriptSite.cpp`, `ScriptInstanceManager.cpp`) | engine states, instance lists, named items | `InjectScripts`, `RemoveScripts`, `Attach`, `Detach` | the registries know the same instances, whatever fails; an instance is unregistered when its frame goes |
| Script debugger (`ScriptDebugger.cpp`, ...) | site infos, instances of a script, documents, breakpoints | `RegisterScriptInstance`, `SetupBreakpoint`, `ApplyBreakpoints`, ... | a breakpoint set for a script reaches each of its instances |
| Script manager (`ScriptManager.cpp`, `Script.cpp`) | scripts, user settings, script values in a database | load, `SetScriptValue`, `SaveUserSettings` | what is in the tables after statements interleave, fail or are cut short; the catalog is what the disk has |
| Handle manager (`HandleManager.cpp`) | GUID <-> handle | `AllocHandle`, `FreeHandle` | the two maps are inverses |
| Shell object (`UpgradrShell.cpp`) | DISPID map, the script it speaks for | `GetValue`, `SetValue`, `Log`, `GetDispID` | a DISPID names one member |
| File system, database, logger, console, docking, DOM explorer, helperbar, toolbar, dialogs, browser watcher, hooks, HTTP server, installer | see `PROJECT.json` | | user interface, thin wrappers or vendored code |

How they interact: IE calls the BHO on the tab's thread (COM events); the BHO drives
the frame table; a frame owns a script engine, which takes the locks of the script,
instance and debugger managers to inject scripts; scripts call the shell object back
on the same thread; tabs reach the UI thread only through `SendMessage`, which blocks
them; the UI thread reaches the managers through the same locks.

What is hard here:

* **Three kinds of waiting at once**: hibernation inside `Acquire`, the critical
  section `m_CS`, and `SendMessage`.  No part of the code sees all three.
* **Re-entrancy**: a script that shows a dialog dispatches messages, so IE calls the
  BHO inside a handler of the BHO on the same thread.
* **Look-up, unlock, create, insert**: every creation of a window or of a script site
  gives the lock up in the middle.
* **Time limits**: the start and the stop of the UI thread go on without it when it
  is late.
* **Crashes** between two database statements, and **counters** that wrap.

`PROJECT.json` lists them one by one under "hazards", each at its line.

## Modules

    RecursiveLocks        what the lock manager promises its callers
    SharedResources       the lock manager; implements RecursiveLocks
    SharedResourcesProofs       types, counters, sections, order: proofs
    SharedResourcesRefinement   SharedResources implements RecursiveLocks: proof
    LockClients           handlers of tabs and UI thread over SharedResources
    LockClientsProofs     all invariants of LockClients; it keeps those of the manager: proofs
    RootLifecycle         the root object and the UI thread
    RootLifecycleProofs   all properties of RootLifecycle: proofs
    FrameTable            frames of a tab under the events of its BHO
    FrameTableProofs      all invariants of FrameTable: proofs
    BrowserRegistry       browser ids, and the objects of a browser that hold them
    BrowserRegistryProofs all properties of BrowserRegistry: proofs
    Scripts               engines, instances, script sites, debugger, breakpoints
    ScriptsProofs         all properties of Scripts: proofs
    ScriptStore           script files, handles, values and settings of all processes
    ScriptStoreProofs     all properties of ScriptStore: proofs

`LockClients` EXTENDS `SharedResources` and conjoins its actions with those of the
handlers, so it runs over the lock manager itself and not over an idealised one.

### SharedResources

A pass through `m_MainCS` is one action.  `Acquire` is `AcquireFree`, `AcquireOwned`
or `Hibernate`; each turn of the hibernation loop (`SleepEx(100, TRUE)`, outside of
`m_MainCS`) is `WakeAndOwn` or `WakeAndStarve`; each turn of the loop of `AcquireMany`
is an `Acquire` of its own, since other threads get in between.  `Release` is
`ReleaseNested` or `ReleaseLast`; `ReleaseAll` signals nobody, as in the code.  The
guards are what the callers do: `Lock` and `Release*` for `CResourceLock`,
`ReleaseAll` and `Relock` for `CResourceUnlock`.  `depth` counts the live guards and
`saved` is `m_Count` of a live unlock.  `MaxNested` bounds how many locks may be nested at a
time, over all threads.

The check of `Acquire` against requests out of order (`Module.cpp:219-231`) never
fires: `max` starts as `(ESharedResourceId)-1`, which no id is below.  The model has no
such guard either; `LockClients` shows that the order is in fact broken.

### LockClients

A handler is a sequence of the steps at which it can block or be seen by another
thread (`todo`); the steps of different threads interleave.  `Take`, `Drop`, `Suspend`
and `Resume` are the guards, `Enter` and `Leave` are `CSGUARD(m_CS)`, `Send` blocks a
tab until the UI thread has handled the message (`Receive`, `Reply`), and the UI thread
may block inside that handler.  `Lookup` and `Insert` are the two ends of creating a
window, `FindSite` and `AddSite` those of creating a script site.  Locks held around
code that neither blocks nor calls out are left out, and so is the CPU work between two
steps.  `WMM_DONESCRIPTSITE` is not among the messages here: only the end of the root sends it
(`CScriptDebugger::Done` under `DoneRoot`), so it is in `RootLifecycle`.

### RootLifecycle

`InitRoot` and `DoneRoot` run inside `gRootCS` (`inRoot`), so they are split only where
they wait.  `SeesReady`, `Polls` and `TimesOut` are the loop of `RunUIThread`.  `DoneLast` begins
with the debugger, which has the UI thread destroy each script site it still has, by a
`SendMessage` without a limit (phase "cleans sites"): the handler replies (`DoneScriptSite`),
replies with an error, so that an exception leaves `DoneRoot` with `gRootCS` still entered
(`DoneScriptSiteFails`), or never replies; without a window the call returns at once
(`SendsToNoWindow`).  Then `SitesCleaned` posts `WM_QUIT` and `Joined` or `JoinTimesOut` is the end
of `KillUIThread`, unless the manager was never inited (`DoneUninited`).  `UIThreadStep` is
`CUIThread::Run`, which may be arbitrarily slow.  Roots are numbered, since the first one may be
deleted while its late thread still runs.  `InitFirst` is that of a release build: in a debug build
the assertion of `Module.cpp:86` stops the process at the second root (see below).

### FrameTable

One action per BHO event; `todo` is the stack of what the handlers under way have left
to do.  Creating a frame is two steps: `CreateStep`, up to `Attach`, which runs the
document's scripts, and `InsertStep`, which sets the id in the document and inserts the
frame.  While the head of the stack is an insertion, a script runs, and it may dispatch
messages (`Dispatching`): IE loads and unloads documents, and events call the BHO again,
whose steps then come on top of the stack.  The comment at `FrameTable.cpp:36` ("don't
dispatch mesages here") is about the lines after the constructor, which are one step.

A document may fail a call or deny its frame id.  Then `CHECK_COM` throws, nothing in the
handlers catches it, and the handler under way ends there (`Throw`, `Unwind`): what it had left
on the stack goes, down to the insertion whose script IE called it from.  That IE takes the
exception and goes on is an assumption.  A constructor of a frame that is left so inserts
nothing; `UpdateLinksFails` leaves the links of one frame half made and those of the later
frames as they were.  A failing `SetupEnvironment` has taken its hook away before.

Simplifications: a document is identified by itself (the code says IE may reallocate
the pointers, which is why it keeps the id in the window); a document that denies the
removal of its id reads as not managed as well (both are `E_ACCESSDENIED`), so removal
always succeeds, and a document that took its id gives it back to `Insert`; the destructor
of the BHO clears the table like `OnRefreshStart`; `OnDownloadBegin` and
`OnDownloadComplete` come in turn, as the code asserts.

### BrowserRegistry

`AllocBrowserId`, `ReleaseBrowserId` and `RequestDOM` are operators; the actions are the calls
of IE that reach them: `SetSite` with and without a site, of the BHO (`BHOSetSite`,
`BHOClearSite`) and of the helperbar (`BarSetSite`, `BarClearSite`), and the message the
workspace window posts to itself (`InitializeDefaultPanes`).  The BHO's `SetSite` can fail before
it registers (`BHOSetSiteFails`, `UpgradrBHO.cpp:43-45`); IE then releases the BHO (`BHORelease`),
or calls `SetSite(NULL)` first, which gives back an id it never had (`BHOClearUnregistered`).  The
helperbar's `SetSite` registers before it can fail (`state = "failed"`); such a helperbar may be
released without another call (`BarAbandon`), and its reference is counted in `lost` from then on.

Taken from IE: the interfaces of one browser are one pointer (the code compares raw
pointers); a call of `SetSite` with a site and one without come in turn.  `m_Helperbar` of an
entry is left out, since nothing reads it.  `fault` records how the process ends: `RequestDOM`
goes through a NULL pointer if only the helperbar has registered, and through a dangling one if
the BHO has lost its site while the helperbar holds the id; `ReleaseBrowserId` of an id that was
never handed out goes through `end()` of the map.  All three happen, and `FaultNeedsUnsitedBHO`
says when the first two do.

### Scripts

`Attach` and `Detach` of an engine are loops over the scripts of a category, under the lock of
the script manager; inside of it each step is what happens under one more lock.  `step` is where
an engine is in its loop, `calls` the stack of engines under way on a thread, since a script
that shows a dialog (`step = "running"`) lets its thread begin a call of another engine.  An
instance goes through `InsertScriptInstance`, `WakeDebugger` (the dummy script of a halted
debugger), `CreateInstanceDebugHelper`, `ParseScriptText`, `Run`, `StartScript` and
`RegisterScriptInstance`, with `AddSite` when it is the first of its script.  The debugger's thread
calls `SetBreakPoint` between any two steps; the original action follows after the debugger is
unlocked (`PerformOriginal`).

Calls that fail:

* `InjectNothing` is an `InjectScript` that returns false before it has an instance: the loop
  goes on, and the engine becomes enabled without that script.  `ScriptStops` is a
  `SetScriptState` that returns an error: the script is registered although it does not run.
* `AttachFails`, `ComFails` and `WakeFails` are the exceptions at the COM calls of `Attach`: of
  `TestEnvironment` and the helper of the frame, of `InjectScript`, `CreateEngine`, the helper, the
  parser and `SCRIPTSTATE_CONNECTED` of an instance, of the common site, and of the dummy script.
  `SiteFails` is the one of a script that does not parse, `ApplyFails` that of a breakpoint that
  cannot be applied.
* `RemoveFails` and `RevertFails` are those of `Detach`: `Done` of a site, and the helper of the
  frame.

`Throw` has in common that nothing is undone.  After a failing `Attach` the frame never comes to
be, and the engine is not detached (`phase = "failed"`); after a failing `Detach` it still counts as
enabled and stays with its frame, so `Detach` may be called again (`"stuck"`).

Taken from outside: the Process Debug Manager is installed; it gives a document whose code is
not parsed no code context, and where the code goes on to use a missing context
(`ScriptDebugger.cpp:608`) the process ends, and the behaviour with it.  The build is a release
build, where `CHECK` throws.  An exception of a nested call is caught at the COM boundary.
The debugger has one thread.  An engine is attached once, by the constructor of its frame.

Simplifications: the wait for `SCRIPTSTATE_CLOSED` (`UpgradrScriptSite.cpp:403`) ends here; what
happens when it does not is in `RootLifecycle`.  `FrameTable` takes `Detach` not to throw.  The
breakpoints of the dummy script are not followed, since it is never run.

### ScriptStore

Each statement on the database is an action, as the code opens no transaction: `SetDelete` and
`SetInsert` are `SetScriptValue`, `SaveDelete` and `SaveInsert` are `SaveUserSettings`.  Between
them other processes write, the second statement may fail (`SetFails`), and the process may die
(`Crash`).  `Start`, `ProcessFile`, `MarkSystemScripts`, `Loaded` and `LoadFails` are
`CFileSystem::Init`; `SkipFile` is a file that is hidden, is no script, cannot be opened or does not
parse, which `ScanDirectory` and `ProcessFile` pass over.  The first access to the script manager
loads the user settings (`Inited`), but for the first row, which `Execute` has stepped past
(`RowsLeft`).  `handles` is the handle manager: a handle is a position.

What the model leaves alone because the build has no caller or operation for it: `FreeHandle`,
and adding a disabled site (the rows of `DisabledScripts` are there from the start).
`ScriptOfRow` keeps the loop of `LoadUserSettings` as it is written; it never looks a script up,
because the pointer it compares starts as NULL.  Both script directories are taken to be in the
registry of Windows.  A script has one key and at most one disabled site.  The last three
variables are history: the value inserted last, whether two processes set a key at once, and
whether a `SetScriptValue` ended early.

## Runs

| Run | Question | Bounds | Result |
|---|---|---|---|
| `locks` | are the four maps of the manager consistent, and is it a recursive lock; does order prevent deadlock; is no free resource missed for good? | 3 threads, 2 resources, depth 2, one nested lock at a time | holds |
| `clients` | who can deadlock with whom; one window and one site at a time | UI thread and 2 tabs, all 13 resources | holds |
| `clients_order` | do threads request in increasing order (`Module.cpp:29`)? | UI thread and a tab | **violated** |
| `clients_section` | does `m_CS` settle access of UI and other threads (`WindowManager.h:56`)? | UI thread and 2 tabs | **violated** |
| `root` | root and UI thread live and die in the right order; whoever stays in `gRootCS` waits for a script site, or an error threw it out | 3 objects, 2 roots, 2 polls, 2 script sites | holds |
| `root_late` | a running UI thread can be inited (`WindowManager.cpp:127, 178`) | 2 objects, 2 roots | **violated** |
| `frames` | the frame table under all orders of events, with re-entrancy | 3 documents, 4 frames, scripts 2 deep | holds |
| `frames_reentered` | one frame per document (`README.markdown:11`) | 2 documents, 3 frames | **violated** |
| `browsers` | are ids and references right in every order of calls; when does `RequestDOM` go wrong? | 2 browsers, 3 ids, 3 BHOs, 1 lost reference per id | holds |
| `scripts` | do the registries agree; is no script half injected; do breakpoints reach every instance? | 2 tabs, 2 engines, a system and a user script, 1 position, 2 events (calls of the debugger, failing COM calls) | holds |
| `scripts_unparsed` | is a script that does not parse passed over (`UpgradrScriptEngine.cpp:93`)? | as `scripts`, without events | **violated** |
| `store` | tables under interleaving, failure and crash; the catalog of a process | 2 processes, 3 files, 2 GUIDs, 2 values, 3 events (calls of `SetScriptValue`, files not read) | holds |

Why the bounds are enough:

* *Locks.*  Depth 2 with an unlock makes `AcquireMany` loop; two resources let a thread
  hold one and wait for another; the third thread lets `Release` signal a thread that waits
  for something else.  `MaxNested = 1` lets one thread nest, suspend and restore its guards
  while the others compete.  `MaxStarve` only saturates the counter that chooses whom to
  signal; at 0 all starving threads compare equal, which allows every choice.
* *Clients.*  The UI thread, a tab that holds what it wants, and a second tab that
  interferes.  The handlers of the tabs are the code's, in full length.
* *Root.*  `MaxPolls` is 100 in the code; all that matters is that the loop may end before
  the thread is ready.  Two roots let a late thread of the first meet the second.  Two script
  sites let the UI thread reply to one and fail, hang or go at the other.
* *Frames.*  Three documents make a top document with a frame and a subframe, or with two
  frames; four ids allow each one to be created and one to be created again.  With
  `MaxNesting = 1` an event may come inside a script, and its own scripts may run, but not
  be interrupted in turn.

* *Browsers.*  Three ids and three BHOs for two browsers let one browser give its id up and
  come again with a new one while the other keeps its own, and leave a workspace window with
  the old id.
* *Scripts.*  Two engines make all pairs of attaching, detaching and failing, in two tabs or
  nested in one; two scripts make both categories, and which of them parse is chosen in `Init`.
  Two events are two calls of the debugger, which set a breakpoint and change or delete it, two
  failing calls, as a failing `Detach` tried again, or one of each.
* *Store.*  Two processes are all that can be inside one key's two statements; the third call
  of `SetScriptValue` comes after a mixture of two.  Three files over two GUIDs make files that
  share one, of one directory or of both, and any of them may be the one that is not read.

`root`, `root_late`, `browsers`, `scripts`, `scripts_unparsed` and `store` run without the deadlock
check: once a bound (`MaxRoots`, `MaxId`, `MaxEvents`) is reached, the process has ended (`fault`,
`phase` stuck), nobody leaves `gRootCS` any more (`phase` failed) or the debugger is done, nothing
may be left to do.  The others have it on.  `scripts` and `scripts_unparsed` use the symmetry of tabs
and of engines, `store` that of processes; they check safety only, and nothing in them tells the
members of these sets apart.

### Fairness

`SharedResources`: `WF_vars(AcquireStep(t))` for each thread, since `SleepEx(100)` returns
and the system schedules threads; what the callers do with their guards is not fair.  A
single waiter gets no guarantee (others may take turns with the resource), so none is
stated.  `RootLifecycle`: weak fairness of `RootStep`, what the object inside `gRootCS` does by
itself (its waits for the start and the end of the UI thread have limits, and its thread is
scheduled); none of the UI thread, which may hang, and so none of its replies.  `LockClients`, `FrameTable`,
`BrowserRegistry`, `Scripts` and `ScriptStore` state safety only and assume no fairness: a waiting
script, a user and IE owe the add-on nothing.

### What the violations show

* **Order of requests** (`clients_order`).  `RequestDOM` takes `BROWSERMANAGER` (6) and then
  `WINDOWMANAGER` (5); the order of `Module.cpp:29` is not kept, and the check of it is dead.
* **Deadlock through `m_CS`** (`clients_section`).  The UI thread in
  `CreateDOMExplorerWindowUI` is inside `m_CS` and acquires the window manager; a tab that owns
  it waits for `m_CS`.  `DeadlockNeedsSection` says that this is the only shape of deadlock
  among the handlers modelled: whatever else it involves, the UI thread is in it, inside `m_CS`,
  hibernating for the window manager.  It never is for the browser manager, which it acquires
  there as well: whoever owns that one runs on.
* **Late UI thread** (`root_late`).  It runs, and the manager never becomes inited.  When the
  objects go, `Done` does nothing for it, so the root is deleted under a thread that runs
  (`ManagerOutlivesThread` excludes just this case by its premise).
* **Two frames for one document** (`frames_reentered`).  A document that completes while its
  first frame's scripts run gets a second frame and a second script engine.
  `ManagedHasFrame` and `InsertFindsRoom` say that the table stays usable even so.
* **A script that does not parse** (`scripts_unparsed`).  The loops trace "Cannot parse script"
  when `InjectScript` returns false and go on; but `InitScriptSite` of the common site returns the
  parser's error, the `CHECK` of `CScriptSiteInfo` throws, and `Attach` ends with the frame that was
  being made.  What does hold is `EnabledScriptsBegan`: an engine that got through has no script
  half injected.

Seen while modelling, without a run of their own:

* `DoneRoot` leaves `gpUpgradrRoot` set, so `ATLASSERT(!gpUpgradrRoot)` (`Module.cpp:86`) fails for
  a second root.  A release build, which `RootLifecycle` follows, overwrites the pointer.
* A UI thread that hangs with a script site (`UpgradrScriptSite.cpp:403`, "TODO: here add timeout")
  keeps the last object in `DoneRoot`, and `gRootCS`, for ever; `Join` with its time limit, which is
  there for a thread that hangs, is never reached.  `OnlySitesHoldRoot` says that nothing else does.
* User settings are never loaded back (`ScriptManager.cpp:285`).
* A BHO that could not be registered and is told `SetSite(NULL)` releases an id it does not have
  (`BHOClearUnregistered`).

## Proofs

Every invariant and every action property of the passing runs, and the refinement, is proved for
all values of the constants: any set of threads, objects, documents or processes, finite or not,
and any bounds.

* `SharedResourcesProofs`: `Spec => []IInv`.  `IInv` is the type invariant and the three
  consistency invariants of the run `locks`, strengthened by `CountedWhenOwned`: a resource
  has an owner exactly while its count is above zero.  Without it, an owner with count 0
  would agree with a thread that has no guard, and a step of that thread would break
  `OwnershipMatchesGuards`.  From `IInv` follow `TypeOK`, `SectionMatchesOwnership`,
  `ResourcesMatchOwnership`, `OrderPreventsDeadlock` (in a circle of waits, the thread that
  owns the largest resource waited for would wait for a larger one) and the action property
  `HandedOverWhenFree`.
* `SharedResourcesRefinement`: every step of the manager is a step of `RecursiveLocks` or a
  stutter, under `held <- Held, asked <- Asked, suspended <- saved`.  `AcquireMany` is the
  delicate case: its first `Acquire` grants the whole depth in the abstract view, the others
  stutter.
* `LockClientsProofs`: a step of the composed system is a step of the manager or leaves it
  alone, so the manager's invariant, its consequences and its refinement hold among the handlers
  too.  The invariants of the handlers themselves, for any number of tabs, rest on `CInv`.  It
  says of each thread what it owns while it waits inside `Acquire` (`CallFits`) or for a reply
  (`MessageFits`), and that the steps left of its handler can be taken from where it is
  (`Follows`), with what it found missing still missing (`DueFits`: the window it is about to
  ask for, the site it is about to make while it keeps the script manager).  "Can be taken" is
  not defined by recursion over the steps.  `Runs(h, s)` says that some set of pairs of a
  summary (guards, depth in `m_CS`, message, what is due) and a rest of steps contains `(h, s)`,
  is closed under taking the first step, and allows each step it comes to.  `Keeps` and `Safe`
  are rules for blocks of steps (nothing, one after the other, under a lock, outside of a lock,
  in the section), and each handler is one of their combinations (`HandlersRun`).
  For `DeadlockNeedsSection`, let all threads of a set wait for each other, and suppose the UI
  thread is not among them, or is not inside `m_CS` hibernating for `WINDOWMANAGER`.  A tab that
  waits inside `Acquire` waits for a resource above all it owns, and one that waits for `m_CS` or
  for a reply owns none of those a tab gives up first, so the tabs alone make no circle
  (`TabsAloneRun`, by `NoCircleAmongOrdered` of the manager); and the UI thread waits for none of
  them, since none of those that wait owns what it asks for.
* `FrameTableProofs`: every invariant of the run `frames`, for any set of documents and any
  depth of re-entrancy.  `IInv` adds `TodoOK` to them: the steps left are on documents that
  were loaded, the ids of the insertions among them were generated, differ, and are not in the
  table; without it a frame whose scripts are running might overwrite another one.
  `RefreshFindsAll` needs more (`RInv`): each document the last refresh found is managed or is
  *awaited*, that is, a step that will manage it comes before every update of the links still
  left (`FoundOrAwaited`), and the same handler has that step and an update to do, so that an
  exception which ends the handlers above takes neither away and one that ends this handler
  takes both (`UnwindFound`); a document is in the tab with the one it is embedded in, so the
  frames `Destroy` removes wrap documents of the released subtree only (`DestroyKeeps`).  The
  lemmas at the start say what these predicates mean for a stack with one step more.
* `BrowserRegistryProofs`: every property of the run `browsers`, for any set of browsers and any
  bounds.  `IInv` adds three facts.  `OneEntryPerBrowser`: a browser has one entry at most, so
  the id `AllocBrowserId` finds is the one its other object holds.  `LostAreCounted`: lost
  references of an id keep its entry, so the id of a helperbar that failed is not handed out
  again.  `WindowKeepsOwnId`: the id a workspace window posts with was handed out to its own
  browser, so it is that browser's entry, or none; `FaultsNeedUnsitedBHO` rests on it.
* `RootLifecycleProofs`: every property of the run `root`, for any number of objects, roots and
  polls.  `IInv` adds what the flags mean.  `RootMatchesPhase`: whoever is inside `gRootCS` waits
  there for the first object or after the last one, and the root lives as long as that or an object.
  `FlagsFollowThread` and `AliveUntilJoined`: a thread that said it is ready stays in its loop
  until the last object has cleaned the sites and joins it.  `PointsToNewest` and `UnmadeIsFresh` make the root of `InitFirst` a new one.
* `ScriptStoreProofs`: the invariants of the run `store`, for any number of processes, files and
  calls.  The values and the catalog never meet and have an invariant each.  `VInv` adds
  `SetAlone`: a key no two processes have set at once is being set by one at most, which has
  deleted its rows.  `CInv` adds that the scripts of a process have handles (`HandlesHaveScripts`),
  that what the scan has passed and not skipped is registered (`SeenAreRegistered`), and that the
  system scripts are scanned first (`SystemComesFirst`).  `TypeOK` needs both: that the rows which
  `SaveUserSettings` counts for a GUID are a number rests on `CInv`, by which at most one handle
  has the GUID (`SumOfNone` and `SumOfOne` are the two cases of the sum).
* `ScriptsProofs`: every property of the run `scripts`, for any set of threads, engines, scripts and
  positions and any number of calls that fail.  `IInv` says of each engine which instances it can
  have at each step of the four loops (`InstancesOf`: those of scripts the loop has seen and, at
  `unregister`, of the one it is at), that they are its own in the instance manager
  (`OwnsInstances`), how far the site of the script it is at has come (`SiteFitsStep`), and that a
  script it has passed and has an instance of was begun (`PassedBegan`).  For the breakpoints it
  adds `BegunMatch`: an instance has them from `Run` on, before its script starts, so a breakpoint
  set in between must reach it too; and `CallFits`: the action the debugger postponed agrees with
  what is tracked by then.
  `TypeOK`, `RegistriesAgree` and `EnabledScriptsBegan` need more (`RInv`).  The calls of a thread
  nest, all but the innermost in a running script (`CallsNest`), and two engines are inside their
  loops at once only in one tab (`OneTabLoops`), whose thread keeps the script manager: so an engine
  at any other step is alone with the registries.  No two entries of engines name one instance
  (`EntriesDiffer`), so removing one cannot take another's site or helper away.  For each registry
  it says between which steps an instance is in it, but for the script that an `Attach` failed at
  (`FailedAt`): the engine's list from the insertion to the end of `unregister`
  (`InstancesAreListed`, `LeavingIsListed`), the helpers from `CreateInstanceDebugHelper` until its
  site closes (`InstancesHaveHelpers`), the site of its script from the end of the injection
  (`InstancesAreRegistered`), and no site before (`InjectedIsNew`).  `SitesAreListed` and `LeftClean`
  are what the destructor of the debugger relies on: unless an `Attach` threw, a helper of a script
  has a site or is about to get one; and unless an `Attach` or the last `Detach` of an engine threw,
  the helpers go with the last engine.

Assumptions are those on constants only (`ThreadsAssumption`, `BoundsAssumption`, ...), which
TLC evaluates in the runs.

TLC has checked `RInv` as an invariant of `Scripts`, and of `CInv` the parts it can evaluate (all
but `Follows`, which quantifies over sets of pairs of a summary and a sequence), on the instances
of `scripts` and `clients`.

Only model-checked: liveness (`FreeResourceIsTaken`, `OnlySitesHoldRoot`), since the prover has no
rule for ENABLED.  The proofs have all of it but that.  `WakeUpsAreNotLost`: while a resource that a
thread hibernates for stays free, that thread hibernates on, and its own next step takes the
resource; so weak fairness of any one such thread is enough, whomever `Release` signals.
`OnlyRepliesAreAwaited`: the object inside `gRootCS` can take a step of its own, waits for the reply
of a UI thread that has a window, or was thrown out by an error.  `WaitsRunOut`: the steps it has left
and the replies it needs are finite in number and fall with each of them, and nothing else touches
them.  That the replies come is not said, since the code does not see to it.

Not provable here: what the recursive folds of the code's loops compute for every input
(`LoadUserSettings` over all rows); the proofs need of them that the result has its type.

## Plan

Done so far: the lock manager and its clients, the root, the frame table, the browser registry,
the scripts with their debugger, and the store.  What is left, most important first:

1. `FrameTable` composed with `Scripts`: an engine whose frame is left by an exception
   (`Throw` in both) stays registered although its frame was never inserted, and a `Detach` that
   throws leaves the handler of the BHO that destroys the frame.
2. The shell object: the DISPID map modulo 2^32, and the events it hands to scripts.
3. Docking and the DOM explorer as far as they change what tabs and the UI thread share.
4. The parser of user script headers, checked against a reference definition.

Proofs to add: that `ScriptStore` implements one table of values for all processes while no key is
contested, and that `RootLifecycle` implements a counted object that is made and deleted once per
round; both need an abstract specification first.

## Not modelled

Painting, docking, menus, dialogs and settings pages; subclassing of IE's windows and its hooks;
the SQL wrapper and file access (their effects are in `ScriptStore`); the parser of the headers
of user scripts and the DISPID map of the shell object, which the plan still lists; a frame
whose destructor throws, which leaves a deleted frame in the table; the HTTP server stub; COM registration; the installer;
vendored libraries (Boost, WTL, SQLite, shttpd, zip, BugTrap), which are most of the lines of
the repository.  What is left of the add-on's own code besides is user interface: it keeps
windows, colours and layouts, and shares no state that is not in a module above.
`PROJECT.json` has the reason per component.
