# TLA+ models of OpenTerminal's XAML runtime

OpenTerminal builds Windows Terminal with a mingw tool chain for Wine. Wine has
no XAML, so `phase3` holds a XAML runtime of its own in C++: a layout core, COM
projections of about seventy classes, a renderer, and the island host that ties
them to a Win32 window. `phase0`, `phase1` and `phase4` are Python scripts that
collect metadata, build and test; `phase2` makes upstream sources compile.

What is hard in this program is not concurrency in the usual sense. Nearly all
of `phase3` runs on one thread, but almost every operation calls user code in its
middle, through COM events, and that code may call any operation again before it
returns. The code defends itself with identity checks, epochs, generations and
"pending" flags; the modules here model those defences, with every callback a
point where any operation may be nested. Two components are also shared by
threads: the dispatcher's queue, and the invalidation of an island by renderers.

## Contents

1. [Inventory](#inventory)
2. [Modules](#modules)
3. [Runs, bounds and fairness](#runs-bounds-and-fairness)
4. [Proofs](#proofs)
5. [Disagreements between code and comments](#disagreements-between-code-and-comments)
6. [Observations no run covers](#observations-no-run-covers)
7. [Not modelled](#not-modelled)
8. [Plan](#plan)

## Inventory

How the parts of an island interact, from the window inwards:

    other threads --RunAsync--> CoreDispatcher --posts--> owner's message loop
    renderer threads --SetSwapChainHandle--> elements --invalidate--+
                                                                    v
    child window --WM_*--> DesktopWindowXamlSource (island host) --posts rebuild
          |                    | content_, host_state_, frame, presenter
          v                    v
    IslandInputManager --sink--> XamlFocusScope --events--> user handlers
                                    ^  removed elements
                                    |
                  Vector (children) --hooks--> XamlElement --> layout::Element
                                                                  |
    layout: DependencyObject (property store) <-- binding, visual states
            Measure/Arrange of panels --> LayoutPass --> SizeChanged, LayoutUpdated
    render: scene --> DcompSceneBackend --> visual tree; captures ExternalSurfaceBinding
    one UI thread: DispatcherQueueTimer (WM_TIMER), native menus of ComboBox, MenuFlyout

| Component (`phase3/...`) | State | Operations | Hard behaviour | Correct when |
|---|---|---|---|---|
| CoreDispatcher (`xamlcore/src/core_dispatcher.cpp`) | priority queue, `wake_pending`, order counter; per action: status, handler, closed | `RunAsync`, window procedure, `put_Completed`, `Cancel`, `Close` | several threads; `PostMessageW` fails after the unlock; modal loops nest the procedure; the owner exits | one wake for a non-empty queue; each item runs at most once, in order, is freed once; its handler is told once |
| IslandInputManager (`island_input_manager.cpp`) | attached sink, notified sink, host focus, pointer capture, frame id | `Attach`, `Detach`, focus, key and pointer messages, `CapturePointer`, `ReleasePointer`, capture loss | every notification re-enters; User32's capture is a second copy of the state | focus gains and losses pair; logical and window capture agree; a detached root gets nothing |
| XamlFocusScope (`xaml_focus.cpp`) | root, desired and active element, reconciling flags; hover and tap | `RequestFocus`, `OnIslandFocusChanged`, `AttachRoot`, `DetachRoot`, removal of elements, pointer routing | four focus events per change, each may cancel, redirect, ask again, or change the tree | the loop ends with what was asked last; nothing outside the tree stays focused |
| DesktopWindowXamlSource (`factory.cpp`, 5400-6860) | content and its epoch, window, `HostState` under a mutex, frame, presenter | `AttachToWindow`, `put_Content`, `Close`, destruction, size, invalidation, `RebuildFrame` | callbacks of layout, focus and capture; renderer threads; failing post, layout, drawing, allocation | the window shows the content, never a former one; nothing stays attached after it is replaced |
| Child collections (`collection.h`, `elements.h`, `layout/src/element.cpp`) | list of children, visual parent, pending detached roots, references | `Append`, `InsertAt`, `SetAt`, `RemoveAt`, `RemoveAtEnd`, `Clear` | removed children are reported to the focus scope, whose handlers change collections | list and tree agree; no cycle; references balance |
| Property store (`layout/src/property.cpp`) | value slots by precedence, inheritance parent, handlers | set, clear, styles, animate, inherit, register | observers that set, clear, re-parent, unregister and throw inside a notification | elements whose value moved are marked; handlers end with the value that holds |
| Data binding (`layout/src/binding.cpp`) | mode, `updating`, source values | bind, transfer, detach | each transfer raises the other side's observers | both ends agree; transfers do not nest |
| Visual states (`layout/src/visual_state.cpp`) | current state of a group, base values | go to state, sample, clear | each value is written, and announced, by itself | animated values are those of the current state |
| Layout events (`layout/src/events.cpp`) | queue of changed sizes, subscribers, drain | arrange, `SizeChanged`, `LayoutUpdated`, register, destroy | handlers that lay out, collapse, destroy or unsubscribe in the drain | what was moved is told or still queued, parents first |
| Layout algorithms (`layout/src/element.cpp`, panels, `grid.cpp`) | desired and rendered sizes, scroll offset, working definitions of a grid | `Measure`, `Arrange`, `ScrollTo` | rounding, limits, columns that depend on rows | what was promised room has it; an offset can be shown |
| DispatcherQueue timers (`factory.cpp` 4075-4207) | running, `SetTimer` id, references | `Start`, `Stop`, `put_Interval`, `OnTick` | handlers that start and stop the timer; a WM_TIMER left in the queue | the references add up |
| External surface binding (`external_surface_binding.cpp`) | current resource, generation | replace, capture | producers on several threads; releasing a source calls back | what was captured stays alive |
| DirectComposition backend (`render/dcomp`) | nodes, surface and source caches, live tree | update, detach | any platform call fails; reuse by address, version and generation | a reported frame shows its scene |
| Frame cache (`render/gdi`) | published frame | rebuild, publish, paint | a nested publication | see `CanPublish` of XamlIsland |
| ComboBox and MenuFlyout (`elements.h`) | open flags, selection, index, items | show, hide, select, replace items | the native menu's message loop; observers of the selection | flags follow the menu; observers end with what is selected |
| ScrollBar (`elements.h` 9880-10068) | minimum, maximum, value, the value asked for | set each of them | handlers run between the new value and the bound that requires it; they set again or fail | the value seen is in the range, and returns to what was asked for |
| Frame (`layout/src/advanced_controls.cpp`) | journal, position, content | navigate, back, forward | the page's factory navigates or throws between the two halves | journal, position and page agree |
| ItemsControl (`layout/src/advanced_controls.cpp`) | realized containers, viewport, cache length | set items, viewport, extents; measure | a factory fails or scrolls the control | what is in view has a container |
| Text layout (`layout/src/text.cpp`) | lines | measure, arrange | broken twice, against two widths | what is drawn fits what was measured |
| Other projected controls (`elements.h`, `factory.cpp`) | wrappers of the above | COM | identity, lifetime | interface contracts |
| Markup/XBF readers, resources | none, or tables | pure functions | data | compared with recordings of the real runtime |
| Scene, display list, rasterizer, shaping of text | none | pure functions | pixels | oracle images |
| Scripts, compatibility sources, harness | files | sequential | none | their own checks |

`PROJECT.json` lists each of them with its status, and under "hazards" the places
where this code is hard to test, with the properties that watch them.

## Modules

Conventions. A module's variables are the C++ fields, by their names where TLA+
allows, plus what the outside world holds (the message queue, User32's capture)
and a few history variables, marked so. A stretch of code between two callbacks,
or one critical section, is one action, with all the state it changes. `stack`
holds, innermost first, the calls that wait for a callback to return, with the
local variables they still need; an operation is enabled in `InUserCode`, outside
of every call or inside a callback, and `Return` lets the callback return and runs
the rest of its caller up to the next callback. Definitions named `X_Suffix`, marked
"mutant", stand beside `X` and are plausible bugs in it: for each property
`PROJECT.json` names one that breaks it. Logging, HRESULT values, and
argument checks that change no state are left out.

### CoreDispatcher and AsyncWork

`CoreDispatcher` models the queue and the `IAsyncAction` objects. An element of
`Actions` is one `RunAsync` call: the `DispatcherAction`, its `DispatchWork` and the
callback. `RunAsync`..`Enqueue`..`PostWake`/`PostFails`..`Retract` are the caller's steps: the
code up to the lock, the critical section, the post outside it, and the second
critical section after a failed post. `Dispatch`, `Repost`, `Check`, `Invoke`, `Complete`,
`Tell`, `Return` are the window procedure, which nests when a callback runs a modal
loop (`stack`). `Check` is `ShouldInvoke`, which releases the action's lock before the callback
is called (`Invoke`): a `Cancel` or `Close` of another thread may come between. `SetCompleted`, `Cancel`, `Close` run on any thread that holds the
action. `OwnerExits` destroys the window with its messages. The procedure's branch for
an empty queue is not an action, because `WakeCarriesWork` (checked and proved) says it
cannot be taken.

`AsyncWork` is what `RunAsync` promises, with no queue, lock or message: an item is
accepted or refused, begins at most once and never after a refusal, and only if it was
admitted, ends once, and is told once. It is admitted, once, while neither canceled nor
closed; a `Cancel` or `Close` that comes between the look at the status and the call does not keep
the callback from beginning. `KeepsPromise` states that `CoreDispatcher` implements it, with
`admitted`, `begun` and `told` read off its steps and the history.

### IslandInput

`IslandInputManager`. `ClearThen(f, ...)` is `ClearPointerCapture` followed by the
second half `f` of its caller: `Attach`, `Detach`, `CapturePointer` and
`ClearHostPointerCaptureCallbacks` all continue after the CaptureLost callback.
`Pass` is one round of the loop of `ReconcileFocus`; a nested call only sets
`pending`. `hostCapture` is User32's side; `ReleaseCapture` answers with
`WM_CAPTURECHANGED` within the call, which `CommitCapture` includes, while `SetCapture`
is taken not to call back. The 32-bit frame id is modelled with `IdRange` values instead of 2^32. `balance`
counts, per sink, the focus gains it was told of, less the losses.

### XamlFocus and XamlPointer

`XamlFocus` is the logical focus of `XamlFocusScope`. A tree is a root and the
focusable elements below it. `Pass` is the head of the loop of `Reconcile`; it raises
LosingFocus, GettingFocus, LostFocus and GotFocus as frames on the stack, and `Decide`
is what follows the cancellable ones. `refusing` is chosen once per behaviour: in the
behaviours where it is FALSE handlers do not cancel or redirect out of the tree (they
still do everything else), and the properties that refusal makes impossible are
stated for those. `notifying` is the one piece of the manager's
state this module needs: the manager does not nest its focus callbacks
(`FocusProtocol` of IslandInput). `RequestHostFocus` may succeed, with the manager's
report later or already under way, or fail. Whether the pointer is captured, so that
releasing it raises CaptureLost, is left open. Which ancestors hear an event is
abstracted: any handler may do anything. The route saved for a removed element stands
as the element it starts from (`kept`); when a nested removal changes it while its
handlers run (`torn`) the code's behaviour is undefined and the behaviour ends.

`XamlPointer` extends it, over the same tree, with hover, taps, double taps and the
logical capture. `OnIslandPointer` begins a message; `Resume` is what is left of it
after each routed event (`calls`): Exited and Entered, the event itself, Tapped and
DoubleTapped, CaptureLost. Handlers take further messages, capture, release, replace the
root and remove elements, one or several at once (`Take`). Distances, times and
hit testing are open within what they decide (`Messages`). `crossed` records the two
cases in which the promises fail: a move that arrives while Exited is raised and a
second release inside a release.

### XamlIsland

The island host. `put_Content` is `PutContent` (up to `AttachRoot`'s first callback),
`ResumeAttach` (between the callbacks) and `FinishPut` (the commit, the
rollback, or giving way to an inner transaction); `Close` and the window's destruction
are cut in the same way. `RebuildFrame` is `StartRebuild`, which reads window, epoch,
content and size, and `FinishRebuild`, after PerformLayout's callbacks, with
`IsCurrentFrameTarget` and, on the CPU path, the generation check of `PublishFrom`
(`CanPublish`). `host` is `HostState` under its mutex; `Notify`, `Post`,
`PostFailed` are the three parts of the invalidation callback on any thread;
`Dispatch` is `OnInvalidationMessage`. A behaviour has one presenter (`mode`) and at
most one thing that may fail (`fault`: the post, the layout, the drawing, an allocation
in the focus registry). History: `stale` (the content has changed since the displayed
frame was built) and `unlaid` (it needs layout).

The focus scope and the input manager appear as `focusRoot` and as two callbacks, the
details being those of the two modules above. Not in the model: the presenter of a
layered window, host visibility, change notifications, islands that share an element,
and `DestroyWindow` from another thread. `frame.gen` counts published frames. A second
`Close` in a callback of the first is the same as the destruction of the window.

### ChildCollection

`Vector` with the hooks that `XamlElement` installs. `Replace` is what `SetAt`,
`RemoveAt` and `Clear` do up to the first `Removed`: validation, reference, the
root remembered in `pending_detached_roots_`, detachment, the new list. `Return`
erases the remembered root, reports the next child, or ends with `Changed`
(attach what was added) and the release of the references. `Append` is `InsertAt`
past the end and `RemoveAtEnd` is `RemoveAt` of the last. `undefined` is set, and the
behaviour ends, when the code would erase a map iterator that a nested removal has
already erased: any outcome is possible from there. `interrupted` records that a
handler run inside `SetAt` changed a collection; the agreement of lists and tree is
claimed only without it, since `ChangedAttaches` fails with it.

### PropertyStore

`DependencyObject`. `value` holds the slots of each property; `GetValue`
goes by precedence and then through the inheritance parents. An operation
(`Set`, `Clear`, `ClearAll`, `ApplyStyle`, `SetInheritanceParent`) writes its slots and
pushes what it moved; `Announce` is the head of `NotifyChanged`: OnPropertyChanged marks
the element (`seen`), then the metadata's callback and each handler that is still
registered run in turn, object handlers before property handlers, in the order of tokens;
the descendants that inherit are marked last. A running handler may do any operation, return or throw, which unwinds to the
outermost caller (`Throw`). `owed` holds whom a move has still to reach.

### Binding and VisualState

Both extend `PropertyStore`, for their writes are announced by it.

`Binding` is one `BindingExpression` and the `PropertyBag` it observes.
`TargetFromSource` and `SourceFromTarget` are the two transfers, with `updating`, which
drops echoes; `Construct`, `FirstTransfer`, `Constructed` are the constructor, that
registers, transfers and returns; `Detach` is also the destructor's.
Behaviours construct the expression once, while nothing runs.

`VisualState` is a manager's groups with their storyboards. `GoToState` undoes the
setters of the state it leaves one by one (`ClearNext`), then stops the storyboard of the
state that is current by then, which an observer may have changed (`StopStoryboard`,
`ClearNext`, `Left`), then writes the setters
(`ApplySetter`) and samples the timelines (`SampleNext`), each announced to observers
that may go to another state. `StateAssumption` keeps groups from sharing a property.

### LayoutEvents

`LayoutPass` and `EventRegistrations`. `Arrange` is the outermost arrange of a tree, or
one made by a handler, and is abstracted to which sizes it moved: it queues them in the
order the recursion ends and, outermost, starts the drain. `RaiseSizeChanged` takes the
queue from its end, `RaiseLayoutUpdated` the subscribers from the copy made after the last
SizeChanged handler (`CopySubscribers`): who subscribes in one of those is told in this drain.
`told` and `owing` are history. A destroyed element that is still queued is
read by the code, and so are the registrations of one that its own handler destroyed while
others of the snapshot wait (`HandlerReturns`); the behaviour ends there (`undefined`).

### Layout, Panels and GridLayout

`Layout` is `Element::Measure` and `Element::Arrange` as functions, one axis at a time: margins, limits,
rounding (`Px` units to a pixel), alignment. `Panels` adds the machine of a panel with
its children, for Border, ContentPresenter, StackPanel, Canvas and ScrollViewer:
`Measure`, `ArrangePanel`, `ScrollTo`, and children that `Change` between passes.
A child asks for its natural size, or for one that depends on the width
it is offered, as wrapping text does. `GridLayout` is `Grid`: `Working` copies of the
definitions, the four groups of cells measured in the order of `Steps` with the loop
between groups 2 and 3, claims of spanning cells shared out
(`EnsureMinSizeInDefinitionRange`), stars resolved, and on arrange `SetFinalSize`
with its rounding, shrinking and the correction of drift. Its division of doubles is
integer division of units, which `Lost` and `Grain` allow for.

### SurfaceBinding and DcompScene

`SurfaceBinding` is `ExternalSurfaceBinding`: `BeginSet`, `Commit` under the mutex,
`Release` after it, where the source's teardown may call the binding again. A resource is
an address that may be reused once nothing holds it; `born` (history) tells which
replacement it belongs to. `DcompScene` adds `DcompSceneBackend`. A scene's display lists
live at addresses too, reused likewise. `Retain` is a change of a node by the caller; it
leaves a scene without cycles (`Acyclic`), for of another one `Update` refuses whatever
else it holds (`SceneSnapshot::Validate`). `Reached` are the nodes that `BuildNode` comes to,
`PaintOrder` what it puts into one node's visual and `Tree` the visuals together. `StagedTree`, `StagedSurfaces`,
`StagedExternals` are what an update builds from the caches and the
scene; `Reuse` (nothing changed), `Publish` and `UpdateFails` are the three outcomes of
`Update`. A tree is the sequence of what it paints, so that `displayed = Wanted` compares
what is seen.

### DispatcherQueueTimer and PopupMenus

`DispatcherQueueTimer` counts the references of one timer. `Fire` puts its WM_TIMER into
the queue, `OnTick` and `TickEnds` are the two halves of a tick around its handlers, in
which ticks nest. `stale` records a timer stopped with its WM_TIMER still queued, and
`refused` a `SetTimer` that failed.

`PopupMenus` has one combo box and one flyout on a thread with one native menu.
`shows` holds the shows and selections in progress, the innermost last; `Track` calls
`TrackPopupMenuEx`, which fails if a menu is up, `Dismissed`, `FlyoutChosen`,
`ComboChosen` end it. A selection is `PutSelectedItem`, then `IndexTold` and `ItemTold`
after the observers of each. `muddled` and `outdated` record the cases in which the flags
and the index are wrong (see Observations).

### RangeBase

The properties Minimum, Maximum and Value of `ScrollBarObject`, with `uncoerced`, what was last
asked for. `PutMinimum`, `PutMaximum` and `PutValue` are the setters up to the handlers of
ValueChanged, which are called only if the value moves. `puts` holds the calls that
wait for them, with the bound each still has to commit: an expanding bound is committed
before the handlers, a contracting one after. `HandlersReturn` commits it,
`HandlerFails` does not. `contested` records that a handler set something while a bound
waited, `failed` that a bound was not committed.

### FrameJournal and NavigationHistory

`FrameJournal` is the `Frame` of the layout core. `Navigate`, `GoBack` and `GoForward` are
the calls up to the factory of the page (`Realize`), `PageMade` and `PageFails` what
`Realize` does when it returns; factories run in the order of `building` and may navigate.
`NavigationHistory` is what the user sees: the pages behind, the one here and those
ahead, with no journal and no position. `KeepsHistory` states that `FrameJournal`
implements it, with `Behind` and `Ahead` read off the journal. `overtaken` records that
a page was shown although the position, or the entry it was made for, had changed meanwhile;
the abstract specification promises nothing from then on.

### TextBlock

`MeasureText` and `ArrangeText` are `MeasureOverride` and `ArrangeOverride` inside
`Element::Measure` and `Element::Arrange` (of `Layout`); both break the text into lines
with `BreakLines`, one `Turn` of its loop for each word. A text is a sequence of shaped
glyphs, each with its advance and whether it is a space. `LineWidths` is a second,
declarative definition of the lines, after the comment at `BreakLines`, that the property
compares with the loop's. Shaping, line breaks in the text and ellipses are left out.

### ItemsControl

The virtualization of `ItemsControl`. Each operation computes its range, recycles what is
outside and asks the factory for the first missing item (`UpdateRealization`); `Made`
stores the container and asks for the next, `MakingFails` is the exception that leaves
the loop. A factory may call the control again (`making` nests), except for SetItems,
which would destroy the factory that is running. History: `outdated` (the window has
changed since the last outermost update computed it) and `incomplete` (that update failed).

### MC modules

`MC_X` extends `X` with the symmetry sets and the instances' constants; constants are
given in the `.cfg` files and no definition is replaced. `MC_Controls`, `MC_Layout` and
`MC_XamlFocus` put machines that do not interact into one run: the initial state
chooses the one a behaviour is about (`machine`, `part`), and the others take no step.

## Runs, bounds and fairness

| Run | Instance | States | Shows |
|---|---|---|---|
| `dispatcher_safety` | 2 clients and the owner, 3 items (one with its action used), 2 priorities, posts may fail, the owner may exit | 389,382 | the wake protocol, release of items, order, notification, `AsyncWork` |
| `dispatcher_live` | as above, 1 priority, posts succeed, the owner stays | 30,176 | accepted items end and handlers are told |
| `island_input_safety` | 2 sinks, 2 nodes, callbacks 3 deep, 2-bit frame id | 58,846 | focus balance, capture agreement, frame id |
| `xaml_focus_safety` | 2 elements, 2 roots, 3 frames, 2 pointer handlers deep | 2,093,502 | focus settles, follows the window, stays in the tree; hover is balanced; a press taps once |
| `xaml_focus_route` | the same, focus only | | violation, see below |
| `xaml_island_safety` | 2 roots, 1 renderer, 2 sizes, both presenters, every fault, 3 deep, 5 calls | 460,377 | freshness, stale frames, one root, close |
| `collection_safety` | 3 panels (one an island's root), 1 leaf, 2 deep | 677,337 | tree and lists agree, no cycle, references, remembered roots |
| `property_store` | 3 objects, 2 properties (one inherited), 2 deep | 3,605,284 | who is marked and told, whatever observers do |
| `controls` | a binding, two groups of two states, a timer, two menus, a scroll bar, a frame (see below) | 2,417,124 | both ends agree, states applied, references, flags and selection, the range, the history of pages |
| `layout_events` | a parent and a child with their handlers | 405,253 | order and completeness of a drain |
| `layout` | 6 kinds of panels, up to 3 children, grids of up to 3 columns and 3 rows; texts of up to 5 glyphs; up to 6 items | 443,581 | nothing promised is cut, offsets, the grid's division, lines of text, containers of items |
| `dcomp_scene` | 3 nodes, one source replaced by 2 threads, 3 resources, 3 addresses | 453,610 | what is shown is the scene and is alive |

Bounds.

* `Actions` (CoreDispatcher): each item is one call and is never reused. Three items
  give one queued, one being posted and one running at once; the order property needs
  two of one priority and one between. `Kept` bounds how many actions are used after
  `RunAsync` returned; actions do not affect one another, so one is enough.
* `MaxDepth`: the number of unfinished calls nested in one another, the only bound on
  IslandInput, XamlFocus, ChildCollection and PropertyStore, whose runs otherwise cover
  behaviours of any length. The code has guards that compare the state before and after
  one callback, so the shortest interference needs two levels and its undoing a third. In
  ChildCollection two levels are a removal or SetAt inside the handlers of another one;
  what the handlers of the inner one would do is not reached. In PropertyStore two
  announcements are a change made by an observer of another; four in `controls`, where
  each echo of a binding is itself a level. `MaxHandlers` bounds XamlPointer in the same
  way.
* `IdRange = 4`: the id wraps after four messages, so wrapping is reached often.
* `MaxCalls` (XamlIsland): operations called and elements changed. Epochs and
  generations only grow, so the state space is infinite without it. Five suffice for
  attach, put, and a callback that puts, resizes or closes twice.
* Two sinks, roots and elements: the defences compare an identity read before a callback
  with the one found after it, and two identities show both a change and a change there
  and back again.
* PropertyStore: with three objects a chain has a grandchild that inherits through its
  parent, and re-parenting has somewhere to go; operations write the cells of
  `TreeCells`, one of each kind of slot.
* `MaxOwned = 2`, `MaxTicks = 3`, `MaxShows = 3` (`controls`): a tick in a tick in a
  tick; a selection in a selection in a menu.
* `MaxPuts = 3`, `Numbers` 0 to 3 (the range): a setter in a handler of a setter, with a value
  on each side of, on and between the bounds. `MaxEntries = 4`, `MaxPages = 3`, two pages (the
  frame): pages behind and ahead of the one shown, a factory that navigates back, and away
  again.
* `MaxMaking = 2` and up to 6 items (the items control): a factory that scrolls, with extents and
  offsets that cut items, end past them, and leave some on both sides. Texts of up to 5
  glyphs, of two widths and spaces, in widths that hold from less than one glyph to
  everything, have words that fit, that do not fit with others and that fit no line.
* `layout`: `Px = 6` makes halves and thirds of a pixel exact. The children and panels
  differ in alignment, margins, limits, rounding and whether what they ask
  depends on the width; grids have pixel, automatic and star definitions, bounded and
  not, and spanning children, so that every group of cells and both directions of drift
  occur. `MaxLoops = 5` is the code's own limit (`grid.cpp:19`), `Inf` any number
  above every sum.
* DcompScene: `MaxGeneration = 2` replacements, `MaxCalls = 2` of a thread nested,
  `MaxChanges = 4` changes of the scene. Three addresses are the least at which one is
  released, and reused, while another is still shown.

`CHECK_DEADLOCK FALSE` stands in the configurations of these modules, where a behaviour
may end: CoreDispatcher, where the items are used up and the owner may exit; XamlIsland
and DcompScene, where `MaxCalls` and `MaxChanges` are used up; ChildCollection,
XamlFocus and LayoutEvents, which stop where the code's behaviour is undefined; Controls,
where the timer is destroyed. IslandInput, PropertyStore and the layout never stop, and
deadlock is checked.

Fairness is assumed in CoreDispatcher only. `WF(CallStep(t))`: a thread inside a call of
the dispatcher goes on, for it holds no lock across a wait. `WF(OwnerStep)`: the owner
pumps its messages and its callbacks return, which is what the comment in
`core_dispatcher.h` (line 10) presupposes. Nobody is obliged to call anything.
The other modules state no liveness: a focus loop whose
handlers always ask for another element never ends, in the model as in the code
(`island_input_manager.cpp:392`, `xaml_focus.cpp:1841`), nor does an observer that
always sets the other value. What they promise is stated for
the moments when every callback has returned (`Idle`, `Quiet`, `AtRest`, `stack = <<>>`).

## Proofs

The theorems hold for every value of the constants that satisfies the modules'
`ASSUME`s: any sets of threads, items, elements and roots, and no bound on depth or calls.
Each invariant below was first checked by TLC on the module's instance. A module of proofs
has the shape `Init => Inv`, one lemma per action (or per kind of action), `Inv /\
[Next]_vars => Inv'`, and the theorems.

`CoreDispatcher_proofs`. The invariant `IInv` joins `TypeOK` and `OneWake` with four
facts. `CallInv`: threads inside `RunAsync` have different items, queued
exactly from the first critical section on and not yet reported. `ItemInv`: where an
item can be (fresh, queued, taken, released) and what its reply is there; a queued item
without a reply belongs to a thread that posts. `WakeInv`: whoever may wake the owner
has an item. `InvokedInv`: what was invoked had been accepted. `OneWake` is not inductive
alone: after a failed post, the flag may stay set with no wake under way, and only
`CallInv` shows that the retracting thread's item is its own. `FullInv` adds what the order and the
completions need. `StackInv`: every window procedure but the innermost runs a callback or
a handler, and has an item of its own. `OrderInv`: what was invoked, or has been taken and is about
to be, precedes what is queued. `CompletionInv`: of the told handler, the thread about to
tell it and the procedure about to tell it there is at most one. `ReplyInv`: only
what was accepted ends. Results:

* `TypeCorrect`: `TypeOK`;
* `WakeCorrect`: `WakeProtocol`, so the procedure's branch for an empty queue is dead
  code;
* `ReleaseCorrect`: `ReleaseProtocol`, no double free between a failed post and the
  window procedure, and no callback invoked whose `RunAsync` reported failure;
* `FifoCorrect`: `FifoWithinPriority`;
* `CompletionCorrect`: `CompletionProtocol`;
* `PromiseCorrect`: `Spec => KeepsPromise`, the refinement of `AsyncWork`: under the mapping `Admitted`, `Begun`, `Heard` every step is a step of `AsyncWork` or a stutter.

`XamlIsland_proofs`, in four parts. First the protocol by which changes become one
posted message, which only sees `host`, `queue` and `poster`: the actions fall into those that
supersede the message (`SupersedeStep`: resize, attach, commit of
content, destruction, close), those that leave it alone (`KeepStep`), and the four
steps of the protocol itself. `PostInv` adds to the first half of
`PostProtocol` that no
message is newer than `message_generation` (`Older`), that one of the current
generation implies `message_posted` (`Claimed`), that it is in one place
(`OneCarrier`), and that `message_posted` implies an enabled window
(`PostedIsEnabled`). The last is needed where `OnInvalidationMessage` drops a message:
without it, a current message could be dropped while the flag stays set.

Then the calls under way. The lemmas named `...Effect` say once what each operation and each
branch of `Return` does to the stack and the state, so that the invariants need not expand the actions.
`CallsInv`: a `put_Content` whose epoch is the current one finds the content and the focus
root as it left them (`GoodFrames`), of two the inner has the later epoch (`Ordered`), and
what a close has already undone stays undone (`CloseInv`). `RootInv` says where the sink
and the XamlRoot are meanwhile. `FreshInv` is the argument that no change is lost: a
change that is not laid out or not shown is in the hands of a thread that will notify, of a
message, or of a call under way that ends in a current rebuild (`LaidOutLater`,
`ShownLater`), and the message can be delivered (`Deliverable`). `CpuInv` says the same of
the size on the CPU path, where of several rebuilds on the stack the outermost that may still publish
need not be the newest (`NewestIsSized`). Results:

* `PostCorrect`: `PostProtocol`, for any number of renderer threads, whichever posts
  fail;
* `OneMessage`: at most one message or post is of the current generation;
* `RootCorrect`: `RootProtocol`;
* `NeverStaleCorrect`: `NeverStalePublished`, an action property;
* `FreshCorrect`: `FreshWhenQuiet`;
* `CpuCorrect`: `CpuFrame`.

`IslandInput_proofs`. The invariant `FocusInv` joins `FocusBalanced` with two facts about the
stack: at most one focus callback is on it and `reconciling_focus_` is set exactly
then (`Guarded`), and outside of one the notified sink is the wanted one (`Settled`).
Settling alone is not inductive: a nested `Attach` leaves the focus unsettled and relies on
the loop below it, which only `Guarded` shows to exist. Two lemmas say what pushing and
popping a frame does to the focus callbacks of a stack; `PassStep` and
`ReconcileStep` treat the loop, `OtherStep` everything that leaves the focus alone.
`CaptureInv` is the first half of `CaptureProtocol` with the captures that wait on the stack
for CaptureLost to return, and `Unseen`, that there is none before the first pointer event; `Sound`
is what resuming a frame needs of the frame id it saved. Results:

* `BalanceCorrect`: `FocusBalanced`;
* `FocusCorrect`: `FocusProtocol`, at any depth of nesting;
* `CaptureCorrect`: `CaptureProtocol`;
* `FrameIdCorrect`: `FrameIdNeverZero`, for a counter of any range of at least two values.

`XamlFocus_proofs`. `FocusInv` has the same two parts as that of IslandInput, `Guarded` and
`Followed`, and a third, `DesiredIsHosted`: if no handler refuses, what is asked for is in
the hosted tree, or some call on the stack has still to report that it was
removed. The last disjunct is what a removal leaves behind until `OnElementDetached` runs,
and why `WillingIsHosted` is claimed of idle states only. The pointer has an
invariant of its own, `PointerInv`. `HoverInv`: unless crossed, the hosted elements told Entered and not
Exited are the hovered one, and none of them while its successor waits for the Exited handlers, of which
at most one is under way. `TapInv`: unless crossed, a press that may still be answered
has not been answered. It is proved of `PointerSpec`,
the specification the run checks. Results:

* `TransitionCorrect`: `OneTransition`;
* `HostedCorrect`: `WillingIsHosted`;
* `PointerCorrect`: `PointerProtocol`.

`ChildCollection_proofs`. `CollectionInv` has seven parts: `TypeOK`; lists without repetitions
(`Distinct`); the references as cardinalities of finite sets (`Counted`); a remembered root
has a call that will erase it (`Covered`); `NoCycle`; what is listed is attached
(`ListedIsAttached`); and what `Changed` is about to attach has, unless interrupted, no
parent, no island and is no ancestor of its panel (`Awaited`), without which attaching it
could close a cycle. `NoCycle` speaks of sets closed under `parent` and `Ancestors` is
the least set closed upwards, so that neither needs an induction. `Detaching` and
`Attaching` are the two changes of the tree. Results:

* `CollectionInvariant`: `CollectionInv`;
* `ListsCorrect`: `ListsAreTheTree`;
* `RemovalCorrect`: `RemovalProtocol`.

`Controls_proofs`, of PopupMenus. `SelectionInv` weakens the first half of `SelectionSettled` to all states: the
item that x:Bind was told is the selected one, unless a selection that has told its
index, and not yet its item, is in progress (`Pending`), in which case it will be told
then, nested selections having told theirs before. `Pushed`, `Popped` and `Turned` say what
becomes of the selections in progress. `FlagInv` is about the shows in progress: an open
control is being shown (`OpenIsShown`, inductive alone), and a control that handlers did not
muddle is open as long as the last of its shows holds it open (`LiveIsOpen`,
`LiveIsLast`, `OneMenu`). Most actions only let go of shows (`Follows`, `Retains`, `Places`). Results:

* `SelectionCorrect`: `SelectionSettled`, for any lists of items and any nesting;
* `FlagsCorrect`: `PopupFlags`;

of the three smaller controls, and of the backend:

* `TimerCorrect`: `TimerProtocol`, for any number of users and nested ticks. `TimerInv` is
  the type invariant and, until the timer has been stopped with its WM_TIMER in the queue,
  `Sound`: the references add up, a running timer is
  armed or its `SetTimer` has failed, and only a running timer is armed or due. The last
  conjunct is what makes it inductive: a WM_TIMER of a timer that does not run would give
  back a reference nobody holds. `ShotsCounted` gives the cardinalities of the set of
  one-shot ticks, which SMT does not compute.
* `RangeCorrect`: `RangeKept`, for any set of integers and any nesting. `RangeInv` adds what
  holds while a bound waits. Unless contested, only the innermost call has a bound to
  commit, and the value is already what that bound will
  make of what was asked for (`MinimumWaits`, `MaximumWaits`); if none waits and none was
  given up, the value is coerced to the present range. `RangeKept` alone says nothing of the bound
  that `HandlersReturn` commits. `CoerceStep` is the common part of the setters.
* `FrameCorrect`: `FrameSpec => KeepsHistory`, the refinement, for any pages and any nesting.
  `JournalInv`: until a page was overtaken, the entry at the position is the page shown,
  nothing shown means position 0, and each factory in progress makes the page
  next to the position it was called at, or the first again (`Near`). The last is what
  turns a `PageMade` into one of the four steps of the history: without it the position could jump.
  `Before`, `After` and `Replaced` are about the parts of a sequence around an entry,
  `Views` expands the actions of the history, `MadeShows` maps `PageMade` to them,
  `NavigateProposes` maps `Navigate`; the others stutter.

* `RetainedCorrect` and `FramesCorrect`: `RetainedAlive` and `FrameProtocol` of DcompScene,
  for any panels, threads, scenes and nesting. `BackendInv` says, besides types, that the replacement
  a panel or a capture speaks of is the one its resource was `born` as (`Owned`), for what a
  call has yet to commit is nobody else's (`Fresh`); that each cached surface shows the run of
  its key and holds its list, and each cached source likewise (`Uploads`, `Imports`), so that
  an address in a key cannot have been given away; that what is shown is imported
  (`ShownImported`); and that, unless a node has another version than the one last published,
  `displayed = Wanted` (`Faithful`), which is what makes `Reuse` right. `Reached`,
  `InScene` and `Tree` are recursive functions: `OnTree` shows
  once that such a function exists on a scene without cycles, from the lowest node where
  it could fail (`Lowest`), and `VisualOnce` that there is one only; `Gathered` is about the sets of nodes
  such a function collects. `StagedIs`: what an update stages from its caches is `Wanted`;
  `SameScene`: a change of a node that the scene does not have leaves it as it looks.

`Properties_proofs`, of PropertyStore. What an object reads is computed by a recursive function along its
parents, so nothing can be said of it by expanding a definition. `AlongParents` shows once that such a
function exists, from the first object where it could fail (`First`: parents are
smaller numbers); `Reading`, `BelowStep` and `ReachStep` are then the equations of `GetValue`, `Below`
and `Reaches`, and every later claim about all objects is proved at its first
counterexample. `Heirs` is the largest set of objects that read a property through
another one: a change at an object moves what it and its heirs read and nothing
else (`Moves`, `Elsewhere`, `Apart`), and `InvalidateInherited` reaches them (`HeirsHear`). `StoreInv` has
three parts: types; `MarkedInv`, that an object whose last mark is out of date is covered by a
frame that has yet to announce the property of it, with that mark as the value before, or of an
object it inherits from; and `OwedInv`, that a handler owed a value has a frame yet to come to
it with that value. Both hold in every state, `MarkedWhenMoved` and `AllTold` where the
stack is empty. `WriteStep` is the part all writes share; where `ClearValue` announces what its slot
held, `ClearedReads` shows that this is the value before, or nothing moved. Results:

* `MarkedCorrect`: `MarkedWhenMoved`, for any tree, slots and nesting;
* `ToldCorrect`: `ObserversTold`.

and of its two clients. `BindingInv` says what the stack may hold when no object has a parent
and only the expression listens to the target (`BFrames`), that `updating_` is set exactly while the one
transfer that may be there is on it (`Calls`), and `Agreeing`: of an attached TwoWay binding the two
sides agree, or a change was dropped, or there is no transfer and a frame `Promises` one: it
has yet to announce the target's property, or to call the expression. `StatesInv` is about
the changes of state in progress: of a group not `overlapped` at most one is under way
(`OneOf`), so that the storyboard stopped is that of the state left; states it has left remember no base (`Forgets`), and the one under way stands at a
point of its program where what it has still to clear or to write makes the group's
animated values those of the state (`InPlace`, `Applies`). The groups' cells are disjoint, so
that changes of one do not disturb another. `Reading` gives what the target reads. Results:

* `BindingCorrect`: `TransferProtocol`, for any cells, values, listeners and nesting;
* `StatesCorrect`: `StateApplied`, for any groups, states, lines and nesting.

`Layout_proofs` has three parts of layout.

* `OffsetCorrect`: `OffsetInRange`. Most of it shows that what a measure and an arrange
  compute are integers, from the assumption that sizes and limits are numbers
  not less than 0 and margins are integers (`PanelAssumption`); `ScrollInv` then adds
  to the property the types of what a ScrollViewer keeps between its passes, and that only a
  Grid stops in the middle of a measure. `Scrolled` is the clamp, `GridStep` the rest of the machine, which
  leaves a ScrollViewer alone.
* `ItemsCorrect`: `ItemsRealized`. `UpToDate`: unless `outdated`, there is at most
  one factory call under way, it is of an item of the present range, everything in the
  range before it has a container, and only the range has. `ItemsCovered` and `RangeFits` relate the
  rounded quotients of the code to what is in view; `FirstMissing` and `AskAlone` say which item is
  asked for next. That at most one call is under way is what makes it inductive: a
  call inside another has moved the window, or has found it complete.
* `SizesReported` and `DrainCorrect`: `SizeReported` and `DrainProtocol` of LayoutEvents, for any tree and
  handlers. `EventsInv` strengthens `SizeReported` to all states (`Reported`: what moved is
  told, queued, or in the drain under way), says that who is owed LayoutUpdated is
  both still to come in the copy and still subscribed (`Draining`), and that in the
  drain's queue an element precedes those above it only if these waited from before (`Order`). What
  an arrange queues is a recursive function along the tree (`QueuedFollows`, over
  `AlongSequence`, that such functions exist): the queue keeps what was there and continues in
  the tree's order, so that read from its end parents come first (`BackwardsOrder`;
  `AboveIsLater` is where the order of the tree is used). The queue of an arrange that a
  handler makes consists of late entries, the reason for the exception in `ParentFirst`.

Only model-checked: of the layout
what is a total over children, definitions or glyphs: `ContentsKept`, `GridKept` and
`TextKept`. Such a total is a fold, of which nothing follows without an induction over data;
`ContentsKept` has besides a tolerance for rounding that the sizes of the run respect and that is
not true of slots of every size. Outside the prover's reach: the two liveness properties (fairness and
ENABLED).

## Disagreements between code and comments

A run that TLC refutes, on a property that restates a comment.

`xaml_focus_route`: `Reconcile` raises LostFocus along `detached_focus_route_` itself
(`xaml_focus.cpp:1814`). The comment at 1808 calls that a snapshot whose entries own their
elements, safe against handler removal and content replacement. A handler that removes
another element runs `PrepareVisualSubtreeDetached`, which releases and
clears the same member, and `detached_focus_target_`, under the iteration.
`OnIslandPointerCaptureLost` has the same loop over `detached_capture_route_` (line
1608).

## Observations no run covers

Cases met while modelling that a property has to leave out, or that no property states;
"confirmed" means that TLC showed the case on the module when the property was stated without
its exception.

* CoreDispatcher: a failed `PostMessageW` leaves `wake_pending` set for items that other
  threads queued behind it (`core_dispatcher.cpp:321`, and the repost at 244): their
  callers were told S_OK and nothing will wake the owner (confirmed). `dispatcher_live`
  excludes it.
* IslandInput: `Detach` compares `sink_` before the CaptureLost callback and resets it
  after (`island_input_manager.cpp:113-115`), so that a root attached by that callback is
  disconnected (confirmed); a capture taken in the CaptureLost callback of `Attach` or
  `Detach` outlives its sink (line 107, header 197); one taken in that of
  `CapturePointer` is overwritten and never reported lost (line 303), and a handler there
  that removes the new target or replaces the root leaves the capture with an element
  outside the tree (line 284; confirmed).
* XamlFocus: GettingFocus is raised a second time once the old element has lost focus;
  cancelling it then leaves nobody focused (`xaml_focus.cpp:1766`, comment at 1739;
  confirmed). A cancelled LosingFocus keeps an element active that has left the tree
  (line 1796; confirmed). A CaptureLost handler that puts the former content back is not noticed by
  `AttachRoot`, which compares roots and not epochs (line 1133; confirmed). `Clear` of a
  collection drops the route saved for the focused element (line 1633, comment at 1808).
* XamlPointer: a move handled while Exited is raised leaves hover unbalanced (confirmed);
  a second Released while the first is routed completes the same tap again (confirmed).
* XamlIsland: on the DirectComposition path a resize made inside a layout callback is
  undone when the outer rebuild commits the old extent (`factory.cpp:6733`; confirmed); the
  CPU path is safe, by its generation check. There the previous root stays displayed when the
  content's first update fails, and the transparent CPU fallback is not visible
  (line 6788); a `bad_alloc` in `AttachRoot` whose rollback is nested leaves the
  restored root without a XamlRoot (`RootProtocol` excludes that fault); `Close` from the
  CaptureLost of `put_Content` leaves the scope's root at the released element;
  `OnWindowDestroyed` clears the capture callbacks after LostFocus handlers may have
  attached the island again (line 6238); a failed post loses the invalidations that had
  been coalesced into it (line 5796); `SetSwapChainHandle` reads
  `render_invalidation_sink_` from a renderer's thread without a lock
  (`elements.h:3067`).
* ChildCollection: a handler run by `SetAt` gives the new child to another panel; `SetAt`
  then lists a child it cannot attach (`collection.h:212`, comment at `elements.h:1540`;
  confirmed), and two panels may list one child; the double erase described above
  (`elements.h:1533`); `Clear` reports a child removed that a handler has put back
  (`collection.h:243`).
* PropertyStore: while an inherited value is passed down, an observer of an ancestor that
  gives a descendant its own equal value, re-parents it or throws leaves the descendant
  unmarked (confirmed). `ClearValue` under an animated value announces a move that did not
  happen (`property.cpp:231`; `property.h` says that a write shadowed by an animation
  raises nothing).
* Binding: changes made by observers during a transfer are dropped (`binding.cpp:121`), and
  a transfer written below an animated value leaves the two sides different.
* VisualState: a state changed inside a change of state leaves values and bases of the
  outer one behind (`visual_state.cpp:137`), and the storyboard stopped is then the inner one's
  (line 113); two groups that animate one property share
  its slot.
* LayoutEvents: sizes moved by an arrange of a handler wait for the next pass, where a
  parent may then be told after its child; a destroyed element that is queued is read
  (`events.cpp:149`), and the registrations of one that its own handler destroyed
  (`events.cpp:107`); collapsing raises no SizeChanged; a handler that throws ends the
  process, the drain being in a destructor.
* Grid: the loop of columns and rows is left after its first pass for children that ask for
  the same when offered what they asked (`grid.cpp:432`). The correction of drift can
  overshoot by up to a pixel where a minimum is fractional, gives pixels also to automatic and
  pixel definitions and to a star at its maximum, and grows first the definitions that
  rounding enlarged most (line 575; the comments at 568-575 say that only stars are owed
  pixels, those first that lost most). `ArrangeOverride` reads the cells of the last measure,
  also when a child has been added since (line 638).
* DcompScene: the caches only grow until `Detach` (`dcomp_scene_backend.cpp:603`); a node
  that is collapsed prevents the reuse of the whole tree; a failed Commit leaves `SetRoot` queued,
  which is harmless, for every Commit follows a `SetRoot`; reuse does not ask
  whether the text rasterizer is the same.
* DispatcherQueueTimer: `Stop` leaves a queued WM_TIMER. The tick of a stopped timer that does
  not repeat gives back a reference that `Start` no longer holds, or reads a
  destroyed timer (`factory.cpp:4187`; confirmed). `put_Interval` whose `SetTimer` fails
  leaves a timer that is running, held, and never ticks.
* PopupMenus: a control hidden between Opened and its menu, and a flyout shown again while it
  is shown, have their flag false while the menu is up, so that Hide no longer ends it
  (confirmed); `EndMenu` ends whichever menu is up, also another control's. A combo box's
  index that was chosen from items replaced meanwhile stays wrong until the next change
  (confirmed). A nested selection raises SelectionChanged before the one it is nested in.
* RangeBase: a handler that sets a property while a contracting bound waits can leave the bounds
  crossed or the value outside of them, for the bound is then committed as it was
  computed before (`elements.h:9909`; confirmed). A handler that fails leaves the
  bound uncommitted and the value moved. With two handlers the second hears the values of
  nested changes before the one it is nested in.
* FrameJournal: a page whose entry was replaced while it was made is shown nevertheless, at a position
  that then names another entry or none (`advanced_controls.cpp:82`; confirmed), and the
  parameter is read from an entry that may be gone. An entry whose factory failed stays
  ahead of the page shown, and if it was the first, behind every later page. The projected
  `Frame.Navigate` does not use this journal (`elements.h` 6887-6960), so that its `GoBack`
  always fails; called inside OnNavigatedTo it leaves the content of the inner page with the
  source name of the outer.
* TextBlock: spaces behind a word that fits no line come to a line of their own, which
  is empty to the eye (the comment at `BreakLines` says that lines break after a run of spaces).
* ItemsControl: the viewport taken from the first finite Measure is never updated by a later one, and
  `set_cache_length` takes effect with the next update. A factory that scrolls leaves
  containers of the outer range outside of the window until then (confirmed); one that
  calls SetItems destroys itself. ListView keeps a selected index beyond a list that has become
  shorter.
* Controls that are not modelled: a removed TabView item keeps a plain pointer to the view
  (`elements.h` near 5561 and 5775).

## Not modelled

Markup and XBF readers, resources, the scene, the rasterizer and the shaping of text are pure
functions from large data to large data; the repository compares them with recordings,
and a bounded model would restate them. Scripts, compatibility sources and the harness
are sequential tools. Most projected controls are wrappers, many of them placeholders
that return an error (the `DispatcherTimer` of `Windows.UI.Xaml` among them, which never ticks); TabView,
NumberBox and the dialogs have state of their own and are left.
`DispatcherQueue.TryEnqueue` posts one message per handler, keeps no queue, and nothing
raises its shutdown events.

Within modelled components: the routing of keys and characters, wheel messages, the
order in which the elements of a route hear an event; the window procedure's decoding of messages;
the layered-window presenter and host visibility; islands that share an element and
`DestroyWindow` from another thread; `~Vector`, `PutVisualObject`, observable
vectors and iterators; converters and the interpolation of storyboards; the previous
sizes in SizeChanged's arguments; templates, the selection of ListView, and the controls' own `MeasureOverride`; geometry,
transforms and validation in the backend; in-place changes of a combo box's items
vector.

## Plan

What is left, in order.

1. A composition of IslandInput with XamlFocus and XamlPointer, which discharges what each
   assumes of the other (`notifying`, `RequestHostFocus`, the capture), and of XamlIsland
   with DcompScene, whose `FrameProtocol` is the one-step update XamlIsland takes.
2. TabView: tabs closed by their own handlers; ListView's selection.
3. Theorems: of a text's lines that they cover it, which needs no total.
