# A verification of hardware_arpi in TLA+

This directory holds TLA+ models of the hardware abstraction layers that
`android-rpi/hardware_arpi` provides for Android on a Raspberry Pi, the TLC
configurations that model-check them on small instances, and TLAPS proofs that
hold for every value of the constants. Paths below are relative to the root of
the repository; `C/` stands for `graphics/composer/aidl/`.

## The system

| Component | State | Operations | Who calls it, on which thread |
|---|---|---|---|
| `Hwc2Device` (`C/Hwc2Device.cpp`) | `mState`, `mNextLayerId`, `mLayers`, `mDirtyLayers`, `mBuffer`: one set for both displays | create and destroy layers, composition types, validate, accept, present, client target | `ComposerHal`, on any binder thread, without a lock |
| `VsyncThread` (same file) | `mNextVsync`, `mCallback`, `mCallbackEnabled`, `mMutex`, `mCondition` | the loop; `setCallback`, `enableCallback` | its own thread; binder threads |
| `ComposerHal` | `mEventCallback`, `mMustValidateDisplay` | forwards to the device; registers its hooks | binder threads; the vsync thread through `vsyncHook` |
| `ComposerCommandEngine` | reply writer, command index | the parts of a `DisplayCommand`, in a fixed order | one binder thread at a time |
| `ComposerClient` | `mResources`, `mCommandEngine`, `mHalEventCallback` | layers, commands, registration; its destructor gives everything back | binder threads; the destructor on whichever drops the last reference |
| `Composer` (`C/Composer.cpp`) | `mClientAlive` under `mClientMutex` | `createClient` waits up to 1 s for the previous client; `onClientDestroyed` | binder threads (five, `C/service.cpp`) |
| `ResourceManager` | handle caches per display and layer | thin wrappers of an external library | the engine and the client |
| `hwc_context` (`C/hwc_context.cpp`) | DRM connectors, crtcs, planes, frame buffers, `first_post` | mode setup, `hwc_post` | `Hwc2Device` |
| `gbm_gralloc` (`graphics/common`) | `gbm_bo_handle_map`; per buffer `map_data`, `lock_count`, `locked_for` | register, free, lock, unlock, create | linked statically into each of its users |
| `Mapper` (`graphics/mapper/4.0`) | the map of `gbm_gralloc` in the client's process | import, free, lock, unlock, flush | any thread of the client, without a lock |
| `Allocator` (`graphics/allocator/aidl`) | the same map, in its own process | `allocate`: create n buffers or give them all back | binder threads |
| `gralloc.rpi` (`gralloc/`) | the same map, a mutex, `rhandle` | `lock_ycbcr` registers on demand, `unlock` unregisters | any thread |
| audio (`audio/audio_hw.c`) | device and stream mutexes, `standby`, the pcm handle | open, close, write, read, standby, parameters | audio threads |

Components interact by direct calls, except for two callbacks: the vsync thread
calls `vsyncHook` -> `mEventCallback->onVsync` with its mutex held, and a dying
`ComposerClient` calls `Composer::onClientDestroyed`, which wakes the threads
that wait in `createClient`.

What is hard about it:

* *Layers against validation.* Validating is three device calls; layers come
  and go on other binder threads between them, and the device's state is all
  that connects a validation to the accept and the present that follow.
* *Lifetime.* A client dies on one thread while the next one is created on a
  second and the vsync thread is about to call back into it.
* *Time.* The vsync thread may be late by any amount, be switched off while it
  sleeps, or have its callback replaced.
* *An asynchronous kernel.* Page flips complete later, ioctls fail, a CRTC may
  be turned off, and `presentDisplay` reports none of it.
* *Two locks in a fixed order.* Audio streams block in `pcm_write` under one of
  them while other threads want the other.
* *Counting.* Buffers are locked, nested, flushed, freed while locked, and
  their handles' addresses are used again.
* *Bare pointers between layers.* The device keeps a pointer to a handle that a
  cache of the resource manager owns and may replace, and `gralloc.rpi`
  remembers in one variable what any of its threads registered.
* *Calls that fail half way.* A layer is created and then refused by the
  resources; the second buffer of an allocation fails; a client target is
  cached and then refused.

What makes each component correct is listed with its module below; the hazards,
each at its line, are in `PROJECT.json`.

## The modules

### HwcDevice and ComposerCommandEngine

`HwcDevice` has the layer table and the state machine: one action per method of
`Hwc2Device`, with the returned error as its last parameter. The display of a
call is checked and then has no influence, as in the code. `setClientTarget` is in
`ClientResources` and `KmsOutput`, which have the target. `MaxLayerId` bounds
the 64-bit counter.

`ComposerCommandEngine` runs commands against it. A command is a set of parts;
`At` and `Rank` give the order of `dispatchDisplayCommand`. `Validate`,
`CountChanged` and `FillChanged` are the three device calls of
`ComposerHal::validateDisplay`, and `CreateLayer` and `DestroyLayer` (of
`ComposerClient`, on other threads) may come between any two. `FillChanged`
reproduces what the reply vectors contain when the device fills in fewer layers
than were counted: zeros.

`clientComposed`, `told`, `posted` and `disturbed` do not exist in the code. The
first is the caller's view (SurfaceFlinger): it draws the layers it declared as
client-composited and, once it has accepted, the ones it was told about. The
properties relate the device's state to that view.

| Property | Meaning |
|---|---|
| `DirtyMatchesView` | the dirty set is exactly the layers the client does not know it has to draw |
| `ValidatedIsClean` | when presenting is allowed there is nothing to accept |
| `ReportIsExact` | what a finished validation told the client is the dirty set, for as long as it can be accepted |
| `FullCommandPosts` | a command that validates, accepts and presents is never the one whose error `executePresentDisplay` drops |
| `PostsOnlyClientComposited` | a frame is posted only if the client draws every layer there is |

Assumptions: a device call is atomic (two calls at once would race on
`unordered_set`, which is undefined behaviour and not modelled); one thread
executes commands (the engine's writer and index are not protected, and the
service does not announce the capability to present from several threads).

### ClientResources

What a client owns, on the same `HwcDevice`: its layers, the handles imported
into the caches of its resource manager, and the client target, to which the
device keeps a bare pointer (`mBuffer`). Clients follow one another, as
`ComposerLifecycle` shows they do; the device, its layers and `mBuffer` remain.
The caches are the composer resources library of AOSP: `Imports`, `HandlesOf`
and `DropDisplays` say what `ResourceManager.cpp` relies on.

`executeSetClientTarget` is three steps: the slot is replaced, `setClientTarget`
tells the device, `ReleaseReplaced` frees the old handle when the releaser goes
out of scope. `CreateLayer`/`AddLayer` and `DestroyLayer`/`RemoveLayer` are the
device's and the resources' halves of calls on other binder threads.
`registerCallback` brings the hotplugs, with `cleanDisplayResources` for a
display that is known already. From `DropClient` on the destructor goes through
`destroyResources` call by call: the layers of each display, `FinalValidate`,
`FinalAccept`, `FinalPresent`, and `FreeResources`.

A handle is an identity: one that `mBuffer` still points to is not given to a
new import, so that a dangling pointer is not hidden by memory that happens to
be used again. `targetState` and `stranded` are not in the code.

`ClientFrames` adds to these steps what the displays show: `PostTarget` is a
present that the HAL and the device let through and with which `hwc_post` shows
`mBuffer`, `KeepFrames` any other step, among them the presents of a null handle
and those `hwc_post` fails at, which nobody hears of. Its history variable is in
a module of its own because nothing else depends on it.

| Property | Meaning |
|---|---|
| `TargetIsLive` | unless the client's last target was refused, `mBuffer` is imported or null, also while a slot has been replaced and the device not told |
| `HandlesAccounted` | an imported handle has exactly one cache or releaser that will free it, a freed one none |
| `LayersAreOwned` | each layer of the device belongs to the client, is on its way there, or was stranded by a failed call: a client that goes leaves no other behind |
| `FinalPresentIsTaken` | the destructor's last present of a display finds it validated, accepted and without a layer of the client, whatever commands the client left half done and whatever layers it stranded |

*A display that is not blank.* `destroyResources` stands in for `hwc2_close`,
which was to "make sure all displays are blank (since there is no layer)"
(`ComposerClient.cpp:533`). But the final present posts `mBuffer`, which nothing
resets, so the last target of the client that went stays on the display; had it
been reset, `hwc_post` would refuse the null handle and the display keep its
frame. `client_blank` finds `BlankAfterClient` violated.

What else the model shows about the code: a target of another dataspace is
cached, refused by the device, and the handle it replaced is freed, although
`mBuffer` points to it (this is the `targetState` that `TargetIsLive` excepts;
without the exception TLC finds it violated). `mBuffer` also dangles from the
end of a client until the next one sets a target, so a present before that, as
the final present of a client that set none, is of a freed handle.
`cleanDisplayResources` looks the slots up instead of replacing them (`useCache`
is true), so it leaves the last slot in `mBuffer` and frees nothing; as
registration is required to happen once, no client gets there. A layer that the
resources refuse, because the client has not registered yet, stays in the device
(`stranded`, which `LayersAreOwned` excepts); one that is destroyed through
another display stays in the resources of its own for as long as these exist.
`setDisplayMustValidateState` is written and never read. An output buffer is
refused on every physical display, and there are no others.

### VsyncSource and VsyncThread

`VsyncSource` is the promise the rest of the composer relies on: a callback runs
only while it is installed, one at a time, and `Install` waits for the one under
way. `VsyncThread` is the code: `pc` follows `vsyncLoop` statement by statement
wherever the mutex is released or time passes, `locked` is `mMutex` as the
vsync thread holds it (the binder threads hold it within one step),
`EnableCallback` and `NotifyAll` are separate because the notification comes
after the mutex. Time is relative: `ahead` is `mNextVsync - now()` and `gap`
the distance from the last timestamp handed out, so that the model is finite
without an end of time.

`TimestampsAreDue` (a callback never comes before its timestamp, and each
timestamp is later than the last) and `SleepsForTheNextVsync` are about the
arithmetic of `mNextVsync`; `AtMostOneLateCall` about callbacks after a disable;
`ImplementsSource` is the refinement of `VsyncSource` (`running` is
`pc = "calling"`), and `EnabledKeepsFiring` says that no wakeup is lost.

Fairness: the vsync thread is scheduled, a thread inside `enableCallback`
reaches `notify_all`, time passes. `SleepFails` stops some time: the instant
given to `clock_nanosleep` is always valid, and `EINTR` is retried by the code.
`stop()` is never called and not modelled.

### ClientSlot and ComposerLifecycle

`ClientSlot` is the abstract service: a slot that is granted and released.
`ComposerLifecycle` has the threads inside `createClient` (`creator`), the
clients between construction and destruction (`client`), and the vsync thread
as the abstract `VsyncSource`. Each state of a client is a place where another
thread can come in: between the two halves of `registerEventCallback`, between
removing the hook and clearing `mEventCallback`, before and after
`onClientDestroyed`, and before the members of the object are gone. An identity
is used again after `"gone"`, as memory is.

| Property | Meaning |
|---|---|
| `CallbacksReachTheOwner` | `onVsync` executes only on a callback object that exists, from beginning to end, and the HAL points to a client exactly from its registration to its own unregistration |
| `AliveIsExact` | `mClientAlive` tells whether a client owns the device, timeouts and failed inits included |
| `ImplementsSlot` | one owner at a time: `ClientSlot` is implemented |
| `CreateClientReturns` | `createClient` returns, with a client or with `EX_NO_RESOURCES` |
| `DroppedClientGoes` | a destructor that has begun ends: the three mutual waits form no cycle |

Fairness: binder threads run and a mutex that is free again and again is given
to each thread that wants it some time (`SF`), a deadline passes, and `onVsync`,
a oneway binder call, returns. A client registers at most once: `registerCallback`
replaces `mHalEventCallback` while the HAL still points to the old object, so a
second registration has a window the model leaves out. `InstallVsyncHook` has
strong fairness because the mutex it needs is free between callbacks.

### GbmGralloc and Mapper

`GbmGralloc` is the map from handles to buffer objects and the lock state of
each; an entry can be null (`keys` beside `bos`), because looking a handle up
with `operator[]` inserts it. `Mapper` has the calls of one client process. A
handle is an address: `importBuffer` may get one that was freed before. The
client may pass handles it never imported, free a buffer it holds locked, and
flush; it unlocks only what it locked. `held` is the client's count.

| Property | Meaning |
|---|---|
| `MappedIffCpuLocked` | the mapping lasts exactly as long as a CPU lock; no usage is remembered without a lock |
| `CpuLockIsExclusive` | a mapped buffer has one lock, so the unmap at every unlock takes it from nobody else |
| `NoStaleBuffer` | no buffer object stays registered under a deleted handle |
| `LocksAreBacked` | unlocking or flushing what is held never reads a missing `bo_data_t`, and gbm counts no lock that its client does not know of |

Assumption: a process calls the mapper from one thread at a time; neither
`Mapper` nor `gbm_gralloc` ("XXX thread-safety?") takes a lock.

*What the code does differently from its comment.* `gbm_lock` says "allow
multiple locks with compatible usages", but `gbm_map` refuses a buffer that is
mapped, so a CPU lock is never nested, not even for the same usage: that is
`CpuLockIsExclusive`, which is proved, and the reason why `gbm_unlock` may unmap
at every unlock.

### GrallocLayout, Allocator, LegacyGralloc and GrallocStack

`GrallocLayout` has the pure functions about a buffer that several components
compute for themselves: the gbm format and size, the translation of usages to
gralloc 1 (by the allocator) and from gralloc 0 (by the legacy module), and the
planes, which `gbm_lock_ycbcr` (`LockedPlanes`) and `Mapper::get`
(`get_plane_layouts`) each work out, while `gbm_alloc` decides how large the
object is. A usage is a set of bit numbers. `LayoutsAgree` and `PlanesFit` are
what the three owe each other.

`Allocator` is the service: each binder thread creates the buffers of a call
one by one, exports them and frees what it made, on success and on every error.
A buffer can fail with a reason (`CreateFails`), without one
(`CreateFailsSilently`: `-errno` is 0 and a null handle counts as a success, on
which `dupToAidl` then dies: `Crash`), or come with another stride. Its map is
keyed by the address of a handle, and an address freed by one thread is given to
another at once. Each access to the unprotected map is one step.

`LegacyGralloc` is `gralloc.rpi` on `GbmGralloc`: `Register` .. `Lock` are
`lock_ycbcr`, `Unlock` .. `Forget` are `unlock`. The module's mutex makes each
call into `gbm_gralloc` one step; `rhandle` is outside of it, so another thread
may come in between any two. A handle is used by one thread at a time, and the
first call, which initializes the module outside of its mutex, is alone.

`GrallocStack` composes the two processes: a client locks what its requests
returned, and a handle carries the usage and format the allocator put into it.

| Property | Meaning |
|---|---|
| `NoBufferLeaks` | the handles and gbm objects of the service are those of the calls under way, each of one call only |
| `LockKeepsMapping` | while a thread holds a lock, its registration, count and mapping stay, whatever other threads do through the one `rhandle` |
| `LockableAsAllocated` | a buffer may be locked for the CPU usages it was allocated for, and is linear: the two usage translations agree |
| `PlanesInBuffer` | the planes a lock returns are those of the mapper's metadata and lie inside the gbm object |

What the model shows and no document speaks of: `rhandle` is overwritten when
two threads lock unregistered handles, and the first registration stays for
good; `gbm_lock_ycbcr` refuses an unknown format with the buffer already locked;
`Mapper` hands its usage to `gbm_lock` untranslated, so that a lock for
`CPU_WRITE_OFTEN` alone is checked against other bits than the allocator stored;
and for YV12 of odd width or height the chroma planes end behind the object
(the requests of the run have even sizes, as the format requires). The stride of
a result is in bytes here, in pixels in the code.

### KmsSetup

The construction of `hwc_context`: `card` is what the kernel reports, `pc`
follows `init_kms` (`InitPrimary` and `InitSecondary` for the HDMI connectors,
`TryConnector` for each turn of the fallback loop, then `EnforceConnector` or
`NoConnector`). `init_with_connector` and `find_mode` are operators; the latter
yields the set of modes that may come out, empty where the code reads through a
null pointer. `closestMode` is the loop with its early exit; `ModeIsBest`
compares it with the definition of the best mode. `active` starts with any
value, as neither `hwc_context` nor `kms_output` initializes it. `driven`, the
outputs whose initialization succeeded, is not a variable of the code, which
forgets the result.

| Property | Meaning |
|---|---|
| `OutputsNeverShare` | two driven displays have different connectors, CRTCs and (dedicated) planes, and a failed attempt takes no CRTC away from a later one |
| `OutputIsWired` | encoder, CRTC and plane of an output fit together |
| `ModeIsBest` | the mode is the one asked for, or the best there is, and never at a clock that disturbs Wifi |
| `ConnectorChoice` | the first and second connected HDMI connector, else the first usable connector, else the last readable one |

Assumptions: the card does not change during the set-up; a connector that is
connected, or whose status is unknown, has a mode, and a disconnected one has
none, which is what the kernel reports.

*A crash.* "if no connected connector found, try to enforce the use of the last
valid one": such a connector is disconnected, its mode list is null, and
`find_mode` reads the first mode of it. `kms_enforce` shows it.

### KmsOutput

Posting frames once the displays are driven. `PresentDisplay` is `hwc_post`
with its four ways (`AddFbFails`, `PostNothing`, `PostWithMode`, `PostFlip`),
under the command lock and therefore one step; `FlipDone` and `LoseMode` are the
kernel, at any time. A frame is the number of the target that carries it, so
that "newer" is an order. `mBuffer` is one for both displays, as in the device.
`fits` says whether a display's mode is within the size of the primary's, which
`add_fb` gives every framebuffer: on a larger secondary display
`drmModeSetCrtc` refuses every frame, and `TargetsAreShown` does not cover it.

| Property | Meaning |
|---|---|
| `FenceIsHonest` | a present fence belongs to a frame that is queued or shown, never to one that was dropped |
| `ModesetsOnlyAfterFailures` | after the first mode set, each further one pays for a failure: a busy CRTC causes none |
| `OneFramebufferPerHandle` | framebuffers, which nothing removes, are created per handle and not per frame |
| `TargetsAreShown` | if the client keeps presenting, each target or a later one gets on the display |

Fairness: the client keeps presenting (a compositor that stops after a refused
frame never learns that it was dropped) and the kernel completes its flips.
`MaxFaults` bounds what the kernel may refuse without a reason; without an end
to that, nothing is ever shown.

### AudioOut

`pc` gives the place of a thread in `out_write`, `out_standby` or
`adev_close_output_stream`, one for each point where another thread can come in;
`devLock` and `outLock` are the two mutexes. `card` is the stream that has the
PCM device open: it takes one open at a time, so a second stream's writes fail,
are paced and reported as written. Client contract: no call on a stream whose
close was called, and no close during another call.

| Property | Meaning |
|---|---|
| `PcmOutlivesWrite` | no pcm is closed under a `pcm_write` |
| `PcmIsAccountedFor` | under the stream's mutex, standby is set exactly if there is no pcm; the PCM device is open for the stream that has one, and for no other |
| `BlocksNobody` | a thread in `pcm_write` does not hold the device's mutex, one in the pause holds none |
| `CallsReturn` | every call returns: the two mutexes are taken in one order and given back on every path |

Fairness: a thread inside a call goes on. The calls of each thread are bounded,
so a mutex cannot be taken from a waiting thread for ever, and weak fairness is
enough. A standby does wait for a write on its stream with the device's mutex
held, and all other streams with it; `CallsReturn` says only that this ends.

### AudioIn

There is no microphone: `in_read` returns silence and sleeps for the duration of
the buffer less the time since the last buffer was "drained". `BeginRead` reads
the clock and goes to sleep, `EndRead` sets `last_read_time_us` to when it
should have woken up. `usleep` may return up to `MaxOvershoot` late and, because
its result is not checked, up to `MaxCut` early. Reads are of the two sizes that
the stream and the device advise; the rate and the format change between them.
`start`, `recorded`, `returned` and `late` are history.

`KeepsPace`: all that was read since standby is never longer than the time it
took, but for what the last sleep was cut short; and as long as each read came
in time it is as long, but for the last overshoot. The errors do not add up.

Assumptions: one record thread uses the stream, which has no lock (a standby
during a read would be overwritten by its end); the rate is not 0, by which
`in_read` divides; the formats are PCM. Durations are rounded down once per
read, as in the code. `adev_get_input_buffer_size` may advise half a frame more
than `in_get_buffer_size` (11025 Hz, stereo), and `adev_close_input_stream`
frees nothing.

## What TLC checks

| Run | Instance | States | Why it is enough |
|---|---|---|---|
| `command_engine` | 2 layer ids, displays 0 and 2 | 240,435 | an id that is clean beside one that is dirty, a fetch shorter than its count, a layer created and one destroyed during a validation, an invalid display; 3 ids (2.6 million states) give the same result |
| `vsync_thread` | 2 binder threads, one callback, period 2, up to 5 ticks late | 4,688 | late by less than, exactly and more than a period; two notifications pending; a gap above `MaxGap` cannot matter as only `gap >= mPeriod` is asked |
| `lifecycle` | 2 creators, 3 clients | 6,776 | two threads wait for one slot; one owner beside two that have notified and not ended |
| `mapper` | 2 addresses, 3 usages, up to 3 locks held | 702 | nested non-CPU locks, refused CPU locks, one buffer with the usage waiver and one without; addresses used again |
| `kms_setup` | 2 CRTCs; every table of 2 connectors, 3 HDMI connectors, 8 requests on 4 mode lists, 3 plane tables | 94,389 | each status and wiring of a connector meets each other one; more connectors than CRTCs; ties, exact, forced, closest and preferred modes |
| `kms_enforce` | the same | | the counterexample: no connector connected, the last readable one enforced |
| `kms_output` | 2 displays, 2 buffers, 2 targets, 2 imports, 1 fault for each display | 40,116 | a target follows another while a flip is queued; a failure before and after the first mode set; a buffer imported again |
| `audio_out` | 3 threads, 2 streams, 2 calls each | 273,904 | two threads meet on a stream while a third starts or closes the other |
| `client_resources` | 1 or 2 displays, a client target cache of one slot, 2 handles and 2 layer ids of which 3 are in use together | 488,940 | a target replaced by another and one refused, a handle in a second cache; a layer stranded, or another display's, beside one of the client |
| `client_blank` | the same, with `ClientFrames` | | the counterexample: register, set a target, go |
| `gralloc_stack` | 2 service threads, 2 client threads, 3 requests (YV12 34x6 twice, a scanned-out buffer, an RGBA one), 2 heap addresses | about 1.21 million | the second buffer of a call fails while another thread takes the address of the first; two clients inside `lock_ycbcr` and `unlock` with one `rhandle`; a YUV and another format |
| `audio_in` | a clock of 200 units a second, 20 units long; 2 configurations, 2 rates, 2 formats, sleeps 2 late or 1 early | 683,880 | up to five reads in a row, early, in time and late, and a change between them |

`kms_setup`, `audio_out`, `client_resources` and `gralloc_stack` switch the
deadlock check off: the set-up ends, so do the calls of the audio threads, layer
ids and handles run out, and requests are made once; that no audio thread is
stuck within a call is `CallsReturn`.

The bounds of the new instances. `MCClientResources` has the constraint `Small`:
two handles and one layer, or one handle and two layers, because a property that
relates handles to layers needs one of each, and those that relate two of a kind
need no third of the other. `OneOtherCall` allows one layer at a time to be
created or destroyed beside the command thread. `MCGrallocStack` has the
constraint `OneProcessAtATime`: the service and the client share only the
results, which do not change while a client uses them, so an interleaving of the
two processes' steps reaches nothing that running one after the other does not.
`Objects` bounds the gbm objects by the number of addresses, `MaxCount` the
locks a handle may have when it is locked once more. Handles, threads
and buffers are interchangeable, hence the symmetry sets; none of these runs has
a liveness property. `PlanesInBuffer` is about the sizes of the requests; for all others
`GrallocStack_proofs` proves it. Every property has a mutant, an
operator `mutant...` beside the definition it changes: a plausible bug in that
code with which TLC finds the property violated.

## What is proved

`ComposerCommandEngine_proofs` proves for any number of layers and any set of
display ids that `IInv` is inductive, and from it `TypeOK`, `DirtyMatchesView`,
`ValidatedIsClean`, `ReportIsExact` and the action property
`PostsOnlyClientComposited`. The last is what one wants; the argument runs
backwards. A frame is posted in state `VALIDATED`, where nothing is dirty
(`ValidatedIsClean`), and what is not dirty the client draws
(`DirtyMatchesView`). Accepting clears the whole dirty set, so the client must
have been told all of it (`ReportIsExact`), which the three-call validation
provides only because any layer change in between makes the state `MODIFIED`
and fails the rest of it: `CountIsExact` and `InsideValidation` carry that from
one call to the next, and `IdsIssued` says that a new layer's id is unknown to
the client. The proof uses the cardinality of finite sets for the reply
(`FullFetch`).

`FullCommandPosts` looks over a whole command. What a command that validates,
accepts and presents has still to run tells the state of the device
(`CommandInv`): after the validation it is not `MODIFIED`, after the accept it
is `VALIDATED`, after the present the frame is posted. Only another thread can
take the device out of these, which the property excepts. That the parts run in
this order is `StageOrder`.

`Mapper_proofs` proves for any handles, usages and number of locks that the
properties of `Mapper` are inductive together: a lock that needs a mapping and
gets one is the first on its buffer (`MappingLockIsFirst`), because a mapping
and a CPU usage in `locked_for` come and go together; and an unlock does what
`UnlockHeld` says because what is held has its `bo_data_t`.

`Kms_proofs` proves the safety properties of `KmsOutput` for any number of buffers, targets, imports and failures. The fence of a frame stays honest
because frames reach a display in order (`DisplayInv`: what is shown is not
newer than what is queued, and that not newer than the target); the number of
mode sets is bounded by that of failures because a flag that is clear while the
CRTC is on is the one mode set not yet paid for (`FlagFollowsMode`); the number of framebuffers by
that of handles because a handle without one still has its own to come
(`HandleInv`).

The same module proves `OutputsNeverShare`, `OutputIsWired` and
`ConnectorChoice` of `KmsSetup` for any number of CRTCs and any card. What
`init_with_connector` may do is one lemma (`InitWithConnector`) that every
action cites: it drives the output with a CRTC that was free, or it leaves the
outputs alone and marks at most the bit behind the last CRTC. So the bits of
`used_crtcs` stay exactly those of the driven outputs (`AssignedInv`), though
the code marks one before it knows that there is one. With a connected HDMI
connector `active` of the primary output is 1 when the fallback is reached, so
it never starts (`HdmiInv`); without one nothing is driven while the loop runs,
and the loop has passed over no connector it could have used and remembers the
last it could read (`LoopInv`, `FallbackInv`).

And it proves `ModeIsBest` for any list of modes. `closestMode` is a recursive
function, whose existence (`WalkExists`) and whose loop invariant (`Found`: the
first closest, or the first preferred, of the modes seen so far) are inductions
over the length of the list, done as the least counterexample of each. The
hypothesis `DistancesFit` is that the squared distances `find_mode` compares are
below the `INT_MAX` it starts from, as those of sizes up to 32767 are; beyond it
the `int` of the code overflows, which the model leaves out.

`ClientResources_proofs` proves `HandlesAccounted`, `TargetIsLive`,
`LayersAreOwned` and `FinalPresentIsTaken` for any handles, layer ids and slot
counts. `Places` are where a handle can be kept by somebody who will free it:
the slots of the client target caches, the readback buffers, the caches of the
layers, and the command thread between taking a handle out of its slot and
freeing it. `Accounted` says that what is held there is exactly the imported
handles, one place for each, so each free is of a handle nobody else has. The
device's client target is in a slot or is the handle the command thread frees
next, after telling the device of the new one (`TargetInv`); so a target the
device still points to is never freed, unless the device refused its successor.
Every layer of the device belongs to a display, to the binder thread that has
yet to record it, or is stranded (`LayersInv`). And while `destroyResources`
works through the displays, those it has left behind have no layer of the
client, and the final present of a display finds it `VALIDATED`, with nothing
dirty and all its layers destroyed (`FarewellInv`).

`Audio_proofs` proves the safety properties of `AudioOut` for any number of
threads, streams and calls. The places of the threads say who holds the two
mutexes, and `devLock` and `outLock` agree (`Ownership`). A stream's pcm and its
standby change together (`StandbyIffNoPcm`, `CardIsOfPcm`) and only under its
own mutex, so what a thread found at its start is still true when it writes
(`InCall`). That a freed stream leaves no pcm behind needs one more fact: a
closing thread is alone on its stream, so the standby it set is still set when
it frees it.

The same module proves `KeepsPace` of `AudioIn` for any rates, formats, reads and errors of
`usleep`. What makes the errors vanish is that `last_read_time_us` is on the
schedule and not on the clock: as long as no read was late it is exactly `start`
plus what was recorded, and otherwise no earlier (`DrainedOnSchedule`); a read
returns within the errors of its own sleep from there (`ReturnsNearDue`). A read
that is late moves the schedule to the clock, one that is early sleeps until
the schedule.

`VsyncThread_proofs` proves the safety of `VsyncThread` for any period, any
callers and callbacks and any lateness: `TimestampsAreDue`, `AtMostOneLateCall`
and the action property `SleepsForTheNextVsync`, whose core is a lemma about the
division that rounds the lateness up to whole periods (`RoundUp`). The invariant
adds when the mutex is held (`LockedWhere`), that a sleep that ran to its end is
past its vsync while the thread still waits for the mutex (`Due`), and that
after a late call the thread has the check of `mCallbackEnabled` before it
(`LateOnce`). It also proves the refinement of `VsyncSource` (`RefinesSource`):
the call is the time between `BeginCall` and `EndCall`, and the mutex held
meanwhile is what makes `SetCallback` wait.

`ComposerLifecycle_proofs` proves `AliveIsExact`, `CallbacksReachTheOwner` and
the refinement of `ClientSlot` for any threads and clients. The mutex is held
from the look at `mClientAlive` to the making of a client (`MutexInv`), so the
flag a thread saw false is false when it makes one, and no two clients own the
device (`SlotInv`). Hence the HAL's one callback pointer is the owner's, the
hook is installed for a shorter time than that, and a call runs only within
(`CallbackInv`). In the refinement the owner is a CHOOSE over the owning
clients, which `SlotInv` makes the only one.

`GrallocStack_proofs` proves `LockKeepsMapping` and `PlanesInBuffer` for any
threads, requests, addresses and usages. The first: each step of a thread
touches the registration, count and mapping of its own handle only
(`OwnHandleOnly`), and no other thread has that handle (`OneThreadPerHandle`),
so `rhandle` can make a thread unregister too little, never what another one
holds. The second: a client has a handle only of a request that was answered,
an answer is not taken back (`AllocStep`), and its stride is one gbm gave for a
format gbm has (`AllocInv`), so a locked YUV buffer is one of the planar ones.
For these `PlanesAgree` compares the planes of the lock and of the metadata at
every size, and `PlanesFitPlanar` bounds them by the object, for YV12 of even
width and height, which is the hypothesis of the theorem. The strides are the
two of `GbmStrides`; the lemma is for any stride from the tightest up.

`NoBufferLeaks` is about the calls of the allocator on any number of threads.
What a call has yet to free are the buffers it collected, less the object of the
first one when that is destroyed and its handle is not yet deleted (`Kept`,
`Freed`). Each address is in one place of one call
(`KeptOnce`), the heap has exactly these, and `gbm_bo_handle_map` exactly those
whose object is still there, each an object of its own (`HeapAccounted`). So
neither a failure of gbm half way, nor the freeing of an address that another
thread is given at once, leaves anything behind or frees it twice. That there is
an object left for every address without one is a matter of counting them
(`ObjectIsFree`).

`LockableAsAllocated` compares the two translations of a usage: what
`Allocator.cpp` asks gbm for and what `gralloc_rpi.cpp` asks for at the lock,
for every usage within that of the request (`TranslationsAgree`). Its hypothesis
`Named` is that the CPU bits of a request are values of `BufferUsage`: there
`READ_RARELY` and `READ_OFTEN` share a bit, and the enumeration leaves some of
the combinations of a mask unnamed, for which the code makes no promise.

The type invariant of every module that has one is proved (as a part of the
inductive invariant where no theorem names it), those of `Allocator`, `GbmGralloc` and `LegacyGralloc` together as that of `GrallocStack`
(`TypeCorrect`).

The assumptions on constants (`MaxLayerIdAssumption`,
`CalledDisplaysAssumption`, `GbmAssumption`, `MaxHeldAssumption`,
`KmsAssumption`, `OutputAssumption`, `AudioAssumption`, `AudioInAssumption`,
`ResourcesAssumption`, `AllocatorAssumption`, `LegacyAssumption`,
`StackAssumption`) say what kind of values they are and are evaluated by the
runs. Two say more: the addresses of the heap are finite in number, and the
usages of `GrallocStack` are the 32 bits of `BufferUsage` the code looks at.

Only model-checked: the liveness properties, which are out of the prover's
reach, and what the two runs that expect a violation show.

## Not modelled

* `Fence.cpp` is a copy of AOSP's wrapper of system calls, `libmemtrack` a stub
  that refuses: neither has state of its own.
* Queries and setters that answer with a constant (most of `ComposerClient`,
  much of `audio_hw.c`), descriptors, the metadata other than the plane layouts,
  the display's attributes and name, dumps and logs change nothing that another
  operation reads.
* The engine's handlers that are commented out do nothing; virtual displays and
  their output buffers are refused.
* `out_set_sample_rate`, `out_set_format` and the like write to a stream without
  its lock; a race with a write is undefined behaviour.
* Data races (`gbm_bo_handle_map`, `unordered_set` in the device) are assumed
  away where they would be undefined behaviour: one access is one step.
* `gbm_init`, `gbm_destroy`, the decoding of a buffer descriptor and the start
  of the services are I/O.

## Plan

Modelled in the order of the components above, and proved in the same order:
every safety property and both refinements of the passing runs are theorems.
What could be added is the part of the audio output that no lock protects.
