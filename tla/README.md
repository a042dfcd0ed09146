# Formal models of LibDCBridge

These TLA+ modules model the C bridge between libdivecomputer and the Swift
BLE transport of libdc-swift. The bridge lives in
`src/Sources/LibDCBridge/src/configuredc.c` and its header, `configuredc.h`.
TLC checks the modules on small instances. For every value of the
constants, TLAPS proves the following:
- the main safety properties of the device session;
- the session's refinement of the state machine of spec 4.3;
- the descriptor release of the identification lookups;
- their refinement of the resolution contract of spec 4.2, and the
  precedence of the most specific table entry;
- the ownership of the BLE object by the BLE stream adapter.

## The system

The bridge has four parts.

1. **The BLE stream adapter** (lines 33-181). `ble_iostream_create` builds a
   libdivecomputer `dc_iostream_t`. Its vtable forwards `read`, `write`,
   `set_timeout`, `ioctl`, `sleep` and `close` to the Swift transport, which
   is declared in `BLEBridge.h`. `ble_packet_open` (186-213) connects to an
   address and wraps the BLE object in a stream.
2. **The device session** (218-380, 641-675). A `device_data_t` block holds a
   context, a stream, a device, a descriptor, a "Vendor Product" model string
   and a fingerprint.
   - `open_ble_device` fills the block step by step, and every failing step
     unwinds through `close_device_data`.
   - `open_ble_device_with_identification` first tries the stored family and
     model. If that fails, it falls back to identification by name.
   - While a download runs, libdivecomputer calls `ble_device_event_cb` back.
     On DEVINFO, the callback asks the application's `lookup_fingerprint` for
     the last downloaded dive and sets it on the device.
3. **Device identification** (388-636).
   - `find_descriptor_by_name` walks the ordered `name_patterns` table, where
     the first match wins. For a matching entry, it scans the libdivecomputer
     catalog for the entry's vendor and product.
   - If no entry yields a descriptor, it falls back to the catalog's BLE
     filters.
   - `find_descriptor_by_model` scans the catalog for a (family, model) pair.
   - Both are called by `get_device_info_from_name`,
     `get_formatted_device_name`, `create_parser_for_device` and the open path.
4. **The Swift transport.** `BLEBridge.h` and
   `CoreBluetoothManagerProtocol.h` only declare it. Its implementation is
   not in the repository.

The parts interact through the open path:

- Identification turns a name into a (family, model).
- `open_ble_device` looks the descriptor up again by that pair.
- The stream adapter provides the session's I/O.
- The session's model string keys the fingerprint lookup.

All code runs on one thread. The event callback runs on the stack of the
download the application started. Interleavings are therefore interleavings
of calls, failures and callbacks, not of threads.

## Modules

| Module | Models | Kind |
|---|---|---|
| `DeviceSession` | device session | state machine |
| `MCDeviceSession` | bounds for TLC | MC |
| `DeviceSessionProofs` | invariants of `DeviceSession` | TLAPS |
| `SessionLifecycle` | state machine of spec 4.3 | abstract spec |
| `DeviceSessionRefinement` | `DeviceSession` implements `SessionLifecycle` | TLAPS |
| `IdentificationTable` | `name_patterns`, match modes, label format | operators |
| `NameResolution` | contract of spec 4.2, one atomic lookup per step | abstract spec |
| `Identification` | lookups step by step and their callers | state machine |
| `MCIdentification` | small catalog and names for TLC | MC |
| `IdentificationProofs` | descriptor release by lookups | TLAPS |
| `IdentificationRefinement` | lookups implement `NameResolution` | TLAPS |
| `IdentificationPrecedence` | most specific entry wins, given `TableOrder` | TLAPS |
| `BleStream` | BLE stream adapter: packet open, vtable, close | state machine |
| `MCBleStream` | bounds for TLC | MC |
| `BleStreamProofs` | ownership invariant of `BleStream` | TLAPS |

### DeviceSession

**State.** Heap objects are abstracted to `live`, a count per kind:

- `ctx`, `obj` (the BLE object), `stream`, `dev`, `desc`;
- `label` (the model string), `fp` (a fingerprint buffer);
- `data` (the calloc'ed block).

Each pointer of `device_data_t` is abstracted to whether it is non-NULL
(`data`). Other state:

- `desc`: the local descriptor of `open_ble_device`.
- `blk`: whether the `_with_identification` block is held.
- `devEvents`, `devFp`: what libdivecomputer holds for the device.

**Actions.** There is one action per fallible step of `open_ble_device`:
context, descriptor, packet open, device open and event set-up. A failing step
includes the `close_device_data` that unwinds it and the return into its
caller. The other actions are:

- the entry and the named retry of `open_ble_device_with_identification`;
- `get_device_info_from_name`;
- the DEVINFO and PROGRESS branches of `ble_device_event_cb`;
- the application's calls. These are not under `src/` and are modelled from
  the spec, marked `spec_modelled`: a direct open, registering a lookup, and
  close.

`close_device_data` is the operator `CloseLive`, which releases every live
object of the block in one step. The function is straight-line code on the
application's thread, so no run can reorder its five releases. The order is
therefore not modelled, and no property speaks of it. `ble_packet_open`'s four outcomes are in
`BlePacketOpenLive`.

### Identification

`Identification` has one action per loop iteration:

- `TestPattern` tests one table entry;
- `ScanForPattern`, `ScanFallback` and `ScanForModel` each look at one catalog
  descriptor;
- `PatternScanDone` and `StartFallback` move between the phases;
- `StartModelScan` creates the iterator for the model scan.

Creating any iterator may fail. The code then returns the status at once, and
so does the model. A descriptor the scan rejects is freed in the same step.
`held` counts the descriptors the identification code owns, and `iter`
whether an iterator is live.

The callers' handling of the returned descriptor is `NameLookupReturns` and
`ModelLookupReturns`:

- `get_device_info_from_name` keeps family and model and frees it.
- `get_formatted_device_name` formats the label if malloc succeeds and frees
  it either way.
- The open path goes on to `open_ble_device`, which looks the descriptor up
  again by model and stores its label.
- `create_parser_for_device` frees the descriptor after `dc_parser_new2`.

Names and labels are TLA+ strings. `strstr` and `strncmp` are written with
`Len` and `SubSeq`, so matching is modelled by what it does. The 47 table
entries are the source's, in source order.

The libdivecomputer catalog is a constant. `MCIdentification` gives it the
Shearwater Petrel family in libdivecomputer's order, where Petrel and
Petrel 2 share family and model 3. It also gives one device that only its BLE
filter identifies.

### BleStream

**State.** `obj` and `strm` count live BLE objects and `ble_stream_t`
blocks. `iostream` is whether the owner holds the stream, and `link` whether
the transport holds a connected link. `timeout` is the last value forwarded
to `ble_set_timeout`.

**Actions.**

- `ble_packet_open` has three outcomes: `createBLEObject` or
  `connectToBLEDevice` fails (nothing is left), the stream malloc in
  `ble_iostream_create` fails (the object is freed by `CreateFailsRelease`,
  line 208), or the open succeeds.
- `ble_stream_set_timeout` forwards a timeout from `Timeouts`.
- `ble_stream_forward` stands for read, write, ioctl and sleep, which change
  no adapter state. The packet-header inspection in read only feeds `printf`,
  so it is not modelled.
- `ble_stream_close` calls `ble_close`, which may fail, then frees both
  (`CloseFrees`). After a successful `ble_close` the link is down. After a
  failed one, whether the transport still holds the link is up to the Swift
  side, which is not in the repository, so the model allows both.

The Swift transport is a nondeterministic choice. The model assumes, as
`ble_stream_close` does, that `freeBLEObject` does not disconnect.

## Runs

| Run | cfg | Expect | What it shows |
|---|---|---|---|
| `session_safety` | `DeviceSession.cfg` | pass | see below |
| `descriptor_leak` | `DescriptorReleased.cfg` | violation | the descriptor is never freed |
| `fingerprint_leak` | `FingerprintReleased.cfg` | violation | some fingerprint buffers leak |
| `dedup_skipped` | `DedupApplied.cfg` | violation | open can succeed with the lookup disabled |
| `identification` | `Identification.cfg` | pass | see below |
| `label_mismatch` | `LabelMismatch.cfg` | violation | a session's label can differ from the formatted label |
| `ble_stream` | `BleStream.cfg` | pass | see below |
| `link_left_open` | `LinkReleased.cfg` | violation | a failed packet open leaves the link connected |

**`session_safety`** checks every interleaving of stored, identified and
direct opens failing at any step, downloads with lookups, and closes. It shows:

- `LeakFree`: no context, object, stream, device, label or block leaks.
- `TypeOK`: no count goes negative.
- `SessionWellFormed`: no partial session is handed back.
- `StoredFallbackClean` (an action property): identification by name starts
  either on a fresh block or after a failed stored attempt. In both cases the
  block holds no context, stream, device or descriptor.
- `SessionLifecycleRefined`: the session implements `SessionLifecycle`, the
  state machine of spec 4.3. It is written as Uninitialized -> ContextCreated
  -> DescriptorResolved -> StreamOpen -> DeviceOpen -> Ready, and each state
  holds the resources acquired on the way to it. A failing step releases all
  of them, and so does close.
  - The mapping (`SessionState`, `SessionHeld` in `DeviceSession`) reads the
    abstract state from `pc` and `data.device`.
  - It reads the held set from the live counts, plus the descriptor pointer.
    The descriptor is held by pointer because the code leaks it (see
    `descriptor_leak`), so its count cannot say whether the session holds it.
  - EventsRegistered and Ready are one abstract state, because registering the
    events acquires nothing. Closed and Uninitialized are one state, because
    the block may be opened again.

**`descriptor_leak`** finds that `close_device_data` nulls the descriptor
without freeing it (line 303). The header says the caller must free it.

**`fingerprint_leak`** finds two leaks:

- a buffer returned with size 0 is dropped (line 243);
- a second DEVINFO overwrites the stored buffer (line 253).

**`dedup_skipped`** finds two ways the fingerprint lookup is skipped for the
whole session while the open still succeeds:

- malloc of the model string fails (lines 371-375);
- the memset at line 318 clears a lookup stored before the call.

**`identification`** checks every caller with every name and any iterator
failure. It shows:

- `NoDescriptorLeak`: between calls no descriptor is held and no iterator is
  live.
- `MostSpecificWins`: an answer from the pattern loop never comes through an
  entry whose key is strictly contained in another matching entry's key that
  names a catalog descriptor. This is the precedence rule of spec section 8.
- `TableOrder`: no two `name_patterns` keys are equal, and an entry whose key
  contains another entry's key comes before it. It is a fact about the table
  that `MostSpecificWins` rests on (see Proofs).
- `LookupsReturn`: every lookup returns.
- `ResolutionRefined`: the step-by-step lookups implement `NameResolution`.
  Each answer is the one the declarative contract gives, or an iterator
  error.

**`label_mismatch`** shows a divergence between two labels for the same name.

- A device advertising "Petrel" resolves by name to Petrel 2, and
  `get_formatted_device_name` says "Shearwater Petrel 2".
- `open_ble_device` re-resolves (family, model) to the first descriptor with
  that pair. The session therefore stores "Shearwater Petrel", and that is
  the key of its fingerprint lookup.

This result rests on the catalog order of libdivecomputer, which is stated in
`MCIdentification`.

**`ble_stream`** checks packet opens failing at every step, every stream
operation with every transport outcome, and closes whose `ble_close` fails.
It shows:

- `StreamOwnsObject`: a live BLE object and a live stream exist exactly while
  the owner holds the stream.
  The property holds through failed opens, whose objects are freed in the
  same step, and through closes whose `ble_close` fails, which still free
  the object and the stream.

**`link_left_open`** finds that when the stream malloc fails after the
connect succeeded, `ble_packet_open` frees the object without `ble_close`
(line 208). The link is left connected with no owner. Spec 3 says no handle
survives its adapter.

**Mutants.** Each property of a passing run has a mutant in `PROJECT.json`: a
plausible bug in the mapped code, defined next to the definition it replaces,
which TLC finds violating that property. Examples:

- a failed packet open that keeps the BLE object;
- the table with "Petrel" ahead of "Petrel 3";
- MATCH_EXACT compared as whole-string equality, as its comment says;
- a pattern loop that does not advance.

### Bounds

`MCDeviceSession` allows 3 open calls and 2 downloads. That covers:

- a failing stored attempt followed by a named retry;
- a second DEVINFO in one session;
- a reopen after close.

The run reaches 8298 distinct states.

`MCIdentification` allows 2 calls. Two calls are what a label comparison
needs: one formatted label and one open of the same name. The names cover:

- a specific key against its broader one ("Petrel 3 0412", "Perdix 2 0A1B");
- an entry with no catalog descriptor ("Teric");
- the filter fallback ("FQ123456");
- an unknown device ("Nemo").

The run reaches 28485 distinct states.

`MCBleStream` allows 3 opens and 6 stream operations. Three opens let a
failed open be followed by a successful one and a reopen after close. The run
reaches 172 distinct states.

### Fairness

`DeviceSession` and `BleStream` have no liveness property and no fairness.

`Identification` assumes weak fairness of the steps inside a call
(`WF_vars(Next /\ pc # "idle")`). A call runs on the application's thread
until it returns: nothing inside it waits for another actor. The application
is not assumed to make further calls.

## Proofs

`DeviceSessionProofs` proves the following for all `MaxCalls` and
`MaxDownloads` in Nat (`BoundsAssumption`):

- `TypeCorrect`: `Spec => []TypeOK`.
- `LeakFreeInvariant`: `Spec => []LeakFree`.
- `SessionWellFormedInvariant`: `Spec => []SessionWellFormed`.

### The inductive invariant

The properties are not inductive as they stand. `LeakFree` speaks only of
idle states, and during an open the counts are in flux. The proof uses

`IInv == TypeOK /\ Accounted /\ Covered /\ OpenShape /\ SessionWellFormed`

- `Accounted` states `LeakFree` at every step, not only at rest.
- `Covered` bounds the descriptor and fingerprint counts from below. It is
  needed because those kinds are leaked, so they can only be bounded.
- `OpenShape` says which pointers are set at each `pc` of the open sequence.
  It is what makes each unwinding free exactly what exists.

The proof has three parts:

1. `InitIInv` shows that the initial state satisfies `IInv`.
2. There is one lemma per action that `IInv` is preserved. `NextIInv`
   combines them.
3. Each property follows from `IInv`, and the step to `[]` is taken by PTL.

The helper lemmas give the effect of `CloseLive`, `Alloc`, `ClosedData` and
the packet-open outcomes on the counts.

`IdentificationProofs` proves `NoDescriptorLeakInvariant`,
`Spec => []NoDescriptorLeak`, for every catalog, set of names and `MaxCalls`.

- `NoDescriptorLeak` speaks only of idle states. The inductive invariant
  `LeakInv` adds that no descriptor is held inside a call either, and that an
  iterator is live exactly while `pc` is one of the three scans.
- Two lemmas state what the callers do on every return:
  - `NameLookupReturnsFacts` shows that each caller frees the descriptor
    (the label branch included, whether malloc succeeds or not);
  - `ModelLookupReturnsFacts` shows the same for `find_descriptor_by_model`'s
    callers.
- `NextLeakInv` has one step per action, and under it one case per branch of
  the action's IF.

The match tests stay opaque in this proof. The invariant holds whichever way
each test goes.

`BleStreamProofs` proves `StreamOwnsObjectInvariant` for all bounds in Nat
(`BleStreamAssumption`). Here `Inv == TypeOK /\ StreamOwnsObject` is
inductive as it stands, because each action changes `obj`, `strm` and
`iostream` together. `CloseFreesFacts` shows that close frees one of each
for both outcomes of `ble_close`. Arithmetic on the counts needs the types in
`Inv`.

`DeviceSessionProofs` also proves `StoredFallbackCleanTheorem`,
`Spec => StoredFallbackClean`, from `IInv`:

- A step that enters `identify` from another place is the entry of
  `open_ble_device_with_identification` or a failed return of the stored
  attempt (`ReturnToIdentify`).
- In the second case, the attempt failed either in the context step, where
  the block was just zeroed, or in a later step, where `close_device_data`
  cleared it (`OpenFailsToIdentify`).

`DeviceSessionRefinement` proves `SessionLifecycleRefinedTheorem`,
`Spec => SessionLifecycleRefined`, in two halves.

- `IInvHeldMatch` shows that `IInv` implies `HeldMatch`: what the session holds
  is `SL!HeldIn[SessionState]`.
  - `Accounted` turns the live counts into pointers (`HeldIsPointers`).
  - `OpenShape` and `SessionWellFormed` fix the pointers at each `pc`.
- `StateMoves` has one case per action. It shows that a step leaves the
  abstract state alone, advances it by one transition of open, or returns it
  to Uninitialized.
  - A failing step and its `close_device_data` return to Uninitialized
    (`OpenFailsUninit`).
  - Setting the events returns to the caller with the device open, so it
    reaches Ready.
- `MoveIsAbstractStep` combines the two. A move between two states with
  matching held sets is `Advance`, `Fail`, `Close` or a stutter.

`IdentificationRefinement` proves the following for every catalog, set of
names and `MaxCalls`:

- `RefInvInvariant`: `RefInv` is invariant.
- `IdentificationTypeCorrect`: `Spec => []TypeOK`.
- `ResolutionRefinedTheorem`: `Spec => ResolutionRefined`.

`RefInv` is `TypeOK` (as `TypeInv`, with its sets named so the provers keep
them opaque) and `LookupShape`. `LookupShape` relates each running loop's
position to what it has ruled out:

- in the pattern loop, every earlier table entry is one whose catalog scan
  found nothing;
- in a catalog scan, every descriptor before `j` is one the scan rejects.

The refinement mapping is `QueryOf` (the query a call asks) and `result`. The
`ContractOps` lemmas equate the operators of `NameResolution`, seen through
the `INSTANCE`, with the table's. Each action is then one of three things:

- a stutter of `NameResolution`;
- an `Ask`, when a call starts;
- an `Answer`, when a lookup returns. The answer is then the first hit the
  contract names, or an iterator failure.

`IdentificationPrecedence` proves `MostSpecificWinsTheorem`,
`ASSUME TableOrder PROVE Spec => []MostSpecificWins`, for every catalog and
name set.

- The inductive invariant `PrecInv` adds `PatternPhase` to `RefInv`. It says
  that an answer found in the pattern loop came from entry `i`, which matches
  the name, and that every earlier entry missed in the catalog.
- Given `TableOrder`, a more specific matching entry comes before `i`. It
  therefore has no catalog descriptor, so `MostSpecificWins` holds.

`TableOrder` itself is a fact about the 47 concrete strings. TLC checks it in
the `identification` run.

### What stays with TLC

- The liveness property `LookupsReturn`. TLAPS does not reason about
  fairness or `ENABLED`.
- `TableOrder` on the concrete table. Deciding substring containment over 47
  literal keys takes the string operators to their characters, which the
  provers do not do. The theorem is stated for every table that satisfies it.
- The violation runs, which are counterexamples, not theorems.

No module in the project uses RECURSIVE.

## Not modelled

- **The Swift transport.** It has no implementation in the repository.
- **Debug hex dumps and logging.** They change no state. The bytes the read
  path inspects are modelled; the printing is not.
- **Timeout validation.** `ble_stream_set_timeout` forwards any value. Spec
  4.1 asks that negative values be rejected, but the check, if any, would be
  in the Swift `ble_set_timeout`, which is not in the repository.
- **Functions declared in `configuredc.h` but not implemented.**
  These are `reopen_ble_device_with_model`,
  `get_alternative_models_for_name` and `get_device_data_pointer`.
