# A TLA+ model of AnisetteKit

AnisetteKit produces *anisette* headers (one-time passwords that identify a device to
Apple) by running two Android libraries, `libstoreservicescore.so` and `libCoreADI.so`,
either inside the Unicorn emulator or, on macOS, mapped straight into the process. This
directory models the parts of it whose correctness depends on the order of steps: the Swift
client, the two C cores, the emulator's memory, linker and file hooks, the native loader's
linker and locks. TLC checks the models on small instances; TLAPS proves, for every size, all of
their safety properties and that the pieces fit: the client calls the provider as the provider
expects, and the Unicorn core is such a provider.

How to run: `tlc -config <run>.cfg <module>` for each row of the table under *Runs*, and
`tlapm` on `NatFacts`, `AdiProviderProofs`, `UnicornCoreProofs`, `NativeCoreProofs`,
`ProvisioningClientProofs`, `GuestMemoryProofs`, `GuestLoaderProofs` and `HostLoaderProofs` for
the proofs.

---

## 1. The system

### 1.1 Components

| Component | Source | State it keeps | Operations |
| --- | --- | --- | --- |
| Swift client | `Sources/AnisetteClient.swift` | `routingInfoCache` (locked by `routingInfoLock`); per identifier the directory `<provisioningDir>/<uuid>` with `adi.pb` and the routing-info file | `getAnisetteData`, `fetchHeaders`, `resolveProvisioningBlob` and the `cleanup` closure it returns, `runProvisioningFlow`, `getStoredRoutingInfo` |
| Provider protocol and its two implementations | `Sources/AnisetteDataProvider.swift` | none | `getAnisetteHeaders`, `startProvision`, `endProvision`: JSON to and from the C functions |
| Unicorn core | `Native/anisette_core_uc.cpp` | `g_shared_vm`, `g_libraries_initialized`, `g_current_prov_path`, `g_current_android_id`, all under `g_vm_mutex` | `get_anisette_headers_uc`, `start_provision_uc`, `end_provision_uc`, `cancel_provision_uc`, `setup_vm_and_adi` |
| Native core (macOS) | `Native/anisette_core_mac.cpp` | `g_ssc`, `g_adi`, without any lock | the same four with suffix `_c`, `load_adi_and_setup` |
| Emulator loader | `Native/Loader/elf_loader_emulator.{h,cpp}` | `EmulatorVM`: loaded libraries, two bump allocators, the import table, the descriptor map, errno | load, relocate, run constructors, find a symbol, call a procedure; about forty hooks |
| Host loader | `Native/Loader/elf_loader_host.{h,cpp}` | `ElfLoader` objects, a map from guest locks to host locks, thread-local shims | load, relocate, `get_symbol`, siblings; bionic shims |
| Headers and DTO | `Sources/AnisetteRequestHeaders.swift`, `AnisetteHeadersDTO.swift` | none | copying between a struct and a dictionary, overrides |
| Responses, errors, constants | `Sources/AnisetteDataResponse.swift` and others | none | declarations |
| Logging | `Sources/AnisetteKitLogging.swift`, `anisetteCoreSetLogging` | a Swift flag under a lock, a C flag, an environment variable | `setLogging` |
| C helpers | `Native/anisette_base.{h,cpp}` | the C logging flag | base64, UUID string, Android id string, file tests |

### 1.2 How they interact

`getAnisetteData` decides where the provisioning blob comes from: `adi.pb` on disk, the
caller's memory, or a new provisioning (`lookup`, *start*, an exchange with Apple, *end*).
It then calls the provider for headers. A provider call is one C function call, which writes
the blob it was given to the account's `adi.pb`, tells the ADI library which directory and
which hardware identifier to use, and asks it for a one-time password. So the Swift client
and the C core work on **the same files**, and their locks have nothing in common: the client
guards only its cache, the Unicorn core only its VM, the native core nothing.

### 1.3 What is hard, and what makes each component correct

| Component | Hard behaviour | Correct when |
| --- | --- | --- |
| Swift client | tasks overlap at every `await` and file operation; a crash between two file operations; the `defer` that is registered after the part that throws | what was saved stays; the password is of the call's own blob; memory mode leaves no file; a blob's routing information is its own and outlives the process; every call returns |
| Unicorn core | fourteen ways out of a locked function; loading that fails half way and is tried again in the same VM; two cached values that let a call skip the setters; a cancel that asks for no setup | calls exclude each other; the cache agrees with the library; images are ready before they are called, the cancel after a failed setup apart; a caller is answered for its own identifier |
| Native core | unlocked globals; failures that must free what was made before | globals are both null or both bound; no use of a freed loader; answers are the caller's |
| Emulator linker | two libraries that need each other; names no library defines, and about whose kind the two may disagree; a setup that fails and is repeated over the images it left | all is linked before the setup runs any of it; one copy of each library is in use; what was bound stays; the kind of a placeholder does not depend on who looked first at run time |
| Emulator file hooks | descriptors of the guest beside those of the process; `errno` kept in guest memory by some hooks only | a number leads to its own file; no descriptor is lost or shared; `errno` is of the call that set it |
| Emulator memory | bump allocation near the end of a region; unchecked 64-bit arithmetic; `realloc` without knowing the old size; an import table that is filled twice | blocks never overlap; stubs are unique, watched and stable |
| Host loader, linking | relocation applied twice, first without the sibling; the number of symbols guessed from hash chains; pages that are code already when written again; a table of bare pointers | no symbol is lost; each relocation ends at a library that defines it; no deleted loader is handed out |
| Host loader, locks | a lock made by its first user, waited for after the table's mutex is left | one host lock per guest lock, alive while used; writers exclude |

The hazards, each at its line and with the properties that cover it, are in `PROJECT.json`.

---

## 2. Modules

```
AdiTypes                accounts, blobs, directories, requests, answers
   |
AdiProvider             abstract: what a provider promises     -- AdiProviderProofs
   |        \        \
   |         \        NativeCore            the macOS core      -- NativeCoreProofs      MCNativeCore
   |          \
   |           UnicornCore                  the Unicorn core    -- UnicornCoreProofs     MCUnicornCore
   |                   implements AdiProvider (ImplementsProvider)
   |
ProvisioningClient      the Swift client on top of the provider -- ProvisioningClientProofs
                        uses AdiProvider (UsesProvider)            MCProvisioningClient

GuestMemory             the emulator's allocators and import table  -- GuestMemoryProofs  \
GuestLinker             the emulator's relocation and look-up       -- GuestLoaderProofs   MCEmulator
GuestFiles              the emulator's descriptors and errno        -- GuestLoaderProofs  /

HostLinker              the native loader's symbols and relocation  -- HostLoaderProofs   \
HostLocks               the native loader's reader-writer locks     -- HostLoaderProofs    MCHostLoader

NatFacts                facts about sets of numbers that several proofs use
```

The client is checked against the *abstract* provider, the Unicorn core is checked to
*implement* it. That keeps both state spaces small, and what holds of the client holds on top
of the Unicorn core (section 5). It does not hold on top of the native core, which does not implement the
abstract provider: see finding 4.

The modules below the cores are independent of each other: the hooks for files, heap, symbols and
locks share no variable in the code. `MCEmulator` and `MCHostLoader` therefore explore them side by
side, a behaviour choosing its `part` at the start, and not their product. What links them to the
cores is the *order of calls*: `GuestLinker` takes `setup_vm_and_adi`'s phases for its own
(`BeginSetup`, `SetupGivesUp`), `HostLinker` those of `load_adi_and_setup`. `UnicornCore` and
`NativeCore` keep only what their properties need of the loaders (an image is relocated or not, a
loader is bound or freed).

### 2.1 AdiTypes, AdiProvider

An **account** is one pair of provisioning directory and identifier. Its directory is a
record: does it exist (`dir`), what is in `adi.pb` (`pb`: `Absent`, `Empty` after a
truncation, or a blob), what is in the routing-info file. A blob is the account and the ADI
session that minted it. The Android id is a *function* of the account, because the code takes
the first eight bytes of the UUID: accounts may share one.

Opening `adi.pb` with `"wb"` and writing it are **two steps**, and a write through a handle whose
file was unlinked in between is lost (`writers`). This is where most of the hard
behaviours come from. `ProviderStep` has one action per step of a C function:
`Acquire`, `MakeDir`, `CallFails`, `OpenBlob`, `OpenBlobFails`, `FlushBlob`, `OtpRequest`,
`ProvisioningStart`, `ProvisioningStartFails`, `ProvisioningEnd`, `ReadBack`,
`ReadBackFails`, `Cancel`.

File operations fail by *kind*, `IoFaults` being a set of kinds: `"make"` (a directory is not made, `MakeDirectory`),
`"open"` (`OpenBlobFails`, `ReadBackFails`, on files that exist too), `"write"` (what is written arrives in
part or not at all: `Arrived`), `"read"` (`fread` brings less than the file has: `Taken`) and `"remove"`
(`RemovePb`, `RemoveDirectory` and the like). The C code looks at the results of `fopen` only, so
that the other four go unnoticed there (`Ignored`); in Swift some throw (section 2.3). `Empty` stands for any bytes that
are no blob: those of a truncated file, of one written in part, and the zeros of a buffer `fread` did
not fill. `HostFileStep` is everything the Swift client may do to the files
meanwhile, `ProviderCrash` the death of the process, which only files survive.

### 2.2 UnicornCore

| Code | Model |
| --- | --- |
| `std::lock_guard lock(g_vm_mutex)` and every `return` | `TakeMutex`; `Return` gives `holder` back |
| `setup_vm_and_adi`: directory test, the two `load_library_to_vm`, `relocate_all_vm_libraries` and `run_library_constructors`, `ADILoadLibraryWithPath` | `Setup`, `LoadLibrary` (twice), `RelocateAndConstruct`, `Boot`; any failure is `SetupFails`, which keeps the images it mapped |
| `mkdir`; the two `if (g_current_... != ...)` | `MakeUuidDir`, `SetPath`, `SetPathFails`, `SetAndroid`, `SetAndroidFails` |
| `get_anisette_headers_uc` | `WriteBlobOpen`, `WriteBlobSkip`, `WriteBlobClose`, `AdiOtpRequest`, `AdiOtpRequestFails` |
| `start_provision_uc` | `AdiStart`, `AdiStartFails`, `ActFails` |
| `end_provision_uc` | `AdiEnd`, `ActFails`, `ReadAdiPb`, `ReadAdiPbFails` |
| `cancel_provision_uc` | `AdiCancel`: no setup, result ignored, whatever a failed setup left in the VM |
| `abort()` in `PageAllocator::alloc` | `AbortOnExhaustion` |

`guest` is what the ADI library itself believes its path and identifier to be. The one-time
password is computed from `guest`, not from the request; `AnsweredForCaller` is therefore a
statement about the caching code. The ADI library is external: it may succeed or fail at any
call, and `PartialSetters` says whether a setter that fails may have taken effect.

`cancel_provision_uc` tests `g_shared_vm` and not `g_libraries_initialized`. `Called` is the function a call has come to,
and for a cancel it is `"destroy"` in every state of the VM: after a setup that failed it may be found in
an image that is not relocated or not constructed. `ImagesReady` says that this is the only such call, and that
no setup has finished and no session is open when it happens. `GuestLinker` says what such an image may lead to.

### 2.3 ProvisioningClient

One action per step between two suspension points or file operations of a task; `at` is
where the task is. `Lookup`, `FetchSpim`, `FetchPtmTk` are the three requests to Apple, each of
which may fail (`HttpFails`) or name routing information. `CallStart`/`Started`,
`CallEnd`/`Ended`, `CallHeaders`/`Got` are calls of the provider and the taking of their
answers; what happens in between is `InProvider`. `KeepRouting` (the cache), `MakeRinfoDir` and `SaveRinfo` are
the end of `runProvisioningFlow`, where errors are dropped (`try?`); `SaveDisk`, `OpenDisk` and `FillDisk` are
`createDirectory` and `Data.write(to:)` without `.atomic`, each of which may throw (`SaveDiskFails`, `OpenDiskFails`,
`FillDiskFails`, after a part of the bytes), as may `Data(contentsOf:)` (`ReadDiskFails`);
`StoredRouting`, or `ReadRinfo` and `CacheSaved`, are `getStoredRoutingInfo`. `BlankRinfo` is an empty
routing info in a caller's headers: it is not cached at the beginning of a call, but kept by the provisioning if Apple names
none, and not read back from the file. The three `Cleanup...` actions are the `removeItem`s of the `cleanup` closure,
each of which may fail unnoticed. `promised` is a history variable: the blob that the last `.disk` call with
a new one returned, and the routing information that was active in the last provisioning that got as far as `endProvision`, from
which adi.pb is on disk, whether or not the call comes to its end.

### 2.4 NativeCore

`load_adi_and_setup` step by step, with the read of each global at the step where the code
reads it: `g_adi` is tested once, `g_ssc` is dereferenced later, and `return g_adi` reads it
again. A loader is `raw`, `loaded`, `linked` or `freed`. Using a null or freed loader is
undefined: the model has no step that does it, and `NoWildUse` says no call is about to. `end_provision_c` reads `adi.pb`
and then unlinks it: `ReadAdiPbFails` is the early return when `fopen` fails, on a file that is there too, which leaves
it; `ReadAdiPb` takes what `fread` brings, without a look at how much it is.

### 2.5 GuestMemory

`PageAllocator::alloc` with its three wrapping additions (`Aligned`, `Fits`, `Wraps`), the heap
hooks (`Malloc`, `Calloc`, `Realloc`, `AllocException`; `free` does nothing), result cells (`AllocCell`), image
placement (`MapImage`), `register_import` and `vm_resolve_symbol` (`RegisterImport`,
`ImportData`). `Word` stands for 2^64. `wrapped` becomes true at the first request whose
arithmetic wraps and a behaviour is followed up to there: after it a block is smaller than its
owner believes and nothing the guest does with it is defined by this code.

### 2.6 GuestLinker

| Code | Model |
| --- | --- |
| `load_library_to_vm` of one file | `LoadImage`: an image is the file it came from; `cell` is where its relocations lead, all `Unbound` |
| `relocate_all_vm_libraries`, `apply_vm_relocations` | `RelocateImage`, one image at a time, all images again on every retry |
| `vm_resolve_symbol` | `Resolution`: own definition, first definer, first definer of the name without the NDK's namespace, else the stub or dummy the name has or gets (`Placeholder`) |
| `run_library_constructors` | `Construct`, one image at a time; guest code runs from here on (`SetUpCode`) |
| `cancel_provision_uc` after a setup that failed | `CancelCode`: guest code runs in what that setup left, if an image defines the function |
| `ADILoadLibraryWithPath` and the early returns of `setup_vm_and_adi` | `Started`, `SetupGivesUp`, which leaves images and bindings in place |
| `abort()` when the region is full | `RegionFull` |
| `get_vm_symbol_address`, from the C functions | `FindByName`; `given` is what a name was last found to be |
| `hook_dlsym`, from guest code | `LookUp`, which makes a stub for a name no image defines; code of an image without relocations reaches no hook (`HooksReached`) |

An address is the *number of the image* it lies in, or one of the marks `CodeStub` and `DataDummy`:
the properties only ask where a pointer leads. Whether an undefined symbol is data is read from the entry of the image that
imports it (`DataEntries`, per file), or from its name (`NamedData`): two files may disagree about one name, and `dlsym` has no
entry to look at. The table of placeholders is by name alone, so that one of them gets what another asked for;
`FirstImporterDecides` says which: that of the first *file* in loading order.

What code of an image without relocations does when a cancel runs it is not followed: it is taken to change none of the VM's
bookkeeping. A file is taken to be the same at every attempt; the code reads it again each time (`core_uc.cpp` 71-77), and
an update of the library directory in between is outside the model. `OneCopyInUse` and `CellsStable` rest on that.

### 2.7 GuestFiles

`kernel` is the process's descriptor table, `appFile` the part of it the rest of the application
uses, `fdMap` is `fd_map`, `guestFile` remembers for which file a number was given out. Each file hook
is one action; `Use` stands for `read`, `write`, `ftruncate` and `fstat`, which have the same control:
a look-up, one call of the host, no `errno`. The host picks *any* free descriptor, and the instance
gives the guest the same numbers as the host, so that a number taken for a descriptor shows.
`guestErrno` is the word at `errno_addr`, `hostErrno` the thread's own. Opening and closing by the
application (`AppOpens`, `AppCloses`) is external. `Lstat` without a buffer copies whatever `errno` was
and returns 0: `ErrnoOfThisCall` excludes that call by its name, and says so.

### 2.8 HostLinker

A file is a record: hash table kind, symbols, which are defined, which its relocations name, code
segments, addresses written to. `WellFormed` is what the ELF format asks of a GNU hash table: chains lie
one after the other, and a bucket is where one begins. `SymCount` is the count the code derives,
`InChain` what its walk over a bucket reaches, `ResolveSymbol` the lambda of `relocate` in its order,
`SealedPages` the rounding of `mprotect`. `Load` includes the first `relocate()` and the entry into the
table; `Link` is the two `add_sibling` and the two `relocate` of `load_adi_and_setup`; `DeleteBoth` is
both destructors. `Loaders` are addresses: a deleted one may come back from the next `new`. The table
is keyed by file, because the code enters a loader under its path and its file name together.
A file that has both hash tables is counted by the first and exported by the second, and is not
a case of its own. A file with neither, whose symbols are counted by a scan (`elf_loader_host.cpp` 617-626), is not
modelled.

### 2.9 HostLocks

`FindOrCreate` is `get_host_rwlock`, one step because `g_rwlock_mutex` is held throughout. A call of
`rdlock`, `wrlock` or `unlock` is then *two* steps: the look-up (`AskLock`, `AskUnlock`), which leaves
the mutex with a pointer in `call`, and the use of that pointer (`TakeRead`, `TakeWrite`, `Release`, or
`LockRefused` when the host returns an error). A thread does not ask for a lock it has: the recursive read locks POSIX allows
are left out, and so is an unlock of a lock the thread does not have.
`Destroy` frees the host lock, and `malloc` may give the same address to another lock. `holds` is what
the guest believes, `readers` and `writer` what the host's lock says. `Unused` is POSIX's rule for
`destroy`, which the code relies on without testing it.

---

## 3. Runs

| Run | Module | Instance | What it shows | Distinct states |
| --- | --- | --- | --- | --- |
| UnicornCore | MCUnicornCore | 2 threads, 2 accounts with different Android ids, 1 session, all four functions, every kind of file fault, crashes, 3 images | mutual exclusion, cache soundness, answers are the caller's, images ready, loaded for good, implements AdiProvider | 250 000 |
| UnicornRetry | MCUnicornCore | 2 threads, 1 account, 5 images, a build without `ADIProvisioningStart`, setters that fail half way, cancels, every kind of file fault, fairness | every call that has the mutex gives it back | 45 000 |
| ClientSerial | MCProvisioningClient | 2 tasks, 2 accounts, 3 calls, 2 sessions, 2 routing infos and an empty one, crashes anywhere, `fopen` that fails; calls of *one* account do not overlap | what was saved stays; the routing information returned is Apple's last, and a blob's own is beside it | 1 603 000 |
| ClientMemory | MCProvisioningClient | 3 memory calls, 2 tasks at once, 2 accounts, 2 sessions, `mkdir`, reads and writes that fail | no file left on disk; own blob, own password; the provider is used as it foresees | 706 000 |
| ClientMixed | MCProvisioningClient | disk and memory calls of one account overlap, 2 calls, directories not made, files not opened, written in part or not removed, fairness | types; every call returns | 329 000 |
| ClientDiskOverlap, ClientDiskThenMemory, ClientDiskCrash | MCProvisioningClient | three smallest ways to lose `adi.pb` | violations, findings 1 to 3 | - |
| NativeSerial | MCNativeCore | one caller at a time, 2 accounts, all four functions, 4 loaders, `mkdir`, `fopen`, `fread`, `fwrite` that fail, crashes | globals whole, no wild use, answers are the caller's, `end_provision_c` leaves no blob | 73 000 |
| NativeShared | MCNativeCore | 2 threads asking for headers of 2 accounts | violation, finding 4 | - |
| Emulator | MCEmulator | memory: 7-bit words, a heap of 5 lines, 3 pages, 2 stubs, sizes 0, 3, 5, 43, 125; linker: 2 libraries, 7 symbols, one of which only the second marks as data, 5 images; files: 3 descriptors, 2 files, 2 errors, 3 opens | no overlap, realloc inside the heap, stubs unique and watched; linked before run, one copy in use, the first importer decides, bindings and cells stable; descriptors and errno right | 311 000 |
| HostLoader | MCHostLoader | linker: 3 and 2 forms of the two files, 3 loaders, 4-byte pages; locks: 3 threads, 2 locks, 3 host locks | no symbol lost, relocations right, table live, code pages never written; locks alive while used, writers exclude | 1 700 |

**Why these bounds.** *Two threads*: each property relates one call to at most one other that
moves shared state under it, and the mutex and the globals have no notion of a third. *Two
accounts with two Android ids* are needed for the cache to be wrong about one of them; the client,
which never looks at the Android id, has accounts that share one. *Three images* are one
failed attempt and what the next one still finds; *five* are two failed attempts and a first
image. *Three calls* are: provision, use, and one that interferes or comes after a crash.
*Sessions* number the provisionings a behaviour can contain. *Routing infos*: one from Apple
and one from a caller, or an older and a newer. *Four loaders* are one failed load and a whole
one, or two failed first halves and a whole one. *Sizes* of the memory instance: 0 (a single
line), 3 and 5 (under and over one line), 43 (too large for what the heap has, and wrapping when
multiplied), 125 (wraps with the slack). *Five images* of the linker are two retries in full and half of a
third, which meets every phase with old images around. *Three host descriptors* are one of the guest, one of
the application and one to be confused with. *Three loaders* are the two of a failed setup, one of which
comes back, and a new one. *Three threads on two locks* are a writer, a reader and one that makes or
destroys. The *file forms* have chains of one and two symbols, one and two buckets, a SysV table, a
reference to the sibling, to an NDK name and to nothing, and code that fills a page, starts inside one, or
shares one with data. Every bound is a constant: `MaxCopies`
is what the VM can hold (the code aborts there too), `MaxCalls`, `MaxLoaders` and `Sessions` only
end behaviours.

**File faults** are in each run those that its properties speak about without assuming them away: ClientSerial has no
failing writes since a failed write of the routing file may lose it silently (the property's last case), ClientMemory
no failing `fopen` and `removeItem`, for which its properties claim nothing.

**Symmetry** of threads and accounts, and of loaders and host locks in HostLoader, is used in safety runs only.
The two runs with liveness have none.

**Restrictions that a property needs**, and why they are stated and not hidden:

- `CacheCoherent`, `AnsweredForCaller`, `ImplementsProvider` of the Unicorn core: `~PartialSetters`.
  If a setter of the ADI library could fail *after* taking effect, the cache would be behind the
  library. The code cannot know; the library's sources are not available.
- `ImagesReady`, `LinkedBeforeRun`: the cancel after a setup that failed, which the code lets through, is in both as the
  exception it is, with what is known of it.
- `MemoryLeavesNoFile`: files can be opened and removed. When the read-back cannot open the `adi.pb` that
  `ADIProvisioningEnd` wrote, `runProvisioningFlow` throws before `defer { cleanup() }` is registered
  and the file stays. The *directory* may stay whenever a call throws between `startProvision`, which makes it, and the
  `defer`: the property lets it, empty. And `~Crashes`: a process that dies runs no `defer`.
- `NewBlobIsOwn`, `PasswordFromOwnBlob`: no disk calls, or calls of one account apart. A disk call
  that read the truncated file writes zero bytes over the blob another call has just minted (finding 2).
  `PasswordFromOwnBlob` also needs files to open: when `fopen` fails the C function goes on with what
  `adi.pb` holds. `NewBlobIsOwn` lets the new blob be zeros where `fread` fails.
- `ServerRoutingReturned`: `~Overlap`, since the cache is one per account; with overlapping calls it fails.
- `DiskStateKept`, `RoutingSurvivesRestart`: disk mode only and `Overlap = FALSE`. With overlapping calls of one
  account they fail; the weaker `DiskStatePersists` fails too, which is finding 2. With crashes or failed writes
  `DiskStateKept` lets `adi.pb` be empty, which is finding 3: it still says that no *other* blob
  replaces the one that was returned.
- `RoutingSurvivesRestart` speaks of every blob on disk, returned or not. Between `ADIProvisioningEnd`, from which the
  blob is on disk, and `SaveRinfo` the routing information is nowhere but in memory. A crash there, or a read-back that cannot
  open the file, leaves a blob without it for good, since an account that has an `adi.pb` is not provisioned again.
  The property names this loss; what it excludes is another account's or an older provisioning's routing information beside the blob,
  and any loss after the blob was returned.
- `EndHandsOver` speaks of calls that succeed; the zeros of a failed `fread` are one of its cases.
- The native core: `Serial = TRUE`, and for `AnsweredForCaller` callers that pass blobs of their own
  accounts (`OwnBlobs`). With two callers at once `NoWildUse` and `GlobalsWhole` fail as
  well as `AnsweredForCaller`.
- Everything in `GuestMemory`: `~wrapped`. `StubsHooked` about the watched range: the names fit it, which
  nothing in the code checks.
- `ErrnoOfThisCall`: `open`, `mkdir` and `lstat` with a buffer. The other hooks never write `errno_addr`.
- `EverySymbolFound`: `WellFormed` files. A GNU table whose buckets are all empty makes the code walk a
  chain that need not exist.
- `CodeSealed`: files that keep code and data on different *host* pages (`KeptApart`).
- `LocksSound`, `WriterExcludes`: the guest destroys only locks that nobody uses (`Unused`).

**Deadlock** is checked in every run but the violations and `HostLoader`, where two threads of the
library may each hold one lock and wait for the other's: the order in which it takes them is its own.

## 4. Fairness

`UnicornCore!FairSpec` and `ProvisioningClient!FairSpec` assume weak fairness of each thread's
own steps: the operating system, or Swift's executor, schedules a runnable thread; code of
the ADI library that is called returns (`uc_emu_start` is called with no time limit, so nothing in
this code enforces it); a request to Apple answers or times out (`URLSession` has a timeout).
Nothing is assumed of the mutex: `std::mutex` is not fair, a thread may lose the race for it again
and again. `MutexReleased` therefore speaks of the thread that *has* the mutex, and `CallReturns`
is checked for finitely many calls, where each competitor eventually has no call left to make.
No fairness is assumed of callers beginning calls, of crashes, or of file changes.

## 5. Refinement

`AdiProvider` is a contract between the two halves of the system, and both sides of it are checked
by TLC and proved.

*The core's side.* `UnicornCore!ImplementsProvider` states that the Unicorn core, with the VM
hidden, behaves like `AdiProvider`: `AbstractPc` maps loading and `mkdir` to the abstract "setup" and
selecting the account to the beginning of "act"; everything else is the same variable. The abstract
`OtpRequest` uses the *request's* account and Android id, the concrete `AdiOtpRequest` uses what
the *library* was told: the refinement holds only because the cache is sound. It is checked in
the run `UnicornCore` and proved as the theorem `Refinement`.

*The client's side.* `AdiProvider` allows its callers to invoke, to collect, and to change the
files between two steps of a call (`HostFileStep`), within what a file system can do.
`ProvisioningClient!UsesProvider` states that the client, with its tasks, cache and promises hidden,
does no more than that: every file operation of `AnisetteClient.swift` is such a change, and every
provider call is invoked once, for a request of the allowed form, and collected once. The handles
that belong to Swift's `Data.write` are hidden (`ProviderHandles`): the provider knows its own. It
is checked in the run `ClientMemory` and proved, for all storage modes and faults, as the theorem `ClientUsesProvider`.

The two are refinements of the same specification by its two sides, not a theorem about the
composed program: no module composes `ProvisioningClient` with `UnicornCore`. What joins them is that
the client contains `AdiProvider`'s own `ProviderStep`, which the core implements, and relies on
nothing else.

## 6. Proofs

No run's safety property is left without a theorem. The theorems hold for every value of the
constants that satisfies the named assumptions of the modules (null values are not real ones; requests
are requests; what the modules call `...Assumption`) and the hypotheses given with each. The types of
`HostLinker`'s files (segments and addresses written to are numbers) are part of `WellFormed`.

### 6.1 AdiProviderProofs and UnicornCoreProofs

`ProviderPromise` is about the abstract provider alone: `ProviderInv` says that states keep their
types, one call is at work and it is the one that has the mutex (`OneAtWork`), what a call answers
fits what was asked (`AnswersFit`), and a handle leads to a file that exists in a directory that
exists (`FilesSane`). It is inductive under `HostFileStep`, whatever the client does. The proofs of the
native core and of the client start from its lemmas.

For every set of threads, accounts and sessions, every set of symbols and every assignment of
exports, with file changes and crashes at any point, of the Unicorn core: `TypeCorrect`,
`MutualExclusion`, `CacheSound`, `AccountSelected`, `AnswersAreCallers`, `ImagesAreReady`,
`ImagesKept`, and `Refinement`.

None of the properties is inductive alone. That an answer is the caller's follows from what the
library believes at the moment of the OTP request (`SelectedAtUse`, stated by `AccountSelected`); this
from the cache (`CacheCoherent`) and the cache being the caller's from `SetPath` on (`CacheIsCallers`);
this from no other call moving it meanwhile (`MutexHeld`); and this, for the cached values, from calls
that cancel never being where the others set up (`CallShape`). Their conjunction is `IndInv`. It was
checked by TLC on the instance of the run `UnicornCore` before it was proved, with one lemma per
conjunct, each with one step per action of `CoreStep`. The fact used most is that two threads in
`Locked` are the same thread.

`ImagesReady` needs a second invariant, `ReadyInv`: once a setup has succeeded, and from the end of
`RelocateAndConstruct` on, *every* image in the VM is relocated and constructed, and nobody is loading.
It is proved with `IndInv` at its side, because only the holder of the mutex may move the images. For the cancel a third one,
`UsedInv`: in a VM no setup has finished there is no session, since only calls that went through a setup open one.
`ImagesKept` is the action property `LoadedForGood`: after success nobody is where loading happens.

`Refinement` maps each action to a step of the provider or to a stutter. Loading, `SetPath` and
`SetAndroid` are stutters; the one step that needs the invariant is `AdiOtpRequest`, where the
library's account and identifier have to be the request's.

### 6.2 GuestMemoryProofs

For every word size, every layout whose regions follow each other, every alignment, every set of
sizes and every order of requests: `HandedOutHolds`, `BlocksNeverOverlap`,
`ReallocNeverLeavesHeap`, up to the first wrap. Blocks being apart is not inductive: a new block is
apart from the old ones because they all lie *below the offset*. `IInv` is therefore types,
`HandedOut` (apart and below the offset, for both allocators) and `ReallocInHeap`. The lemmas
`AlignedRoom`, `GrantedRoom` and `OffsetBound` say what one grant does arithmetically, `Appended` what
it does to a set of blocks. That `realloc`, which copies `new_size` bytes from a block it does
not know the size of, never reads past the heap follows because the new block always lies
*behind* the old one and is large enough.

`StubsAreHooked` needs to count: `StubsCounted` says that `next_import_address` is the base plus one stub
for each name that *has* a stub, and that stubs lie below it. Names are finitely many, so the stubs
cannot outgrow the region if the names fit it. `BindingsStay` is the action property: both ways into the
table look the name up first.

### 6.3 GuestLoaderProofs: linking

For any list of files, any symbols defined and imported, any number of retries: `LinkingComesFirst`,
`OneCopyIsUsed`, `PlaceholderOfFirst`, `CellsStayPut`. The difficulty is that images are *appended* between
two relocations, and that resolving a symbol depends on all of them. The key of `LinkInv` is that a
bound cell implies that every file has been loaded once (`AllLoaded`), and that from then on loading a file
again changes neither which symbols are defined nor their first definer (`LoadedAgain`). So a bound
cell always equals what resolving it again would give (`CellsRight`): relocating twice moves nothing, and
first definers are foremost images. That `dlsym` never decides the kind of a placeholder some image imports follows because
guest code that reaches a hook runs only when all files have been relocated once (`StubsRight`); for the code a cancel
runs after a failed setup this is the least obvious part: an image of which one relocation is done has all of them done, and so have those
it leads to, since `relocate_all_vm_libraries` cannot fail half way.

### 6.4 GuestLoaderProofs: files

`FilesInv` is the conjunction of types and the three properties, which together are inductive:
`DescriptorsAreRight` needs that a free descriptor is in nobody's table, which is `DescriptorsMatch` itself,
and `close` needs that no second number leads to the same descriptor. For any set of descriptors, files and
errors.

### 6.5 HostLoaderProofs: linking

`SymbolsFound` is about arithmetic on any well-formed hash table: the chain of the *last* bucket ends at the last
symbol (`LastBucket`, `CountExact`), and every symbol lies in the chain of the greatest bucket at or below it
(`ChainsCover`), so that the exports are exactly the names defined (`ExportsExact`). `LinkingIsRight` then follows
for the second pass (`ResolvesRight`), with an invariant (`HostInv`) that says which loaders exist in which
stage and that they were filled in from a well-formed file. `TableIsLive` is the part of it that says the table names
exactly what the globals name. `CodeIsSealed` is arithmetic with two quotients: `SealedPages` rounds a segment's
beginning down and its end up to pages, every address of the segment is on one of them, and none of them
is the page of an address that `KeptApart` keeps away; for every page size.

### 6.6 HostLoaderProofs: locks

`LocksInv`: a pointer taken from the table stays the table's entry (`PointerStaysGood`), entries are
allocated and not shared (`TableSound`), what guests believe to hold is held in the host's lock
(`HoldsAgree`). Each step changes the readers and writer of one host lock, which by `TableSound` is the lock of
one guest lock only. `Destroy` is where the assumption `Unused` is needed, and nowhere else.

### 6.7 NativeCoreProofs

`NativeTypeCorrect` holds for any callers. The rest assumes that callers wait for each other (`Serial`);
finding 4 is what happens otherwise. With one call at a time (`OneCall`) the globals are a function of
where that call is: `Stage` says, for each place of `load_adi_and_setup`, which of the two is set, in
what state the loader is, and when the two name each other. `LibrariesInv` adds that loaders not named
by a global are deleted or were never made, which is what a failure has to restore, and gives
`NoLoaderMisused` and `FailuresTakenBack`. `SelectedInv` says that from `SetAndroid` on the library
has been told the caller's account, and `BlobWhere` where the blob of the call is at each of its
steps; with both, `NativeAnswersAreCallers` and `BlobHandedOver`, which speaks of calls that answer with a blob: one that cannot open
`adi.pb` again answers with an error and leaves the file. `OwnBlobs` is needed since the
core writes whatever it is given. Files are *not* changed by anybody else in `NativeCore`'s
specification while a call runs.

### 6.8 ProvisioningClientProofs

`ClientInv` is types, `ProviderInv` of the provider inside, and `ShapeOf`: what a task has at each place
`at` (its request while it waits, a session while it provisions, `NoWork` before it begins). It holds
without any hypothesis, and gives `ClientTypeCorrect`: an answer is always one the code that takes it expects.
The other invariants are stated with `ClientInv` at their side, and each comes as three lemmas: the step of the task
itself, a step of its provider call, and a step of *another* task. What the last may change is said once:
`TaskFrame` and `ProviderFrame` (a step touches the directory, cache entry, promise and handles of its own
account only) for accounts that differ, `RivalStep` for overlapping memory calls of one account.

- `RoutingReturned` (`~Overlap`): what is in the cache and the file is the task's `active`
  from `KeepRouting` on (`RoutingOf`).
- `NewBlobReturned`, `PasswordFromOwn` (no disk mode, or `~Overlap`): `MintedOf` follows the blob from `ADIProvisioningEnd` to
  the read-back, `WrittenOf` from `fwrite` to the OTP request. In memory mode another call may come between: it may *remove*
  the file, since a cleanup needs no lock, but not write it, since writing happens inside the provider's
  mutex; and a file that is not there makes the call fail and not take another blob. In disk mode the
  client itself writes the file (`FillDisk`), outside the mutex: hence the hypothesis.
- `MemoryTidy` (its conditions are in the property): whenever a file is there, some task is at a place from which it *will* be
  removed (`WillRemovePb`, `WillRemoveRinfo`). No step that leaves such a place keeps the file, and no step that makes a
  file is outside one. That a task *reaches* its cleanup is liveness (`CallReturns`); that all being over
  implies no file being left is not. Nothing of the kind holds of the directory.
- `DiskKeepsBlob`, `RoutingKept` (disk mode only, `~Overlap`, any faults and crashes): `DiskInv` says what a call knows of
  `adi.pb` (`PbKnown`) and of the routing file (`RinfoKnown`) at each of its places, that a call for an account
  with a promise never provisions (`Served`), and of each account (`AccountKept`) that a routing file is never without an
  `adi.pb`, what the cache may hold (`CacheKnown`), and that the routing information beside a blob is its own
  unless a call is between `ADIProvisioningEnd` and `SaveRinfo` (`RinfoKept`). A crash may come anywhere: at
  those places it leaves a blob without routing information, elsewhere `Empty` at worst.
- `ClientUsesProvider` (no hypothesis): `UseInv` says that a handle belongs to a task that is filling a file or whose
  provider call is, and that whatever a directory or a task holds is a blob of its own account or empty.

Each invariant was checked by TLC on the instances of the client's runs before it was proved.

### 6.9 Model-checked only

Liveness: `MutexReleased` and `CallReturns` are outside the prover's reach. What `DiskStatePersists` says is false
(findings 1 to 3), and so is `AnsweredForCaller` of the native core without `Serial` (finding 4).

---

## 7. Findings

1. **A `.memory` call destroys `.disk` state** (run `ClientDiskThenMemory`). Both modes use
   `<provisioningDir>/<uuid>`; the cleanup of memory mode removes `adi.pb`, the routing information and
   the directory. The README promises that the directory is where *persistent* state is saved.
2. **Overlapping `.disk` calls can leave an empty `adi.pb`** (`ClientDiskOverlap`). One call reads the
   file at the moment the other's provider call has truncated it, takes zero bytes for a blob, and its
   own provider call writes them back. Every call has returned, one with `newBlob`.
3. **A crash can do so too** (`ClientDiskCrash`): every `getAnisetteHeaders` rewrites the only copy of
   `adi.pb` in place. Later calls find a file, take it for a blob, and fail; they never provision again.
4. **The native core answers one caller with another's identifier** (`NativeShared`). The provider
   protocol is `Sendable`, the native core has no lock.

Not findings, since no document says otherwise, but worth knowing:

- A failed load keeps its images in the VM and the next attempt runs every constructor again. `UnicornCore` shows that the
  functions that are called are nevertheless in images that are ready, and `GuestLinker` that they are linked, with one
  exception: `cancel_provision_uc` after a failed setup (`anisette_core_uc.cpp` 402-407) runs `ADIProvisioningDestroy` in
  whatever the failed setup left. Testing `g_libraries_initialized` there would close it. Enough failures abort the process.
- Two files that disagree on whether an undefined symbol is data get one placeholder, of the kind the first asks for.
- A process that dies between `ADIProvisioningEnd` and the saving of the routing information leaves a blob that is used without
  it from then on.
- `end_provision_c` unlinks `adi.pb` whether or not `fread` brought all of it.
- A provisioning that throws leaves the account's directory, and sometimes `adi.pb`, behind in memory mode too.

---

## 8. Plan

| Order | Module | What it models | Properties | Proof |
| --- | --- | --- | --- | --- |
| done | AdiTypes, AdiProvider, UnicornCore | the Unicorn core and its abstract specification | section 3 | sections 5 and 6.1 |
| done | ProvisioningClient | the Swift client | section 3 | sections 5 and 6.8 |
| done | NativeCore | the macOS core | section 3 | section 6.7 |
| done | GuestMemory | allocators, import table | section 3 | section 6.2 |
| done | GuestLinker | relocation and look-up in the emulator, over retries | section 3 | section 6.3 |
| done | GuestFiles | descriptors and errno of the guest | section 3 | section 6.4 |
| done | HostLinker | symbols, relocation and table of the native loader | section 3 | section 6.5 |
| done | HostLocks | reader-writer locks of the native loader | section 3 | section 6.6 |
| open | Relocation | the arithmetic of RELA and REL tables, applied once and twice | relocating twice equals once (RELA) and does not (REL) | idempotence of RELA |

A further theorem: of `NativeCore`, that under `Serial` it is a provider too, apart from `end_provision_c`'s
removal of `adi.pb`, which `AdiProvider` knows only as a change of files by others.

## 9. What is not modelled

- **The ADI libraries**: external; modelled by what the code does with their results. That
  `adi.pb` is written by `ADIProvisioningEnd` in the directory it was told is taken from
  `end_provision_uc` and `end_provision_c`, which read it there.
- **Apple's servers**: each answer names routing information or not, or the request fails.
- **Text**: JSON, plist, base64, header names, UUID strings.
- **The guest's other hooks** (strings, time, properties, guards, `pthread_mutex`): they copy bytes or give
  constant answers, and keep no state the code reads back.
- **The ELF format**: headers, dynamic tables and the arithmetic of each relocation type. The models
  say which symbol a relocation is bound to, not the bits that are stored.
- **Threads started by the library** through the host loader's `pthread_create`, except where they use locks.
- **Headers and DTO, logging**: copying of fields; two flags that decide what is printed. They have no
  order of steps that another component could see.
- **Construction of a client** and the search for the library directory: runs before any call.
- **Memory limits of the host**: `malloc` and `std::vector` failures, apart from the `abort` of the
  allocators and the impossible sizes of `calloc` and `realloc`.
- **Data races as such**: in the native core each read and write of a global is a step of its own and
  takes a value some thread wrote; torn pointers are not considered.
