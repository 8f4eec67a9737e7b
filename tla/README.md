# TLA+ models of sblim-sfcb

This directory holds TLA+ models of parts of the Small Footprint CIM Broker
(`src/`). Each model is checked with TLC. The models follow the C source
line by line in their control flow. Data is abstracted to small sets: a
string is a short sequence of byte codes, and a class is a name with a set
of property names.

## The system and its parts

| Part | Source | Role |
|---|---|---|
| String Table (`ClStrBuf`) | `objectImpl.c` 137-290, 507-634 | A byte arena plus an index, one per object. Every string, dateTime, reference and embedded object of an instance, class or argument list lives here. A value in a property is an index id. |
| Array Table (`ClArrayBuf`) | `objectImpl.c` 300-427, 646-743 | An arena of `CMPIData` cells plus an index, for array values. Each array is a header cell followed by its elements. |
| Object sections | `objectImpl.c` 1440-2965 | Properties, qualifiers, methods and parameters of classes, instances and argument lists. `addObjectPropertyH` adds or replaces a property's value. |
| Flatten / relocate | `objectImpl.c` 463-743, 1080-1104, 1216-1355, 1521-1555, 1854-1907, 2256-2294, 2525-2561, 2730-2766, 2898-2950 | Rebuilds an object into one block and turns its pointers into offsets and back. The size functions compute the block, and the rebuild and copy functions fill it, one Section or table after another (relocate). |
| Class register | `classProviderSf.c` 60-860 | One per namespace, loaded from `classSchemas`. There are two LRU caches. The C cache holds classes as stored. The R cache holds classes resolved with their ancestors (`getResolvedClass`/`mergeParents`). |
| Class store loader | `classProviderSf.c` 336-458, 459-543 | `newClassRegister` reads `classSchemas` record by record: a version record first (byte order, id `sfcb-rep`, object implementation level, the reduced flag), then class records, each indexed by name at its file position. A store it rejects makes its namespace absent from `nsHt`. |
| Class provider requests | `classProviderSf.c` 1017-1600 | GetClass, EnumClasses and EnumClassNames, CreateClass, SetClass and DeleteClass (not supported), plus the InvokeMethod methods (getchildren, getallchildren, getassocs, ischild, listnamespaces, _startup). Each request runs under the register's write lock. |
| HTTP adapter | `httpAdapter.c` | Forks a request processor per connection, which reads requests off the connection in a keep-alive loop (`getHdrs`, `doHttpRequest`, `getPayload`). A pool of System V semaphores limits the workers: `work`, a count of free places (`proc 0`), and one slot per place. `running` counts the live children. SIGCHLD reaps children, and SIGUSR1 starts `stopProc`, which waits for `running` to reach 0. |
| CIM-XML generation | `cimXmlGen.c` 88-157, 249-291, 531-637, 753-877, 1090-1209 | Renders objects as CIM-XML for the responses: `instance2xml`, `args2xml` and `keyBinding2xml` emit an element per property, argument or key (`data2xml`), whose `<VALUE>` text `value2xml` writes. `XMLEscape` escapes the markup bytes of a string, except a CDATA section, which it copies as it is. |
| Local client | `cimcClientSfcbLocal.c` 175-212, 270-382, 1222-1575, 1832-2171 | A client library a program loads into its own process. `_Create_SfcbLocal_Env` makes a client environment, `CMPIConnect2` a client in it. The process holds one connection to the broker (`sfcbSockets.send`), opened by the first `localConnect`, counted by `localConnectCount` under `lcc_mutex`, and closed by the environment `release` that takes the count to 0. Each request asks the broker's provider manager for a provider context over that connection. `invokeMethod` first gets the class and converts string arguments to the types its method declares (`convertFromStringArguments`). |

The parts interact as follows:
- The class provider reads classes from the register.
- The register resolves each class by merging the stored class with its ancestors (`cpyClass`). It does this through the object layer, which writes every member into the String Table of the new class.
- The HTTP adapter and the local client deliver requests to the providers.
- The CIM-XML renderer reads an object's values through the object layer's getters (`ClInstanceGetPropertyAt`, `ClArgsGetArgAt`, the key getter) and writes them as XML text.

## Modules

- **`ClStrBuf`** is a library of operators, with no variables.
  - `AddClStringN`, `GetBufIndexLen`, `Entry` (`ClObjectGetClString`), `Compact` (the loop both `replaceClStringN` and `removeClObject` run), `ReplaceClStringN` and `RemoveClObject`.
  - A table is the pair `[buf, index]`. The growth by doubling, and the copy out of a borrowed arena, preserve content, so they are left out.
- **`ClObjectProperty`** models the property section and the String Table of one object of kind `kind`: an Instance, an ArgumentList, an ObjectPath, a Class or a qualifier declaration (`ClQualifierDeclaration`, which has no property section).
  - `CtorStrings` are the strings the constructor adds first: namespace and class name, or, for a class, the class name and parent, or, for a qualifier declaration, its name and the namespace (`newQualifierDeclaration`).
  - Each step is a whole call of `addObjectPropertyH` (`AddObjectPropertyH`): the add path and every replace branch except arrays, in the code's order, with the type checks and the raw-pointer cases. The other steps are `ClInstanceAddPropertyQualifierSpecial` and `GetPropertyAt`, the index readers (`ClArgsGetArgAt`, `ClInstanceGetPropertyAt`, `ClObjectPathGetKeyAt`, `ClClassGetPropertyAt`) given a 0-based id from `GetIds`. A read changes nothing but `rc` (1 for an id outside `0 .. used`).
  - `expect` records the value a caller last set successfully. `rc` is the last return code. `oob` records an access outside an array: a write to an index slot before the String Table's index, or a read of the entry at `id = used`, one past the Section, which the readers' test `id > used` lets through.
- **`ClassService`** is the abstract specification of the class provider. A request is answered from the store alone, with every class fully resolved and keeping its own Abstract qualifier. A store that is not well formed (`Accepted`: the version record first, native, `sfcb-rep`, the supported level; then whole class records) makes every request answer INVALID_NAMESPACE, except the schema-changing ones, which are never supported.
- **`ClassRegister`** models the register's two caches, the three read requests and the InvokeMethod helpers (`repCandidate`, `loopOnChildChars`, `traverseChildren`).
  - Its state: the C and R lists, their slots and counts, a heap of class objects with a live set, and `reduced` (whether the store holds classes with only their own members).
  - `GetClass`, `GetResolvedClass`, `MergeParents`, `CpyClass`, `PruneCCache`/`PruneRCache` and the three `Provider*` requests follow the C functions.
  - The loader: `LoadRecord` is one pass of the `newClassRegister` loop over the store (`store`, a sequence of records); `Rejected` gathers its five rejections, `IndexEntry` the index entry of a class record, and `LoadDone` the end of file with `BuildInheritanceTable`. `ld` holds the loop's state (`at`, `pos`, the version record read, the index `ld.index`, the inheritance table `ld.it`) and its outcome (`phase`: load, done or absent).
  - `Serve` is one request under the write lock, so each request is one atomic step. It is enabled once the store is loaded; `ServeAbsent` answers for a rejected store. `ProviderModifyClass` is `notSupSt`, returned before any namespace lookup. `ListNamespaces` reads `nsHt` (`NsTable`: the namespace once its register was put there by `gatherNameSpaces`).
  - A freed object keeps its bytes: `Read` returns them (one outcome of the undefined behaviour), and `HandOut` records a "use after free" fault when a cache hit hands out an object that is no longer allocated.
- The module instantiates `ClassService` and checks `ServiceRefinement == Svc!Spec`. The refinement mapping is identity on `reply` and `store`: the loader's steps are stuttering steps of the service. The refinement fails on this code, so only the `merged_class_qualifiers` violation run checks it.
- **`ClArrayBuf`** is a library of operators for the Array Table.
  - `AddClArray` covers the first allocation (16 cells, doubled past the need), the growth and the append.
  - Growth (`GrowArrayBuf`) differs by ownership. An owned arena is `realloc`ed, and it may or may not move (`mv`). A borrowed arena (one inside a flattened object) is `malloc`ed anew, and `memcpy` copies `bMax + sizeof(ClArrayBuf)` bytes: `KeptCells` is that byte count over `sizeof(CMPIData)`.
  - `ReplaceClArray` compacts every other array to the front, then adds the new one. It then decrements `iUsed` and writes the index through `fb`, a pointer taken before the add. When the arena moved, the decrement is lost.
  - `FlattenArrayBuf` is the table as `copyArrayBuf` leaves it: borrowed, with `bMax = bUsed`.
- **`ClObjectProperty`** also keeps the Array Table of the object (`arr`).
  - Array values are added through `AddClArray`, and replaced through `ReplaceClArray`, or through `AddClArray` when the old value is null (the code tests the stored value for 0).
  - `Flatten` is `rebuildInstanceH`: afterwards the String and Array Tables are borrowed.
- **`ClObjectLayout`** is a library of the flatten pipeline.
  - Each `size*` function is translated from the C, with `ALIGN` and the struct sizes as constants.
  - Each `copy*`/`rebuild*H` function becomes the length it reports and the sequence of `memcpy` regions `[at, n]` it writes, relative to the block.
  - An object is abstracted to its `Shape`: the kind, the qualifier count of the object and of each property, each method's qualifier count and the qualifier counts of its parameters, and the used counts of its String and Array Tables.
  - The struct sizes come from `objectImpl.h`, which is not in this tree. `MCClObject` gives LP64 values: headers of 80/48/48/96/72 bytes (Instance/Args/ObjectPath/Class/qualifier declaration; the last is an estimate of `ClQualifierDeclaration`: the header, two `ClString`s, 8 bytes of flavor, scope, type and arraySize, and a `ClSection`), `ClProperty` 48, `ClQualifier` 24, `ClMethod` 48, `ClParameter` 40, `ClStrBuf` 32, `ClArrayBuf` 40, `CLALIGN` 8 and `CLEXTRA` 4 (the build with the `%%%%` guard).
- **`ClObject`** composes `ClObjectProperty` with the class and path operations. `kind` is chosen in `ObjInit` from `Kinds`.
  - The class steps are `ClClassAddQualifierSpecial` (an Abstract-like name sets a bit of `cbits` and is not stored), `ClClassAddPropertyQualifierSpecial` (a Key-like name sets a bit of the property), `ClClassAddMethod`, `ClClassAddMethodQualifier`, `ClClassAddMethParameter` and `ClClassAddMethParamQualifier`. Each adds its strings to the String Table in the code's order (`addClQualifier`, `makeClParameter`).
  - `ClQualifierAddQualifier` adds a qualifier to a qualifier declaration's `qualifierData`, which `cquals` holds for that kind. It is a plain `addClQualifier` with no special names.
  - `ObjAddProperty` is `addObjectPropertyH` on any kind but a qualifier declaration. A reference class name is given only on a class (`ClClassAddProperty`).
  - The ObjectPath steps are the three setters: replace if set, add if not NULL, or leave the field NULL.
  - `Flatten` is the kind's `Cl*Rebuild` followed by relocation. `block` records the rebuild that `ClObjectLayout` computes, and the Array Table becomes borrowed.
  - `held` is a ghost map from each String Table id the object stores to the string stored under it.
  - `given` is a ghost map from each element (the class, a property, a method, a parameter) to the qualifier names given to it. `SpecialBits` is the set of bits a Key-like, EmbeddedObject-like or EmbeddedInstance-like name sets: EmbeddedInstance sets EmbeddedObject too.
- **`CimXmlGen`** is a library of operators, with no variables.
  - `XMLEscape` is the loop of the C function (`EscapeFrom`, RECURSIVE): at a `<` it runs the CDATA test (`CdataSkip`: the next byte `!`, more than 11 bytes left, the `<![CDATA[` prefix, `strstr` for `]]>`) and copies the section; otherwise it replaces the five special bytes (`Entity`) and copies the rest.
  - `value2xml` is the character data of one value: the escaped string, the decimal digits of a uint32 (`Decimal`, the `%llu` of `sprintf`), or `**[]**` for an array. `data2xml` is the element of an entry: its tag, TYPE, and the text of each `<VALUE>` (none for a null value; one per element of an array). `instance2xml`, `args2xml` and `keyBinding2xml` choose the element for each kind; a KEYVALUE is written whatever the key's null state.
  - Tags, attribute names and layout are fields of a record; only the `<VALUE>` text is kept byte for byte, since escaping is where rendering can lose a value.
  - The client side is an XML reader (`ReadText`: entities, CDATA sections, a bare `<` or `&` or a stray `]]>` is malformed) and `ParseDecimal`. `Intended` says what a string should read back as: itself, with the content of each CDATA section in place of the section, since `XMLEscape` passes sections through as markup on purpose.
  - `cls2xml` is the qualifier elements of a class: `quals2xml` writes one element per set bit, in the code's order, and leaves out EmbeddedObject when EmbeddedInstance is set; then come the Section's qualifiers, for the class, each property, each method (`method2xml`) and each parameter (`param2xml`). Property values, types and references of a class are not rendered.
  - `ClObject` instantiates it (`XG`) and renders every entry of the object it builds (`XmlValuesReadBack`) and the qualifiers of a class (`ClassXml`, with `Label` naming a stored qualifier as a client does).
- **`HttpProcPool`** models the process pool of the HTTP adapter.
  - The parent loops through `Select`, `AcquireWork`, `AcquireProc`, `Scan`, `Fork` (or `ForkFails`) and `CountChild` (`running++`).
  - Each child goes through `ReleasePlace`, `TakePlace`, `MarkSlot` and `ReleaseWork`. It then serves requests in the keep-alive loop, and exits with its SEM_UNDO adjustments undone (`ExitUndo`). It may also `Crash` at any point while it is alive.
  - The connection's bytes are tokens: a request is a header token carrying its Content-Length `n`, then `n` payload tokens (`Request`). `ClientSend` appends a request to `wire[c]` at any time (pipelining), `ClientClose` shuts the client's side.
  - `GetHdrs` is one `commRead` of up to `HdrBufsize` tokens that contains the header; what it read past the header is counted in `over`. `IdleEnd` is the keep-alive wait or `getHdrs` timing out (or EOF) on an empty wire. `ReadBody` is the rest of `doHttpRequest`: `HeaderRejected` (a bad request line or header line, a missing Content-Length), `getPayload`'s "Content-Length is lying" check (`PayloadFits`), the read of the rest (`Need`, `PayloadArrived`) or its timeout, and `KeepAlive` (`numRequest` against `keepaliveMaxRequest`, `keepaliveTimeout` 0). Authentication is abstracted: its outcome leaves the stream alike (the payload of a refused request is read too).
  - The module instantiates the abstract **`ProcPool`** with a refinement mapping: `busy` is the set of connections whose processor is alive, `served` those that were given one, `accepting` is `~exited`, `Capacity` is `HMax`. `ProcPool` says: a processor is started only for a new connection, while fewer than `Capacity` are alive, and only while the adapter runs; processors end at any time; the adapter may stop at any time.
  - The asynchronous steps are `SigChld` (reap and `running--`), `SigUsr1` and `StopProc`.
  - `ipc` records whether the semaphore set still exists: `remProcCtl` removes it when the daemon loop breaks.
- **`LocalClient`** models the local client's environments and clients and the shared connection.
  - Its state: `env` (unborn, live, released), `client` (the environment of each client and whether it is live), `localConnectCount`, `sendOpen` (`sfcbSockets.send` is not -1), the static `socketName`, and the status of each client's last request.
  - Every change of the count and the connection is under `lcc_mutex`, so `CMPIConnect2` (with `localConnect`) and `release` are single steps. `localConnect` takes the outcome of its system calls as an input (`ConnectSteps`): the socket, the config lookup of `localSocketPath` (once, since `socketName` is static), `connect`, and the receipt of the broker's fd. A failure returns below 0 with the count unchanged, and `CMPIConnect2` then returns NULL.
  - `releaseClient` frees the client and leaves the count alone. `release` lowers the count by one if it is positive and closes the connection at 0.
  - `Request` is the shape every CMPI operation shares (`enumInstanceNames` and the rest): `getProviderContext` over the connection, then the provider call or `ctxErrResponse`. On a closed connection the send fails.
- **`LocalInvoke`** models the local client's `invokeMethod` as one step from a call (`call`) to its outcome (`out`: crash, an error status, or the arguments sent).
  - A call holds the class `getClass` returns (a method-to-parameter-types function, or `NoClass` with the broker's status), the method name, the arguments (name, CMPI type code, value), whether the caller passed an `rc`, the `validateMethodParamTypes` setting (`vmpt`) and the broker's answer to `getProviderContext`.
  - `convertFromStringArguments` is a fold of `ArgStep` over the arguments. `ArgStep` follows the loop's branches in order: an unknown parameter or a null type, equal types, the `CMPI_ref` bit test with its array cases, a non-string type, then the conversion. A `goto error2` sets `err`, and the function then returns `argsin`, the caller's arguments.
  - Types are the CMPI codes, tested with the code's bit operations (`Bitwise`), so `CMPI_chars`, which has every bit of `CMPI_ref`, takes the reference branch as it does in C.
  - `convertFromStringValue` is a RECURSIVE operator over the element types: `Strtoul` (blanks, sign, base prefix, longest digit run, end pointer, reduced modulo 2^8 or 2^16 by the cast), `strcasecmp` for booleans, and the array loop `ConvertElems`. Only uint8, uint16 and boolean targets are modelled, since TLC integers are 32-bit.
  - `SFCB_DEBUG` is a constant: without it the conversion statement and its `CMAddArg` are compiled out (`_SFCB_TRACE_VAR`), and `ArgStep` adds nothing.
  - `InvokedAsDeclared` is checked against `Denotes`, an independent reference for what a text means for a type: a decimal, 0x-hex or 0-octal numeral in range, or true/false.
- **`MCClObject`**, **`MCClassRegister`**, **`MCHttpProcPool`**, **`MCLocalClient`** and **`MCLocalInvoke`** hold the constants TLC uses.

## Runs

| Run | Expect | What it shows |
|---|---|---|
| `objects` | pass | Each kind of object gets up to 5 calls (4 on a Class or an ObjectPath, 3 on a qualifier declaration) in any order, with a flatten allowed between them. The calls cover three properties (chars of different lengths, CMPIString, uint32, arrays, null), qualifiers, methods, parameters and path fields. Each property reads back its last value (`PropertyValuesResolve`). Each index slot holds a distinct offset (`DistinctEntryOffsets`). Each name, reference class and qualifier value the object stores resolves to the string stored with it (`StringIdsResolve`). Each rebuild fills its block exactly, with no overlapping or out-of-bounds copy (`RebuildExact`). A client parsing the CIM-XML of an Instance, ArgumentList or ObjectPath reads back every value and null the getters return, strings holding `<`, `&`, `>` and a CDATA section included (`XmlValuesReadBack`). The CIM-XML of a Class shows each qualifier given to the class, a property, a method or a parameter exactly once, whether the code kept it as a bit or as a Section entry (`ClassXmlQualifiers`). |
| `class_cache` | pass | A three-class chain, with cache sizes 2 and up to 4 requests, loaded from every store the loader meets (`MCAllStores`): a full or a reduced store, five malformed stores it rejects, and three it accepts though they are malformed (no version record, empty, last header cut short). One more reduced store holds B as an `HDR_Class` record (`MCHdrStores`): which records are `HDR_Class` is part of the store, as in the file. The caches stay exactly the 2 most recently used classes (`CachesAreLRU`), and the R cache holds only fully merged classes (`RCacheHoldsResolved`). The properties that fail on these inputs are checked by the violation runs below. |
| `embedded_replace` | violation | Replacing an embedded instance in an Instance leaves the caller's pointer in place of the id. In an ArgumentList the replace calls `removeClObject`, which drops the last index slot, so another argument's value id resolves to the new instance. TLC reports the shorter Instance trace; with `Kinds <- MCArgsKind` it reports the ArgumentList one. With `Kinds <- MCKind` and `InputData <- MCTwoArraysInputData` the same property catches a third bug (`objectImpl.c:363`): after an object is flattened, adding an array that grows the borrowed Array Table copies only `bMax` bytes, not `bMax` cells, and an earlier array property then reads uninitialised cells. |
| `key_chars_replace` | violation | `ReplaceContract` is spec 4.3's rule for a replace: a value with the stored type tag is stored, any other tag fails and leaves the old value. On a Class, a chars property given Key then set again with chars is refused, because `quals && ClProperty_Q_EmbeddedObject` (`objectImpl.c:1644`) is a logical AND. The same property also catches a uint32 property set with chars (`:1775`, stored as a raw pointer) and chars refused after a CMPIString (`:1682`), when `InputData` lets a name take those values. |
| `null_string_replace` | violation | Setting a null chars property to a CMPIString calls `replaceClString(hdr, 0, ...)`, which writes `indexPtr[-1]`. The cfg reads only at id -1 (`MCGetIdsBelow`). With `GetIds <- MCGetIds`, TLC reports a 3-state trace instead: one add, then `ClArgsGetArgAt` at id 1 = used reads one entry past the Section (`objectImpl.c:2811`). The self-test at line 3238 probes only id 2. |
| `merged_class_qualifiers` | violation | A resolved class differs from the class the uncached service returns (`ServiceRefinement`). It loses its Abstract qualifier, because `orig_abst` is read from the fresh class (line 763). It also loses its ancestors' parameter qualifiers, because their count is read from the new parameter (line 672). With `Stores` holding the store whose last header is cut short, the refinement fails in 7 states (the loop at line 344 ends as at end of file and the class goes missing); with the version-less store, in 6 states (the first class record is skipped at line 400, and GetClass A answers not found). |
| `partial_merge_cached` | violation | A class whose superclass is missing is cached half merged: the status at line 765 is ignored. |
| `repcandidate_missing_super` | violation | getallchildren reaches a class whose ancestor is missing from the store. `repCandidate` walks its ancestor chain and dereferences the NULL that `getClass` returns (`CachedObjectsLive`, 7 states). The same property, under cfg variants, catches three more bugs: with `Stores <- MCHdrStores` (a reduced store whose B record is an `HDR_Class` one) and `Parent <- MCParent`, GetClass B then EnumClasses deep releases the `HDR_Class` object the C cache holds, and the next hit hands it out (8 states, `classProviderSf.c:746`); with `CSize = 0`, the prune dequeues from an empty list (8 states); with `Stores <- MCLaxStores`, the empty store leaves `cr->vr` NULL (3 states, `:726`). |
| `http_pool` | pass | Two places, three connections and keep-alive 2, with crashes and SIGUSR1 at any point. A slot's semaphore equals the number of children holding that slot, and never exceeds 1 (`DistinctSlots`). The parent's scan always finds a free slot (`NeverOutOfSlots`). A processor always starts reading a request at a request boundary, with one client pipelining two requests read in chunks of any size (`RequestsInSync`). Once SIGUSR1 has arrived, the adapter eventually exits (`DrainTerminates`). Every processor eventually exits (`ProcessorsEnd`). The adapter implements `ProcPool` (`PoolRefinement`). |
| `uncounted_child` | violation | The model of `http_pool`, checked against `DrainedAtStop`: when stopProc exits the adapter, no request processor is alive. The parent forks a child, SIGUSR1 arrives before `running++` (`httpAdapter.c:1504`), and stopProc, a thread reading `running` concurrently, sees 0 and exits while the child is alive (8 states). |
| `foreign_env_release` | violation | `ConnectionFollowsEnvs`: the broker connection lives exactly as long as the environments that counted it. Environment e2 connects a client. Environment e1 is created and released without connecting. `release` then takes the count from 1 to 0 and closes the connection the client of e2 still uses. With `Envs = {e1}` TLC reports the other half: two `CMPIConnect2` in e1 raise the count to 2, `release` lowers it to 1, and the socket stays open after every environment is gone (`cimcClientSfcbLocal.c:2014`). |
| `string_args_unconverted` | violation | A client passes the char* text "7" for the uint8 parameter `A` of method `M`. The `CMPI_ref` bit test (`cimcClientSfcbLocal.c:1418`) takes chars for a reference, and the argument reaches the provider as chars, not as uint8 7 (`InvokedAsDeclared`). With `SFCB_DEBUG = FALSE` and CMPIString arguments, the same property catches the release build dropping the argument (`:1445`). In a debug build it catches "300" arriving as uint8 44. With a missing class it catches the crash in `CMRelease(NULL)` (`:1504`). |

`PROJECT.json` lists what each violation means under `findings`.

## Bounds

- **Object runs.**
  - A class gets 4 calls. That is enough for a method with a parameter and a qualifier on each, or a qualifier of each kind, followed by a flatten. Each extra call multiplies the states by about ten. An ObjectPath also gets 4: a field set and replaced, a key added, and a flatten.
  - The qualifier names are Abstract (a class bit), Key and EmbeddedInstance (property bits, the latter setting two); on a method or parameter they are ordinary Section entries. EmbeddedObject is left out: CIM makes it exclusive with EmbeddedInstance, and giving it alone takes the same path as Key.
  - One method name, one parameter name and one value per qualifier suffice. A second name would only rename entries, and the duplicate paths are reached by repeating a name.
  - The sizes are not multiples of one another (24, 40, 48), so a miscounted entry changes the alignment `RebuildExact` checks.
  - Two property names and at most 5 calls. That is enough for an add, a replace of each kind, and a replace after a compaction has moved another entry.
  - The readers are given ids 0 and 1 (`MCGetIds`). That is the boundary `id = used` of an empty and of a one-entry Section, a valid id of a longer one, and an id out of range of an empty one.
  - The values have different lengths (1, 2 and 13 bytes), so a wrong length derivation would show. The string values are `<`, `&>` and `<![CDATA[<]]>`: every escape the objects reach is exercised, and the CDATA test both fires (at the first `<`) and does not (at the `<` inside the section).
- **Class runs.**
  - Three classes in a chain (A ← B ← C), with the record order C, A, B. Every class then has an ancestor that is not its parent, and the order is not the hierarchy's.
  - Cache sizes of 2 with up to 4 requests. That is enough to fill a cache, evict from it, and hit an entry after an eviction.
  - The requests include the InvokeMethod helpers (getchildren, getallchildren, getassocs, ischild). Their answers are part of `ServiceRefinement`.
- Both `reduced` modes are initial states, and so is each malformed store: a swapped (foreign-endian) version record, a wrong id, an old level, a non-class record, a truncated class record. Each reaches a different rejection of `newClassRegister`. The requests also include EnumClassNames of association classes only (`FL_assocsOnly`, shallow and deep), CreateClass and DeleteClass, listnamespaces (this namespace, another, none), _startup and an unknown method.
- **Array runs.** The arrays have 1 and 2 elements, so the first table has 16 cells. A flatten then shrinks `bMax` to the cells used, and the next add must grow it. Both the borrowed and the owned growth paths are reached, with `realloc` moving or not.
- **Local client.** Two environments and two clients: one environment can hold a client while the other is created, connects or not, and is released. `MaxConnect = 3` bounds the count; it is never reached before the violation.
- **Local invoke.** The method declares a uint8, a boolean and a uint16 array, which reaches every branch of `convertFromStringValue` the model keeps. Each call has one or two arguments, each named for a parameter (in another case, since `strcasecmp` matches) or unknown. The texts are a valid number, one too big for a uint8, the empty text, a negative number and `true`. `vmpt` takes both values. The state space is one step per call (912 initial states for the chars and uint8 arguments of the run).
- **HTTP pool.** `HMax = 2` places, so the slot scan has a choice and can also reach its end. 3 connections make more connections than places, so the capacity of `ProcPool` is reached. A keep-alive of 2 lets a child serve twice before it exits. The client of connection 1 writes up to 2 requests with Content-Length 0 or 1, and a read takes up to 3 tokens: one read can then take in a header, its payload and the next header, the case `RequestsInSync` is about. The clients of connections 2 and 3 stay silent, which keeps the state space within minutes; they still exercise the pool.

## Fairness

- **`LocalInvoke`: none.** A run is one call, one step.
- **`LocalClient`: none.** Its only run checks a safety property, and the program's own calls decide which step comes next.
- **Object and class runs: none.**
  - Every modelled operation runs on the caller's thread and is atomic. The object calls hold no lock, but nothing else touches the object. The provider requests hold the register's write lock.
  - These runs are bounded by `MaxOps`/`MaxRequests`. The bound is the only reason the system stops, so their cfgs say `CHECK_DEADLOCK FALSE`.
- **`HttpProcPool`: weak fairness on each child's steps, `SigChld`, `CountChild` and `StopProc`.**
  - A child is a process of its own, and the kernel schedules it. Every blocking read of a child has a timeout (`select` in `getHdrs`, `readData` and the keep-alive loop), so a child waiting on a silent client still takes its step (`IdleEnd`, the timeout branch of `ReadBody`); this is what `ProcessorsEnd` rests on. Once a child is a zombie, the kernel delivers SIGCHLD. The parent's `running++` follows the fork with no wait in between. `stopProc` is a thread that runs once started.
  - New connections (`Select`) get no fairness: clients may stop connecting.
  - `CHECK_DEADLOCK FALSE` is right here: after `exit(0)`, or with no connection to accept, the adapter really does stop.

## Not modelled (yet)

- `ClClassAddGrandParent`: no caller in `src`. `ClQualifierDeclarationGetQualifierData`, a getter with no caller in `src`.
- The getters and the readers by index are not steps of the models. The pointer/offset conversion of relocation is modelled only as the ownership of the tables.
- An ObjectPath key that is an array: CIM keys are never arrays. `rebuildObjectPathH` copies no Array Table (`objectImpl.c:2573`), which only such a key would notice.
- The index growth of the Array Table: it copies every slot and keeps the content.
- The directory walk of `gatherNameSpaces` (one namespace is modelled) and the byte decoding of records (a record is its type, name and the version fields the loader tests).
- The text of HTTP headers, authentication back ends and the response writers: a header is one token, whose acceptance is a nondeterministic choice, and responses are not state of the model. Reading the code shows that an authentication failure followed by a payload timeout is answered twice (`httpAdapter.c:1338`). Also the data race on `running` between the SIGCHLD handler and the `stopProc` thread.
- Several bugs this model reaches have no run of their own, because each violation run checks one property and the project keeps one run per question: the pipelined request rejected (`httpAdapter.c:569`), and the lost place (`:1481`). `PROJECT.json` lists them as hazards, with how each was confirmed.
- In XML generation: the embedded-instance branch of `data2xml` and `value2xml` (the object model keeps an embedded instance as an opaque serialized blob, so its own XML cannot be rendered. So the second escape that `add_escaped_instance` applies to it (`cimXmlGen.c:80`) is not checked. That escape passes a CDATA section in a string of the embedded instance through raw), references, dateTime, the property values of a class and `cls2xml`'s property filter (the builder never sets one), qualifier declarations, `enum2xml`, and the parsing direction (`str2CMPIValue`, `getKeyValueTypePtr`). Property names are written unescaped, which is safe for CIM names.
- The register's read/write lock (`MRWLOCK`): its implementation is not in this tree, and a model would have to guess its reader or writer preference. The tables the lock guards for the InvokeMethod helpers (the class and children tables) are built by the loader and never change afterwards, so each request stays one atomic step.
- In the local `invokeMethod`: the provider's answer and the OUT arguments (the copy back of pass-by-reference values), and the conversions to 32- and 64-bit, signed, real, dateTime and reference types. Their code has the same shape as the uint8 case.
- The local client's marshalling: each CMPI operation copies its arguments into message segments and the answers back into objects. This changes no state of the connection. Also not modelled: a restart of the broker, whose side of the connection (`msgqueue`, `providerMgr`) is not in `src`. After a restart `localConnect` keeps reusing the dead fd while the count is positive (`cimcClientSfcbLocal.c:1890`).
- The class object `EnumClassNames` leaks (`classProviderSf.c:1070`, property `NoLeakedClass` in `ClassRegister`) is found by TLC with the model as it is, but has no run: every run slot is taken.

`PROJECT.json` gives the reason for each, and its `hazards` list where each one can go wrong.

## Plan for later sittings

Done: the Array Table, the HTTP process pool and its request stream, the InvokeMethod helpers, the class sections, the flatten layout, the store loader, the `FL_assocsOnly` path without a class name, and the CIM-XML rendering of strings, scalars and arrays, and the local client's connection. Remaining, most important first:
1. The place a child may leak if it crashes between lines 1481 and 1482 (`httpAdapter.c`). The model reaches this, but no property states it: a property that does would fail on this code.
2. Embedded instances in the CIM-XML rendering, with an instance model that can be rendered in turn.
