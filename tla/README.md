# A TLA+ model of openapi-forge

`forge generate` turns an OpenAPI document into source files. It parses the
document into an intermediate representation (IR), passes the IR through
transformer plugins and one generator plugin, and writes what the generator
returns. Plugins are WebAssembly components, run in a sandbox, and come from
disk or from an OCI registry through a cache that all `forge` processes of a
user share.

This directory holds TLA+ modules that model the parts of this program in which
order, failure and concurrency matter, configurations that check them with TLC,
and proofs that the TLA+ proof system (TLAPS) checks. `PROJECT.json` lists runs,
mutants, theorems, findings and hazards, and maps every definition to the lines
of code it models.

## The system

| Component | Code | State | Operations | Interacts through |
|---|---|---|---|---|
| OCI plugin cache | `forge-cli/src/oci.rs` | blobs, tag pointers and manifest pointers on disk | `fetch_to_bytes` | the file system, shared with other processes; the registry |
| Generate command | `forge-cli/src/main.rs` | output directories; the progress of a run | `run_generate`, `run_one_pipeline`, hooks | calls every other part; the file system; hook processes |
| Stage driver | `forge-pipeline/src/driver.rs` | the current IR, diagnostics | `run` | calls plugins |
| Output guard | `forge-host/src/filesystem.rs` | none | `validate_output` | called between generator and write loop |
| Plugin host | `forge-host/src/runtime.rs` | engine, ticker thread, a store per call | load, `transform`, `generate`, drop | wasmtime; guest code |
| Canonical order | `forge-parser/src/finalize.rs` | the type list | `canonicalize` | last pass of the parser |
| Parser: schemas | `forge-parser/src/{lib,ctx,schema,normalize,value,external}.rs` | the type pool, the value pool, open documents, the schemas in progress, diagnostics | `parse_schema`, `lower_all_of`, `intern` | documents on disk; the walk over operations shares the current document |
| Parser: operations and security | `forge-parser/src/{lib,operations,security,ref_walk}.rs` | the IR so far, the references in progress, the operation ids taken | `parse_path`, `parse_operation` and what is below | the walk over schemas |
| Registry credentials | `forge-cli/src/docker_auth.rs`, `oci.rs` (`resolve_auth`) | config files, helper programs, environment | `lookup` | called by the cache |
| Plugin SDK | `forge-plugin-sdk` | none | questions about types, inlining of references | generators |
| Generators | `plugins/generator-typescript-fetch`, `plugins/generator-rust-reqwest` | none | a model for every type, a method for every operation | IR in, files out; the generated code talks to a server |
| IR, bindings | `forge-ir`, `forge-ir-bindgen`, `wit` | none | conversions | host and guest |
| Other plugins, tests, tools | `plugins`, `fixtures`, `fuzz`, `xtask`, `install.sh`, `action.yml` | | | |

What makes each part correct, and what is hard about it:

* **Cache.** A fetch by digest returns the layer of that manifest, a fetch by
  tag a build the tag had; a pointer never leads nowhere; what is cached stays
  usable offline. Hard: no locks, several processes, a shared temporary file,
  crashes between any two system calls, tags that move during a fetch, pointers
  that outlive what they meant.
- **Generate command and driver.** Exit code 0 means that all files of all
  pipelines are there; a run that is refused leaves the output alone; hooks
  see complete files; all output of a run is of one version of its input unless that is
  edited meanwhile; the reason of a failure reaches the user. Hard: files
  written in place, kills and reruns over what an earlier run left, pipelines
  that share a directory, an input that changes between pipelines.
- **Output guard.** Accepted files stay below the output directory, are distinct
  and within the caps. Hard: spellings of paths, sums at their limit.
- **Plugin host.** Every call ends within its budget, none is cut short early,
  the ticker outlives every call, and shutdown does not hang. Hard: a thread
  shared by reference counting, deadlines counted in ticks, start-up code.
- **Canonical order.** The order depends on the references only, puts a type
  after those it refers to as far as cycles allow it, and loses nothing. Hard:
  Tarjan and Kahn on arbitrary graphs, with cycles, self references and
  dangling references.
- **Parser: schemas.** References resolve, cycles end, ids stay unique, `allOf` sees
  its parents, every component is there under its name; a type has room for all the
  values its schema accepts, and says all that the schema says of its type. Hard: one recursive
  descent that changes documents on the way, ids that are looked up long before
  they are taken, `allOf` that reads back what the descent has produced so far;
  two dialects, and keywords that change each other's meaning.
- **Parser: operations.** Operation ids are unique over paths, webhooks and callbacks;
  a callback names operations that are there; an operation has what it declares and what it
  inherits, whatever references lead to it. Hard: chains and cycles of references through
  several documents, a list that the operations of callbacks join before their owners do.
- **Credentials.** A credential that some file holds is found, whatever is wrong
  with the files before it, and nobody is anonymous in silence.
- **Generators.** A generated type takes what its schema accepts; a server reads
  from a generated request what the caller has given. Hard: styles of parameters
  against each other, nullable and optional, tags of unions, what serde makes of them.

`PROJECT.json` lists the hazards one by one, at their lines.

## The modules

| Module | Models | Checked by | Proved in |
|---|---|---|---|
| `OciCache` | the cache, its processes, the registry | `MCOciCache` | `OciCacheProofs` |
| `Generate` (extends `OutputGuard`) | a run of `forge generate`, with driver, write loop, hooks | `MCGenerate` | `GenerateProofs` |
| `HostRuntime` | calls, budgets, the ticker | `MCHostRuntime` | `HostRuntimeProofs` |
| `TopologicalOrder` | what the canonical order promises (abstract) | `MCFunctions` | `TopologicalOrderProofs` |
| `Finalize` (refines `TopologicalOrder`) | `canonicalize` step by step | itself | `FinalizeProofs` |
| `SchemaWalk` | the parser's walk over schemas, references and `allOf` | `MCSchemaWalk` | `SchemaWalkProofs` |
| `OperationWalk` | the parser's walk over everything that is not a schema | `MCOperationWalk` | `OperationWalkProofs` |
| `OutputGuard` | the guard as operators, and what it is for | `MCFunctions` | `GenerateProofs` |
| `Credentials` | where a credential is looked for, and what the search is for | `MCFunctions` | `OciCacheProofs` |
| `Discriminators` | the tags of a discriminated union, and what tags are for | `MCFunctions` | `SchemaWalkProofs` |
| `SchemaShapes` | the type that a schema becomes | `MCFunctions`, against `SchemaMeaning` | |
| `ValuePool` | the pool of JSON values | `MCFunctions` | |
| `GeneratedModels` (extends `SchemaShapes`) | TypeScript and Rust types | `MCFunctions`, against `SchemaMeaning` | |
| `GeneratedClient`, `RustClient` | TypeScript and Rust methods | `MCFunctions`, against `ServerView` | |

`SequenceLemmas` holds what the proofs keep needing about natural numbers, stacks and concatenation.
Operators marked `Mutant:` are plausible bugs. Nothing uses them; each stands
for one way in which the definition after it could have been written wrongly,
and `PROJECT.json` names the property that this would break.

### OciCache

State: the four kinds of file (`tmp`, `blob`, `mptr`, `tptr`), the registry's
tags, and per process the next step, the reference, the layer digest and bytes
it holds, and the file it has open. `seen` and `tagged` are history variables
for properties. One action is one registry request or one file system call:
`std::fs::write` is an open with truncation (`OpenTmp`, `TruncateTagPointer`)
and then writes (`WriteTmp` chunk by chunk, `WriteTagPointer`), and a process
with the file open keeps writing to it when another renames it (`link`). The
steps follow `fetch_to_bytes`: for a pin, manifest pointer, blob, or else pull;
for a tag, revalidation, then blob and pointer, or a pull, or the offline
fallback through the tag pointer. `Crash`, `IoFailure`, `Push` (someone moves a
tag) and `Evict` (the user deletes a blob) are the environment. `Failures` and
`Evictions` switch those off for the properties that need it.

External and trusted: `oci-client` verifies manifests against the pin and layers
against the manifest (said at `oci.rs:242-246`), so a successful `Pull` holds
exactly the layer. A pointer, of 71 bytes, needs one `write(2)`; a plugin needs
`NumChunks`, 2 where processes race. Two chunks are enough to distinguish a whole, a torn
and an empty file, which is all the properties tell apart. A layer named by a
digest other than sha256 is `OtherAlgo`: `blob_path` refuses it.

* `oci_solo`: one process after the other (a killed one is replaced by the next)
  over two tags with a pointer file each, a pin, and a reference with tag and digest, in one chunk
  each (an open file is then empty or whole). It shows that pins and tags are honoured, that
  pointers lead to blobs, that the offline fallback never serves another tag's
  build, and, as an action property, that a cached pin is never lost to a later
  fetch.
* `oci_race`: two processes at once, nobody killed, in two chunks, with two
  manifests that share a layer and blobs deleted under their feet. A torn blob
  always has a writer that completes it, and no pin serves another plugin's bytes.
  (That the last also holds with kills is proved, see below.)
* `oci_torn_blob`, `oci_empty_pointer`: what the code's own comments promise and
  the code does not do (see Findings).

### OutputGuard and Generate

A path is a sequence of components and a flag for absolute; a component is `.`,
`..`, a name with a forbidden character, or a name. `MCFunctions` grows every
list of files up to one more than the cap, with sizes around the per-file and
total caps; `MaxInt` is `u64::MAX` made small, so that sums reach it. What the guard is for
(`FilesApart`, `WithinBudget`) is put without it: by walking a path from the output directory, and by the real sum.

`Generate` has one action per step of a pipeline: `Begin` (with the refusal of
`--out` for several pipelines), `LoadIr`, `LoadPlugins`, `Transform`,
`RunGenerator`, `Validate`, `OpenFile`, `FillFile`, `RunHook`. The IR is
abstracted to the version of the input it came from and the stages that worked
on it; diagnostics are left out, a stage either goes on or ends the run
(`StageFails`). `manifest` is fixed in the first state. `disk` is a tree of files and directories, so
that a file in the way of a directory fails as it does in the code; it is what
`forge` wrote, and what hooks do to files is left to the hooks. `Kill` ends a run
anywhere, `IoFailure` ends it in the write loop, `EditInput` changes the input
at any time, also between two pipelines, which read it separately (`seen` remembers what it was during the run), and `Begin` runs `forge` again on what is there.

`generate` starts from each of three manifests: one pipeline with a transformer
and a generator, two pipelines that write into one directory, and two with
directories of their own and hooks of every kind. The lists of files in
`MCGenerate` include an empty one, a path that escapes, a path spelled twice, and
`a` together with `a/b`. Two runs suffice for what one leaves to the next,
because a run keeps nothing but the disk; two pipelines suffice for the last, the
current and the next. `generate_atomic` needs one run.

### TopologicalOrder and Finalize

`TopologicalOrder` states the order without an algorithm: components are types
that reach each other, a component is ready when all it refers to has been
emitted, and the ready one with the smallest member comes next. `Finalize` is
the code: the recursion of `strongconnect` is a stack of frames, one action is
one turn of its loop; then the in-degrees, Kahn's loop, and the emission of
types and recursion groups. The refinement maps `order` to the components that
Kahn's loop has emitted (`ImplementsTopologicalOrder`).
`finalize` runs all 4,096 graphs on three types with a dangling id. Three types
have the shapes that matter to a lowlink: two cycles that share a type, a cycle
below another type, a self reference, a cross edge into a finished component.

`Finalize` takes the references of a type as a set, as the code does after its
`dedup`, and the ids as numbers, because ids are only compared. `Members` (the sort inside a component) and
`RecursionGroups` (a filter) are written out where the community modules have `SortSeq` and `SelectSeq`,
whose definitions the provers cannot see through.

### HostRuntime

A call (load, transform or generate) makes a store with a budget of fuel, memory
and time, instantiates the component, runs start-up code, runs the export, and
returns, or ends in a trap that `map_call_error` classifies. `ticks` counts the
epoch increments since the store was made, and a guest whose `ticks` reach its
deadline is interrupted at its next check. `handles` are the owners of the
engine: its creator and each loaded plugin. A plugin's call borrows the plugin, so
a plugin is not dropped during one. Time passes in units; the ticker sleeps
`Cadence` of them. Ages are counted up to `MaxAge`, no less than every limit.

`host` has one plugin and the engine's creator, who lets go at any time, and three
budgets: one that fuel ends, one that only time ends, and a limit of no time at
all. More plugins add no interaction, because calls share nothing but the ticker
and the reference count; for any number of them `CallsCanBeInterrupted` is proved.

### SchemaWalk

State: the pool of types (`types`, with the counters of `unique_id`), the
document the parser is in and the schemas in progress (`current`, `walking`), the
ids that schemas of other documents got (`dedup`), and the recursion as a stack of
frames. One action is a call of `parse_schema` (`ParseLeaf`, `ParseNull`,
`ParseBad`, `ParseComposite`, `ParseLocalRef`, `ParseExternalRef`), a turn of a loop over
properties, items, variants or parts (`NextSub`, then `SubReturns` or
`PartReturns`), the end of a composite (`Close`), or the return from a reference
(`RefReturns`). `WalkComponent` takes the next component of the main document, in the order of
`order_components_by_allof`: the first whose parents have all been taken (`NextComponent`), and what a cycle keeps back
(`KeptBack`) at the end; `todo` are those that are left. `WalkUse` then takes the schemas of a body's media
types, which all want one id, and `used` counts them. An id is the sequence of the parts that `_` joins, which keeps the
collisions that matter (a component named `A_property_p`) without strings. `Schemas` is the set of everything
that descriptions are made of; it occurs in the assumptions only, which say that the description is well formed
and that a document has one schema of each name.

`schema_walk` runs every combination of the shapes that
`MCSpecs` lists for two components, two schemas of another document and two media types, and
descriptions in which a component has the name that an inline schema, a part of an `allOf` or the null type wants, or
in which a reference names a schema that is not there, but an inline one of that id is.
Two of each suffice for a cycle in one document, a cycle across the documents and
back, and an `allOf` that is ahead of its target. A document is a map from names to schemas with one spelling of each
reference. Schemas with constraints only (`enum`, `const`, primitive types) are one kind of
leaf here; what they become is `SchemaShapes`. Discriminated unions, pattern properties, property
names and arrays of types are left out of the walk; they reach the pool through the same operations.
The run finds that the walk ends and restores its context, that no schema is
walked inside itself, that every component is in the pool as itself, and, under conditions,
that nothing else is ever replaced and that references resolve unless an error was
reported. `schema_nested_allof` shows that an `allOf` further in than the top of a
component may miss the component it names.

The properties say under which conditions they hold, because names run into each other in this code.
`ComponentsServed` needs least: the component is not called `null`, nor like an inline part of an `allOf`.
`InlineReplacesNothing` asks that no name begins with another one, nor with what the parser begins its own ids
with (`NamesApart`), as a component `A_property_p` next to `A` would. `RefsResolve` asks for that too, that every named schema comes to a type of its own
(`NamesWhatIsThere`), and that no external reference is called like an inline part of an `allOf` (`NamesNoPart`, a condition
that the proof brought up: TLC shows what happens without it as soon as a description has such a reference). What happens otherwise is in the observations.

### OperationWalk

State: the IR so far, the document the parser is in and the references in progress
(`current`, `walking`), the recursion as a stack of frames, and `failed` for a diagnostic
that is an error. A node of a description is an object, a reference or something that is
neither, with the fields that decide something; its parts are listed in the order the code reads
them. One action per step: the phases of `lib.rs` (`Begin`, `NextPhase`, `NextRoot`, `Scan`), following
a chain of references one by one (`FollowRef`, `RefDangles`, the loop of `with_resolved_object`), taking or refusing what
stands at its end (`Accept`, `Refuse`), its parts (`NextPart`, `SkipPart`), and leaving it with what it adds to the one
around it (`CloseOperation`, `CloseExpression`, `CloseOther`, `Leave`). `PartsOf` is the grammar: what is
read below what; other members are passed over. The only assumption about descriptions is that the entries
of a phase are of its kind. Schemas are atoms here: they
are the subject of `SchemaWalk`, which gives back the document it was given, and that is proved.

`operations` runs four families of descriptions (`MCSpecs`): chains, cycles and dead ends of
references through two documents, from path items down to parameters; operation ids and
callbacks in paths and webhooks, with ids that clash and callbacks in callbacks; servers,
requirements and parameters on all levels, each present, empty or absent; and everything below an
operation, with security schemes and their flows, well formed and not. `LowersWhatIsWritten`
compares the IR with the description read as a tree in which every reference stands for its target,
which knows neither context nor stack. It is stated for walks without an error and for descriptions
of which the code drops nothing in silence (`Lossy` lists what it does drop).

### Functions: SchemaShapes, Discriminators, ValuePool, Credentials, the generated code

These compute a result in one go, so they are operators, and `MCFunctions` chooses an
input in the first state and compares the result with a reference definition. The one
run `functions` has all of them, because each is a constant expression and a run of its own would
have no steps. Only the order of types takes steps there, and only lists of files grow.

* **Order of types**: all reference graphs on three types and a dangling id, for
  `TopologicalOrder` itself.
* **Credentials**: two files on the search path, each absent, unreadable, broken, with a
  helper of its own (six ways in which helpers behave), an inline entry under one of four keys, or a
  store for all registries; five environments; `ghcr.io` and another registry. The iteration
  over the inline entries is that of a `HashMap`, so a lookup has a set of outcomes.
* **Schemas** (`TypesKeepValues`, `ModelsTakeValues`): keywords combined by family (bounds, lengths, `nullable`, enums
  and constants, arrays, objects with properties, `additionalProperties`, `patternProperties`
  and `propertyNames`, unions), in both dialects, against `SchemaMeaning`, which says which values a schema accepts and
  which a type admits. A value is as small as the keywords can tell: strings are their lengths, numbers count halves, so
  that 3 is not an integer. `Exact` are the schemas all of whose keywords are of their type; there the type
  must not admit more than the schema accepts. `ModelsTakeValues` asks the same of the generated types,
  through the TypeScript checker (structural, with index signatures) and serde (missing fields,
  untagged and internally tagged enums).
* **Discriminators** (`TagsRoute`): up to three variants of two types with up to two explicit tags.
* **Values** (`PoolReadsBack`): pairs of JSON values, nested once, with integers
  around the largest of 64 bits. What is read back is what was put in, up to the float next to it.
* **Clients** (`ClientKeepsContract`): operations with one or two parameters of every location, style and
  shape that the code distinguishes, with names that differ in humps only or are reserved words; with
  one or two media types for the body; with one or two responses; with the schemes and credentials that matter to each other.
  `ServerView` reads a request by the serialisation rules of OpenAPI. The property names what a
  method must be for the promise to hold: `Compiles`, `NoFormObject`, `CookiesCarriable`, `ListsCarriable`
  and, for Rust, `RustCompiles` and `RustWrites`. What they exclude is in the observations.

Inputs of one or two suffice because every operator looks at its parts one
by one or at two that may collide: two parameters on one header, two variants with one tag, two files
of which one hides the other.

## Fairness

`OciCache` and `Generate` state safety only; their specifications have no
fairness. `Finalize` and `TopologicalOrder` have weak fairness of `Next`:
`canonicalize` is one sequential call. So have `SchemaWalk` and `OperationWalk`, for the
same reason. `MCFunctions` states safety only.
`HostRuntime` assumes that time passes, that the operating system schedules the ticker thread, that wasmtime finishes
instantiating, that host functions return (`log` and `case-convert` are loops
over their argument; the WASI context denies everything but clocks), and that a
guest whose deadline has passed is trapped, which is wasmtime's contract for
epochs. Guest code owes nothing: that it computes or calls the host for ever is
among the behaviours `CallsEnd` is checked on.

## What is proved

TLC checks small instances. TLAPS proves these for all values of the constants,
from the named assumptions of the modules.

* `OciCacheProofs` has one inductive invariant, `IInv`. `TypeOK` and the property
  about pins are not inductive: that a pinned fetch serves its layer rests on
  every manifest pointer naming its manifest's layer, on every chunk of a blob or
  temporary file being the layer's own or missing, and on what each process
  holds between two steps. From `IInv` follow `TypeCorrect` and `PinHonoured`.
  `RacesRepaired` adds, under `~Failures`, that every missing chunk of a file
  still has a writer that has not passed it, for the temporary file, the blob,
  and the moment between; `StoreCanonical` follows.
  `TagsServedFresh`: a fetch by tag has seen all that the tag
  points to, and works with a layer it has seen, at every step. `StaleIsOfTheTag` needs that no
  two names share a pointer file (`SeparateFiles`, which `sanitize` does not guarantee): then what a tag pointer
  holds, or is about to, is a layer that one of its references has stood for.
  `PointersLeadToBlobs` needs that nobody deletes blobs: the blob goes before the pointer, in every
  process and over every crash. `CachedPinsStay` needs in addition that processes do not overlap: the only
  process that writes a blob writes one that is missing.
  `SearchServes` is about `Credentials`: whatever the environment names and the files hold, the search serves its purpose
  (`CredentialServes`). The walk over the files keeps an error until it has found nothing better (`WalkIs`), a helper that cannot
  answer is an error (`FromPathIs`), and a key that matches names the registry that was asked for (`LookupIs`). `FileOk` says
  what a file may hold; that a secret carries the host of its key is how the model tells whose it is.
* `GenerateProofs`: the invariant `IInv` has five parts, of the state, the IR (what the stages so far have made of
  it), the record of what each pipeline made, the disk (the first files of the current pipeline are
  written, those of pipelines whose files nobody has overwritten are there) and what the
  disk was before. `ExitZeroMeansDelivered`, `RefusalWritesNothing` and `HooksSeeFiles` follow, for any
  manifests, lists of files, failures, kills and reruns. `OutputOfThisRun` adds that what a run works on and has made is of versions
  the input had since it started (`SeenInv`), which with what is on disk after exit code 0 gives `VersionsOfThisRun`. The guard has theorems of its own, for every list of files:
  the walk along a sane path ends where its names without `.` say (`SaneDestination`, by induction along
  the path), so `GuardKeepsFilesApart`; and the saturating total is the real sum cut off at `MaxInt` (`TotalBytesIs`), so
  `HostKeepsBudget`. The latter needs `MaxTotal < MaxInt`: `output_total_bytes_max` is any `u64`, and the largest
  of them caps nothing, as a saturated total is not above it. `OutputsStayApart` says it of all that a run writes.
* `HostRuntimeProofs`: whoever calls holds the engine, while anyone holds it the
  stop flag is down, and the ticker has only ended if the flag is up; hence
  `CallsCanBeInterrupted`. `NotKilledEarly` is a second argument, about time: two ticks are a cadence
  apart, so a call that has seen n of them is at least n - 1 cadences old; the deadline is
  the limit rounded up to cadences; so a call that is trapped for time has run
  for its limit up to one cadence, also where ages stop counting.
* `TopologicalOrderProofs` shows that what is emitted are components, each once,
  each after what it needs, and that two components are equal or disjoint, because
  reachability is transitive. `TypesEmittedOnce` follows.
  That groups come after what they need (`DependenciesFirst`) is how `Ready` is defined here; it is carried along
  because `Finalize` inherits it, where it is a statement about the code.
* `FinalizeProofs` proves the algorithm for every finite set of types and every reference graph. The
  invariant of Tarjan's search: indices tell types apart and grow along the stack and the calls (`Numbered`); a type
  that has been entered is on the stack or in a component, and what a finished type refers to has been entered
  (`Colours`); a call in progress reaches all that is above it on the stack, and everything on the stack reaches a
  call in progress at or below it (`GrayReaches`, `ReachesGray`); a lowlink is the index of a type on the stack that can be reached, and no
  reference out of the call's part of the stack leads lower (`LowSound`, `LowComplete`); what has been found are components, each
  once, after those they refer to (`Found`). So a type whose lowlink is its index has exactly its
  component above it, which is `ComponentsFound`. Kahn's loop keeps each in-degree equal to the number of
  edges into components that are not emitted (`KahnInv`), hence what it emits is ready, smallest name first: every step is a step of
  `TopologicalOrder` or leaves it alone (`EmitsInReferenceOrder`), and `DependenciesEmittedFirst` is inherited from it.
  When nothing is ready, all has been emitted, because among the components that are left the one found first
  waits for none (`EverythingEmitted`). Flattening disjoint blocks keeps order and loses nothing,
  and a path between a type and a later one stays in their group: `IrIsOrdered`.
* `SchemaWalkProofs`: every stack of calls has the root at its bottom and nowhere
  else, composites carry no key, each frame remembers the document of the frame
  below it, and the keys on the stack are distinct and are exactly `walking`. One lemma says
  that making a call keeps this, one that returning does, one that updating the
  innermost frame does. `ContextRestored` and `CyclesCaught` follow, for
  descriptions and documents of any number and shape.
  `ComponentsInThePool` adds two invariants. `TInv` types the state: the pool is finite, so
  `unique_id` finds a free id (there are more numerals than types), what a frame would remove from the pool has the name of
  an inline part, and every id is one. `SInv` follows each component that has been begun: while its own call is the
  outermost one, either that call still has its name and schema in hand or the object that it opened is
  the second frame; afterwards the type is there, and no call in progress, nor the one
  about to begin, is going to write under its name, because an inline schema gets an id that is free, a reference only walks what is not
  in the pool, and other components have other names. The one hypothesis, `NumeralsDiffer`, is about `ToString`, which the
  provers know nothing of: different numbers have different numerals.
  `OthersKept` is about where an id can come from. Its invariant, `RInv`, says that each id begins with the name
  it was made from, of a component, of a schema of another document or of the body (`Root`); that types, frames and
  the call about to begin agree on which schema that is; and that a frame's id is not in the pool, or is that of a component or a
  reference that owns it. Where names are apart, two ids with a common beginning have one root, hence an inline schema, which asks for a free id, is
  not overtaken by anything that is walked between the asking and the pushing.
  `ReferencesResolve` adds `VInv`, about which no id of a property is left without a type. What types and frames refer to is in the pool,
  or is the name of a component that has not been begun, or of a schema whose walk is in progress (`Kept`); so are all components. What
  the map of shared schemas says is what the schema is called, or a type that is there (`Referred`). A frame answers for the frame
  below it: the type it builds is the one that frame was asked for, and once the subschemas that make a type of it have been
  read it has something to push (`Linked`); a value on its way back is there, or is going to be for a frame further out
  (`Answered`). The parts that an `allOf` is going to remove are in the pool, made for it, in one frame only, and no type refers
  to them (`Parts`). Popping a frame is safe because the name that it kept promised is then in the pool or promised by
  another frame; when nothing is in progress and no component is left, what is promised is what is there.
  `TagsLeadToVariants` is about `Discriminators`. A mapping has the explicit entries for variants and one for every variant
  without (`MappingIs`), so tags lead to variants. It needs that tags are not ambiguous (`Unambiguous`): the explicit tags differ, as keys of
  one JSON object do, and none of them is the id of a variant that has no explicit tag. Where one is, two
  variants share a tag, and the run excludes that too.
* `OperationWalkProofs` has the same argument for the other walk, in which a frame holds the keys of a whole chain of
  references: `RefContextRestored` and `RefCyclesCaught`. `OperationIdsNeverClash` needs what is where in the middle of the
  walk: `Shape` says which slots may stand on the stack in which phase, and `Owned` that the ids in the IR, in its webhooks, below
  each call and in the value being returned are apart from each other and have all been seen.
  `CallbacksNeverDangle`: the ids that any value below a call keeps are ids of the IR (`CallbacksInv`), because
  the operations of a callback join the IR before the value that names them is handed up, and nothing leaves the IR.

Only model-checked:

* of `OperationWalk`, `LowersWhatIsWritten`, which compares the walk with a recursive reading of the same description;
* of `functions`, `TypesKeepValues`, `ModelsTakeValues`, `PoolReadsBack` and `ClientKeepsContract`, which rest on `RECURSIVE`
  operators. `GroupsDisjoint` is a theorem, and so is what the other four say: `HostKeepsBudget`, `GuardKeepsFilesApart`, `SearchServes` and
  `TagsLeadToVariants` state it of every input rather than of that module's `input`;
* liveness (`CallsEnd`, `ShutdownEnds`, `Terminates`, and that `Finalize` has the fairness of `TopologicalOrder`), as the
  provers know neither fairness nor `ENABLED`.

What helped and what did not: induction over numbers and finite sets goes through where the statement can be
put as a set (`NatInduct` of `SequenceLemmas`: a set with 0 and closed under successor has all numbers), which covers recursive
functions and `FlattenSeq`. `SelectSeq`, `SortSeq`, `:>`, `@@` and `ToString` are opaque to the provers, so `SchemaWalk` has `Put`
and `Over` instead of `:>` and `@@`, and `Normal` of `OutputGuard` and `Mapping` of `Discriminators` are `FlattenSeq`s. `RECURSIVE` operators occur
only in modules that no proof reaches (`SchemaShapes`, `SchemaMeaning`, `ValuePool`, `GeneratedModels` and the MC modules).

## Findings

1. Two processes that fetch one layer share one temporary file. If one is
   killed, a torn blob can stay in the store, and is served unhashed
   (`oci_torn_blob`). Without a kill the race repairs itself, which is proved.
2. A kill inside the write of a manifest pointer leaves an empty file, on which
   every later fetch of that pin fails until the user deletes it (`oci_empty_pointer`).
3. Output is written in place, file by file, where the documents promise an
   atomic rename (`generate_atomic`).
4. Components are put in order by the `allOf` at their top only. An `allOf` inside
   a property may come before the component it names; the part is then skipped,
   and a property with nothing else in it vanishes without a diagnostic
   (`schema_nested_allof`).

Observations from reading the code, of which no run shows anything:

* `sanitize` maps repositories `a/b` and `a_b` to one tag pointer, which the
  offline fallback follows (`oci.rs:664-678`).
* A pull of `repo:tag@digest` makes its layer the one the tag falls back on,
  whatever the tag pointed to; `StaleWasTagged` allows for it (`PinnedWith`).
* Every pipeline reads the input again, so an edit while `forge` runs gives pipelines of one run different versions,
  and the run exits 0. Nothing promises otherwise; `VersionsOfThisRun` says how far it can go.
* The diagnostics of a stage that rejects its input are dropped (`main.rs:634-639`).
* With several pipelines, exit code 3 does not mean that all files are there.
* Let another document hold `A`, which is only a reference to `B`, and `B` with a
  property that refers to `A`. From `B` the walk reaches `A` and comes back to `B`, in
  progress under `ext__B`; but `schema.rs:533` answers with `ext__A`, the id that the current
  hint suggests, and nobody pushes that one. `finalize` reports a dangling reference
  in a description that is right.
* A component called `Foo_property_bar` and the inline property `bar` of `Foo` want one
  id. If the property comes first, the component replaces it, and `Foo.bar`
  gets the component's type.
* `unique_id` looks for a free id ("Reserve a unique id", `ctx.rs:146`) but reserves none; the type is pushed when all below it has
  been walked. If that walk reaches a schema of another document that a component claims under the same name
  (`A` with a property `p` that is an object, in which a reference leads to `ext#X`, and a component `A_property_p: {$ref: ext#X}`),
  or walks such a component from another document, the inline schema then replaces the type of that name.
* A reference to a schema that its document does not have is not an error where the id made of its name is in the pool:
  `schema.rs:533` looks there before `schema.rs:547` looks into the document. `ext#X_property_p` is so answered with
  the inline property `p` of `ext#X`, if that has been walked. If the inline schema is a part of an `allOf`, the
  part leaves the pool (`normalize.rs:158`) and the reference dangles, which only `finalize` reports.
* A component that is called `B_allof_part_0` and that the `allOf` of `B` names is taken for an inline part and leaves the pool
  (`normalize.rs:104-108`), against the comment there: "$ref parts return the component's own id, which we must NOT drop".
* A component that is only a reference to another component, and the second of two components that
  refer to one schema of another document, get no type; references to them are
  reported as dangling in a description that is right. So are references to a component that comes to
  nothing in silence, as an `allOf` all of whose parts were passed over.
* A reference to a component called `null` leads to the null type, though the
  component was renamed to `null_2`.
* Two components whose names `sanitize` maps to one id replace each other.
* Nothing normalises or validates the IR between transformer and generator,
  though `docs/architecture.md:57` says so; `validate_refs` of `forge-ir-bindgen` has no caller, though
  `docs/adr/0006`, `docs/ir-spec.md:268` and `docs/fuzzing.md:30` count on it.

In the parser:

* A path item of a callback that is a `$ref` into `components` yields no operations and no diagnostic
  (`lib.rs:562-573`), and the component it names is reported as unused; `docs/parser-coverage.md:202-205`
  and the comment at `lib.rs:450-454` say otherwise.
* A requirement `{}` and the difference between "and" and "or" of requirements are lost when they are flattened.
* A request body or media type that is not an object, a header without a schema and
  a server variable without a default are dropped in silence.
* The name of a `pathItems` component is taken from the fragment without undoing JSON pointer escapes, so a name with `/` is reported as unused.
* Tags may be their own ancestors.
* A schema without a type becomes `any`; `docs/parser-coverage.md` says a permissive object.
* `type: ["string", "array"]` with `items` is an error. `type: "null"` with any constraint becomes any-or-null. Names in
  `required` without a property are dropped. An enum of integers without a format is 32 bits wide.
* An explicit tag of a discriminator that is the id of another variant, which has no tag
  of its own, gives both the same tag. The "declaration order" of tags is alphabetical.
* Of several keys of one host in a credential file, the iteration order of a `HashMap` decides.

In the TypeScript client:

* With JSON in one 2xx response and another media type in the next, the method returns parsed JSON, where
  its comment and the docs say `Response`; and a method of type `Pet | void` calls `res.json()` on an empty answer.
* A call without its optional URL-encoded or multipart body throws.
* Parameters called `url`, `headers`, `init`, `res`, `body` or `options`, and two whose identifiers coincide, do not compile; nor does a
  client whose only schemes are OAuth2 or OpenID Connect (the Rust client neither), nor an index signature next to a field it does not fit.
* An API key in a cookie replaces the header with the cookie parameters. Commas in items of a header are not escaped. An object in
  the default query style is sent as `[object Object]`, and so are the items of a list of files in a multipart body.
* A placeholder nobody declared is sent as it is written. Interfaces ignore `patternProperties`.

In the Rust client:

* An API key that belongs in the query or a cookie is sent as a header; credentials go with
  every operation; of several schemes that are API keys only the first is used.
* Enums of numbers derive serde by the names of their variants, so they neither read nor write the numbers.
* An internally tagged union takes the field with the tag away from variants that require it. A struct that contains
  itself is not boxed.
* A header or cookie parameter called `url` sends the URL. A path parameter that the template lacks does not compile; nor
  do objects in the form style without explode and lists in multipart bodies, nor two fields of a form whose identifiers coincide.
* A URL-encoded body with a list fails when it is sent. A media type the client does not know gets JSON. `application/json-patch+json` is
  sent as `application/json`. A body that is optional must be given.

## Not modelled

* Of the generate command: hooks' own effects (they have no timeout, so a hook that hangs
  hangs the run), the command line, the grammar of the manifest and how limits are layered.
* Of the host: compilation and its cache, linking, imports that block (epochs interrupt guest code only).
* Of the parser: extensions, the wording of diagnostics, metadata, XML, the names of synthetic types, styles of parameters, escapes in JSON
  pointers, the file system behind the resolver, the references that `refs_of` does not list (`finalize.rs:62`), and
  how deep the recursive walks may go before a thread's stack ends.
* Of the generators: layout, comments, files and barrels, `Cargo.toml`, the runtime's errors and streaming bodies.
* IR types are data without behaviour. The conversion between them and the types of the WIT
  interface is structural and mostly generated: a model of it would be its transliteration.
* The other plugins (a dump, an identity, a validator of one field), the test harness, fixtures, fuzz targets, `xtask`,
  the installer and the action.

The hazards in `PROJECT.json` that no property covers each say why.

## Plan

Done, in this order: cache (the only state shared between processes), generate
command with driver and guard, canonical order, plugin host, schema walk, operation
walk, credentials, what schemas become, generators; the proofs of all safety properties of the cache's, the host's
and the command's passing runs; and those of the guard, of the canonical order, of operation ids and callbacks, of the components in the pool and of its references.

What would add most next:

1. Abstract specifications: a content store that `OciCache` implements when nobody is killed; a
   run as a function of its input that `Generate` implements when nothing fails.
2. `SchemaWalk` with discriminated unions and pattern properties, and the pool it ends with as the
   input of `Finalize`; the two walks composed into one parser.
3. `Manifest` (`resolve_pipelines`, limits) as the source of the pipelines of `Generate`.
