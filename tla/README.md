# JITDI in TLA+

JITDI is a container registry that builds images when they are asked for. A
request for `image:tag` that matches a rule makes the server pull the rule's base
image, add files or ollama models as layers, keep the result in a cache directory
(or in another registry) and serve it from there. This directory models the parts
of the program where several goroutines, the disk, the cluster and another registry
meet, and the functions they call, checks the models with TLC and proves the most
important properties with TLAPS.

Paths below are relative to the repository's root; `handler.go`, `serve.go` and
`mutates.go` are in `pkg/handler`.

## Inventory

| part | code | state | operations | talks to |
|---|---|---|---|---|
| manifest requests and the build gate | `handler.go` 328-507, `serve.go` 47-65, 212-242, `pkg/atomic/maps.go` | `buildMutex` (name to RWMutex), manifest files | `manifests`, `localManifests`, `buildAndSave`, `serveManifest` | image rules (which action), local storage (the build writes there) |
| local storage | `pkg/storage/local.go`, `pkg/builder/cache_file_layer.go`, `image.go`, `image_index.go`, `pkg/atomic/files.go`, `mutates.go` | blobs, `manifest.json` per tag, link files; in memory the `cacheFileLayer` objects of a build | `PushImage`, `PushImageWithIndex`, `PushImageIndex`, `saveLayer`, `saveManifest`, `Digest`, `Size`, `DiffID`, `WriteFile` | called by builds, several at once for different names |
| image rules | `handler.go` 119-218 | `imageRules` (config files), `imageCR` (cached list), `imageStore`, `crMut` | `startWatchImageCR`, `resetImageCR`, `getImageRules` | the informer (client-go) calls back, handlers read |
| patterns | `pkg/pattern/pattern.go`, `rule.go` | none | `parsePattern`, `matchSegments`, `patternLess` | used by the rules |
| rule actions | `pkg/pattern/action.go`, `rule.go` | an action's values, shared by the platforms of a build | `GetBaseImage`, `GetMutates`, parameter substitution | used by builds |
| forward mode | `serve.go` 67-210, `pkg/storage/pusher.go`, `puller.go` | `buildMutex`; images are in the other registry | `forwardBlob`, `forwardManifestBlob`, `forwardManifest`, remote pushes | the gate, go-containerregistry |
| registry rules | `handler.go` 94-103, 148-187, 220-291 | `registryRules` (`registryCR` and `registryStore` are never set) | `getRegistryRules`, `getAuthn`, `getPusher`, `getPuller` | pushers and pullers |
| layer contents | `pkg/builder/files/files.go`, `ollama/ollama.go`, `tar.go` | a pipe between two goroutines, open files | walking a directory, fetching a URL, reading a model, tarring lazily | read by local storage through `Compressed` |
| start-up | `cmd/jitdi/main.go` | none after start | `loadConfig`, `loadConfigFile`, `main` | fills the rules |
| routing, errors | `handler.go` 293-358, `serve.go` 21-45, `error.go` | none | `ServeHTTP`, `manifests`, `blobs` | chooses the handler and the rule |
| generated client, API types | `pkg/client`, `pkg/apis` | none | | |

What is hard in it:

* **The gate.** `LoadOrStore` and `Lock` are two steps, as are `Delete` and `Unlock`;
  a follower does not learn how the build it waited for ended; the look at the
  manifest comes before the gate, so it can be stale; the key of the gate, the path
  looked up and the path written are made from the name in different ways.
* **The disk.** Builds of different names share blobs and link files. The atomic
  package renames half a file when the copy fails and drops the error of its rename.
  A link file is written before the blob it describes is in place, never rewritten,
  and read at two points of a build. The server can die between any two writes.
* **The rules.** A list computed from the informer's store must not be cached after
  the reset for a newer object; a watch breaks and loses events; `imageStore` is
  written without a lock, and the panic that can follow must not leave `crMut` held.
* **The other registry.** A build is many calls, each of which may fail, or succeed and
  lose its answer; others read the registry meanwhile; any error of a look means "not
  there"; what is announced of a blob goes out before its bytes are fetched.
* **The pipe.** A layer is tarred by a goroutine while another copies it, and either
  may give up first; the sources change between the size in a header and the bytes.
* **The functions.** Matching is greedy, and the order of the rules is only as good
  as the comparison that sorts them; values are substituted in the random order of a
  map that builds of several platforms share; a directory is walked from two places.

`PROJECT.json` lists each hazard at its line, with the properties that cover it.

## Modules

```
ManifestService <-- implemented by -- BuildGate <-- MCBuildGate
                                        ^    ^-- BuildGate_proofs
                                      Forward <-- MCForward
                                             ^-- Forward_proofs
RuleView <--------- implemented by -- RuleCache <-- MCRuleCache
                                             ^-- RuleCache_proofs
                                      LocalStore <-- MCLocalStore
                                             ^-- LocalStore_proofs
                                      TarPipe <-- TarPipe_proofs
                           Pattern <-- Action <-- Routing
                              ^-- MCPattern <-- Pattern_proofs <-- Rule_proofs
                                     ^-- MCFunctions (with Routing, Sources, Startup)
                                            ^-- Functions_proofs (with Rule_proofs)
```

An arrow points to what is extended or instantiated. `Forward` is a composition: it
takes the actions of the gate from `BuildGate` as they are and puts the storage registry,
the remote pusher, the credentials and the clients around them.

An `MC` module gives constants their values for TLC; a `_proofs` module holds
theorems. Definitions called "Mutant" in a comment belong to no specification: each is
a plausible bug in the code, and shows that some property would notice it
(`PROJECT.json`, "mutants").

### BuildGate, implementing ManifestService

Requests are goroutines. `pc[r]` is where `r` is in `localManifests` and
`buildAndSave`:

| action | code |
|---|---|
| `Arrive` | `manifests` has found a rule and calls `localManifests` |
| `Stat` | `os.Stat(manifestPath)` |
| `Lead`, `Follow` | the two results of `LoadOrStore` |
| `RLock`, `RUnlock` | the follower's `RLock` and its deferred `RUnlock` |
| `Lock`, `LockGranted` | `mut.Lock()`; Go shuts new readers out while a writer waits, so a `Lock` that has to wait is a state of its own |
| `Build` | the body of `buildAndSave`: the moment its last write lands, with an outcome; `Filed` is what that leaves at the manifest's path |
| `Delete`, `Unlock` | the deferred function, and the error path of `localManifests` |
| `Serve` | `serveManifest` |

Mutexes are named by the request that allocated them. `SavedAs` is what
`name.ParseReference` does to a name on its way to the path that is written: a
constant, so that the theorems hold for any such function. TLC gets the identity
(names with a path and without a registry host) and Docker Hub's completion.

A build ends in one of four ways, the constant `Outcomes`: "ok"; "failed" before
anything was written; "torn", an error after a piece of `manifest.json` was renamed into
place; and "lost", *no* error though nothing was filed, because `atomic` drops the error
of its rename (`files.go` 21, 62-65). So a leader, too, may be told that a name is unknown
which it has just built, and `UnknownHasCause` says that nothing but this (and following)
leads there.

`ManifestService` is what a client may rely on: no map, no mutex, at most one build
of a name at a time, and each request answered once from what is filed under its name.
It does not promise that a build without an error has filed anything.

Cut off here: a build is one step for the others, because nobody else reads what it
writes before the manifest is there. Any error of `os.Stat` leads to the gate, as in the
code; a file that is there is taken to open when it is served (`serveManifest` answers
500 if it does not). Every request asks once; requests by digest read a blob and take no
part in the gate.

### LocalStore

Builds write to the cache directory, one disk operation per step. A *content* stands
for everything that is computed from it (digest, diffID, size), so "the size belongs
to the digest" is equality. `link`, `layers`, `docs`, `torn` and `tag` are the disk;
`mem[b]` holds the `cacheFileLayer` objects of build `b`: what the stream has computed
(`own`) and what a link file has told it (`diff`, `size`).

| action | code |
|---|---|
| `Request`, `Start` | the look at the manifest, the gate (here: no two builds of one image), and the first platform |
| `Link` | `saveLayer`'s first `Digest()`: a base layer knows it, a file layer has it from its link file |
| `Stat` | the cached blob is used if its size is the one claimed |
| `Copy`, `Sum`, `Encode`, `Rename` | the temporary blob, the second `Digest()`, the link file it writes, the rename |
| `Compute` | go-containerregistry's `mutate` computes config and manifest: diffID and size from the link file if the layer has read it, the digest asked for once more |
| `PutConfig`, `PutBlob`, `PutIndex`, `PutTag` | `atomic.WriteFile` of each document, in the pushers' order |
| `Change`, `Crash` | a source is overwritten; the server dies and restarts with what is on the disk |

The path of a link file has the path that a file is packed at and a digest of the
mutate's source, destination and mode (`sumFileInfo`), but not which file of a source
directory it is. `tarDirToDir` packs files of one directory at one path, and these share a
link file. `FirstOf[s]` is the first in the order of the walk of those that share the link
file of `s`, and `LinkOf(s)` names the file by it: in one image the first of them is
packed and read before the others, and what it left in the link file is taken for them.
`StoreAssumption` asks just that of `FirstOf`; where no source shares its link file
(`Alone`) it is the identity.

Each write has the outcomes its code allows. `atomic.WriteFile`: done; no temporary
file ("none", an error); the copy fails and the deferred `Close` renames the piece over
the target ("cut", an error); the rename fails ("lost", *no* error). A link file cut
short may decode with a shorter size (`Cut`) or not at all (`Junk`).

Left out: `fsync` and power loss (the code makes no claim there); the disk filling up
with temporary files; base images that move. The tag of a base image is resolved at every
build (`handler.go` 375-386), so with one that has moved what is built is another image,
not this one with a changed source; its layers are named by digest and have no link files.
Moving bases are in `Forward`.

### RuleCache, implementing RuleView

`cluster`, `watching` and `events` are the API server and client-go's reflector and
queue, as far as the handler depends on them: a watch delivers changes in order, a
broken one loses a suffix, the list after it queues every object that is or was there.
`Assign` is the unsynchronised write of the `imageStore` interface, in two halves.
`Apply`, `ResetLock` and `Reset` are the informer's store update and `resetImageCR`.
`Check` ... `Return` are `getImageRules`, line by line; `List` may panic on a
half-written interface, and the deferred `Unlock` runs. Versions number the states of
the store and exist only to tell old from new.

`RuleView` promises one view for everybody that never goes back: a lookup returns the
view of one moment between its call and its return, or is cut off.

### Forward, on top of BuildGate

`BuildGate`'s variables and the steps of its gate, with the other registry in the place
of the cache directory. `manifests[n]` is here the build that n's tag in that registry
is of, `tagged[n]` the version of its base image, `stored` all content it has been sent.

| action | code |
|---|---|
| `Look`, `LookAgain` | the two `puller.Get` of `forwardManifest`; any error of the first leads to the gate, one of the second to 500 |
| `Gate` | `Lead` ... `Unlock` of `BuildGate` |
| `Base` | `getPuller` and `puller.Get` for the base image |
| `Upload`, `PushByDigest`, `PushTag` | the calls of `PushImageWithIndex`, `PushImage` and `PushImageIndex`, in order; each may fail before or after the registry has taken it |
| `Ask` | a client asks for something its manifest leads to, by digest |
| `ManifestBlob`, `Blob`, `BlobBody` | `forwardManifestBlob`; `forwardBlob` up to its headers, and its copy |
| `Move`, `Crash` | the base images move on; the server dies and restarts with an empty gate |

`registryRules`, `getAuthn`, `getPusher` and `getPuller` decide which registries let the
handler in, from the Registry objects of the config files. A push of go-containerregistry
(blobs, then the manifest) is two steps: the layers, then the manifest. Left out: the
objects of the cluster (`startWatchRegistryCR` has no caller), HEAD requests (they stop
before the body), content that the registry loses or collects.

### TarPipe

The goroutine of `startTar` (`Open` ... `Finish`, a file at a time) and the `saveLayer`
that reads it (`NotRead` ... `Save`), with the pipe between them, sources that change
(`Change`) and operations that fail on either side. `length[f]` is the source now, `size`
what went into the header. `leaked` holds the files that `OpenReader` loses when `Stat`
fails. The gzip stream between pipe and file belongs to the reader: it copies until the
end or an error and then closes the tar.

### Pattern, Action, Routing

`parsePattern`, `matchSegments` and `patternLess` as functions over sequences of
characters, next to reference definitions: `IsReading` (what a match string may mean),
`IsInstance` (what a reference must look like), `Expand`. `Action` adds which rule a
reference is given to (a set: rules that tie are in no order), and substitution with the
set of results that the random order of a Go map allows; `BuildWith` is what
`buildAndSave` asks of an action, platform after platform. `Routing` is `ServeHTTP` with
`manifests` and `blobs`, up to the handler they choose.

### Sources, Startup

`Sources`: which files, at which paths, a file source or a model becomes, error paths
included: the list of files that become layers, one each. `tarDirToDir` calls itself inside
a walk that descends by itself, as the code does. `InImage` is what the link files make of
layers that share a key. `Startup`:
documents of config files, read turn by turn of the two loops (`Decode`, `LoadFile`), and
what `main` makes of them before it serves: a set of rules, since they are sorted, and for
each name the last of its registries, since they are written into a map.

`MCFunctions` runs all of these: a behaviour is one call with one input.

## Runs

| run | question | bounds | states |
|---|---|---|---|
| `gate` | Do builds of a name exclude each other, is every map entry deleted, do followers wait, who can get 404? Is everybody answered? Does the gate implement the service? | 3 requests, 2 names, builds that succeed, fail, tear the file and lose it | 88k |
| `gate_unknown` | Can a known name be "unknown" though no build fails? **Yes** | 2 requests | |
| `gate_alias` | Is what was built found? **Not for names that are completed** | 2 requests, 2 spellings of a name | |
| `store_safe` | Does a tag lead to a whole, coherent image, through a crash, and does a rebuild write it again? | 3 builds, 1 crash, an image and an index sharing a base layer and a model, two files sharing a link file | 168k |
| `store_faults` | What survives a failing disk, whom does a link file answer for, and can a build fail without a fault? | 3 builds, any 1 fault, 1 change of a source, two files sharing a link file in two images | 2.6M |
| `store_changing` | Are digest, size and diffID of one content when sources change? **No** | 2 builds, 1 change, 1 crash | |
| `store_torn` | Can a tag lead nowhere after a fault? **Yes** | 2 builds, 1 fault | |
| `rules` | One view of the rules that only moves on? Is the cached list the store's? Is the mutex given back? Do lookups return and converge? | 2 lookups, 2 objects, 1 change, 1 broken watch | 143k |
| `forward` | Does a tag of the storage registry lead to a whole image, and never back? Is 500 answered with reason? Do clients get what their manifest leads to? Is everybody answered? | 2 requests, an index of 2 platforms and a single image, 1 move of the bases, 2 faults or crashes | 117k |
| `tar` | Is a saved layer whole though its sources change? Do the goroutine and its files end with their reader, and both ends at all? | 3 files of up to 2 blocks, 1 change, 2 faults | 24k |
| `pattern` | Is a match string read the one way there is, is a match one, is none missed, can rules be sorted? Does a template mean one thing? Is every file among the layers to be, every model its own, every document counted? Does a request reach its handler and its rule? | see below | 805k |
| `dir` | Does a file of a directory have its own bytes in the image? **Not if one deeper down has its name** | 2 files, 2 levels | |

Why the bounds are enough: the gate's races need a leader, a follower, and a third
request that comes after the entry was deleted, for the same name or another. In the
store, two builds of different images share a link file while a third repeats one of
them; one crash or fault in any place is followed by builds that run into what it left.
The rules need one lookup to fill the cache while another reads it, and two objects: the
first list already takes the store through several versions, and a broken watch can
lose the deletion of one object while the other stays. An object that does not parse
counts like one that is absent; the theorems cover it. In forward mode one request
builds while another looks, follows, or builds again after a look that failed; the base
moves between two builds, or between two reads of one; two platforms are the smallest
index whose parts are apart from each other and from the tag. A tar of three files has a
first, a middle and a last; two faults can meet on both sides of the pipe.

`pattern` takes match strings up to 6 of 4 characters; patterns up to 5 segments (they
only see their neighbours, and five hold every neighbourhood of a wildcard) with
references up to 5 characters; triples of patterns with wildcards apart; templates of up
to 3 segments with up to 2 values and up to 2 platforms; directories with up to 3 files
or unreadable directories, up to 3 deep; pairs of models with colliding names; 2 config
files of up to 2 documents; images of up to 2 components, with up to 3 rules.

The violated runs are the findings of `PROJECT.json`, each found within seconds. `dir`
shows what comes of a shared link file in one image; the `store` runs have it in several
builds at once, with crashes and faults: both of their `MC` instances pack the files of a
directory, `file` and `twin`, at one path.

### Fairness

`BuildGate`: weak fairness of each request's own steps. Goroutines are scheduled, an
`RWMutex` admits whoever it can, and `Build` is assumed to end: the code sets no
timeout, so a hung upstream hangs every follower, and `Answered` says that nothing else
does. `RuleCache`: weak fairness of the informer's and each lookup's steps; strong
fairness of taking `crMut`, because `sync.Mutex` hands itself over to a waiter after a
millisecond; none for `Ask`, `Change` and `Break`. `Forward`: weak fairness of each
request's own steps (`Serves`), which include its calls of the registries: they are assumed
to come back, with an error or without, as builds are in `BuildGate`; none for new
requests, clients, moves and crashes. `TarPipe`: weak fairness of the goroutine and of
`saveLayer`, both always runnable unless they wait for the other; reading a source is
assumed to come to an end. Fairness is of the
steps that do not fail, so that no property rests on a failure to come.
`LocalStore` states only safety, and a function is one step.

## Proofs

All theorems hold for every value of the constants that satisfies the module's
`ASSUME` (`GateAssumption`, `CacheAssumption`, `StoreAssumption`, `ForwardAssumption`,
`TarAssumption`, `LatestAssumption`): any number of requests, names, lookups, objects,
builds, sources, platforms, files and faults, any `SavedAs` and any `Recipe`, strings of any
length over any characters.

`BuildGate_proofs`. None of the properties is inductive. `IInv` adds to the types:
`Registered` (the map holds exactly the mutexes of requests between `LoadOrStore` and
`Delete`), `Knows` (what name and mutex a request has at each step), `Exclusive` (both
sides of each mutex follow the goroutines), `Vouched` (an outcome belongs to a finished
build, "ok" comes with a file, and no request that goes on to serve had an error). From it:
`BuildsAreExclusive`, `EntriesAreLive`, `FollowersKeepOut`, `UnknownsHaveCause`, and
`ServiceImplemented`, which maps `building` to the request in step "build" (unique by
`Registered`) and takes each action to a service step or a stutter. Nothing is asked of
`Outcomes`: whatever of the four may happen, the theorems hold.

`RuleCache_proofs`. `CacheFresh` is not inductive, since a list is computed before it
is cached. `IInv` adds `Held` (the mutex is with whoever is between lock and unlock),
`Begun` (nothing is in the store before `imageStore` is set), `Filling` (who may cache
finds no cache) and `Fresh` (the cached list *and* the one about to be cached are the
store's unless a reset is due). From it: `LockIsReleased`, `CacheIsFresh`, and
`RuleViewImplemented`, where the view is the cached version, else that of the list about
to be cached, else the store's.

`LocalStore_proofs`. Four invariants, each under what it needs and no more, so that they
say which promise rests on what. `Types` holds always; its `Shape` says where a build is
in its recipe and that what it will describe a layer by is there when it has passed it.
`Sound`, while sources keep their content: a link file that decodes has the digest of one
of the sources that share it (`Fits`), an object's `own` is absent or its source's content,
and layers before `at` whose source is `Alone` are in the cache; faults and crashes do not
matter to it. `Lasting`, while no disk operation fails: link files are never undecodable
and, once they decode, always do; hence `mutate` finds the digest of a layer that was never
read, and `FaultlessSucceed`. Here changing sources do not matter. `Complete`, while neither
happens: of the sources that share a link file only the first is ever copied, for the
others come after it and find its link file and its layer (`Held`, `FirstBehind`); so a
link file and an object have digest, diffID and size of the first, a manifest is *the*
manifest of its platform (`Ideal`), with its layers stored (`IdealMade`), and config,
manifest and index are put before what names them (`Put`). From it: `LayersCohere`,
`TagsArePullable`, and `ResultIsStable`, with any number of builds and crashes. The runs
`store_changing` and `store_torn` show that neither condition can be dropped.

`LayersArePresent` and `ContentIsRight` take both halves, `Sound` and `Complete`. After a
fault they promise less of sources that share a link file, because less is true: one build
finds the link file of the first, another, whose write of it had failed, writes it anew from
the second, and a manifest made in between names a layer by a digest that is read from the
link file at two times. So the content is then only known to be that of one of the sharers,
and the presence of the layer only where there are none. A run without these exceptions is
violated by one fault.

`Forward_proofs`. `TagsAreWhole` speaks of the tag only; when it is pushed, what came
before it has to be known: `Sent` (of a build that is at its k-th push, the pushes before
k are in the registry). `TagMovesForward` needs that a build is not overtaken between its
look at the base and its tag: `Entries` (who builds has its entry in the map, so two do
not build one name) and `Behind` (the tag about to be replaced is not newer than the
build), with `Ages` (nothing is newer than the base). From it: `WholeTags`, and
`TagsMoveForward` under `OwnTags`: two names that are filed under one tag have two gates,
and one's tag may then replace a newer one of the other. The proof needs nothing of the
`RWMutex`, only of the map; a crash empties the map and ends every build with it.
`PartInv` follows an answer to its client: what was a tag when it was read is in the
registry for good (`Given`), only that is asked for, and no response ends as a success
with less than it announced (`Part`); hence `WholeParts`. `CauseInv` adds, while no call
fails, that a build ends with its tag (`Cause`) and that an entry of the map belongs to a
build under way (`Owners`), so nobody follows itself; hence `FailuresHaveCause`, under
`Admitted` (the registry rules have the credentials that both registries ask for).
`TypeCorrect` needs `Limits` beside these.

`TarPipe_proofs`. `IInv` says that without an error all files before the one at hand are
through (`Progress`), that the pipe is left as ended only when all are (`PipeState`), that
the reader keeps its file only after that (`ReaderState`), which handles are open at each
step (`Handles`), and that a goroutine that opened a file for a reader that is gone is at
its header (`Lateness`). From it: `BlobsAreWhole`, `NothingStaysOpen`, `WorkStops`.

`Pattern_proofs`. `patternLess` compares like a dictionary: `Weight` gives every place of
a pattern a number (its kind first, then the lengths of its literals, -1 behind the end),
and the first place where two numbers differ decides (`LessIsAbove`). That the least
differing place exists is the least-number principle, `Smallest`, from the library's
theorem that strict inclusion of finite sets is well-founded; that patterns which begin
alike have literals at the same places (`TakeTurns`) is where wildcards that stand apart
are needed. From it: `PatternLessOrders`, for patterns of any characters and lengths, and
`TriplesAreOrdered` for the triples of the run.

The second half is the parser. A recursive function is a `CHOOSE` of one that fulfils its
equation, so of each it is shown first that there is one, from one place of the string to
the next (`Upwards`: a set of numbers that holds 0 and with every number the next); then
its equation can be used like any definition. By it, `SegmentIs` says what the parser takes at a
place, and `ParseIsTheReading` that a string parses exactly if it is `SegmentsOf` some
places that part it. `PiecesAreCut` and `CutsArePieces` turn places of cuts into the pieces
of `IsReading` and back. From it: `ParsesTheReading` (what is parsed is a reading of the
match string), and `ParsesInOneWay` (there is no other, and what is refused has none). The
braces have names (`Opening`, `Closing`) in the lemmas because the translation to SMT does
not read them.

`Rule_proofs`. `matchSegments` cuts the reference from left to right; where each segment
ends is the cut of `IsInstance` (`MatchesAreInstances`), and values put together again in
its order are the reference (`ValuesPutTogether`), if no name comes twice. From it:
`MatchesRebuild`. The other direction holds for a pattern whose wildcards are apart with one
of them at the end, and not otherwise: a wildcard ends at the first place where the next
literal is found, so that the matcher is never behind any other cut
(`OpenEndedMatches`); only at the end does it matter that it may be before it. From it:
`OpenEndedAreMatched`.

Its second half is the template. `ReplaceEvery` goes over a text part by part (`IsPart`: a
name in braces, or a literal, which has none): a name in braces begins nowhere but at
its own part (`OthersDoNotBegin`), so that to replace one name is to fill the template with
one value more (`FilledOnce`). `FoldLeft` over an order of the map is followed name by name
(`InOrderIs`), and every order has all names (`OrdersAre`): `OrderDoesNotMatter`. The values
that `GetMutates` keeps between the platforms are followed the same way (`BuildRuns`): those
of the platform before are replaced (`GivenAgain`), hence `TemplatesAreFilled`. From it, in
`Functions_proofs`: `TemplatesMeanOneThing`. That names and values have no braces is needed:
a value with another name in it would be replaced or not as the order has it.

`Functions_proofs`. Models: a layer's link key has the path, the model and the work
directory, so two builds that share one share the model (`ModelsDoNotMix`, where the
manifest is apart from the blobs), and what is remembered for a path is its own content
unless the registry has changed the model: `ModelsAreWhole`. Routing: a rule that is
named like the reference is one literal, so nothing that matches is put before it
(`NamedRuleIsTaken`), and the last of `blobs` and `manifests` in a path is the one that
`ServeHTTP` cuts at, whatever the components of the image are called (`RequestIsRouted`).
From it: `RequestsMeetTheirRules`.

Config files: both loops are folds, followed turn by turn (`ConfigIsRead`, `FilesAreRead`).
`Listed` says of which places of a file a list is made, and `ListedIn` of which places of
all files: none is missing, and they are in order. So the last registry of a name in the
list is the last in the files, and it is what the map keeps: `ConfigAddsUp`, for documents
of any kind, and from it `StartupsAddUp`.

Directories: `tarDirToDir` walks all that is below a directory and calls itself for each
directory it comes to. The order of the walk is strict and total (`BeforeOrders`), so that
the ranks of `Walk` are its places and nothing is left out (`WalkIs`). `IsUnder` is the
equation of the recursion; it has a solution because there is less below what is below
(`LessBelow`, `UnderExists`), so it can be used like a definition. A file is then followed from
the directory it lies in up to the one that is packed (`FilesArePlaced`), each call putting
one name in front of its path: `DirectoriesArePacked`. It says that the file is in
the list of those that become layers, not that it is there once: the finding of `dir` is
about what else is, and what link files make of it.
From it: `EveryFileIsPacked`. Nothing is asked of the depth, the names or the number
of files, only that no file lies inside another (`IsTree`).

Checked by TLC only: the liveness properties (`Answered`, `Converges`, `LookupsReturn`,
`BothEnd`; fairness is out of the prover's reach). Every invariant and every action property
of a passing run is a theorem.

## Not modelled

* Generated code and API types (`pkg/client`, `pkg/apis`): no logic of this program.
* The branch of `getRegistryRules` for objects of the cluster, `startWatchRegistryCR` and
  `resetRegistryCR`: nothing calls them.
* A rule that changes while its image is built or after it is cached: the manifest is the
  only memory, no document says what should become of it, and every order is possible.
* `fsync`, power loss, a disk that fills up; a registry that collects what nothing names.
* HEAD requests, the JSON of error bodies, logging, the parsing of flags.

## Plan

Done: every component above. What would add most next: that the gate inside `Forward`
still implements a service, with a tag that is replaced.
