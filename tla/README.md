# A verification of bb-remote-asset

bb-remote-asset serves the Remote Asset API: clients *push* the digest of a
blob or directory under URIs and qualifiers, and *fetch* by URI and qualifiers.
A fetch is answered from a store of such references if it can be, and is
otherwise sent to an upstream fetcher, whose result is stored as well.  This
directory has TLA+ specifications of that service and its parts, TLC
configurations that check them, and proofs, which TLAPS checks, of every safety
property and every refinement that the passing runs check.

## Inventory

### Components

| Component | Source | State | Operations | Correct when |
|---|---|---|---|---|
| Caching fetcher | `pkg/fetch/caching_fetcher.go` | none of its own; uses the asset store | `FetchBlob`, `FetchDirectory` | hits are current, unexpired and new enough; misses have a reason; what is cached is in the CAS, and under the URI it came from |
| Push server | `pkg/push/push_server.go` | `allowUpdatesForInstances` | `PushBlob`, `PushDirectory` | success means all Puts were made; failure leaves a prefix of them |
| Authorizing and validating fetcher | `pkg/fetch/authorizing_fetcher.go`, `validating_fetcher.go` | policies | refuse or pass on | nothing is stored or returned against a policy |
| Asset store | `pkg/storage/asset_store.go`, `blob_access_asset_store.go` | references → assets, in a blobstore backend | `Get`, `Put` | an atomic map |
| Authorizing asset store | `pkg/storage/authorizing_asset_store.go` | policies | `Get`, `Put` | as above |
| Action cache asset store | `pkg/storage/action_cache_asset_store.go` | actions → results in an Action Cache, objects in the CAS | `Get`, `Put` | implements the asset store; entries mention only what the CAS has |
| HTTP fetcher | `pkg/fetch/http_fetcher.go`, `auth_headers.go` | a temporary file and an open response per download | `FetchBlob`, `FetchDirectory`, `CheckQualifiers` | what is stored has the checksum; every URI is tried; headers go where they belong; no file and no response is left |
| Remote execution fetcher | `pkg/fetch/remote_execution_fetcher.go` | none | `FetchBlob`, `FetchDirectory` | executes stored actions only; a returned directory is complete |
| Qualifiers | `pkg/qualifier/` | none | sorting, sets, commands | references are canonical |
| Error fetcher, error push server | `pkg/fetch/error_fetcher.go`, `pkg/push/error_push_server.go` | none | return an error | a server without an asset cache stores nothing |
| Metrics and logging | `pkg/fetch/`, `pkg/push/` | counters | pass on | not modelled |
| Assembly | `cmd/bb_remote_asset/main.go`, `pkg/configuration/` | none | build the chain | the order of the decorators, with an asset cache or without |

### Interaction

A fetch runs through a chain of decorators: authorizing → metrics → logging →
validating → caching → HTTP, remote execution or error fetcher.  A push runs
through metrics → push server.  A server without an asset cache has no caching
fetcher, and an error push server.  Otherwise both end at one asset store, which an authorizing
decorator guards with the fetch policy for `Get` and the push policy for `Put`.
The store is a blobstore backend or an Action Cache; the fetchers, and the
Action Cache store, also use the CAS.  There are no locks and no shared memory:
each RPC is a goroutine whose effects are its requests to the store, the CAS
and the upstream, and they interleave with those of all others.  Whatever is
shared is outside the process, so it survives a crash of it.

### What is hard

* Each operation makes several requests (a push of *n* URIs makes *n*+1 Puts, a
  Put to the Action Cache at least five requests), others run in between, any of
  them may fail with or without its effect, or have it when the call is long
  over, and the process may die after any.
* Content and the reference to it are stored separately, and a checksum is
  checked when content is downloaded and not when it is found in the cache.
* A fetch that went upstream long ago may store over a later push.
* Two timestamps decide whether an asset answers a fetch, one of them is made
  before the Put, and one of the two backends does not keep the other.
* The same facts have several representations (sorted URI lists, digests of
  actions, qualifiers with and without volatile ones), and a slip in one of
  them makes references collide or never be found.

The list `hazards` in `PROJECT.json` has these at their lines, with the
properties that are about them, and says of the rest why none is.

## Modules

| Module | What it is |
|---|---|
| `Assets` | requests, references, assets, and the check of a cached asset |
| `RemoteAsset` | the service: concurrent fetches and pushes over one store |
| `CachedHttp`, `MC...` | the service and the HTTP fetcher together |
| `MCRemoteAsset` | the instances of `RemoteAsset` |
| `RemoteAssetProofs` | type correctness of `RemoteAsset`, proved |
| `RemoteAssetRegister` | the store as a register, proved |
| `RemoteAssetPuts` | what is put in the store and why, proved |
| `CachedHttpProofs` | the composition implements both parts; checksums and headers end to end, proved |
| `AssetStore` | abstract specification of the asset store |
| `ActionCacheAssetStore`, `MC...` | the Action Cache store, which implements it |
| `ActionCacheProofs` | its invariants and that refinement, proved |
| `Upstream` | abstract specification of the fetcher below the caching fetcher |
| `HttpFetcher`, `MC...` | the HTTP fetcher, which implements it |
| `HttpFetcherProofs` | its invariants and that refinement, proved |
| `RemoteExecutionFetcher`, `MC...` | likewise the remote execution fetcher |
| `RemoteExecutionProofs` | its invariants and that refinement, proved |
| `ListLemmas` | lemmas on lists and on counting in them, for the proofs |

`AssetStore` and `Upstream` are what connects them: `RemoteAsset` takes a Put to
be one atomic step that may fail with or without effect, or with a late one,
as `AssetStore` says,
and takes a fetch from upstream to fail or to return a digest,
of the right digest function, that is in the CAS, as `Upstream` says.

### Representation

* A URI is a number, so that they are ordered as `sort.Strings` orders them.
  The URIs of a *request* are a sequence; those of a *reference* a set, since
  `NewAssetReference` sorts them.  Qualifiers are elements of a small set.
* A digest is a model value, `HashFunction` gives the function it was computed
  with.  In `ActionCacheAssetStore` the objects that the code itself makes and
  hashes are terms: equal terms are equal digests.
* A time is a natural number, 0 the Unix epoch, which the code takes for "not
  set".
* A policy is a set of instance names.

### RemoteAsset

`pc[c]` is where call `c` is in its handler; `index`, `fetched`, `todo` and
`draft` are the handler's variables.  Each action ends at a request to something
outside: `LookupHit`/`LookupMiss` are one turn of the loop in
`getAndCheckAsset`'s callers, `Download`, `Upload`, `UploadFails` and
`FetchFails` are the upstream, `CacheSingle` and `CacheList` the two Puts of a
miss, `PushList` and `PushEach` those of a push, and `PutRefused` and `PutFails`
are the ways any Put fails.  Blob and directory operations share their actions,
as their code is the same but for the type of the asset and for one check: only
`FetchBlob` validates `oldest_content_accepted` (`CachingRefusal`, with
`InvalidTimes` as the time stamps that are refused).  `log`, `began` and `before`
are history variables: the Puts that took effect, how many of them had when a
call began, and the calls that had succeeded by then; they decide nothing.

What the store knows an asset by is `Key(ref)`: the reference itself or, if the
store is an Action Cache, what the action of the reference depends on.  Where a
command is generated (one URI, and a `resource_type` in `Generators`) this
leaves out the qualifiers that its script does not look at, and references
collide; `ActionCacheAssetStore` has the translation object by object.  The
properties of the store are therefore stated by key.

`backend` is the asset cache the server was configured with; it never changes,
and `Backends` are the choices.  With `"none"` a fetch goes upstream at once and
is answered when its content is in the CAS, and every push is refused.  `late`
are the Puts whose calls have given up on them (a deadline, a client that has
gone, a crash of the connection): `LatePut` applies them at any later time, or
never.  An error fetcher is an upstream that only takes `FetchFails`.

Simplifications: the Get and the check of what it returned are one step (the
clock may tick between two URIs, not between these two).  A request names a
URI once, which the code does not ask for: a repeated one makes it put the same
reference again.  A push has a digest: one that names its digest function and
has none is stored by the code as an asset without a digest over the blob
access backend, and refused by the Action Cache store, where it is modelled
(`ValidDigest`).  A handler
whose client has gone sees its requests fail, which is a `get`, `put` or `late`
fault.  Content that reaches the CAS late is no fault: it is content with its
own digest.  `cachingFetcher.FetchBlob` has a branch for a response with an
error status and no error; no fetcher here returns one.  An error fetcher that
is configured with the status OK, which returns neither an answer nor an error,
is excluded by `UpstreamAssumption`.

### CachedHttp

The module `EXTENDS RemoteAsset` and has an instance of `HttpFetcher` whose CAS
is the one of the service.  A call that is at `"fetch"` or `"upload"` takes the
steps of the HTTP fetcher.  Those that `RemoteAsset` sees are steps of both at
once: an error of the HTTP fetcher is `FetchFails` with that code, `Match` is
`Download` of that content, `Store` is `Upload`.  A conjunction of two actions
may be disabled where neither is; that deadlock is checked, and that calls
complete, shows that the HTTP fetcher does nothing that `RemoteAsset` does not
expect of an upstream, and `ImplementsHttpFetcher` that the service does nothing
to it that `HttpFetcher` does not expect.  What the validating fetcher lets pass
is what `CheckQualifiers` of the HTTP fetcher supports, and what references leave
out (`http_header_url:...`, `bazel.auth_headers`) is no `checksum.sri`
(`HttpIsUpstream`).  Nor does the HTTP fetcher support `resource_type`, so that no
fetch through it shares the key of another reference.  `AnswersAreVerified` is stated with the very `Verified` that
`StoredIsVerified` of `HttpFetcher` is about: content with the checksum of one of
the `checksum.sri` qualifiers of the request, if it has any.

### ActionCacheAssetStore

A Put uploads the Action, three more objects, walks the directory depth first
(`unread` is the stack of the recursion), uploads the Tree and then writes the
result; every one of these is a step.  A Get is one.  The last request of a Put
may take effect late (`LateResult`), as it may for `AssetStore`; a Put on its way
carries the call it is of, so that two calls with equal Puts have one each.  A
reference has at most one `resource_type` that a command can be generated for.  The platform is a
constant of the process and left out.  The CAS loses nothing here; that
entries whose content was evicted are hidden is the affair of the completeness
checking of the storage backend.  It implements `AssetStore` for operations
whose references are translated to different actions, which
`NoQualifierIsIgnored` makes precise: no reference has a qualifier that a
command generated for it leaves out.  `AC_ignored_qualifier` shows what happens
to others, and the operations of `AC_store` have none.

### HttpFetcher, RemoteExecutionFetcher

Steps are the HTTP request, reading the body, the check, and the Put; or the
two uploads, opening the execution, its result, reading the Tree and the Put of
each directory.  Which of several `checksum.sri` qualifiers comes first is up to
the client, hence a choice; a request has one `bazel.auth_headers` at most.  An
`ExecuteResponse` with an error status and no result is in `Results` as what it
reads like, exit code 0 and no outputs.  The outputs of an execution are taken to
have digests of the function that the fetch asked for: `ExecuteRequest` does not
name it, an execution service that is not told goes by the digest of the action,
and `FetchBlob` passes on the digest as it comes.  The clause on the digest
function of `ImplementsUpstream` rests on this.

`sent` has a request for every URI that was tried, one that could not be built
included.  `TriesEveryUri` is about `NotFound` and success; a checksum that does
not match and an error of the CAS end a fetch early, with `Internal`.
`HeadersStayWithTheirUri` is about the requests that the fetcher makes itself;
redirects are followed by `net/http`.

`files` are the calls that have a temporary file and `bodies` the responses that
are open.  `BadStatus` leaves its response open, as the code does;
`OpenBodiesAreErrors` says that this is the only way to.  A crash closes all
connections and leaves the files: nothing in the code removes them later, so
`NoTemporaryFiles` exempts the calls that a crash ended.  (A crash while there
is neither a call nor a connection changes nothing, and is no step.)  `EmptyHash` are the
`checksum.sri` qualifiers without a hash, which ask for nothing.  A crash while
the Put or an execution is under way may leave its effect; for the properties
this is a failed Put, or a failed execution, followed by the crash.

## Runs

| Run | Instance | Shows |
|---|---|---|
| `RA_service` | 2 calls, 13 requests of all kinds, 3 instances, all faults, blob access backend or no asset cache | type correctness, authorization, no dangling reference, OK means stored, prefixes, hits unexpired |
| `RA_contending` | 3 calls, a fetch and two pushes of one URI whose references share an action, blob access and Action Cache backend, failing and late Puts, crashes | hits are current, calls that succeed one after the other are seen in that order, misses have a reason where entries are replaced |
| `CH_downloads` | 2 calls, 3 fetches and a push that meet on 2 mirrors, with and without an asset cache, failing and late Puts, crashes, fairness | no URI of a fetch is left out of the lookup, checksums hold through the cache, headers reach the mirror they are for, implements `HttpFetcher`, every call returns |
| `AC_store` | 2 calls, 9 operations, CAS and Action Cache failures, late results, crashes, clients uploading | referential integrity, complete trees, implements `AssetStore` |
| `HTTP_downloads` | 2 calls, 10 requests, 2 mirrors that fail in every way, crashes | checksums, all URIs, files, responses, headers, implements `Upstream` |
| `RE_fetch` | 2 calls, 4 requests, 6 results, CAS and cluster failures, crashes, fairness | stored actions, complete directories, implements `Upstream`, every fetch ends |

and six that TLC finds violated, each a place where the code does not do what
its documentation, a comment or an error text says:

| Run | What happens |
|---|---|
| `RA_expiry_lost` | Push an asset that expires, over the Action Cache; time passes; a fetch returns it. An `ActionResult` has no place for `expire_at`. |
| `RA_fetch_needs_push` | An instance may be fetched from and not pushed to. A fetch of something not cached downloads it, cannot cache it, and fails with `PermissionDenied`. |
| `RA_pushed_not_found` | Push with a volatile qualifier, fetch with the same qualifiers: never found, since only the fetch strips it from the key. |
| `AC_ignored_qualifier` | A generated command leaves `checksum.sri` out and so does the input root: a Get with and one without it have the same action. |
| `HTTP_two_checksums` | Of two `checksum.sri` one is not checked; the test for this is dead code, by a shadowed variable. |
| `RE_uris_not_tried` | An execution "succeeds" without its output, and the fetch ends with `NotFound` before the next URI. |

### Bounds

*Calls.* The properties of `RA_service` relate at most two calls: one that
writes and one that reads, or one that fails and one that goes on.  That a value
was *replaced* before a fetch began takes two writers and a reader, hence the
three calls of `RA_contending`; they meet on one URI, and the loop over URIs is
in `RA_service` and `CH_downloads`.  For everything but the two liveness
properties the theorems below do away with the bounds.  *URIs.* Two: a list and
its members, a first and a last.  The requests name them in decreasing order, so
that sorting matters.  *Time.* `MaxTime = 2` makes an asset that expires at 1
valid (at that very time) or not, and one stamped 1 or 2 too old or not for
`oldest = 2`; 3 is a time that `CheckValid` refuses.  *Faults.* `RA_contending`
and `CH_downloads` have neither failing Gets nor evictions, with which a miss
would need no other reason.  `RA_service` has all faults, and the theorems cover
every number of calls with all of them.  *Digests.* Two of the same function, so
that a value can be replaced, and one of another function.  *Directories.* A
root that has the same subdirectory twice, which has a leaf, so that the walk
has depth and a shared node.  *Requests* are listed in the MC modules: one for
each way to be refused and to be admitted.  Symmetry is over calls only (they
are interchangeable), and not used with liveness.

Deadlock is checked in all runs: `Quiescent` steps when all calls are over, and
nothing else may stop.

### Fairness

`JointFairSpec` of `CachedHttp` has weak fairness of the steps of each call,
together: a goroutine that can run is run, and the store, the CAS and the
HTTP servers answer, if only with an error or by breaking the connection.
`FairSpec` of `RemoteExecutionFetcher` is the same for the CAS and the cluster.
The code sets no deadlines of its own; a server that neither answers nor breaks
off is cut off by the deadline of the client, or not at all.  There are no
locks, and one step of a call never disables another call's, so nothing
stronger is needed.  Nothing makes a client send a request, a fault happen, a
late Put arrive or the clock tick.

## Proofs

The theorems hold for all values of the constants that satisfy the assumptions
in the modules that declare them, in particular for any number of calls, URIs,
requests, directories and faults.  Each module of proofs has one inductive
invariant, from which its theorems follow; its parts were checked with TLC on
the instance of the run first.

### The service: RemoteAssetProofs, RemoteAssetRegister, RemoteAssetPuts

* `TypeSafety`: `TypeOK`.
* `HitsAreCurrent`: `HitIsCurrent`, under every fault and for every backend, by
  key: over an Action Cache the value that a fetch finds may have been stored
  under another reference with the same action.
* `HitsRespectRealTime`: `HitRespectsRealTime`, likewise.
* `HitsAreUnexpired`: `HitIsUnexpired`, if the backend is not the Action Cache.
  `RA_expiry_lost` shows that the assumption is needed.
* `MissesAreJustified`: `MissIsJustified`, if the store answers every Get and
  does not drop entries.  Crashes, failing and late Puts are allowed.
* `AccessesAreAuthorized`, `CachedContentsAreInCAS`, `CachedUnderOwnUri`,
  `SuccessMeansStored`, `PartialPushesArePrefixes`: the five properties of what
  is put in the store, under every fault and for every backend.

`TypeOK` is not inductive: that `PushReference(req[c], uris)` is a reference
depends on the digest function of the request being supported, which follows
from the request having been admitted.  `Typed` adds this (`Admitted`: a running
call has a request that is not refused, of the kind its program counter
implies, and a lookup is at one of its URIs), and `TypeCorrect` proves it
invariant, with a lemma for each group of actions.

For the register, `Register` adds two facts.  `StoreIsLastPut`: under each
key the store has what the last entry of the log with that key wrote.  It may have nothing (entries are dropped), and that is why a hit needs
only `DOMAIN store`.  `BeganBefore`: a call began when the log was no longer
than it is now.  So when a fetch hits, what it returns is the last Put under
its key in the log of that moment (`StoreIsLastPut`), and the entries that
come later are beyond `began` (`BeganBefore`): a late Put may bring back an old
value, but then it is the last Put.  `MissIsJustified`
needs an induction over the URIs that were searched (`LookedUp`), and that
nothing is ever gone from the store (`Kept`).  A reason to miss, once there,
stays: the log keeps what it has (`JustifiedStays`), and an unacceptable
asset does not become acceptable with time (`AcceptableOnce`).

A property of the log is not inductive by itself, since a late Put enters the
log when its call is over and nothing of it is left but its variables.  `Puts`
therefore says of every Put, in the log or on its way, what entitles its call to
make it (`Entitled`), in terms that stay true whatever becomes of the call
(`EntitledStays`): a call that makes Puts keeps its request and its download
(`Freezes`), the CAS and the log only grow.  A Put comes from nowhere else than
a handler that is about to make it (`Sources`, `NextIsEntitled`), and what the
handler has put until then is in `SoFar`.

`HitIsCurrent` takes whatever was applied last for current, so that an old value
that is stored late counts as a new one.  `HitRespectsRealTime` is about the
order of *calls*: what a call has stored and reported is hidden from later
fetches only by a call that overlaps it, comes after it or fails.  That a slow
fetch caches over a push which it overlaps, and that a Put whose call has failed
may arrive at any time, is what the code does and the property allows; that
calls which reported success, one after the other, are seen in another order is
what it excludes.  `RealTime` has why: a Put takes effect after its call began
(`PutsFollowBeginning`), the Puts of a call that succeeds before anything begins
after it (`PutsPrecedeLaterCalls`), and only calls that failed leave Puts behind
(`LatePutsFailed`).  The mutant of the property is a handler that answers while
its Put is on its way.

### The HTTP fetcher: HttpFetcherProofs

`HttpTypeCorrect`, `HttpStoredIsVerified`, `HttpTriesEveryUri`,
`HttpNoTemporaryFiles`, `HttpOpenBodies`, `HttpHeaders`, and
`HttpImplementsUpstream`, the refinement.  The invariant adds to the properties
themselves which URIs a call has tried at each place (`Progress`: those before
the one it is at, and this one too once it has a response), that the checksum a
call goes by is one of its request and has been compared when the call is about
to store (`GoesByChecksum`), and that a file is in use until the call is over
(`FilesInUse`).

### The remote execution fetcher: RemoteExecutionProofs

`ExecutionTypeCorrect`, `ExecutionActionsAreStored`,
`ExecutionDirectoryIsComplete` and `ExecutionImplementsUpstream`.  The invariant
adds what is in the CAS at each place: the action and the command, the outputs
of an execution that succeeded, and of a tree every directory that is not still
on the list of those to put (`NoneIsForgotten`).  `ExecutionAssumption` has that
the directories of a Tree are named by the digest function of the Tree itself,
as the REv2 protocol has it.

### The Action Cache store: ActionCacheProofs, ListLemmas

`StoreTypeCorrect`, `StoreReferentialIntegrity`, `StoreTreeIsComplete` and
`StoreImplementsAssetStore`.  The invariant says what a Put has uploaded at each
place (`Uploaded`, `DirectoriesAreRead`), and of every entry of the Action Cache
and every result on its way that the CAS supports it.  The walk over the
directories is an invariant about counting (`Complete`): each directory is
listed plus left on the stack exactly as often as it is an entry of one that is
listed, which is what `TreeIsComplete` says when the stack is empty.
`ListLemmas` has how these counts change when a list gets one more element.

The refinement maps a reference to the entry of its action, and is right if
different references have different actions.  That is what
`ActionsTellReferencesApart` proves from `NoQualifierIsIgnored`, which
`StoreImplementsAssetStore` assumes; `AC_ignored_qualifier` violates it, and with it
the conclusion.  That a result on its way stands for one pending Put needs
`OneLatePutPerCall`.

### The composition: CachedHttpProofs

`JointImplementsService` (`JointSpec => Spec`) and `JointImplementsHttpFetcher`
(`JointSpec => ImplementsHttpFetcher`): the composition implements both of its
parts.  With the first, all theorems about the service hold of it, and the two
end-to-end properties follow from `Puts`, `HitIsCurrent` and `JointInv`: the HTTP
fetcher works on the request as the client sent it (`SameRequest`), what a call
has downloaded has passed the check (`DownloadIsVerified`), and what was sent has
headers of the client for that URI (`SentByCalls`).  `JointAnswersAreVerified`: an
answer from upstream is what the call downloaded; a hit is of a Put in the log
under the same key (`HitIsCurrent`), hence the same reference
(`KeysOfHttpReferences`), which a push made or a fetch of what
it had downloaded (`Entitled`), for the same checksums, because references leave
none out (`ReferencesKeepChecksums`).  `JointHeadersReachTheirMirror` is
`SentByCalls`.

### Not proved

`CallsComplete` and `FetchesEnd` are model-checked only: they need fairness and
`ENABLED`, which are out of the prover's reach.  So is induction over data: that
the tree of a directory lists what a *recursive* definition of "below" would is
not stated; `TreeIsComplete` states it by counting, which needs no recursion.
No module has a `RECURSIVE` operator.  The properties of the six violated runs
are false, and the theorems that would contradict them have the assumptions
that exclude them.

## Not modelled

* Metrics and logging, which pass requests and answers on and write counters and
  lines that nothing reads; the creators of storage backends and the code
  generated from `.proto` files, which have no behaviour of their own; the
  errors of a configuration with which the server does not start.
* The text of the shell scripts, and the parsing of checksums and headers, of
  which the outcome is a constant (`Malformed`, `EmptyHash`, `Expected`,
  `Headers`).
* The reuse of connections and the redirects of the HTTP client, which belong
  to `net/http`.
* CAS contents that vanish, and Action Cache entries that others wrote.
* Requests that repeat a URI, and pushes without a digest over the blob access
  backend.

## Plan

In this order, all of it done:

1. `Assets`, `RemoteAsset`: the service with and without an asset cache, its
   safety and findings; type correctness and the register theorems.
2. `AssetStore` and `ActionCacheAssetStore`: the refinement, with late Puts.
3. `Upstream`, `HttpFetcher`, `RemoteExecutionFetcher`: the refinements, with
   crashes; liveness.
4. `CachedHttp`: the composition, with liveness.
5. Proofs of the invariants of `RemoteAsset` about Puts.
6. Proofs for `ActionCacheAssetStore`: its invariants and the refinement.
7. Proofs for the two fetchers: their invariants and the refinements.
8. Proofs for `CachedHttp`: both components implemented, checksums and headers.

What could come next: an instance of `HttpFetcherProofs` below `CachedHttp`, so that
`JointImplementsHttpFetcher` carries `NoTemporaryFiles` and `OpenBodiesAreErrors` to
the composition as well; the composition of `RemoteAsset` with
`ActionCacheAssetStore` in place of an atomic store; and with
`RemoteExecutionFetcher` in place of the HTTP fetcher.
