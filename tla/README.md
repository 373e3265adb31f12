# A TLA+ model of openhps-solid

This directory models the parts of `@openhps/solid` that keep state across
asynchronous steps: what its services store in a Solid Pod and in their own
key-value storage, request by request, with several calls in flight and with
requests that fail. TLC checks small instances; TLAPS proves the main results
for every value of the constants. Paths below are relative to the repository.

## The system

openhps-solid connects the OpenHPS positioning framework to Solid Pods. All of
it is promise chains in one JavaScript process per application; several
applications (or several calls of one) work on the same Pod, which is a plain
HTTP store with conditional PUT (`If-None-Match: *`), PATCH (insert triples),
POST (add to a container) and DELETE.

| Component | State | Operations | Interacts with |
|---|---|---|---|
| Property service (`src/common/SolidPropertyService.ts`) | none of its own; the property container, `property.ttl`, `.meta` and child containers in the Pod | `createProperty`, `addObservation`, `fetchProperties`, `fetchObservations` | Solid service for every request; TREE classes to choose a fragment |
| TREE/LDES classes (`src/models`) | relations of a node, members of a collection | `getChildNode`, `Relation.test` | property service |
| Solid service, resources (`src/common/SolidService.ts`) | none | `getDataset`, `getDatasetStore`, `createContainer`, `saveDataset`, `deleteRecursively`, `createThing`, `getDatasetSubscription` | the Pod |
| Solid service, access control | the ACL of a resource | `setAccess`, `getAccess` | the Pod |
| Solid service, sessions | key-value storage: WebID -> session, object -> session | `findSession*`, `linkSession`, `unlinkSession`, `storeProfile` | clients, data driver |
| Node client (`src/node`) | `session`, `currentSession` | `login`, `logout`, `onLogin`, `onRedirect` | identity provider, session registry |
| Browser client (`src/browser`) | `session`, `currentSession`, local storage | `login`, `handleLogin`, `handleRedirect`, `logout` | identity provider, session registry |
| Issuer configuration, client registration | cached configurations, stored clients | `fetchConfig`, `getClient` | clients |
| Data driver (`src/common/SolidDataDriver.ts`) | object -> document links | `insert`, `delete`, `findBy*` | session registry, Pod |
| Dataset subscription | one WebSocket | `create`, `subscribe`, `close`, events | the Pod's notifications |
| Property sink (`src/common/SolidPropertySink.ts`) | none | `onPush` | property service |

What is hard: every operation is a chain of requests with no transaction
around it. Calls interleave between requests; an application may stop between
two; a request may be refused, or never answered; a check made in one request
is used in a later one; some chains go on after their promise was resolved.
`PROJECT.json` lists these hazards line by line with the properties for them.

What makes each component correct:

- property service: what is acknowledged is written at a node that the root node
  is related to, and stays so; relations of the tree are true of the members behind them; nothing
  dangles in the Pod after a failure; nodes stay near their limit; calls end.
- TREE classes: `getChildNode` returns the candidate with the highest value, and
  a new relation moves no lookup but to its own node.
- Node client: the session found for a WebID is one of that WebID; a login that
  nothing overlaps leaves its session current, in memory and stored.
- browser client: a logout that has taken effect lasts; the session of a page has what it takes to be
  one; a page load that was interrupted is taken up by the next; loading ends.
- access control: the owner keeps control; nobody has access that no call asked for.
- reads: what a read yields was so; a read is answered unless its own request is not.
- data driver: an object that was inserted can be found and deleted; a deleted
  object is gone from the Pod; links point to stored data.
- subscription: each message is emitted once, the messages of an old channel in order.
- recursive deletion: what is reported deleted is gone, without orphans.

## Modules

| Module | What it is |
|---|---|
| `ObservationStream` | the property service and the requests it makes: state machine, faults, properties, refinement mapping, inductive invariant |
| `ObservationLog` | the abstract specification: an append-only, fragmented log of observations, and the answers to callers |
| `PropertySink` | the property sink: frames pushed to it, on top of (EXTENDS) `ObservationStream` |
| `ObjectStore` | the data driver: objects in documents, and links to find them; refinement mapping |
| `ObjectMap` | the abstract specification: a map of objects whose calls take effect at once |
| `NodeClient`, `BrowserClient` | the clients: logins, logouts, visitors, page loads, with sessions and profiles, `ClientRegistrar` and `IssuerConfigFetcher` |
| `PageSession` | the abstract specification of the browser client: the one session a page may show |
| `DatasetSubscription` | a WebSocket and its events |
| `RecursiveDelete` | deletions on a tree of containers |
| `AccessControl` | `setAccess` |
| `TreeNode` | `getChildNode` as an algorithm, against a definition by maximum |
| `PodReads` | what only reads: the find and count operations, `getThing`, `getDatasetStore`, `getDocumentURL` |
| `...Proofs` | the proofs of the module they are named after; `BrowserClientProofs` also those of `MCClients`, `ServiceProofs` those of `DatasetSubscription`, `PodReads` and `MCService` |
| `MCObservationStream`, `MCPropertySink`, `MCObjectStore` | constants for TLC |
| `MCClients`, `MCService` | constants, and the choice of one of several modules that share no state: a behaviour is one of `NodeClient` or `BrowserClient`, or one of the last five |

### ObservationStream

Pod state: `linked` (profile), `container`, `ttl` (`property.ttl` with the root
node), `stream` (`.meta`), `relations` (of the root node), `children` (fragment
containers), `members` (what the `.meta` of a fragment lists), `docs` (stored
observations). A fragment is named after a result time, so fragments are times.

Call state: a call of `addObservation` or `createProperty` is a process. `pc[c]`
names the request its chain waits for, or how the call ended. `child[o]` is the
local `childNode`. `tail[c]` is the second half of a `createProperty` chain
(`SolidPropertyService.ts:166-190`), a separate variable because at line 160 the
promise is resolved and only that callback returns: the chain goes on while the
caller does. When the caller does wait, `pc[c] = "tail"`.

| Action | Code |
|---|---|
| `Start` | a call is made |
| `FindFragment`, `FindNoFragment`, `FindNoRoot` | `findRootNode` and `getChildNode`, 314-341 |
| `LinkProfile`, `CheckContainer`, `RecheckContainer`, `PutContainer(Conflict)` | `createProperty` up to the container, `createContainer` |
| `ReadTtl`, `CreateTtl(Conflict)`, `PatchTtl`, `SaveMeta` | the rest of `createProperty` |
| `FetchNode`, `FetchFullNode`, `FetchNothing` | `fetchTreeNode` and the filter, 341-345 |
| `CheckChild`, `PutChild(Conflict)`, `SaveRoot`, `SaveChild`, `SaveObs`, `Reply` | 347-378 |
| `RequestRefused`, `NetworkFailure`, `TailRefused`, `TailNetworkFailure`, `Crash` | faults |

One action is one request with its answer. A GET whose answer cannot change
what the call does next (the profile, the root and child documents before their
PATCH) is merged with the PATCH, and its failures with those of the PATCH.

Taken from how the code uses the Pod, not from its source: a PATCH inserts
triples and nothing else; a PUT with `If-None-Match` of an existing resource is
a 412; the `.meta` of a container exists when the container does, and has no
node description before `createTreeNode`; `property.ttl` of a property the
service made holds its root node and no other `tree:Node`. Deletion and writers
other than this service are left out of this module.

`Written` is what the properties say of an observation that is stored: its node is
related to the root node and lists it, and its document is in the node's
container. That is what the code writes. It is not what the code reads:
`fetchObservations` asks `findAll` for `property.id`, which reads `property.ttl` and
follows no relation (`Followed`), and so returns none of the observations
(`FetchObservations`, run `fetched`). Nor is the member that a node lists the URL of
the document: the POST carries no slug (`SolidService.ts:563-573`), so the server
picks another one. A member and a document are one observation in the model; the
properties about them are about the order of writes, not about what following
the links would find.

`FindNoRoot` also covers `Bare` calls, whose `property.id` is the URL of the
container (as the repository's tests pass it): the first search reads the
container, which is not a `tree:Node`; `createProperty` then changes the id.

A GET that gets no answer leaves the call "hung": the handler in
`getDataset` (line 295) reads `ex.response.status` of an error without
`response`. A crash makes a call "lost".

### ObservationLog

`log[t]` holds the observations of the fragment that starts at `t`. An
observation enters one fragment, not younger than itself, once, while its call
is unanswered; "resolved" is answered only for what is in the log. Under the
mapping, `log[t]` is what is `Written` at the node (`WrittenLog`): the log says what
the Pod holds and in which order it gets there, not what `fetchObservations`
returns. A hung or lost call has no answer.

### PropertySink

A frame is its call of `createProperty`, an object in it is its call of
`addObservation`; both are calls of `ObservationStream`, whose variables and
steps are used as they are (`Work`, `Fail`). New are the answers of `onPush`
(`answer`) and when a call starts: the properties at once (`PrepareProperty`), an
observation when its property is there (`WriteObservation`). `Promise.all`
answers with the first rejection while the other calls go on: `RejectPush` needs
one rejected call, `ResolvePush` all calls resolved. All observations of a frame
have one result time. Crashes are left out: one would end all calls together.

The one property the sink knows is `PropertyType.POSITION`, so a frame has one.
Its frames and observations start one by one in the model, at once in the code:
a call does nothing before its first request is answered.

### ObjectStore

| Variable | Code |
|---|---|
| `exists`, `stored` | the documents in the Pod, and what inserts wrote into them: an insert stands for the triples it wrote |
| `sessionLink`, `uriLink` | the keys `<type>:<uid>` and `<type>:<sessionId>:<uid>` of the key-value storage |
| `dropped` | history: the objects of which the storage did not keep, or did not delete, a link without anybody noticing, until the next session link is set |
| `pc`, `seen` | the request a call waits for; the dataset a delete has read |

| Action | Code |
|---|---|
| `LinkSession`, `InsertUnauthorized`, `LinkDocument`, `ReadDocument`, `PutDocument`, `PutConflict`, `PatchDocument` | `insert`, 156-219, with `createThing` given a dataset |
| `FindSession`, `FindNoSession`, `FindURI`, `Unlink`, `LoadNothing`, `LoadDocument` | `delete`, 221-245 |
| `DeleteDocument`, `DeleteNothing`, `RemoveThing`, `RemoveConflict` | `delete`, 244-259 |
| `LinkSessionUnnoticed` | the `set` of `linkSession` (177) is rejected; nobody awaits it, so the insert goes on |
| `LinkDocumentFails` | the `set` of `linkObjectToSession` (186) is rejected, and the insert with it |
| `FindURIFails`, `UnlinkUnnoticed` | `SolidStorage.get` finds nothing, and `SolidStorage.delete` resolves, when they fail (`SolidService.ts:102-143`) |
| `RequestRefused`, `NetworkFailure`, `Crash` | faults |

An object has its URL from the application: that of a document, or a fragment
of one (`Fragmented`). `linkSession` and `unlinkSession` are not awaited, but the
storage is handed their request first, and serves requests in the order it is
asked, so the link changes in the step that makes it, or not at all. A delete that
finds no URL removes what it can and then fails (`unlinkOnly`). Where an unhandled
rejection ends the process, `LinkSessionUnnoticed` is a `Crash`. One session holds all objects. The order of the subjects in a dataset
is that of the server, so `LoadDocument` takes any as the first.

`Serial` is a client that awaits each call for an object before the next one
for it; calls for different objects in one document overlap all the same.

A request that gets no answer, and one under way when the application ends, may
have been done all the same (`MayBeDone`).

Taken from how the code uses the Pod: a PATCH adds the insert's triples and
creates the document if there is none; a PATCH that removes what is not there is
refused; a deletion of a document that is gone is a 404.

### ObjectMap

`data` holds the inserts whose data is there, `answer` how each call ended. An
insert or a delete takes effect in the step that ends it, or not at all; what is
`Within` an object, its neighbours in the document, may go with it. The mapping
takes `stored` as the data and gives a hung or lost call the answer "never". The
steps that link, look up and read are stutters: what this says is that they,
and the calls for neighbours that come between them, cannot be noticed.

### NodeClient

A call is a session: each creates one, and `callPc[s]` is the request it waits
for. `current` is `this.session`, `storedCurrent` the key `currentSession`,
`links` the keys `webId:<WebID>`, `user` what is stored of a session (only as
far as `findSessionById` and `login` tell it apart), `authenticated` what the
issuer has confirmed, `subject` and `found` are locals. `overlapped` is history:
the calls that ran beside another login or a logout.

| Action | Code |
|---|---|
| `StartLogin`, `LoggedIn`, `SetCurrent`, `GetUser`, `SetUser` | `login`, 76-115 |
| `VisitLogin`, `VisitRedirect`, `HandleIncomingRedirect` | `onLogin`, `onRedirect` |
| `LinkSession`, `FindLink`, `FindInfo`, `Relogin`, `Profile` | `storeProfile`, `findSessionByWebId`, `findSessionById` |
| `StartLogout`, `LoggedOut`, `DeleteCurrent` | `logout` |
| `Refused`, `SetFails`, `StorageFails` | the issuer or Pod refuses; the storage fails |

`SolidStorage` swallows the failures of `get` and `delete`; only `set` rejects. What is
stored of a session is several fields, each read by itself, so a failing storage
may show less of it than there is (`Readable`, `FindInfo`); a logout may leave it.

### BrowserClient

Two kinds of state: the storage and the issuer survive a page load
(`currentKey`, `userData`, `tokens`, `clients`, `codes`), everything else is of
the page (`url`, `chain`: the next step of `handleLogin`, `shown`:
`this.session`, `answer`, `loginEvent`). `LoadPage` may come between any two
steps. A code in the URL works once. `expected` is history: the session this
load should end with, from what storage and URL hold when it starts.

`handleLogin` goes on after it was answered: without a stored session (134-136)
and after a rejection (165), and so does the model (`GetCurrent`,
`ForgetSession`, `EmitLogin`). An error within `handleRedirect` is emitted
(`Caught`). With a listener nobody is logged in then; without one `emit` throws and
`handleLogin` is rejected at once, with `currentSession` still stored.

The user is stored as logged in (`StoreLoggedIn`, 276) before the URL loses its code
(`TakeSession`, 285-301), and a page load may come in between.

A logout deletes what is stored of the session and then `currentSession`, each through
`SolidStorage.delete`, which swallows a failure. `ended` holds the sessions whose
logout has taken effect, by either deletion: one whose user data stayed is over
once `currentSession` is gone, unless a `handleLogin` that has shown it has yet to
store it. A page that is loaded between a failed deletion and the other finds the
session again; that is the code's behaviour and not a violation of `LogoutLasts`.

The stored `webId`, the issuer check and the verifier are taken together: the
context of a session is stored or not. Several tabs are left out.

### PageSession

A session is new, away, redeemed, confirmed, over (`stage`); a page chooses one
(`choice`), either by redeeming or among the confirmed ones, and shows it
(`shown`) or gives up; then it shows nothing new until it is loaded again
(`fresh`). The mapping computes the stage from `userData`, `codes` and `ended`;
the page is fresh while `handleLogin` has not got past showing a session
(`Unshown`), and it has chosen once the tokens, or the stored session, are there
(`ChosenSession`). Storage, client registration and issuer configuration are
stutters. `Logout` need not end the session; `Forget` does. A code that is lost to a failure or a page load is a session redeemed
for good: nothing confirms it any more.

### DatasetSubscription

The call (`subscribing`), the socket, and the messages: `arrived`, `decoding`
(being deserialized), `activities`, `errors`. `Open` is `onopen` and the
`subscribe` that follows, to the URI of the socket: the parameter of
`createSubscription` hides the dataset's. `Break` before `Open` leaves the call
unsettled. `Deserialized` ends in any order, and after `Close`. An error is emitted
in the step that ends the deserialization, so `errors` is a set.

### RecursiveDelete

`step[d][r]` is what call `d` does with resource `r`, `listing[d][r]` what `r`
held when it was read. The recursion is in the steps: the datasets below are
entered together (`Descend`), a container is deleted when all below are
(`DeleteLast`), the first failure goes up while the rest goes on
(`PassFailure`). Other calls delete in the same tree, and another client creates
resources. `getDataset` of the target is never settled without a response or a
document URL (`LoseRead`, `unanswered`), and neither is the deletion then. External:
the server deletes a container only when it is empty.

### AccessControl

A list is a set of rules. `Fetched` builds it without a request in between, from
an empty list with the owner's rules: `hasAcl` holds of whatever
`getSolidDatasetWithAcl` returns. External: a list that `createAcl` made has the URL
of the resource's list and a log of changes, so `saveAclFor` sends a PATCH with
the rules as insertions. `Save` therefore adds them to the rules that are there;
what earlier calls granted stays, and no call can restrict it. A save that is
refused, or whose answer is lost, may have been done. `group` is the field of the
caller's objects that line 635 writes. `getAccess` only reads.

### TreeNode

All sequences of relations up to a length, with all four kinds of relation over
numbers and dates. `GetChildNode` filters as the code does (`Passing`) and takes
the last of the order that `sort` makes. The sort itself is described by what the
language promises of it: an order that agrees with the comparison and leaves
equals where they were (`Precedes`, `Sorted`).

### PodReads

A read finds a session, the URL of its document if it was given a path, and the
document, while other clients write and delete it. `seenThere` and `seenGone`
are history. A read hangs when its request gets no answer, and when
`getDocumentURL` fails, which is awaited in the executor of a promise; `lost` are
these calls, and `ReadsSettle` excuses them and no other.

`findByUID` gives `getThing` a path. `getThing` of the library takes the URL of a thing
and throws for a path (and `deserialize` would throw for the null of another
version), so it never resolves: it is rejected when the document is answered,
whatever it holds. Other calls of `getThing` are `Things`.

## What is checked

| Run | Instance | Shows |
|---|---|---|
| `faults` | 2 adds (1 bare), 1 creation, all in flight; 2 times; limit 2; 2 faults of any kind | types, order of the Pod, soundness of the tree, acknowledged means written, the inductive invariant, the refinement |
| `lone` | 3 adds, 1 creation, one at a time, 2 faults | lone calls are refused only after a fault, never with a 412, and never overfill a node |
| `settling` | 2 adds, 1 creation, 2 in flight, 1 fault of any kind, fairness | as long as nothing fails, calls settle and relations get their node; a call that misses the root node repairs it unless something fails again |
| `sink_pushes` | 2 frames in 2 pushes, one of 2 objects and one of none, 1 time, 1 network failure, fairness | a resolved push is stored; of a frame that is the only one, something is stored unless a request fails; a push is answered unless a request fails |
| `objects_faults` | 3 inserts, 2 deletes, all at once, 2 objects in 1 document, 1 fault of any kind, fairness | acknowledged data is lost to a delete only; the inductive invariant; as long as nothing fails calls settle |
| `objects_serial` | 3 inserts, 2 deletes, calls for one object in turn, 2 faults of any kind | what is stored can be deleted and links stay paired, unless the storage dropped a link unnoticed; the refinement of `ObjectMap` |
| `clients` | Node: 2 logins of 2 WebIDs, or 2 visitors of one, 1 storage failure, refusals without bound; browser: 2 logins, 4 page loads, 1 failure | links to the right WebID, visitors that can be found, interrupted page loads, the refinement of `PageSession` (which includes that logouts last) |
| `service` | 4 messages (one malformed, one without activity, one on which a listener throws); 3 deletions in a tree of 5 with 1 newcomer, 1 refusal or lost read; 5 calls of `setAccess` with 3 shared objects; 3 relations; any 3 of 5 reads of 1 document, 2 failures | events, deletions, access lists, lookups and reads |
| `fetched`, `missing_node`, `root_repair`, `thing_deleted` | the smallest instance of each | counterexamples to what the repository says, see below |

Bounds. Two times make every case of `getChildNode`: no candidate, an older
one, one of the same time. A limit of 2 has nodes that are empty, open and full (with a
limit of 1 no node would ever be open); the limit only enters through a
comparison with a cardinality.
`MaxFaults` bounds faults, `Concurrency` the calls in flight; each call is made
once. `Concurrency = 1` is a client that awaits each call. Two pushes of which
one has two objects make every overlap of the sink: two creations, two
observations of one frame, and observations beside a creation; the second frame has
no object, which leaves room for the fault and for liveness in one run (what three
or more observations of several frames do is proved for the safety properties, and
left out for `PushesSettle`). In `ObjectStore` two inserts
and two deletes of one object, beside one insert (and delete) of a neighbour in
its document, give every order of two writers and a deleter.

`FragmentBound` is checked in `lone`, where the bound is `Limit - 1` and is
reached; that calls in flight add to it is proved. In `clients` four loads let a
redirect be interrupted twice and the session be restored after; the two clients
are in one run, and the five parts of `service` in another, because they share
no state and no application runs both clients. In the tree one container with
two resources lies below the target, so failures pass two levels, and three
deletions overlap on both. A read of a document is a single request, so one of
each kind of read meets every order of a read and a writer.

Fairness (`FairSpec`): weak fairness of each call's steps and of each tail's
steps. A request that is sent is answered and the event loop runs its callback;
nothing forces a call to be made or a fault to happen. `FairSinkSpec` adds that
a push that was begun goes on, as `writeFrame` starts all its calls in one turn
of the event loop. `FairSpec` of `ObjectStore` is fair to each call once made, and so are
`DeleteFairness` and `PodReadsFairness`. `SubscriptionFairness` lets a socket open
or break, as it does after a connection timeout; nothing forces a message.
`BrowserFairness` runs the chain of a page; page loads are bounded, so the last
one stays open. Liveness that a fault defeats says so: a call settles, or
there was a fault. `RootRepaired` is about a call that finds the container without a
root node after any number of faults, and allows for one more. `DeletesSettle` and
`ReadsSettle` excuse the call's own missing answer only, not a refusal.

Every property of a passing run has a mutant of the code that breaks it; the
mutants stand before the definitions they mutate.

### Where the code and its documentation part

1. `missing_node`: a call that stops between root and child leaves a relation
   on which later calls fail for good.
2. `root_repair`: the repair of a half-made property is not awaited. Two first
   frames pushed to the sink at once meet it without any fault, and then nothing
   of either need be stored.
3. `thing_deleted`: `delete` resolves and leaves an object that is a fragment.
4. `fetched`: an observation that was acknowledged is not among those that
   `fetchObservations` returns, which is to fetch all; the assertion that would show
   it is commented out in `test/specs/solid.property.service.spec.ts:146`.

Met while modelling, without a run of their own:

- the fragment that replaces a full one is named after the result time alone, so
  equal result times bring a node above the limit of its filter;
- `createContainer` checks and creates in two requests: two observations of one
  frame at a new time race for the fragment, and the frame is rejected without
  any fault; two inserts into a new document leave one rejected likewise;
- `delete` removes the links before the data, so after a failed delete the
  object is stored and can no longer be found; deleting a fragment deletes its
  document when the first subject there has the document's URL;
- without an answer, `getDataset` never settles: its handler reads `.status` of no
  response (`SolidService.ts:295`); nor does it when `getDocumentURL` fails, as
  with `findByUID` of an object that is not linked (`:290`); the deletion of a URL
  waits for the same function (`:459`);
- `findByUID` never resolves: it gives `getThing` a path (`SolidDataDriver.ts:80`);
- `insert` does not await `linkSession` (`SolidDataDriver.ts:177`) and `delete` does not
  learn that a link could not be removed, so a storage that fails leaves stored
  objects that nobody finds, or links to nothing, behind calls that resolve;
- a logout resolves when the storage has failed to delete what it keeps of the
  session, and a page that is loaded before `currentSession` is deleted shows the
  session again (`browser/SolidClientService.ts:53-57`);
- when `handleLogin` is rejected and nobody listens for "error", `emit` throws in the
  handler that should keep the build going (`:42`), and `_initialize` never resolves;
- two logins that overlap, or a login and a logout, read each other's
  `this.session` (`node/SolidClientService.ts:107`): the profile that is stored
  is then that of the other login, or the login is rejected. Either way a WebID
  is only linked to its own sessions;
- `handleLogin` emits the login event with nobody after it was rejected, or
  answered with nobody (`browser/SolidClientService.ts:165`);
- an issuer that cannot be reached turns a page load into a logout: the stored
  configuration is never used (`IssuerConfigFetcher.ts:150`);
- the subscription is sent the URI of its own socket (`SolidService.ts:361`), and
  a socket that does not open leaves the call unsettled;
- an exception of a listener for activities is emitted as an error of the
  subscription;
- `setAccess` takes nothing back: it only inserts, so a call with fewer modes than an
  earlier one changes nothing; it writes `group` into the
  caller's object, so an object once used for everyone grants a group later; a
  call that grants the owner itself inserts no rule with the owner's full control;
- `createThing` merges into the thing the caller passes (`_mergeDeep`), which
  shares its arrays with the dataset afterwards;
- a relation with the number 0 is no candidate of `getChildNode`;
- `setThing` is always rejected: `createThing` hands `saveDataset` the dataset
  and the URL in the wrong order (`SolidService.ts:755`).

## What is proved

`ObservationStreamProofs`, for any finite sets of calls, any times, limit,
concurrency and faults (the assumptions are the `ASSUME`s of
`ObservationStream`):

- `Invariance`: `IInv` is inductive. It joins the order of the Pod, the
  soundness of the tree, one clause per stage of a call (`AddStages`,
  `CreateStages`: what the requests before it have established), and two counts.
  The stages are needed because, say, that a relation has its container depends
  on the call having created it two requests ago.
- `PodOrderCorrect`, `TreeSoundCorrect`, `AckedWrittenCorrect`, `TypeCorrect`
  follow from it. For types, `getChildNode` needs a latest candidate to exist:
  `LatestExists`, from the well-foundedness of the naturals.
- `FragmentBoundCorrect`: `FragmentBound` is not inductive; `AdmissionBound` also
  counts the calls past the filter. A new one is admitted with fewer than
  `Limit` members stored, one of them the fragment's own (`Founded`), and at
  most `Concurrency` calls in flight; `SaveChild` only moves a call from one set
  to the other. With one call in flight TLC shows that the
  bound is reached.
- `LogImplemented`: every step is a step or a stutter of `ObservationLog`.
  `SaveObs` is the one that enters it in the log (`WrittenStep`); `CallMove` shows that a
  call that ended never moves again, though its tail does.

- `LoneCallsCorrect`, for `Concurrency = 1`: no 412 ever, and no refusal before
  the first fault. `LoneStage` says that the one call in flight finds unchanged
  what it has seen missing. The rest of an earlier `createProperty` chain may
  still be at work, so the second part (`Unfailed`) ties what is half done to the
  one call that is finishing it; without the condition on faults it is false.

`PropertySinkProofs`: `StreamImplemented` shows that every step of the sink is a
step of `ObservationStream` or leaves it alone, so `IInv` holds under the sink;
`SinkInv` adds that a push that resolved has only resolved calls, which stay so
(`CallMove`), and `ResolvedWritten` turns that into `PushStoredCorrect`. `LogBeneathSink` joins the two refinements:
the sink with its calls implements `ObservationLog`.
`SomethingStoredCorrect`, for a frame of any number of objects: its observations
make each other fail, but only a fragment that one of them has made stops
another (`ObservationStage`), and once a fragment was made one of them is past
everything that could stop it (`FrameAlone`).

`ObjectStoreProofs`: `Invariance` needs `SeenOwn`, that a delete only removes
what it has seen of its own document, so that a lost insert always points to a
delete that has read. `SerialInvariance` assumes `Serial` and carries
`OneAtATime` and `StageSound`: the link an insert has set, unless the storage dropped
it, and the data a delete has seen, are still there when the call relies on
them. `LinksPairedCorrect` follows: a link without a session link is one of an object
in `dropped`. Three theorems also assume that no object to be deleted is a fragment
(for those that are, `thing_deleted` is the counterexample):

- `DeletedIsGoneCorrect`: a delete that resolves leaves nothing of its object.
- `DeletableCorrect`: stored data has both links until a call for it fails or the
  storage drops one (`LinkedSound`); a call that makes an object intact again has deleted its data.
- `MapImplemented`: every step is a step or a stutter of `ObjectMap`. `CallMove`
  reduces the actions to four kinds of move, and `Gone` shows that a deletion
  takes all of its object and nothing of another document.

`NodeClientProofs`: `NodeInvariance`. `LinksOwnWebId` is inductive with the types:
a link is stored for the WebID that the session linked has at that moment, so
the argument is that a session once confirmed never changes its account.
`LoneLoginLinkedCorrect`: a login that nothing has overlapped is the only call at
work, and what it has written so far is still there (`LoneLogin`, stage by stage).
`SuccessFindableCorrect`: a visitor's session is confirmed before it is linked,
and known until its logout (`Visit`).

`BrowserClientProofs`: `BrowserInvariance` adds to the types three parts.
`CodesUsed`: whoever has tokens has used its code, and a code is issued only to
a login that left the page. `ChainSound`: what each stage of `handleLogin` relies
on, in particular that nobody is shown before the last. `EndedSound`: of a
session whose logout has taken effect only tokens are left, or no key
`currentSession` that leads to it nor a chain that would still store one
(`Forgotten`); so it cannot be restored, and it has no code left to come back with. `LogoutLastsCorrect` and
`ShownIsLoggedInCorrect` follow; both hold however often a page is reloaded.
`LoadShowsSessionCorrect` says whose session a page shows. `ContextKept` is about
all earlier pages: a code that is not used keeps its context in the storage.
`OnPath` follows the session a load started with from stage to stage.
`PageImplemented`: every step is a step or a stutter of `PageSession`. Each action
has its lemma; `StagesStay` and `StagesMove` say what a step does to the stages.
`PageSound` adds what the invariants above leave open: only a login that left the
page has something stored, and only a session that was begun is being redeemed.

`RecursiveDeleteProofs`: `DeleteInvariance` carries `Whole` (what is left is in a
container that is left, which the server's refusal to delete what is not empty
gives) and `TargetGone`; a target once deleted stays so because newcomers are
no targets. It needs no statement about the recursion. `FailsForAReasonCorrect`
does: a deletion that is alone, with no newcomer and no refusal, does not fail.
`AloneInv` says that what is gone is what the call has deleted (`TreeIsRest`),
that it works downwards from its target (`TopDown`) and that what a container
still holds is in the listing read of it (`NothingMissed`). That no resource is
below itself is `NestingAssumption`: a resource has a longer URL than its container.

Of `DeletesSettle` all but the fairness is proved, on any tree and whatever fails
or overlaps. `NeverStuckCorrect`: a deletion that is not answered has a request
under way or a callback to run, unless it is `unanswered`. `Structured` is the shape of the recursion that
this needs: what a container waits for was entered with it. Of the containers
that wait, one that lies deepest waits for nothing that waits (`DeepestGoesOn`).
`AlwaysForwardCorrect`: no step takes a resource back (`Rank`), and each step of a
deletion takes one further, so it has at most six for each resource.

`AccessControlProofs`: `AccessInvariance` says that what a call has built is what it
asks for, with its owner's rules (`Own`, `Controlled`), and that every rule of the
resource comes from such a list; `GrantKeeps` is the lemma on a single grant. A
`group` field that is set got there for a reason (`GroupReason`). `AgentGrantedCorrect` adds that the `group` field of
an object is set only by the calls that use it. `AccessTypeCorrect` are the types.

`ServiceProofs`: `ReadsInvariance` needs that a call under way has seen the
state its document is in. `SubscriptionInvariance` places each message:
one of an old channel is emitted or ignored at once, one of a new channel is being
deserialized or was emitted (`MessagesPlaced`), and none comes before its socket
(`ChannelOrder`); `EachEmittedOnceCorrect` follows, for any number of messages.

`TreeInvariance`, `GreatestChosenCorrect` and `LookupsStayCorrect`, also there, are
about any number of relations. That a stable order of the candidates exists would
take an induction over their number; instead it is part of the invariant
(`CanBeSorted`), and a new relation is put into an order that exists
(`PlaceInOrder`). Whichever order is chosen, its last is the one position that all
others precede (`ChildIsLast`, `LastIsOne`), which is all the two theorems need.

`PartsImplemented` and `ClientsImplemented` show that a behaviour of a composition
that a run checks is one of each of its parts, so what is proved of the parts
holds there; `ServiceTypeCorrect` and `ClientsTypeCorrect` are their types.

`LoginAnswered` is about `handleLogin`, not about `_initialize`, which a rejection that
nobody listens for keeps from resolving (`:42`).

Every safety property and every refinement that a passing run checks is proved. Only
model-checked: liveness (`CallsSettle`, `RelationsResolve`, `RootRepaired`,
`PushesSettle`, `LoginAnswered`, `SubscriptionLive`, `DeletesSettle`, `ReadsSettle`),
which the prover does not reach. The invariants that only serve a proof (`SinkInv`,
`SerialInv`, `LoneInv`, `LoneFrameInv`, `PathSound`, `PageSound`, `AloneInv`,
`Structured`, `TreeInv` and so on) have no run of their own: what the runs check
follows from them.

## Plan

Every component with behaviour has its module; the clients lack the two variants
of a login under "Not modelled". What is left, in this order:

1. Abstract specification: a list of grants that `AccessControl` implements.
2. Composition: the data driver over the sessions of `NodeClient`, with a logout
   during an insert.

## Not modelled

The query engine and RDF serialization (external; modelled by what they read
and write), the generated vocabulary in `src/terms`, data classes without
operations, `SolidPropertySource` (throws), strings as values of relations
(`localeCompare` depends on the locale), `interactiveLogin` and `universalAccess`
(library calls with nothing around them), the mobile `handleRedirect` option,
several tabs with one storage, build scripts and examples.
