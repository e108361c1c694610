# A formal model of the remote hash table (SD-Projeto4)

TLA+ modules, TLC configurations and TLAPS proofs for the client/server hash
table in this repository. Line numbers refer to the files under `src/`.

## 1. The system

A **server** (`table-server <port> <n_lists>`) keeps one hash table with
chaining. **Clients** (`table-client <ip>:<port>`) connect over TCP and put,
get and delete keys, ask for the size and for all keys. Nothing is persisted.

| Component | State | Operations | Correct when |
|---|---|---|---|
| list (`list.c`) | `size`, `frst`, `last`; nodes with `next`, `prev`, `entry` | create, destroy, add, remove, get, size, get_keys, free_keys | both directions and `size` agree; nothing unlinked stays allocated or is used again; it behaves as a sequence of entries |
| entry, data (`entry.c`, `data.c`) | a key and a sized value | create, destroy, dup | freed once, by the list |
| table (`table.c`) | array of lists, `nElems`, `nLists` | put, get, del, size, get_keys | a key has one entry, in the bucket it hashes to; answers are those of a map; counters count |
| messages (`message.c`, `message.h`, `base64.c`) | none | to and from octets | a message survives the round trip |
| read and write loops (`read_write.c`) | what is left of the buffer | `read_all`, `write_all` | all octets, in order, or an error |
| client stub and network (`client_stub.c`, `network_client.c`) | a socket; globals `sockfd`, `server`, `nbytes` | connect, one request and its reply, close | each call returns the answer to its own request |
| interactive client (`table-client.c`, `normal_cicle`) | the stub | commands until `quit` | |
| benchmark client (`table-client.c`, `put_cicle`, `get_cicle`) | shared `key_number`, `ngets`, a mutex; a connection per thread | loops of puts or gets; `main` sleeps, cancels, prints | a number is used once; the printed number covers the puts; threads make progress |
| server network (`network_server.c`) | listening socket, `tp`, array of thread ids, mutex | accept, handler thread, receive, send | each accepted connection is served by its own thread; every request gets one reply |
| skeleton (`table_skel.c`) | the table pointer | `invoke` | a request becomes the operation it names and its result the reply |

How they interact: a command becomes a call of the stub, the stub makes a
message, `network_send_receive` writes it and waits. On the server the main
thread accepts a connection, creates a handler thread with the address of `tp`,
and **joins it**. The handler loops over receive, lock, `invoke`, unlock, send.
`invoke` turns the message into the reply in place.

What is hard here: the handler reads `tp` after the thread was created; a
request passes through two socket buffers, a thread and the mutex; clients quit
or die at any moment, with or without an unread reply; the server dies of
several ordinary requests; a read of a closed connection never returns; the
counters drift and the answers depend on them; the octets of a message come in
pieces of any size; the benchmark's threads share a socket variable, `strtok`'s
place and a mutex that is held while the server is waited for, and are cancelled
in the middle of it. `PROJECT.json` lists each hazard
with its line and the property that watches over it.

## 2. Modules

| Module | Models | Kind |
|---|---|---|
| `EntrySeq` | a list as a sequence of entries: `ListAdd`, `ListRemove`, `ListGet`, `KeyList` | operators |
| `EntrySeqTheorems` | what these operators do to keys and values | lemmas |
| `Table` | `table.c`, one action per outcome of each operation | specification |
| `TableProps` | its invariants, action properties, refinement | properties |
| `MapSpec` | what a user of the table can count on | abstract specification |
| `TableProofs` | the inductive invariant and what follows from it | proofs |
| `TableRefinement` | the table implements the map; others untouched | proofs |
| `LinkedList` | `list.c` pointer by pointer, with its properties | specification |
| `AbstractList` | a list as a sequence, with its crashes | abstract specification |
| `LinkedListProofs` | the pointers are a list and implement the sequence | proofs |
| `Protocol` | messages, `invoke`'s replies, what unmarshalling does to a key | operators |
| `RemoteTable` | clients, sockets, accepting thread, handlers, mutex, over `Table` | specification |
| `RemoteProps` | the properties of the whole | properties |
| `RemoteMap` | an atomic remote map | abstract specification |
| `RemoteProofs` | the inductive invariant; one thread per connection, one place per call | proofs |
| `RemoteRefinement` | the whole implements the atomic remote map | proofs |
| `Commands` | what `normal_cicle` makes of a command line | operators |
| `Base64` | `base64.c`: encoding and decoding of octets | operators |
| `Messages` | `message.c`: the octets of a message and back | operators |
| `Wire` | one connection octet by octet: `write_all`, `read_all`, the receivers | specification |
| `Connection` | a connection that carries whole messages | abstract specification |
| `WireProps` | the properties of `Wire` | properties |
| `WireProofs` | base64 and messages survive the round trip; framing, turns, no deadlock; the octets implement whole messages | proofs |
| `BenchClient` | the benchmark process over the server of `RemoteTable` | specification |
| `BenchProps` | the properties of the benchmark | properties |
| `BenchProofs` | numbers, the printed count, the deadlock, shared sockets | proofs |
| `MCTable`, `MCLinkedList`, `MCRemote`, `MCWire`, `MCBench` | constants for TLC | instances |

Definitions named `Mutant: ...` in their comment are altered copies of the
definition that follows; no specification uses them. Each property of a passing
run is violated once the copy named in `PROJECT.json` takes its original's place.

### Table

`lista` maps a bucket to its list; `nElems`, `nLists` are the fields of
`table_t`. `alive` is FALSE once the process is dead. `pc`, `i`, `result` are
the loop of `table_get_keys`, which is the only operation in several steps
(`GetKeysBegin`, `ScanBucket`, `GetKeysEnd`). `ret` records the last operation
and its answer.

`table_put` is `PutNew` or `PutReplace` by what `list_add` returns. `table_get`
is `GetNone` when `nElems` is 0 and `GetLookup` otherwise. `table_del` is

- `DelEntry`: the key shares its bucket; it is unlinked;
- `DelSole`: the key is alone in its bucket; `list_remove` dereferences a null
  `prev` (list.c:135) and the process dies;
- `DelMissing`: the bucket holds other keys; -1;
- `DelPhantom`: the bucket is empty; `list_remove` returns 0 (list.c:121), both
  counters go down and the answer is 0.

`WildPut`, `WildDel`, `WildGet` are keys whose `hash` is not an index: `char` is
signed, so bytes above 127 may give a negative remainder, and `n_lists` is
whatever the command line says. `ScanCrash` and `EndMarkCrash` are the writes
behind the array of `table_get_keys` and the walk of `list_free_keys` past an
array without an end mark. These are undefined in C; the model lets the process
die or go on unharmed. `HashSum` is a constant function: the sum of a key's bytes.

### LinkedList

Nodes and entries are cells of two heaps; `malloc` takes any free cell, `free`
gives it back. `AddNew`, `AddReplace`, `RemoveLast`, `RemoveFirst`,
`RemoveMiddle`, `RemoveSole`, `Destroy` perform the assignments of the branches
of `list.c`. The list is seen through `Visited`, the nodes a loop from `frst`
comes to. `ImplementsList` maps the cells to the sequence `Contents`: this is
what justifies sequences in `Table`.

### RemoteTable

A client is one run of the interactive program and connects once. `cpc` is
where it stands (`spin`: inside a `read_all` that never returns; `broken`: its
socket was closed after a failed call). `inbox` and `reply` are the socket
buffers of the server's and the client's end, `closed` says how the client's
end was closed, `queue` holds connections nobody has accepted. On the server
`mpc`, `n`, `tp` belong to `network_main_loop`; `hpc`, `hsock`, `hmsg` to the
handler threads, numbered as they are created; `mtx` is the mutex. The table
is an instance of `TableProps` whose keys are pairs: the word and the bytes that
happen to follow it in memory, because `buffer_to_message` copies a key without
an end mark (message.c:186, 214-215). `Receive` chooses these bytes freely.

What the code uses of TCP is modelled from its use: a close with unread data
resets the connection, otherwise the peer reads 0; a write to a closed peer
succeeds; one to a reset connection fails; the death of a process closes its
sockets; `listen` with 0 keeps one connection waiting (`Backlog`). Once the end
of the other side's data has been read, reads go on returning 0 even if a reset
follows, as on Linux. Numbers of closed sockets are not used again. A message is
written and read whole, which `Wire` justifies.

A user types the lines of `Commands`. A line makes a call, is ignored, or ends
the program: `quit`, but also an empty line and a missing argument, on which
`strcmp` or `strlen` gets a null pointer. At the end of the input
`fgets` leaves the first word of the line before, and line 208 takes one character
off it at each turn: again lines, the last of them empty. What ends the program closes its socket and has the same
effect on everything else, so `Quit` is one action.

`Invoke` is `invoke` under the mutex: one step for most operations, several for
getkeys. `AcceptAbort` is the abort of `realloc` once the array of thread ids,
which never grows, has been overrun (three connections accepted). The fourth
connection has been accepted by then (line 67), so its client is one whose server died, not
one that was still in the queue.
`ServerKilled` is the operator's signal, the only way the server stops; with it
the server can die at every step of every client and thread.

### Messages, Wire, Connection

Here keys and values are sequences of octets and characters their codes.
`Marshal` is `message_to_buffer`, `Unmarshal` is `buffer_to_message`. `Kept` is what a
receiver holds of a message: opcode, keys and numbers as they were, and of a
value the octets as they were but the size of their base64 text (message.c:196,
224). That this is not the size that was sent is what run `wire_size` shows. The
server copies as many octets as the size says (data.c:60), so it stores and later
returns a value with a tail of other memory; the tail itself is not modelled, and
`Received` of `Protocol`, which `RemoteTable` uses, passes a value on as it is.

`Wire` has the two ends of one connection. `at` is where each program stands, `out` what
`write_all` has yet to write, `in` what the receiver has gathered, `stream` the
octets on the way. `Write(s, n)` and `Read(s, n)` are single turns of the loops that
move `n` octets, as many as the socket and the field allow; `FieldEnd` is the
receiver's knowledge of how far the field it reads goes; `Interrupted` is EINTR. `Fails` and
`ReadNever` are the two ways a connection with a dead peer looks, `Ends` is the
death of either process between two octets. Which answer follows a request is not
the concern of this module: the server answers anything.

In `Connection` a message is posted and delivered in one step each, the same
message, and is lost only with its receiver. In the refinement a message counts as
posted with its last octet written, and a received one as what it says (`Content`):
the octets of its values without the size that is noted with them. This is what `inbox` and
`reply` are in `RemoteTable`, where values have no sizes.

### BenchClient

`Clients` are the sockets of the benchmark process, each with the number of the
thread that called `socket`, and their state is that of `RemoteTable`. `wpc` is where a worker
stands, from `strtok` (`address`, `port`, `token`) over `network_connect` (`socket`,
`connect`, `connecting`, `keep`) to the loop (`lock`, `call`, `wait`, `count`).

- `saved` is strtok's hidden pointer. Reading it (`Port`) and leaving it at the
  end (`Token`) are two steps; a thread that finds nothing left gets NULL, and
  `atoi` ends the process.
- `sockfd` is the global. `ConnectSocket` uses what it holds then, `Keep` what it
  holds later. Connecting a socket that another thread connects or has
  connected fails, and `exit(-1)` ends the process (`Dies`).
- `cmtx` is the client's mutex, `LockClient` to `Count`. A call on a socket that is not
  connected is a SIGPIPE.
- `main` cancels the workers in order, reads the number without the mutex and
  returns. A cancelled worker goes on to its next connect, write, read or (if a put
  has failed) printf and ends there, with the mutex if it holds it
  (`Cancelled`). `pthread_mutex_destroy` of a held mutex has no effect.
- `ProcessCloses` is the kernel that closes the sockets of the dead process.
- `EarlierPut` lets a key be there before, so that gets can succeed.

The octet behind the copied address, which has no end mark
(client_stub.c:14-16), is taken to be zero, as in fresh memory. Between a failed
connect and `exit` the other threads are given no step.

## 3. What TLC checks

All runs switch the deadlock check off: a server that has crashed, or clients
that have all gone, is a state where the system really stops.

| Run | Instance | Shows |
|---|---|---|
| `table` | 5 keys, 2 values, 2 buckets, counters down to -2 | placement, counters, getkeys, refinement of `MapSpec` |
| `list` | 3 keys, 2 values, 3 nodes, 4 entries | consistency of the pointers, no lost node, refinement of `AbstractList` |
| `remote` | 2 clients, 2 words with 2 tails each, 1 value, 3 calls, fair threads | no call lost or doubled; refinement of `RemoteMap`; accepted clients are answered |
| `remote_many` | 4 clients, 1 word, 3 calls | one thread per accepted connection, past the third |
| `wire` | 2 keys, 4 values, 3 lists of keys, 2 results, 6 octets on the way | framing, round trip, refinement of `Connection`, arrival |
| `bench` | 2 threads, 2 calls, puts or gets | numbers, the printed count, shared sockets, the deadlock |

- `BucketHome`, `OneEntryPerKey`: a key is where `table_get` looks, once.
- `CountersDrift`: `nElems` and `nLists` fall behind the true numbers by the
  same amount and never exceed them. (They are *not* the true numbers: see below.)
- `KeysAnswerExact`: when getkeys answers, it answers every stored key once.
- `OthersUntouched`: an operation changes the entry of its own key; all others
  keep bucket, order and value.
- `ImplementsMap`: answers are those of a map, except that get answers NULL
  while the count stands at 0 and a deletion of an absent key may succeed. The
  exceptions are the code's; run `table_get` shows what is wrong with the first.
- `WellLinked`, `NoNodeLost`, `EntriesOwned`, `ImplementsList`: for the pointers.
- `CallInOnePlace`: while the server lives, the call of a waiting client is in
  exactly one of: the server's buffer, one handler, the client's buffer.
- `OwnThread`: while the server lives every accepted connection in use has exactly
  one thread, although all threads read their socket from one variable. It is the join that makes
  this true.
- `ImplementsRemoteMap`: each call takes effect at most once, at one moment
  between request and return, and returns what the map answered then.
- `AcceptedAnswered`: an accepted client that waits is answered, or the server
  dies. It relies on the mutex being given back.
- `StreamIsMessage`: gathered, on the way and yet to be written are together the
  octets of one message, at every cut, also when the writer has ended.
- `TakesTurns`: the sides never speak at once, and a side begins a message only when
  nothing is left of another. Nothing on the wire separates two messages, so this
  is what keeps them apart.
- `OneCanMove`: while both processes run one of them can go on: a writer finds room
  or its reader octets, and no receiver asks for an octet behind the message.
- `ImplementsConnection`: messages arrive whole, and each says what was sent: every
  octet of keys and values, numbers, lists of keys. Only the sizes of values are
  outside it; they are wrong, and run `wire_size` says so.
- `MessageArrives`: a message begun is received, unless a side ends.
- `NumbersOnce`: no number is asked on two sockets: the mutex spans the remote call.
- `PrintedCovers`: every key the benchmark stores, also by a put under way when
  its thread is cancelled, is at most the printed number. (It is no count of
  puts: it starts at 1 and counts failures.)
- `SharedNeverServed`: two threads may come out of `network_connect` with one
  socket. Such a socket is never served: the connection that one of them lost is
  ahead of it, and the server waits for its end.
- `WedgedForGood`, `CallEndsUnlessWedged`: with two threads the benchmark comes to
  a state where the mutex's holder waits on a queued connection and the server on
  an accepted one. It lasts until a process ends, and is the only way
  for a call to wait for ever.

Bounds. In `table`, three keys share a bucket (so one can be unlinked between
two others), one is alone and one hashes outside; two deletions of missing keys
are enough for a count of 0 with keys stored and for a negative count. In `list`, three nodes give a first, a
middle and a last, and the fourth entry a replacement in a full list. In
`remote`, two clients give one served and one queued with a backlog of 1, and
three calls a put, its replacement or deletion, and a look at the result. One
value is enough there: which of several values is stored and answered is the
matter of `table`, and of the theorem `RemoteImplementsMap` for any number. In
`remote_many`, three calls are enough for three resets, after which the fourth
connection meets the overrun array. In `wire`, the values leave one, two or no octets over
in the last group of base64 and use both ends of its alphabet, keys have signed
characters, a number is negative, and the socket holds less than any message with
content, so that writers wait for readers. In `bench`, two threads are enough for
every race on `strtok` and `sockfd`, for one served and one queued connection and
for a connect that waits; two calls for one answered and one under way.
`Capacity` is the socket's own. `LowestCount` (of `nElems`) and `MaxCalls`
are bounds of the models only; `RemoteAssumption` keeps the first from ever
stopping a request. Symmetry is used for values, heap addresses, clients, and
keys with the same bytes; never in a run with a liveness property.

Fairness (`FairSpec`): weak fairness of the accepting thread, of each handler
and of a client's return from a call, because the operating system schedules
threads and delivers data. Nothing is assumed of users: they may never ask,
never quit, never be killed. `FairSpec` of `Wire`: each side's system calls return
(an interrupt is no progress). `FairBench`: workers, `main` once awake, the server's
threads and the kernel's closing. The sleep of `main` is not assumed to end, or
its cancellations would end every wait, nor is the mutex fair.

### Disagreements between the code and what the repository says

| Run | Says | Does |
|---|---|---|
| `table_get` | table.h:28, the value under the key | a deletion of a missing key from an empty bucket lowers the counter; at 0 every get answers NULL (table.c:74). From the same cause size is too low (against table.h:45) and the deletion answers 0 (against table.h:41) |
| `list_destroy` | list.h:15, frees all memory | entries that were replaced are never freed (list.c:73) |
| `list_remove` | list.h:26, removes the entry | for the only entry it dereferences NULL (list.c:135) |
| `remote_close` | table-server.c:57-59, a read of 0 bytes closes the socket | `read_all` repeats the read for ever (read_write.c:32), so the server never accepts again |
| `remote_key` | test_message.c:118, the key is unchanged | the key has no end mark (message.c:186) |
| `wire_size` | test_message.c:169 and 232, a value has the size it was sent with | it has the size of its base64 text (message.c:196, 224) |

Others that the models contain without a run of their own: a benchmark thread that
ends the process because another thread took the rest of the address
(client_stub.c:19); a client that waits for a server that dies after reading its
request never returns from the call
(`ReturnNever`, against network_client.h:25), and `list_get_keys` never writes
the end mark that list.h:45 promises (`FreeKeysCrash`).

## 4. What is proved

Every safety property of a passing run is a theorem for all values of the
constants. TLC has checked each inductive invariant named
here on the instance of the run before it was proved.

### The table (`EntrySeqTheorems`, `TableProofs`, `TableRefinement`)

For all keys, values, hash sums and numbers of buckets, from the assumptions of
`Table` (`NoVal` is not a value; `NLists`, the hash sums and the bound are
integers):

- `Invariance`: `Spec => []IInv`. `IInv` joins `TypeOK`, `BucketHome`,
  `OneEntryPerKey`, the finiteness of the stored keys, `CountersDrift`, `ScanInv`
  and `KeysAnswerExact`. `CountersDrift` is not inductive alone: that a put adds
  one to the number of stored keys needs to know that the key is in no other
  bucket and only once in its own. `KeysAnswerExact` needs `ScanInv`: what the loop
  has gathered is what lies below its index, without repetition, which again
  rests on placement.
- `TypeCorrect`, `PlacementCorrect`, `CountersDriftCorrect`, `KeysAnswerCorrect`:
  the parts of `IInv` that run `table` checks.
- `TableImplementsMap`: initial states map to initial states, and each action to
  an operation of `MapSpec` or to a stutter, under `IInv`.
- `OthersUntouchedCorrect`: from what they do to the pairs of entries under
  other keys (`InOrder`).

`EntrySeqTheorems` holds the lemmas on lists: `PosFinds` (the position found
holds the key), `ListAddEffect`, `ListRemoveEffect` (what happens to keys, lengths,
values and distinctness), `RemoveClosesGap`, `AddKeepsOrder`, `RemoveKeepsOrder`,
`KeyListExact`, `DisjointConcat`.

### The list (`LinkedListProofs`)

From `HeapAssumption`: the nodes that malloc can give are finitely many, NULL is
none of them, and a free cell is told from one in use.

- `ListInvariance`: `Spec => []LInv`. `WellLinked` and `NoNodeLost` speak of the
  nodes a walk from `frst` visits, and say nothing of how the walk changes when
  a pointer does. `LInv` says it: `Chain(Visited)`, that is, the allocated nodes
  are a sequence without repetition whose neighbours point to each other. The
  proof follows such a sequence s through each call: `Append(s, x)` for a new key,
  s for a replacement, s without the place p for the branches of `list_remove`, which
  all do the same to it (`RemoveUnlinks`, `UnlinkKeeps`), `<<>>` for `list_destroy`.
- `VisitedIs`: whatever s satisfies `Chain(s)` is `Visited`. The recursive function `Walk`
  is compared with the function it should be: where they differed first, the
  step before would have led there (`WalkIs`). There are enough turns because a
  sequence without repetition is no longer than there are nodes.
- `WellLinkedCorrect`, `NoNodeLostCorrect`, `EntriesOwnedCorrect`, `ListTypeCorrect`: parts
  of `LInv` that run `list` checks.
- `PointersImplementList`: each call does to the entries of s what `AbstractList`
  says. `KeysOnce` in `LInv` is for this: the first node with a key is the only one.
  With it the sequences in `Table` are justified for lists of any length.

### The remote table (`RemoteProofs`, `RemoteRefinement`)

For all numbers of clients and calls, any backlog, keys, values and buckets,
from `RemoteAssumption` (there are finitely many clients, at least one
connection can wait) and `NullAssumption` (NULL is no message). The theorems on
the table are used as they are, through the instance `TabT`.

- `Invariance`: `Spec => []RInv`. `OwnThread` is not inductive: it needs that at most
  the last thread created is at work and that `tp` still holds its socket if it has
  not read it, which is what the join gives (`ThreadInv`), and that a connection is
  queued or served only once (`SocketInv`). `CallInOnePlace` needs to know what message
  a thread has at each point, and who has the mutex (`MessageInv`), and where a
  call is not (`PlaceInv`).
- `TypeCorrect`, `OwnThreadCorrect`, `CallInOnePlaceCorrect`.
- `RemoteImplementsMap`: with `CallInv` (a request is the same on its way but for
  what the server reads behind the key; a call fails only after the server's
  death) every step is a request, an answer, a return or a loss of `RemoteMap` or
  does not show. `Invoke` is the step at which the operation takes effect, as
  `TableImplementsMap` says.

### The benchmark (`BenchProofs`)

For any number of threads and calls, from `BenchAssumption` (the sockets are
numbered like the threads that make them, the keys like the calls).

- `BInv` adds to `RInv` and `CallInv` what the client's mutex gives. `NumbersOnce` needs `MutexInv`
  (only its holder's socket waits for the server, also when the holder has been
  cancelled) and `NumberInv` (the current number has been asked only by the
  holder). `PrintedCovers` needs `PrintInv`: what is stored has been asked for, and after
  the last cancellation nobody chooses a number any more.
- `BenchTypeCorrect`, `NumbersOnceCorrect`, `PrintedCoversCorrect`.
- `WedgedForGoodCorrect`: an action property, from `BInv`: while the process runs, the
  accepted connection is not closed, so the server's join does not return and
  the queue does not move.
- `SharedNeverServedCorrect`: when two workers come out of `network_connect` with one
  socket, no handler ever has it and nobody answers on it. It needs `SharedInv`. Of the two one has
  lost the connection it made, and that one was made earlier (`LostInv`), so it is
  ahead in the queue or being served (`Ahead`). Nobody asks on it (`AnsweredInv`) and
  it is not closed while the process runs, so the server never comes to the
  shared one; and once the server is dead it serves nobody. That a worker which
  waits for room in the backlog cannot break the order is `WaitInv`.

### The connection (`WireProofs`)

For any capacity of the socket, any keys, values, numbers and lists of keys, from

- `SizesAssumption`: sizes fit their fields. A line has less than 200 characters
  (table-client.c:22, 203) and a length is a `short` in `message_to_buffer`; a value has
  at least one octet (data.c:30) and its text, like the number of keys, fits an `int`;
- `AnswersAssumption` and `NullAssumption`: NULL is no message, no entry and no value, neither
  of those that are sent nor of those that are held;
- `WireAssumption`: the socket holds at least one octet.

First the data, without any state.

- `Base64RoundTrip`: `Decoded(Base64Encode(v)) = v` for every sequence of octets. The
  alphabet is one to one (`CharIs`), and each octet is put together from the two or
  three groups of six bits it was spread over.
- `MessageRoundTrip`: for every request and answer m, `Unmarshal(Marshal(m))` says what m
  says (`Content`); the size it notes with a value is that of `Kept(m)`.
  `Holds(buf, o, x)` says that buf has x at offset o; for each kind of field there is a
  lemma that the receiver finds there what the sender put there (`ReadsShort`,
  `ReadsLong`, `ReadsKey`, `ReadsValue`, `ReadsKeys`). The loops over keys, on both
  sides, are recursive functions: that each has the values of its equation
  is shown by the first turn at which it would not (`LeastTurn`, `Recursion`).
- `FieldEndCorrect`: whoever has the first n octets of a message asks for octets of that
  message, and for at least one exactly while n is less than all of it (`EndsBy`).
  The receiver's sizes come from what it has read, which may be part of a field.

Then the two loops.

- `Invariance`: `Spec => []WInv`, that is `TypeOK`, `StreamIsMessage` and `TakesTurns`.
  None of the three is inductive alone. A side that begins to write leaves
  `StreamIsMessage` true only if nothing was in the connection, which is `TakesTurns`;
  that a complete message leaves nothing behind it, so that its receiver may answer,
  is `StreamIsMessage`; and that what was received is a message needs the round
  trip. `SideInv` is the same said of one side, so that each step is followed at
  the side that takes it and at its peer.
- `TypeCorrect`, `StreamIsMessageCorrect`, `TakesTurnsCorrect`.
- `OneCanMoveCorrect`, with `WaitInv`: a side that reads has an incomplete field, one that
  spins has lost its peer, and when both wait one has sent a message. If nothing
  of that message were on the way, its reader would have all of it. This is
  the part of `MessageArrives` that can be proved.
- `WireImplementsConnection`: under `WInv` the last turn of `write_all` posts the message, the
  last of `read_all` delivers it, and the end of a process loses what was on the way
  to it. No other step shows.

With `PointersImplementList`, `TableImplementsMap` and `RemoteImplementsMap` each layer has
its refinement proved: a list is a sequence, a table a map, octets are messages, and
clients and server are a remote map.

### Only model-checked

- Liveness under fairness, which the prover does not do: `AcceptedAnswered`,
  `MessageArrives`, `CallEndsUnlessWedged`; nor does it do `ENABLED` (`OneCanMove` spells
  out the guards of `Write` and `Read` instead).
- The disagreements of section 3: they are counterexamples.

The library's theorems on induction take an operator as a parameter, which the
installed provers cannot instantiate; a least counterexample (`Least`) does
instead. There are no RECURSIVE operators: `Walk` in `LinkedList`, `KeysAt` in `Messages`
and `KeysEnd` in `Wire` are recursive functions, `FlattenSeq` is the library's.

## 5. Not modelled

- What a write behind an array of the heap (table.c:124-142, network_server.c:76-80) does to
  its neighbours when it does not end the process.
- What lies in memory behind a received value; output buffers that are too small
  for base64 and sizes that overflow (no caller has them).
- Printing; the texts of addresses; numbers of closed sockets that are used
  again; makefile; tests.
- Failures of `malloc`, `accept`, `bind`, `pthread_create`; `table_destroy`,
  which the server reaches only when `accept` fails; freeing of messages
  (`free_message`, `rtable_free_keys`); unused functions (`table_print`,
  `list_print`, `exist_key_l`, `entry_dup`).
- The race in which a thread of the benchmark makes a call between another's
  failed connect and its `exit`.

## 6. Plan

1. done: the table, its map; the list; the remote table; the octets of a
   connection; the benchmark.
2. done: the proofs about the table, the list, the remote table and the
   benchmark.
3. done: the proofs about the connection: round trip, framing, turns, and that it
   implements whole messages.
4. left: that `inbox` and `reply` of `RemoteTable` behave as `chan` of `Connection` is
   an argument of this document (section 2), not a theorem; a property for the client that
   waits for a dead server (`ReturnNever`), should the code come to return there.
