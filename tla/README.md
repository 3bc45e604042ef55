# A verification of Personal Cloud Storage

TLA+ models of the program in `src/`, the TLC runs that check them on small
instances, and TLAPS proofs of the properties that matter most for instances of
any size. Paths and line numbers refer to `src/` (the code is in `src/src/`, the
project's own README is `src/README.md`). A path without a directory, such as
`sync.cpp:82`, names the file of that name under `src/src/`.

Contents: 1 the system, 2 the modules, 3 `Relay`, 4 `ServerStore`, 5 `Accounts`,
6 `WebSession`, 7 `Wire`, 8 `Startup`, 9 `Erasure` and `Recovery`, 10 `Watcher`,
11 the runs, 12 the proofs, 13 what the checks found, 14 not modelled, 15 what is
left to do.


## 1. The system and its parts

A server keeps sealed (encrypted) files for accounts. Clients seal files and hand
them to the server. While it is down they split the sealed stream into two data
and two parity shards on four peers and keep a *manifest*, the pending record, in
their workspace. When the server is back, `sync`, `autosync` or `watch` rebuild
the stream from any two shards, forward it, release the shards and remove the
record. A peer runs the same server program. A browser page is a second client of
the same server, over HTTP on the same port.

| Part | State it keeps | Operations | Talks to |
|---|---|---|---|
| Store-and-forward client (`upload.cpp`, `sync.cpp`, `recover.cpp`, `list.cpp`, `remote.cpp`, `workspace.cpp`) | `pending/*.manifest`, temporary files | upload, sync, autosync, delete | server and peers, one TLS connection per request group |
| Watch loop (`watch.cpp`) | `pending/.watch-state` | a pass over a folder, then a sync pass | upload and sync above |
| Download (`download.cpp`, `local.cpp`) | output file | from the server, else from the peers; open | server, peers, manifest |
| Server storage (`store.cpp`, `session.cpp`, the file routes of `webui.cpp`) | `files/`, `meta/` (sidecar tags), `chunks/`, `tmp/`, one mutex | PUT, GET, DELETE, STAT, LIST for files, PUT, GET, DELETE for chunks | one thread per connection, shared directory |
| Accounts (`users.cpp`, `main.cpp`) | `users.txt`, the running server's copy and its time stamp | useradd, passwd, userdel, verify | separate processes on one file |
| Browser sessions (`webui.cpp`, `http.cpp`) | token -> account, expiry | sign in, sign out, authenticate | storage |
| Browser page (`page.cpp`) | cached file list | upload, download, delete | HTTP routes |
| Wire and grammar (`wire.cpp`, `protocol.cpp`, `session.cpp`) | input buffer of a connection, login state | HELLO, LOGIN, commands with bodies | both ends of a connection |
| Accept loop (`main.cpp`, `wire.cpp`, `daemon.cpp`) | listening socket, threads | accept (with the TLS handshake), spawn | sessions |
| Certificates (`tlsca.cpp`) | `ca.crt`, `ca.key`, server certificate and key | make, load, renew | start-up |
| Erasure code (`erasure.cpp`, `gf256.cpp`, `shardfile.cpp`) | none | split, reconstruct | upload, recover |
| Sealed stream (`stream.cpp`, `cipher.cpp`, `digest.cpp`) | none | seal, open, dedup tag | upload, download |
| Manifest file (`manifest.cpp`) | the record's text | write, read | upload, sync |
| Settings, keys, passwords, names, progress (`settings.cpp`, `keysource.cpp`, `passwd.cpp`, `safename.cpp`, ...) | none shared | parsing, prompting | command line |

What makes the behaviour hard, and for each what correctness means:

- **Several client processes, one workspace.** An upload typed by hand, an
  autosync and a watch share `pending/`. Nothing locks it. *A file an upload
  reported stored must stay retrievable; a record may only go when its content
  has reached the server; a shard may only be dropped after that.*
- **A server that comes and goes, replies that get lost.** A PUT whose client
  gave up may be stored later, by a session that had the whole body. *What the
  server holds must be whole and belong to the name; what is pending must be
  forwarded in the end.*
- **Peers that fail, lose or corrupt chunks.** *A spoilt shard must never become
  part of what is forwarded.*
- **Many sessions, one directory.** Bodies are received without a lock into
  `tmp/`, then renamed and tagged under the mutex; downloads open their file after
  releasing it. *A name leads to one whole upload; its tag is the tag of that
  upload; the mutex is always released.*
- **Other processes on a running server's directory.** `useradd` runs
  `Store::init` and rewrites `users.txt`. *No upload in progress, and no account,
  may be lost by that.*
- **Kills and full disks** between any two of these steps.
- **Two ends of a connection.** Nothing but the TCP connect has a time limit,
  and the handshake runs inside the accept loop. *A reply belongs to the command
  that waits for it; an acknowledged change was made; nobody waits for ever.*
- **A page with several calls under way** that share its session, passphrase and
  list. *What is stored is sealed for its owner; a skipped upload was held.*

`PROJECT.json` lists these as hazards at their lines, each with the properties
that would catch it going wrong, or a note saying why none does.


## 2. The modules

| Module | Role |
|---|---|
| `Relay` | the client's upload, sync and delete against a server and peers |
| `ServerStore` | the server's storage under concurrent sessions |
| `FileRegister` | the abstract specification of that storage: per key a register of (content, tag) that changes in one step |
| `StoreRefinement` | the refinement mapping from `ServerStore` to `FileRegister` |
| `Accounts` | account commands on `users.txt`, and the running server's copy |
| `WebSession` | the browser page's calls and the server's tokens |
| `Wire` | accept loop, connections, command protocol and HTTP as byte streams |
| `Startup` | token, authority, certificate, listening and detaching |
| `Erasure` | the field, the parities and the six reconstructions, on single bytes |
| `Recovery` | one file sealed, sent whole or as shards, put together and opened; extends `Erasure` |
| `Watcher` | the watch loop over a folder, and which copy a download returns |
| `MCRelay`, `MCServerStore`, `MCAccounts`, `MCWebSession`, `MCWire`, `MCStartup`, `MCRecovery`, `MCWatcher` | bounds and symmetry |
| `RelayProofs`, `ServerStoreProofs`, `AccountsProofs`, `WebSessionProofs`, `WireProofs`, `StartupProofs`, `RecoveryProofs`, `WatcherProofs` | the theorems (section 12) |

Where two modules meet, each takes from the other what that one establishes:
`Relay`, `WebSession` and `Watcher` store a body in one step, as `ServerStore` does
in several. The refinement of `FileRegister` justifies that for the content, and for
the tag as long as no tag write is lost; where it may be lost, `Relay` and
`WebSession` say so in that step: the content is there, under the old tag or none.
`Relay` takes from `Recovery` that any two intact shards give the stream back, and
what a full disk can do to a stream that is joined; `Watcher` makes an upload one
step, which `Relay` spells out, with what `Relay` leaves behind when it fails.

Every model bounds the hazards by a constant `Budget`, either one number or a
function from hazard to the number of times it may strike, so that a run is about
the hazards it names and no others. The proofs hold for every `Budget`.

Definitions whose comment begins with *Mutation of* are the plausible bugs each
property was tried against: a dropped guard, a forgotten reset, an early return
that leaves a lock. `PROJECT.json` says which property each one breaks and in
which run. They are not part of any specification.


## 3. `Relay`

**State.** `server[n]` is the sealed stream stored under a name, with the tag that
stands beside it, which need not be its own; `chunk[<<s, i>>]`
what the peer of shard `i` of stream `s` holds, `manifest[n]` the pending record
(`none`, `torn`, or `full` with the stream and the shards it names), `job[w]`
the place a client process has reached with the local variables that matter there,
`late` the PUTFILEs whose body is complete while nobody waits for the reply.
`sealed`, `held`, `mistaken` and `acked` are history: which name and content each
stream was made from, which contents the server has held since, which contents its
tags have stood for without their stream being there, which names an upload
reported stored. A stream that was rebuilt may be `whole`, `cut` (its last write was
lost) or `mixed` (a damaged shard went into it, which must not happen).

A stream is the number of the `seal_file` call that made it. Every call draws a
fresh salt, so no two streams are equal; the dedup tag depends on the content
only, so two seals of one content carry the same tag. `Tags` are those contents.

**Actions.** A request to the server or a peer is one step, so all interleavings
of requests of different processes are explored.

| Action | Code |
|---|---|
| `SealUpload` | `upload_with_passphrase` up to the sealed file (`upload.cpp:160-192`) |
| `ProbeAnswered`, `ProbeUnanswered` | `server_reachable`; without an answer the peers, or nothing if four are not named |
| `UploadStat`, `UploadPut`, `PutFails` | `upload_to_server`: STAT with the tag, then PUTFILE; the reply may be lost with the body stored or not |
| `Place`, `TooFewPlaced`, `RecordPending`, `TearRecord` | `distribute_to_peers`: four PUTCHUNKs in index order, the threshold, the manifest; its rewrite may be cut short |
| `BeginSync`, `Fetch`, `Rebuild` | one file of `sync_once`: probe, then `rebuild_stream` with the check of each shard's id; `join_shards` fails on a full disk, or, when only the unchecked close fails (`shardfile.cpp:164`), trims a stream that is cut |
| `SyncStat`, `Forward`, `PutFails` | `sync_one`: STAT, PUTFILE |
| `Release`, `RemoveRecord` | `release_shards`, best effort, then `fs::remove` of the record the name has *by then* |
| `Store`, in every PUT | `do_put_file`: rename, then `write_tag`, whose failure is ignored (`session.cpp:265`) and leaves the old tag or an empty one |
| `Delete` | `cmd_delete`: the server's copy only; its tag may be left behind |
| `LateStore` | a session of the server stores a body that was complete |
| `ServerDown`, `ServerReturns`, `Crash`, `Damage` | the world around: outages that break connections in the middle of a PUT, killed processes, chunks corrupted or lost |
| `Hang` | a server or peer that takes a request and stays silent: no read has a time limit (`wire.cpp:354`) |

`Uploaders` and `Syncers` are sets of processes. The same process in both is a
`watch`, which uploads and syncs in turn; two different ones are an upload beside
an `autosync`.

**Abstractions.** Connecting, logging in and QUIT are part of the request they
serve: a failure there is the failure of the request. A STAT or PUT that is
*refused* (bad login, bad name) ends the command as a lost reply does and is
covered by `fault`. Several servers or accounts do not occur: a record names the
one server. The workspace's temporary files carry a process-private random name
and are left out. The wording of replies, the manifest's text and the size and
shard arithmetic are data. The erasure code is taken at its word (any two intact
shards give the stream back, a spoilt one spoils it). What TCP or the kernel does with
a connection nobody reads from is `Wire`'s subject.

**Properties.** `ReleasedOnlyAfterHeld` (a chunk is dropped only after the
server held that content), `ServerHoldsWholeStreams`, `PendingIsRecoverable` (a
record is no false promise), `AckedNameRetrievable` (the end-to-end promise),
`RemovedOnlyAfterHeld` (a record disappears only when its content was held, unless
another process rewrote it between the sync's reading and removing it),
`PendingIsResolved` and `CommandsEnd` (liveness), and `LatestUploadWins`.

What these can promise is limited by what the code does, and each limit is a named
part of the formula. *Settled* content is content the server has held or has been
mistaken about: a tag that was not written stands beside other content, a STAT then
matches it, and `sync_one` releases the shards of a content the server never had
(`sync.cpp:59-82`); a cut stream is forwarded under the tag of the whole. Nothing else
makes a mistake, which the invariant `NoMistakes` and the theorem `ReleaseIsExact`
say. `Recoverable` counts what peers damaged: a record with two intact
shards may lose one to damage, which no code can prevent. A torn record is named in
`AckedNameRetrievable`, a stream cut short in `ServerHoldsWholeStreams`, a command
that waits for a silent machine in `CommandsEnd` and `PendingIsResolved`.

**Fairness** (`FairSpec`). `WF(Proceed(w))`: a process that is not killed and does
not wait for a silent machine (`Hang`) is scheduled, and its requests are answered or
fail. `WF(ServerReturns)`: the outage ends. `SF(BeginSync(w, n))`: `autosync` and
`watch` loop for ever and visit every record in each pass (`sync.cpp:154-188`), so
a record that can be forwarded at infinitely many passes is taken up; weak
fairness would not do, because the action is disabled while the process is busy
with another record or the server is down. Nothing is assumed of uploads, deletes
or hazards.

**Bounds.** One name (jobs of different names share only the server's
reachability), two contents (identical and different), two seals (an old
record and a new one or a direct upload). The code has two data and two parity
shards, as `relay_stale_pending` does; `relay_hazards` and `relay_live` have one and
one: "all placed", "exactly the threshold", "too few" and "one spare" all occur, and
further shards add only more of "one spare". The theorems are for any number of
either. In `relay_hazards` every hazard strikes once but for `fault`, which may
strike three times, so that a probe and two placements are lost, an outage, which is
left to `relay_live` (a server out of reach is a lost probe), and silence, which
changes nothing a safety property speaks of. Contents are interchangeable, hence
`SYMMETRY Contents` in the runs without liveness.


## 4. `ServerStore`

**State.** `file[k]` and `tag[k]` are a name's file and sidecar, `tmp` the
temporary files, `mutex` the sessions holding the store's mutex (never more than
one, which `Sound` states and the proof shows), `session[s]` the place a
connection's thread has reached, `uploads` what each PUT announced. A file is
named by the upload it came with. A key is an (account, name) pair or a chunk id.

**Actions.** `BeginPut`, `Receive`, `ReceiveFails`, `LockToPut`, `Rename`,
`RenameFails`, `EmptyTag`, `WriteTag`, `TagFails` are the steps of `do_put_file`
and `do_put_chunk` (`session.cpp:234-272`, `317-350`) and of `serve_put_file` in
`webui.cpp`: receive without a lock, lock, rename, truncate the sidecar, write it,
unlock. `BeginGet`, `Look`, `Open`, `Send`, `SendEnds` are the downloads: the
size under the mutex, the rest without. `BeginDelete`, `LockToDelete`, `Unlink`,
`RemoveTag` are the deletes. `Crash` kills the server anywhere, `Start` runs
`Store::init`, `AccountCommand` runs it in another process while the server is up.
The steps inside a guarded block are separate actions, so a crash can fall
between any two of them and threads outside the mutex see each of them.

**Abstractions.** A POSIX file system: rename replaces atomically, an open file
survives its name, unlinking is immediate. Power loss and unsynced buffers are not
modelled (the code never calls `fsync`). STAT and LIST read under the mutex and
change nothing; they see what `Look` sees. A block is one buffer of a transfer.
Directories (`ensure_account`) and limits on the size of a request are left out.
Replies sent inside a guarded block (`session.cpp:217-232`, and the store-failed
ones of 263 and 342) never wait for their client, as long as it is one of the program's:
`Wire` checks that (`MutexHolderCanSend`). An `fs::remove` of a temporary file that
itself fails is not modelled; the code ignores it and leaves the file to the next
start.

**Properties.** `WholeFiles`, `TagMatchesFile` (while no sidecar write was lost),
`TmpOwned`, `LockIsGranted`; `GetIsWhole`, which a comment of the code claims and
which fails (section 13); and the refinement `ImplementsRegister`: with the mapping
in `StoreRefinement`, every upload and every delete is one atomic change of content
and tag together, which is proved as well as checked (section 12). The
mapping publishes a version at the rename, when the thread still holds the mutex
and is the only one that could write its tag.

**Fairness.** `WF(Step(s))`: a thread is scheduled while it does not wait for its
client. Clients may stop in the middle of a body for ever. `std::mutex` promises no
order among waiters; `LockIsGranted` is checked with a bounded number of requests,
where nobody can be overtaken for ever, so it says that no path leaves the mutex
locked and none waits for a client inside it, not that waiters are served in order.

**Bounds.** Two sessions and three requests reach every pair of operations on one
key with a third after it. Size 2 gives a body that can break off half-way (and in
`store_torn_get` 1 and 2, a smaller and a larger replacement); an empty body differs
from it only in having no half. One file key and one chunk key, uploads with either
tag or none; three sessions on one
key in `store_live`.
Connections and tags are interchangeable (`SYMMETRY Alike` in the safety run).


## 5. `Accounts`

**State.** `disk` is the sequence of inodes ever made, each with the list it
holds, whether the list is complete and its time stamp; `users` and `temp` are the
inodes `users.txt` and `users.txt.new` lead to. `cmd[c]` is an account command: its
step, its own copy of the list and its descriptor. `server` is the running
server's copy, the stamp it goes with, and the step of the sign-in it is checking.
Inodes are needed because two commands may hold the same `.new` open, also when it
has become `users.txt` already.

**Actions.** `Begin` loads the list; `Refuse`, `OpenNew`, `Flush`, `FlushFails`,
`Rename`, `RenameFails` and `Kill` are the steps of `add`, `set_password` and
`remove` with `save_locked` (`users.cpp:95-130` and below). `TakeStamp`,
`ReadList`, `Decide` are `reload_if_changed` and `verify`; stamp and content are
two reads, so that a rename falls between them. `Restart` and `Tick` are the world
around; the clock may stand still between two writes.

**Properties.** `ListIsWhole` and `NothingForgotten` (a killed or failed command
changes nothing, a reported change stays), for commands that do not overlap;
`SignInIsCurrent` (a sign-in is decided on a list that was current while it was
checked), unless a change kept the file's stamp. `crowd` and `tied` record those
two conditions, and both are needed: overlapping commands share `.new` and work on
old copies, and a stamp that stands still hides a change.

**Bounds.** Two names, two passwords, two commands in two processes, one clock
tick, each hazard once. No fairness: commands wait for a person.


## 6. `WebSession`

**State.** The page's `session`, `pass` and `list`, which all its asynchronous
calls share, and `call[c]`, the await a call stands at with what it has captured.
The server's `tokens` with account and expiry, `accounts`, and `store` per account
and name: content, the passphrase it was sealed with, the tag beside it. `untagged`
are the names whose last tag was not written.

**Actions.** `SignIn`, `Click`, `Drop` start a call; `Skip`, `Seal`, `SendFile`
are an upload between its awaits (`page.cpp:540-580`); `Login`, `Logout`, `Refuse`,
`Serve`, `Store` are the server's handlers (`webui.cpp`); `ReplySignIn`,
`ReplySignOut`, `Reply` take the answers in any order, a 401 signing out whatever
session the page has by then (`page.cpp:485-500`). `Break`, `Reload`, `Userdel`,
`Elsewhere` and `Tick` are broken connections, a new page, a removed account,
another device and the clock. `Put` is what every stored body does: the file, then
`write_tag`, whose result is ignored (`webui.cpp:293`), so that the old tag or an empty
one may stay; `Remove` is `remove_file`.

**Abstractions.** A passphrase is named by its account. A tag is the content with
the passphrase, or none for a large file. Times count in units far longer than one
request takes.

**Properties.** `SkippedWasHeld`, `SealedForOwner`, `TokensEnd`. The first two
exclude `mixed`: somebody signed in between an upload's tag and its request, whose
passphrase and session are read at three moments. `SealedForOwner` exempts the tag, but
not the passphrase, of a name in `untagged`. `SkippedWasHeld` holds of a tag that
outlived its content as well: what it is the tag of was held once. That it
still is, is nothing the code ensures: another device may have replaced or deleted the
file since the list was fetched. `TokensEnd` is what a
removed account comes to: its tokens are not looked up again in the account
list, but end within a lifetime of the last sign-in.

**Bounds.** Two accounts, one name, one small and one large content, two calls at
once and three in all, two tokens of a lifetime of one unit, two hazards, which a tag
that is lost and a deletion or another upload after it need.


## 7. `Wire`

**State.** `queue` and `acceptor` are the listening socket and the connection whose
handshake the accept loop waits for. `up[c]` and `down[c]` are a connection's byte
streams, sequences of at most `Room` units (a line, or a buffer of a body), each
with the number of the command it belongs to. `cli[c]` and `srv[c]` are the client
and the thread: what is left to send, to read, and what has been proved. `lock` is
the store's mutex.

**Actions.** The client dials, sends, reads replies and data, fails or leaves. The
accept loop takes a connection, and handshakes with it *inside* `accept`
(`wire.cpp:239`). A thread reads a line and has one action per command: `Greet`,
`DoLogin`, `DoAuth`, `Unproven`, `DoStat`, `DoPut`, `DoGet`, `DoDel`, `DoList`,
`HttpRequest`; `Receive`, `ReceiveFails`, `Stored` are the body of an upload,
`BodyAsLines` what becomes of the body of a refused one. `SendReply`,
`ReplyIsLost`, `ProcessEnds` write: nothing ignores SIGPIPE, so a write to a client
that has gone may end the process. `Released` gives the mutex back with the last
unit of the reply sent under it (STAT, the not-found answers, and the store-failed
ones, which `Stored` sends while it keeps the mutex).

**Abstractions.** What a line says is kept only as far as it decides who reads or
writes next. Whether a name exists, a password fits or the server has the content
already is a choice. The page's requests are one body up or one body down.

**Properties.** `RepliesMatch` (replies carry no identity, and a refused upload
fills the stream with answers to its own body), `AckedWasDone`, `NoMutualBlock`,
`MutexHolderCanSend` (also when the client reads nothing more: it may leave or stop at
any step, but it has sent no command before the last was answered; a foreign client that
pipelines commands and does not read is outside the model), and `ClientsEnd`, liveness: every client ends, but for the
two ways the code can hang. These are named: `Hostage`, the accept loop waiting for
a peer that never speaks, and `StuckOnEachOther` after a refused upload.

**Fairness.** `WF` for the accept loop and each client: programs do not stop of
their own accord. `SF` for each thread: it may be disabled again and again by
others taking the mutex; with finitely many commands on the other connections any
implementation of `std::mutex` grants it in the end. Nothing is assumed of peers
that stay silent, nor of leaving.

**Bounds.** Two connections with every script of the client program between them
(`MCWire`), streams of one unit, bodies of three, so that a body never fits into
both streams; one hazard. `Longest` bounds the length of a script, which numbers
its commands.


## 8. `Startup`

**State.** The five files (`tokenFile`, `caCert`, `caKey`, `cert`, `key`, with
`bornAt`, when each authority was made), each
absent, torn or holding the number of a key; a certificate carries what it was
signed with, the names it covers and when it was made. `made` is the pair of which
the first file is written and the second is not. `token` and `loaded` are the
running server's.

**Actions.** `LoadOrCreateToken`, `EnsureCa`, `WriteCaKey`, `IssueServerCert`,
`WriteServerKey`, `ListenTls`, `Serve` in the order of `main` (`main.cpp`,
`store.cpp:140-180`, `tlsca.cpp`). Each file is written in place; a write is whole,
torn and noticed, torn unnoticed (a failing close), or does not begin, because the
file cannot be opened and stays as it was (`Unopened`). `Stop` ends a start
anywhere, `ExportCa` copies the authority to a device, `Tick` lets time pass
between starts.

**Abstractions.** A token forced by `--token` or `PCS_TOKEN` (`main.cpp:250-256`) is
left out with the command line: it is kept in no file. Detaching may fail after
listening (`Serve`); what the terminal was told is not modelled.

**Properties.** `ComesUpFresh`, `TrustHolds` (two exceptions: `halved`, a start replaced
an authority's certificate and not its key, because it died in between or `ca.key` did
not open; and `Outlived`, the authority in use is past its own ten years, which
`ensure_ca` never looks at), `TokenKept` (unless its file could
not be written: `unsaved`), and `ComesUp`, liveness: a start nothing disturbs
serves, but from one state, `Stranded`, where a certificate and a key that
does not belong to it are both readable.

**Fairness.** `WF(StartStep)`: a start that is not killed goes on. Nothing says a
server is started again.

**Bounds.** Four starts, a clock of three units, certificates of three with a
margin of one, an authority of three as well, two hazards; a second host name appears later. Eight keys and tokens are
enough for four starts: a start makes at most three.


## 9. `Erasure` and `Recovery`

`Erasure` is `gf256.cpp` and the arithmetic of `erasure.cpp`: a byte is the set of
its one bits, addition is symmetric difference, `Doubled` shifts and reduces,
`GfMul` is the loop of `gf_mul`. `Order`, `ChoosePair` and `Reconstruct` are the six
pairs in the order in which they are tried. The code searches the candidates 1 to 255
for the inverse (`gf256.cpp:19-28`); here it is the byte whose product is one, `CHOOSE`n,
and the proof shows that there is one for 2 and for 3.

`Recovery` follows one file: `BeginSeal`, `SealBlock`, `EndSeal` (`seal_file`, with
`Change` writing to the file meanwhile); `SplitStream`, `FetchShards`, `JoinShards`
(`split_stream`, `rebuild_stream`, `join_shards`) or `Transfer`, which may cut the
stream short, swap, repeat or replace blocks or replace the header; `BeginOpen`,
`OpenBlock`, `EndOpen` (`open_file`); `Kill` anywhere. Every write may meet a full disk.
`JoinShards` may also lose its last write, some of the second half, in the `close` nobody
looks at (`shardfile.cpp:164`): `resize_file` then fills the stream up with zeroes
(`Cut`), and history variable `cut` remembers it.

**Abstractions.** A header and a sealed block are one byte each, standing for all
they say, xor-ed with a mask as encryption would, so the erasure code really
computes on the bytes. A byte of zeroes in the file has a value of its own, `Zeroes`,
that no seal contains, since one masked byte could by chance look like a block where a
real block of zeroes does not. That the partial file goes when opening fails assumes
that `fs::remove` works, whose error is ignored (`stream.cpp:308`). AES-GCM is `Authentic`: a block opens only under its own
header, place and passphrase.

**Properties.** `RoundTrip`, `RecoveredUnlessLost`, `NoHalfFile`. Excluded by name:
`Emptied`, a header that was altered to announce an empty file has no block to be
authenticated, and a last write that fails only in the unchecked close of the output.
`RecoveredUnlessLost` names everything a recovery can fail for: the file got shorter
while it was sealed, a disk failed, fewer than two intact shards, a wrong passphrase, a
stream that was damaged, or one that was cut where it was joined.

**Bounds.** Files of up to three bytes in blocks of two: empty, partial, full and a
second block, odd and even streams; nine masks (none, each single bit) for every
set of shards; one hazard. Three bytes is also what a unit can say in its one byte
of the stream, so `RecoveryAssumption` keeps to it; the theorems are for every such
size, every mask and every `Budget`.


## 10. `Watcher`

**State.** `folder[f]`: the last version of a file, the stamp (size and time) it
bears and whether it is there; `seen` the stamps the watcher remembers, `disk` its
state file; `cur`, `now`, `read` the upload under way, with the stamp seen *before*
it and the version it read; `server[f]` and `pending[f]` the versions stored, `late` the
bodies a session of the server has in full without anybody waiting for the answer,
`newest[f]` the newest version ever stored.

**Actions.** `Start` loads the state (of a torn file any whole lines), `Look` and
`Seal` are one name of a scan, `Upload` and `UploadFails` its result, `EndScan`,
`OpenState`, `WriteState` the state file truncated and rewritten in place,
`Forward`, `ForwardFails` and `EndSync` the sync pass (`watch.cpp:100-197`), which
visits the records there are when it begins once each and goes on when one cannot be
forwarded. An upload or a forwarding that is cut off, by a failure or a kill, leaves
nothing, or a body that `LateStore` stores at any later moment, or a torn record
(`CutOff`). `Edit`, `Remove`,
`Interrupt`, `Kill`, `Outage` are its surroundings. `Downloaded` is the choice of
`cmd_download`.

**Abstractions.** An upload is one step that replaces what was there, or one that
fails (`Relay`). The server's dedup tags are right: what a lost tag does to a sync is in
`Relay`. Stamps are single values: `Edit` gives a new one, or, once the budget
allows, leaves no trace (`hidden`).

**Properties.** `RecordedWasUploaded`, `DownloadIsNewest`, `EditsAreStored`
(liveness). Excluded by name: `hidden` edits; `crossed`, the names where an older
version prevails, because an older record is forwarded over a newer upload, or a session
stores an older body after it, or whose record was torn by an upload that failed, each
until the name is uploaded again; and a download while the server has an older copy and
a newer one is pending, of which it prefers the server's.

**Fairness.** `WF(Step)`: the loop goes on while the process lives. Nobody promises
that it is started again or that the server returns, so `EditsAreStored` speaks of a
watcher that runs, and counts a pending record as stored.

**Bounds.** Two files with two versions each, three hazards: an upload that loses its
answer, a kill and a torn file, or an outage with either, fall into one behaviour. Deadlock is checked:
a stopped watcher can be started.


## 11. The runs

`CHECK_DEADLOCK FALSE` everywhere but in `watch`: requests, seals and hazards are
bounded, so a behaviour may end with everything done.

| Run | Question |
|---|---|
| `relay_hazards` | upload beside autosync, three lost requests and one each of a lost tag, a full disk, a damaged chunk, a kill and a delete: `ReleasedOnlyAfterHeld`, `ServerHoldsWholeStreams`, `PendingIsRecoverable`, `AckedNameRetrievable`, `RemovedOnlyAfterHeld` and the inductive invariant `Standing`, which includes `Safe` and `TypeOK` |
| `relay_live` | upload beside autosync, an outage, a lost request, a damaged chunk, a full disk, a silent machine: `PendingIsResolved`, `CommandsEnd` |
| `relay_stale_pending` | violated: `LatestUploadWins` (section 13) |
| `store_safe` | two sessions, a file and a chunk, every hazard once: `WholeFiles`, `TagMatchesFile`, `TmpOwned` and the inductive invariant `Sound`, which includes `TypeOK` |
| `store_live` | three sessions on one file, a drop and an account command: `ImplementsRegister`, `LockIsGranted` |
| `store_torn_get` | violated: `GetIsWhole` (section 13) |
| `accounts` | two account commands and a sign-in: `TypeOK`, `ListIsWhole`, `NothingForgotten`, `SignInIsCurrent` |
| `web` | a page with two calls at once: `TypeOK`, `SkippedWasHeld`, `SealedForOwner`, `TokensEnd` |
| `wire` | two connections: `TypeOK`, `RepliesMatch`, `AckedWasDone`, `NoMutualBlock`, `MutexHolderCanSend`, `ClientsEnd` |
| `startup` | four starts: `TypeOK`, `ComesUpFresh`, `TrustHolds`, `TokenKept`, `ComesUp` |
| `recovery` | one file on every way: `RoundTrip`, `RecoveredUnlessLost`, `NoHalfFile` |
| `watch` | a watcher over two files: `TypeOK`, `RecordedWasUploaded`, `DownloadIsNewest`, `EditsAreStored` |

`AckedNameRetrievable` says nothing once something has been deleted: beside a second
process, a sync may remove a record it did not forward after the delete has taken the
server's older copy (`RemovedOnlyAfterHeld` names that step).


## 12. The proofs

For every value of the constants that the assumptions of the modules allow
(`NamesAssumption`, `SizesAssumption`, `StoreAssumption`, `AccountsAssumption`,
`WebAssumption`, `WireAssumption`, `ScriptsAssumption`, `StartupAssumption`,
`RecoveryAssumption`, `WatcherAssumption`), which name ranges, ask for at least one
name, user or file where the model picks one, and bound nothing but the sizes of
`Recovery`:

| Theorem | Statement |
|---|---|
| `RelayProofs!TypeCorrect` | `Spec => []TypeOK` |
| `RelayProofs!SafeAlways` | `Spec => []Safe` |
| `RelayProofs!ReleaseIsSafe` | `Spec => []ReleasedOnlyAfterHeld` |
| `RelayProofs!ReleaseIsExact` | every released shard is of a seal in `held`, if the budgets of `untagged` and `disk` are nought |
| `RelayProofs!ServerIsSound` | `Spec => []ServerHoldsWholeStreams` |
| `RelayProofs!RemovalIsSafe` | `Spec => RemovedOnlyAfterHeld` |
| `RelayProofs!StandingAlways` | `Spec => []Standing` |
| `RelayProofs!PendingStands` | `Spec => []PendingIsRecoverable` |
| `RelayProofs!AckedStays` | `Spec => []AckedNameRetrievable` |
| `ServerStoreProofs!TypeCorrect` | `Spec => []TypeOK` |
| `ServerStoreProofs!SoundAlways` | `Spec => []Sound` |
| `ServerStoreProofs!FilesAreWhole` | `Spec => []WholeFiles` |
| `ServerStoreProofs!TagsMatch` | `Spec => []TagMatchesFile` |
| `ServerStoreProofs!TmpIsOwned` | `Spec => []TmpOwned` |
| `ServerStoreProofs!StoreImplementsRegister` | `Spec => ImplementsRegister`, if no sidecar write is lost (`TagsSafe`) |
| `AccountsProofs!SafeAlways`, `TypeCorrect` | `Spec => []Safe`, `Spec => []TypeOK` |
| `AccountsProofs!ListStaysWhole` | `Spec => []ListIsWhole` |
| `AccountsProofs!NothingIsForgotten` | `Spec => []NothingForgotten` |
| `AccountsProofs!SignInsAreCurrent` | `Spec => []SignInIsCurrent` |
| `WebSessionProofs!SafeAlways`, `TypeCorrect` | `Spec => []Safe`, `Spec => []TypeOK` |
| `WebSessionProofs!TokensAlwaysEnd` | `Spec => []TokensEnd` |
| `WebSessionProofs!StoredOpens` | `Spec => []SealedForOwner` |
| `WebSessionProofs!SkippedIsHeld` | `Spec => []SkippedWasHeld` |
| `WireProofs!SafeAlways`, `TypeCorrect` | `Spec => []Safe`, `Spec => []TypeOK` |
| `WireProofs!RepliesAlwaysMatch` | `Spec => []RepliesMatch` |
| `WireProofs!AckedIsDone` | `Spec => []AckedWasDone` |
| `WireProofs!NobodyBlocks` | `Spec => []NoMutualBlock` |
| `WireProofs!HolderNeverWaits` | `Spec => []MutexHolderCanSend` |
| `StartupProofs!TypeCorrect` | `Spec => []TypeOK` |
| `StartupProofs!AlwaysFresh` | `Spec => []ComesUpFresh` |
| `StartupProofs!TokenIsKept` | `Spec => []TokenKept` |
| `StartupProofs!TrustIsKept` | `Spec => []TrustHolds` |
| `RecoveryProofs!EveryPairRebuilds` | any two of the four shards give both data bytes back, for all bytes |
| `RecoveryProofs!SafeAlways` | `Spec => []Safe` |
| `RecoveryProofs!OpenedIsSealed` | `Spec => []RoundTrip` |
| `RecoveryProofs!RecoveredIfKept` | `Spec => []RecoveredUnlessLost` |
| `RecoveryProofs!NoPartLeftBehind` | `Spec => []NoHalfFile` |
| `WatcherProofs!TypeCorrect` | `Spec => []TypeOK` |
| `WatcherProofs!NothingSkipped` | `Spec => []RecordedWasUploaded` |
| `WatcherProofs!DownloadsAreNewest` | `Spec => []DownloadIsNewest` |

**`Relay!Safe`.** `ReleasedOnlyAfterHeld` is not inductive: `Release` must know that
its stream was settled, two steps earlier, by a STAT or a PUT. So
`JobOK` carries, for every busy process, that its stream exists, is of the name
it works on, holds only shards that verified, and is settled once it is
releasing. A matching STAT is only as good as the tag it read: `TagOK` says that a tag
is that of the content beside it or stands among the `mistaken`, and `HeldOK` that
the history is up to date with what the server holds now. `RecordOK` and `LateOK` say
of records and of bodies on their way what `JobOK` says of jobs, and `NoMistakes` that
without a lost tag and a full disk nothing is mistaken, from which `ReleaseIsExact`
follows. The argument is that `held`, `mistaken`
and `sealed` only grow, so what a guard established stays true while other processes
overwrite and remove records (lemma `Frame`); each action then shows the one
conjunct it disturbs, and every PUT is one lemma, `StoreKeeps`.

**`Relay!Standing`.** `ShardsOK` says a record names enough shards and that each has
reached a peer; `PlacedOK` says the same of an upload still noting them. From `Safe`, a
shard of content that is not settled has not been released, so one that is no longer
intact was damaged or lost at its peer (`StandingRecovers`).
`RemovedOnlyAfterHeld` follows from `Safe` alone (`RemovalStep`).

**`RelayProofs!Stays`.** An upload that reported success may leave only a record, and a
sync takes that record away. `Stays` says why it is not missed: while nothing is
deleted, the server keeps some content of every name it has held or mistaken content of,
so a sync that removes a record leaves a file of its name behind; a name reported stored
has a file there or a record that is at worst torn. Where the
server has nothing of the name, the content of a full record is not settled, and
`Standing` makes it recoverable. That hazards are counted down and never up
(`SpentStep`) makes the condition a statement about the whole past.

**`ServerStore!Sound`.** `WholeFiles` needs that the thread about to rename holds a
complete body of the upload it announced (`ThreadOK`); `TagMatchesFile` needs that
whoever is between rename and tag is alone there (`LockOK`) and on which key
(`TagsOK`); `LockOK` identifies the mutex's holder with the thread inside a guarded
block. Deadlocks by a forgotten unlock are excluded by `LockOK`: a thread that is
not inside does not hold the mutex.

**`StoreImplementsRegister`.** Assumes `TagsSafe`: the budgets of `crash` and of
`untagged` are nought, since either leaves content under a tag that is not its own
and the register has no such state. Every other hazard may strike. `Rename` maps to
`Publish`, `Unlink` to `Remove`, `BeginPut` to `Offer`, every other step to a
stutter. What the mapping needs of a reachable state is in `Sound`: a thread inside
the mutex is alone there, so no other key is between its file and its tag (lemma
`AloneInside`), and past the rename the name leads to the thread's own upload, so
that writing the tag is invisible (lemma `TagStutters`).

**`AccountsProofs!Safe`.** `ListIsWhole` and `NothingForgotten` are about `users.txt`,
but what keeps them is the draft: `Orderly` follows the only command under way from
the list it read over the `.new` it opened to the one it wrote, says that the `.new`
is not the file it will replace, and that what is published is what the commands
reported (`promised`). It holds until two commands overlap (`crowd`). `Current` is the
server's side: a copy read for the stamp the file still bears is what the file
holds, unless two changes bore one stamp (`tied`). `Typed` adds to `TypeOK` that
descriptors lead to inodes that exist: a rename changes the name, not what a reader
has open.

**`WebSessionProofs!Safe`.** `Tokens` numbers the tokens as they are issued, so that one
signed out is never issued again, and ties the page's session to what was issued.
`Fine` follows a call's token from the page to the server; `Owned` says whose
passphrase sealed each body on its way, in the page, in the request and in the
store, and that every list, however old, was shown by a store that held what
it lists (`Shown`; `held` only grows). `Sits` is what a place of the store
satisfies: sealed by its owner, under the tag of its content or named in `untagged`,
and under no tag of a content that was not held there, which is all a lost tag
can leave (`PutSits`, `RemoveSits`). It holds until a sign-in falls between an upload's
tag and its request (`mixed`).

**`WireProofs!Safe`.** Replies carry no number, so that they match is a matter of how
many there are. `Link` describes one connection by where its conversation stands, and
what then lies in both streams and in both hands: *asking*, all of the command and
nothing else is on its way; *receiving*, exactly the rest of the body; *answering*,
nothing on its way there, and no more coming back than the client will read;
*refusing*, leftovers of a body one way and answers the other, the first of them the
refusal at which the client leaves. Each step moves one connection from phase to phase
or within one (the lemmas ending in `Link`), and no other connection notices.
`LockOK` says that the mutex is held for the last line of an answer to a client that has
read everything before it, so there is always room for that line, a store-failed one
included. It rests on `ScriptsAssumption`: a client sends a command when the one before
is answered, as the program's clients do.
`NoMutualBlock` and `MutexHolderCanSend` are then readings of the phases.

**`StartupProofs!Safe`.** `Freshness` carries the check of the certificate from
where it is made to where it is loaded, with the clock standing still in between.
`Tokens` ties the token in use and those announced to the file. `Authority` rests
on one observation: once a certificate has been issued (`Signed`) both files of the
authority are readable, so `ensure_ca` reuses them and never writes them again, not even
when it has expired. Before that, `halved` is the only way to two readable files that
do not belong together. For the
types, `Numbered` says that keys are numbered as they are made, so the server's
differs from the authority's.

**`RecoveryProofs`.** Exclusive or is symmetric difference, and multiplying by 2 and by
3 is unfolded into doubling. That doubling is linear cancels the pair of parities. Pairs
14 and 24 divide: the bits of an inverse of 2 and of 3 are solved for (`InvTwoIs`,
`InvThreeIs`), multiplying by them is a sum of doubles up to the eighth, and that
one is reduced by the field's polynomial (`EighthDouble`); the rest cancels. From bytes
to streams, `EveryPairJoins` shows that the halves of a stream of any length, odd or
even, come together again. `Safe` has one predicate per step: `SealedAs` says that a
stream is a header and blocks of successive pieces of one file (kept by `SealGrows`),
that a joined stream is the sealed one or was cut, and a cut one holds no block in its
zeroes (`ZeroesAreNoUnit`), `Arrived` that a damaged stream is still made of those blocks behind some header,
`Opened` that what is written is a beginning of what was sealed. A unit
is read back as it was written (`ReadBack`), so a block that opens says itself which
one it is (`AuthenticIsNext`).

**`WatcherProofs!Sound`.** Recording a stamp is justified by what was read
after the stamp was taken: `UnderWay` says `now <= read` and that nothing newer than
`read` has been stored, `LateWas` that no body left with a session is newer than what
the file has had, or than what is being uploaded after it, and `Stored` that neither
stamps nor what is stored run ahead of the file, whose version only grows
(`Remembered`). `Latest` says where the version
stored last is to be found, and needs `Real`: what is uploaded has a version, so 0 never
stands for one.

Only model-checked: liveness, which is beyond the prover (`PendingIsResolved`,
`CommandsEnd`, `LockIsGranted`, `ClientsEnd`, `ComesUp`, `EditsAreStored`).


## 13. What the checks found

Two runs end in a behaviour of the code as written that contradicts its documents:

1. **An old pending upload replaces a newer one** (`relay_stale_pending`).
   Upload offline, change the file, upload again online: the next sync forwards the
   old stream, because `sync_one` compares tags, not ages. The same cause brings a
   name back that was deleted on the server while a record was pending.
2. **A download can send a part of the file as the whole** (`store_torn_get`):
   size and file are taken at different times.

The other properties hold, some of them only under a named condition. Each
condition is there because the property fails without it, and so describes
something the code does:

| Where | What happens | Condition |
|---|---|---|
| `sync.cpp:82` | a sync removes a record that another process has rewritten meanwhile | in `RemovedOnlyAfterHeld` |
| `manifest.cpp:32` | a torn rewrite destroys the earlier record of the name | in `AckedNameRetrievable`; `crossed` in `Watcher` |
| `sync.cpp:79` | a kill between release and removal leaves a record nothing can resolve; the content is safe | in `PendingIsRecoverable`; `crash` absent from `relay_live` |
| `session.cpp:265` | a crash between rename and tag, or a tag that cannot be written, leaves new content under the old tag | lost sidecars in `TagMatchesFile` |
| `sync.cpp:59` | a sync trusts such a tag: it releases the shards and removes the record of content the server does not have | `mistaken` in `Settled` |
| `webui.cpp:293` | the same for an upload from the page | `untagged` in `SealedForOwner` |
| `shardfile.cpp:164` | the result of closing the joined stream is not looked at; trimming fills it up with zeroes, and a sync forwards it as whole and drops the shards | `cut` in `ServerHoldsWholeStreams` and `RecoveredUnlessLost`, `mistaken` in `Settled` |
| `wire.cpp:354` | a server or peer that takes a request and stays silent keeps the command for ever | `hung` in `CommandsEnd` and `PendingIsResolved` |
| `session.cpp:256` | a body whose client gave up is stored later, over a newer upload | `crossed` in `Watcher` |
| `store.cpp:36` | an account command empties `tmp/`, uploads in progress fail | `RenameFails` |
| `users.cpp:107` | overlapping account commands lose each other's changes or publish a torn list | `crowd` |
| `users.cpp:67` | a change within the clock's resolution is not reloaded | `tied` |
| `page.cpp:357` | a sign-in between an upload's tag and its request mixes two accounts | `mixed` |
| `wire.cpp:239` | a peer that never speaks stops the accept loop | `Hostage` |
| `session.cpp:242` | a refused upload can block both sides | `StuckOnEachOther` |
| `wire.cpp:178` | a lost client can end the server by SIGPIPE | `ProcessEnds` |
| `tlsca.cpp:243` | a death between `ca.crt` and `ca.key`, or a `ca.key` that does not open, makes a pair that does not fit and is kept | `halved` |
| `tlsca.cpp:196` | an authority is reused when its ten years are over, and signs certificates no device accepts | `Outlived` |
| `tlsca.cpp:323` | the same for the server's pair, which then refuses to start | `Stranded` |
| `store.cpp:171` | a token that was not written is used all the same | `unsaved` |
| `stream.cpp:209` | a header altered to announce an empty file opens as one | `Emptied` |
| `stream.cpp:304` | the result of closing the output is not looked at | `why # "disk"` in `RoundTrip` |
| `watch.cpp:163` | an edit that keeps size and time is never seen | `hidden` |
| `download.cpp:105` | a download prefers the server's copy to a newer pending one | in `DownloadIsNewest` |


## 14. Not modelled, and why

- The command grammar (`protocol.cpp`), settings, key sources, safe names,
  digests, hex, progress, `list`'s output and the command line: sequential functions
  on text without shared state, which a model would spell out character by character.
  Two things there are worth a unit test: `split_n` drops the spaces before a
  name, and the watch state finds a name after the first occurrence of the time's
  digits in its line.
- The watch state is not keyed by server or folder; every model has one of each.
- Of `page.cpp`: layout and the page's own implementation of the container format.
- Of the manifest: its line format; `Relay` has it absent, torn or complete.
- The pid file, the systemd unit and the parent's side of detaching.
- OpenSSL's cryptography and X.509: AES-GCM, HMAC, PBKDF2 and TLS are taken to do
  what they promise.
- A token forced on the command line or by `PCS_TOKEN`, which no file keeps.
- An `fs::remove` of a temporary or partial file that fails; the code ignores it
  everywhere (`session.cpp:251`, `stream.cpp:308`).
- Clients other than the program's own and the page's: `Wire` has those that send a
  command when the last is answered, at whatever point they stop.
- Power loss and disk write-back order: the code makes no durability calls that a
  property could be about.


## 15. What is left to do

- A composition of `Watcher` with `Relay`, one upload step refined into the requests
  it makes.
