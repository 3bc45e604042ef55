-------------------------------- MODULE Wire --------------------------------
(***************************************************************************)
(* Connections between clients and the server: the accept loop with the    *)
(* handshake inside it, one thread per connection, and the command         *)
(* protocol spoken over two byte streams of limited capacity.  A unit on a *)
(* stream is a line or a buffer of a body; what the units say is kept only *)
(* as far as it decides who reads or writes next.                          *)
(*                                                                         *)
(* A client is one connection of the program: it dials, runs a script of   *)
(* commands one after another and leaves.  Neither side has a timeout once *)
(* the TCP connection exists, and neither ignores SIGPIPE.                 *)
(***************************************************************************)
EXTENDS Integers, Sequences, FiniteSets

CONSTANTS
  Conns,    \* connections
  None,     \* no connection
  Scripts,  \* what each client may do on its connection: sequences of commands
  Room,     \* units a stream holds before its writer has to wait
  Backlog,  \* connections the listening socket keeps waiting
  BodySize, \* units of an uploaded or downloaded body, lines of a listing
  Longest,  \* bound: commands on one connection
  Budget    \* bound: clients that leave early, refused uploads, failed disks

ASSUME WireAssumption ==
  /\ None \notin Conns
  /\ Room \in Nat \ {0} /\ Backlog \in Nat \ {0}
  /\ BodySize \in Nat \ {0} /\ Longest \in Nat /\ Budget \in Nat

VARIABLES
  running,   \* whether the server process exists
  queue,     \* connections the kernel has accepted for the listening socket
  acceptor,  \* the connection whose handshake the accept loop is waiting for
  cli,       \* each client
  srv,       \* each connection's thread in the server
  up, down,  \* the streams of each connection
  lock,      \* the thread that holds the store's mutex
  left,      \* hazards that may still strike
  done,      \* history: changes the server has made, by connection and command
  acked      \* history: changes a client has been told of

vars == <<running, queue, acceptor, cli, srv, up, down, lock, left, done, acked>>

FileCommands  == {"STAT", "PUTFILE", "GETFILE", "DELFILE", "LIST"}
ChunkCommands == {"PUTCHUNK", "GETCHUNK", "DELCHUNK"}
HttpRequests  == {"GET", "PUT"}
Changes       == {"PUTFILE", "DELFILE", "PUTCHUNK", "DELCHUNK", "PUT"}
Uploads       == {"PUTFILE", "PUTCHUNK", "PUT"}
Commands      == {"HELLO", "PING", "LOGIN", "AUTH", "QUIT"}
                   \cup FileCommands \cup ChunkCommands \cup HttpRequests

\* What the program does on one connection; a silent client never handshakes.
Probe        == <<"PING">>
Files(cmds)  == <<"HELLO", "LOGIN">> \o cmds \o <<"QUIT">>
Chunks(cmds) == <<"HELLO", "AUTH">> \o cmds \o <<"QUIT">>
Upload       == Files(<<"STAT", "PUTFILE">>)
Silent       == <<>>

ASSUME ScriptsAssumption ==
  \A c \in Conns : \A s \in Scripts[c] : s \in Seq(Commands) /\ Len(s) <= Longest

Unit    == [cmd : Commands \cup {"body"}, n : 0 .. Longest]
Reply   == [kind : {"OK", "ERR", "NONE", "META", "DATA", "PONG", "BYE", "data"},
            n : 0 .. Longest]
Body(n) == [i \in 1 .. BodySize |-> [cmd |-> "body", n |-> n]]
Line(kind, n) == <<[kind |-> kind, n |-> n]>>
Data(n) == [i \in 1 .. BodySize |-> [kind |-> "data", n |-> n]]

Client == [pc : {"idle", "waiting", "talking", "ended"}, todo : Seq(Commands),
           cmd : Commands, n : 0 .. Longest, send : Seq(Unit), rest : 0 .. BodySize,
           result : {"none", "ok", "failed", "killed"}]
Thread == [pc : {"none", "first", "lines", "http", "body", "closed"}, cmd : Commands,
           n : 0 .. Longest, send : Seq(Reply), rest : 0 .. BodySize, keep : BOOLEAN,
           close : BOOLEAN, logged : BOOLEAN, trusted : BOOLEAN, refused : BOOLEAN]

NewClient == [pc |-> "idle", todo |-> <<>>, cmd |-> "PING", n |-> 0, send |-> <<>>,
              rest |-> 0, result |-> "none"]
NewThread == [pc |-> "none", cmd |-> "PING", n |-> 0, send |-> <<>>, rest |-> 0,
              keep |-> TRUE, close |-> FALSE, logged |-> FALSE, trusted |-> FALSE,
              refused |-> FALSE]

Init ==
  /\ running = TRUE /\ queue = <<>> /\ acceptor = None /\ lock = None
  /\ cli = [c \in Conns |-> NewClient] /\ srv = [c \in Conns |-> NewThread]
  /\ up = [c \in Conns |-> <<>>] /\ down = [c \in Conns |-> <<>>]
  /\ left = Budget /\ done = {} /\ acked = {}

Strikes == left > 0 /\ left' = left - 1

(* The client. *)

\* The connection is given up; unread replies turn that into a reset, which may take
\* back what the server has not read yet.
End(c, result) ==
  /\ cli' = [cli EXCEPT ![c] = [NewClient EXCEPT !.pc = "ended", !.result = result]]
  /\ down' = [down EXCEPT ![c] = <<>>]
  /\ \/ up' = up
     \/ down[c] # <<>> /\ up' = [up EXCEPT ![c] = <<>>]

\* The client with its next command ready to be sent.
Loaded(cl) ==
  LET cmd == Head(cl.todo)  n == cl.n + 1 IN
  [cl EXCEPT !.todo = Tail(@), !.cmd = cmd, !.n = n, !.rest = 0,
             !.send = <<[cmd |-> cmd, n |-> n]>> \o
                        (IF cmd \in Uploads THEN Body(n) ELSE <<>>)]

Dial(c) ==
  /\ cli[c].pc = "idle" /\ running /\ Len(queue) < Backlog
  /\ \E s \in Scripts[c] : cli' = [cli EXCEPT ![c].pc = "waiting", ![c].todo = s]
  /\ queue' = Append(queue, c)
  /\ UNCHANGED <<running, acceptor, srv, up, down, lock, left, done, acked>>

\* Nobody listens, the connection is not taken in time, or the handshake breaks.
DialFails(c) ==
  /\ \/ cli[c].pc = "idle" /\ (~running \/ Len(queue) = Backlog)
     \/ cli[c].pc = "waiting" /\ ~running
  /\ End(c, "failed")
  /\ UNCHANGED <<running, queue, acceptor, srv, lock, left, done, acked>>

Send(c) ==
  /\ cli[c].pc = "talking" /\ cli[c].send # <<>>
  /\ srv[c].pc # "closed" /\ Len(up[c]) < Room
  /\ up' = [up EXCEPT ![c] = Append(@, Head(cli[c].send))]
  /\ cli' = [cli EXCEPT ![c].send = Tail(@)]
  /\ UNCHANGED <<running, queue, acceptor, srv, down, lock, left, done, acked>>

\* Writing to a connection the server has closed is an error, or SIGPIPE.
SendFails(c) ==
  /\ cli[c].pc = "talking" /\ cli[c].send # <<>> /\ srv[c].pc = "closed"
  /\ \E result \in {"failed", "killed"} : End(c, result)
  /\ UNCHANGED <<running, queue, acceptor, srv, lock, left, done, acked>>

Awaits(c) == cli[c].pc = "talking" /\ cli[c].send = <<>>

\* What the client goes on with once a command is answered.
Proceed(c) ==
  IF cli[c].todo = <<>>
  THEN cli' = [cli EXCEPT ![c] = [NewClient EXCEPT !.pc = "ended", !.result = "ok"]]
  ELSE \/ cli' = [cli EXCEPT ![c] = Loaded(@)]
       \/ \* the server has the same content: the upload is skipped
          /\ cli[c].cmd = "STAT" /\ Head(down[c]).kind = "META"
          /\ cli' = [cli EXCEPT ![c] = Loaded([@ EXCEPT !.todo = <<"QUIT">>])]

\* Mutation of Refuses: an ERR is taken for an answer like any other.
RefusesNothing(r) == FALSE
Refuses(r) == r.kind = "ERR"

ReadReply(c) ==
  /\ Awaits(c) /\ cli[c].rest = 0 /\ down[c] # <<>>
  /\ LET r == Head(down[c]) IN
       /\ acked' = IF r.kind = "OK" /\ cli[c].cmd \in Changes
                   THEN acked \cup {<<c, cli[c].n>>} ELSE acked
       /\ \/ Refuses(r) /\ End(c, "failed")
          \/ /\ ~Refuses(r) /\ r.kind # "DATA"
             /\ Proceed(c)
             /\ down' = [down EXCEPT ![c] = Tail(@)] /\ up' = up
          \/ /\ r.kind = "DATA"
             /\ cli' = [cli EXCEPT ![c].rest = BodySize]
             /\ down' = [down EXCEPT ![c] = Tail(@)] /\ up' = up
  /\ UNCHANGED <<running, queue, acceptor, srv, lock, left, done>>

ReadData(c) ==
  /\ Awaits(c) /\ cli[c].rest > 0 /\ down[c] # <<>>
  /\ IF cli[c].rest = 1 THEN Proceed(c) ELSE cli' = [cli EXCEPT ![c].rest = @ - 1]
  /\ down' = [down EXCEPT ![c] = Tail(@)]
  /\ UNCHANGED <<running, queue, acceptor, srv, up, lock, left, done, acked>>

\* The connection ended before the answer came; after QUIT nobody minds.
ReadFails(c) ==
  /\ Awaits(c) /\ down[c] = <<>> /\ srv[c].pc = "closed"
  /\ End(c, IF cli[c].cmd = "QUIT" THEN "ok" ELSE "failed")
  /\ UNCHANGED <<running, queue, acceptor, srv, lock, left, done, acked>>

\* The program is interrupted or its machine goes away; a silent one may leave any time.
Leave(c) ==
  /\ \/ cli[c].pc = "talking" /\ Strikes
     \/ cli[c].pc = "waiting" /\ cli[c].todo = Silent /\ left' = left
  /\ End(c, "failed")
  /\ UNCHANGED <<running, queue, acceptor, srv, lock, done, acked>>

(* The accept loop, in the server's first thread. *)

Accept(c) ==
  /\ running /\ acceptor = None /\ queue # <<>> /\ c = Head(queue)
  /\ acceptor' = c /\ queue' = Tail(queue)
  /\ UNCHANGED <<running, cli, srv, up, down, lock, left, done, acked>>

Handshake(c) ==
  /\ acceptor = c /\ cli[c].pc = "waiting" /\ cli[c].todo # Silent
  /\ acceptor' = None
  /\ cli' = [cli EXCEPT ![c] = Loaded([@ EXCEPT !.pc = "talking"])]
  /\ srv' = [srv EXCEPT ![c].pc = "first"]
  /\ UNCHANGED <<running, queue, up, down, lock, left, done, acked>>

\* Mutation of HandshakeFails: a failed handshake stops the accept loop.
HandshakeEndsLoop(c) ==
  /\ acceptor = c /\ acceptor' = acceptor
  /\ cli[c].pc = "waiting" /\ cli[c].todo # Silent /\ Strikes /\ End(c, "failed")
  /\ UNCHANGED <<running, queue, srv, lock, done, acked>>

\* The peer left, or rejects the certificate: accept returns nothing, the loop goes on.
HandshakeFails(c) ==
  /\ acceptor = c /\ acceptor' = None
  /\ \/ cli[c].pc = "ended" /\ UNCHANGED <<cli, up, down, left>>
     \/ cli[c].pc = "waiting" /\ cli[c].todo # Silent /\ Strikes /\ End(c, "failed")
  /\ UNCHANGED <<running, queue, srv, lock, done, acked>>

(* A connection's thread. *)

Reads(c, pcs) == srv[c].pc \in pcs /\ srv[c].send = <<>> /\ ~srv[c].close

\* The thread's state once it has read the line it finds.
Heard(c) == [srv[c] EXCEPT !.pc = IF Head(up[c]).cmd \in HttpRequests THEN "http" ELSE "lines",
                           !.cmd = Head(up[c]).cmd, !.n = Head(up[c]).n]

Hears(c, cmds) ==
  /\ Reads(c, {"first", "lines"}) /\ up[c] # <<>> /\ Head(up[c]).cmd \in cmds
  /\ up' = [up EXCEPT ![c] = Tail(@)]

Becomes(c, th) == srv' = [srv EXCEPT ![c] = th]
Says(c, th, kind) == Becomes(c, [th EXCEPT !.send = Line(kind, th.n)])

Same == UNCHANGED <<running, queue, acceptor, cli, down, acked>>

\* HELLO, PING and QUIT need no identity.
Greet(c) ==
  /\ \/ Hears(c, {"HELLO"}) /\ Says(c, Heard(c), "OK")
     \/ Hears(c, {"PING"}) /\ Says(c, Heard(c), "PONG")
     \/ Hears(c, {"QUIT"}) /\ Says(c, [Heard(c) EXCEPT !.close = TRUE], "BYE")
  /\ Same /\ UNCHANGED <<lock, left, done>>

\* One attempt per connection; an account without storage may try another.
DoLogin(c) ==
  /\ Hears(c, {"LOGIN"})
  /\ \/ Says(c, [Heard(c) EXCEPT !.logged = TRUE], "OK") /\ left' = left
     \/ Says(c, [Heard(c) EXCEPT !.close = TRUE], "ERR") /\ left' = left
     \/ Says(c, Heard(c), "ERR") /\ Strikes
  /\ Same /\ UNCHANGED <<lock, done>>

DoAuth(c) ==
  /\ Hears(c, {"AUTH"})
  /\ \/ Says(c, [Heard(c) EXCEPT !.trusted = TRUE], "OK")
     \/ Says(c, [Heard(c) EXCEPT !.close = TRUE], "ERR")
  /\ Same /\ UNCHANGED <<lock, left, done>>

\* A file command without a login, a chunk command without the token.
Unproven(c) ==
  /\ \/ Hears(c, FileCommands) /\ ~srv[c].logged
     \/ Hears(c, ChunkCommands) /\ ~srv[c].trusted
  /\ Says(c, [Heard(c) EXCEPT !.refused = Head(up[c]).cmd \in Uploads], "ERR")
  /\ Same /\ UNCHANGED <<lock, left, done>>

Proven(c, cmd) == Hears(c, {cmd}) /\ (IF cmd \in FileCommands THEN srv[c].logged
                                                              ELSE srv[c].trusted)

\* The answer is sent before the mutex is released.
DoStat(c) ==
  /\ Proven(c, "STAT") /\ lock = None /\ lock' = c
  /\ \E kind \in {"NONE", "META"} : Says(c, Heard(c), kind)
  /\ Same /\ UNCHANGED <<left, done>>

\* A refused upload says so at once and leaves its body unread.
DoPut(c) ==
  /\ \E cmd \in {"PUTFILE", "PUTCHUNK"} : Proven(c, cmd)
  /\ \/ Becomes(c, [Heard(c) EXCEPT !.pc = "body", !.rest = BodySize]) /\ left' = left
     \/ Says(c, [Heard(c) EXCEPT !.refused = TRUE], "ERR") /\ Strikes
  /\ Same /\ UNCHANGED <<lock, done>>

Streams(c, th) == Becomes(c, [th EXCEPT !.send = Line("DATA", th.n) \o Data(th.n)])

\* A missing file is reported under the mutex, a present one is sent without it; one that
\* vanished in between ends the connection after its size was announced.
DoGet(c) ==
  /\ \E cmd \in {"GETFILE", "GETCHUNK"} : Proven(c, cmd)
  /\ lock = None
  /\ \/ Says(c, Heard(c), "NONE") /\ lock' = c /\ left' = left
     \/ Streams(c, Heard(c)) /\ lock' = lock /\ left' = left
     \/ Says(c, [Heard(c) EXCEPT !.close = TRUE], "DATA") /\ lock' = lock /\ Strikes
  /\ Same /\ UNCHANGED done

\* Removing a file that is not there is NONE, removing such a chunk is a success.
DoDel(c) ==
  /\ \E cmd \in {"DELFILE", "DELCHUNK"} : Proven(c, cmd)
  /\ lock = None
  /\ \/ Says(c, Heard(c), "OK") /\ done' = done \cup {<<c, Heard(c).n>>}
     \/ Heard(c).cmd = "DELFILE" /\ Says(c, Heard(c), "NONE") /\ done' = done
  /\ Same /\ UNCHANGED <<lock, left>>

\* Mutation of DoList: the listing is sent before the mutex is released.
DoListUnderLock(c) ==
  /\ Proven(c, "LIST") /\ lock = None /\ lock' = c /\ Streams(c, Heard(c))
  /\ Same /\ UNCHANGED <<left, done>>

\* A listing counts and names the files of one moment; it is sent without the mutex.
DoList(c) ==
  /\ Proven(c, "LIST") /\ lock = None /\ Streams(c, Heard(c))
  /\ Same /\ UNCHANGED <<lock, left, done>>

\* A buffer of a refused upload's body, read as lines: each is another unknown command,
\* or too long to be a line.
BodyAsLines(c) ==
  /\ Hears(c, {"body"})
  /\ \/ Says(c, [srv[c] EXCEPT !.n = 0], "ERR")
     \/ Becomes(c, srv[c])
     \/ Becomes(c, [srv[c] EXCEPT !.pc = "closed"])
  /\ Same /\ UNCHANGED <<lock, left, done>>

\* A browser's request: an answer with a body, one that is cut off because its file has
\* vanished, "no such file" said under the mutex, an upload, or one that is only drained.
HttpRequest(c) ==
  /\ Reads(c, {"first", "http"}) /\ up[c] # <<>>
  /\ up' = [up EXCEPT ![c] = Tail(@)]
  /\ \/ /\ Head(up[c]).cmd = "GET"
        /\ \/ Streams(c, Heard(c)) /\ UNCHANGED <<lock, left>>
           \/ Says(c, [Heard(c) EXCEPT !.close = TRUE], "DATA") /\ Strikes /\ lock' = lock
           \/ lock = None /\ lock' = c /\ Says(c, Heard(c), "NONE") /\ left' = left
     \/ /\ Head(up[c]).cmd = "PUT" /\ UNCHANGED <<lock, left>>
        /\ \E stored \in BOOLEAN :
             Becomes(c, [Heard(c) EXCEPT !.pc = "body", !.rest = BodySize, !.keep = stored])
  /\ Same /\ UNCHANGED done

\* Mutation of Receive: every buffer of a body is answered with two lines.
ReceiveAndReport(c) ==
  /\ Reads(c, {"body"}) /\ srv[c].rest > 0 /\ up[c] # <<>>
  /\ up' = [up EXCEPT ![c] = Tail(@)]
  /\ Becomes(c, [srv[c] EXCEPT !.rest = @ - 1,
                   !.send = Line("NONE", srv[c].n) \o Line("NONE", srv[c].n)])
  /\ Same /\ UNCHANGED <<lock, left, done>>

Receive(c) ==
  /\ Reads(c, {"body"}) /\ srv[c].rest > 0 /\ up[c] # <<>>
  /\ up' = [up EXCEPT ![c] = Tail(@)]
  /\ Becomes(c, [srv[c] EXCEPT !.rest = @ - 1])
  /\ Same /\ UNCHANGED <<lock, left, done>>

\* A temporary file that cannot be opened, or a full disk under the command protocol,
\* ends the connection without a reply.
ReceiveFails(c) ==
  /\ Reads(c, {"body"}) /\ srv[c].rest > 0 /\ Strikes
  /\ \/ srv[c].keep /\ srv[c].rest = BodySize
     \/ srv[c].cmd # "PUT" /\ up[c] # <<>>
  /\ Becomes(c, [srv[c] EXCEPT !.pc = "closed"])
  /\ Same /\ UNCHANGED <<up, lock, done>>

\* Mutation of Stored: the result of the rename is not looked at.
StoredUnchecked(c) ==
  /\ Reads(c, {"body"}) /\ srv[c].rest = 0 /\ lock = None
  /\ Says(c, [srv[c] EXCEPT !.pc = "lines"], "OK")
  /\ \/ done' = done \cup {<<c, srv[c].n>>} /\ left' = left
     \/ done' = done /\ Strikes
  /\ Same /\ UNCHANGED <<up, lock>>

\* The whole body is there: rename it into place under the mutex and answer, of a failed
\* rename while the mutex is still held.
Stored(c) ==
  LET th == [srv[c] EXCEPT !.pc = IF srv[c].cmd = "PUT" THEN "http" ELSE "lines",
                           !.keep = TRUE]
      no == IF srv[c].cmd = "PUT" THEN "NONE" ELSE "ERR" IN
  /\ Reads(c, {"body"}) /\ srv[c].rest = 0
  /\ \/ /\ srv[c].keep /\ lock = None /\ UNCHANGED <<lock, left>>
        /\ done' = done \cup {<<c, srv[c].n>>} /\ Says(c, th, "OK")
     \/ /\ srv[c].keep /\ lock = None /\ lock' = c /\ Strikes
        /\ done' = done /\ Says(c, th, no)
     \/ ~srv[c].keep /\ UNCHANGED <<lock, left, done>> /\ Says(c, th, no)
  /\ Same /\ up' = up

\* Mutation of Released: the reply leaves the mutex locked.
NeverReleased(c) == lock' = lock
Released(c) == lock' = IF lock = c /\ Len(srv[c].send) = 1 THEN None ELSE lock

SendReply(c) ==
  /\ srv[c].send # <<>> /\ cli[c].pc = "talking" /\ Len(down[c]) < Room
  /\ down' = [down EXCEPT ![c] = Append(@, Head(srv[c].send))]
  /\ Becomes(c, [srv[c] EXCEPT !.send = Tail(@),
                   !.pc = IF srv[c].close /\ Len(srv[c].send) = 1 THEN "closed" ELSE @])
  /\ Released(c)
  /\ UNCHANGED <<running, queue, acceptor, cli, up, left, done, acked>>

\* Writing to a client that is gone: the result of a single line is not looked at, a
\* transfer stops.
ReplyIsLost(c) ==
  /\ srv[c].send # <<>> /\ cli[c].pc = "ended"
  /\ Becomes(c, [srv[c] EXCEPT !.send = <<>>,
                   !.pc = IF srv[c].close \/ Len(srv[c].send) > 1 THEN "closed" ELSE @])
  /\ Released(c)
  /\ Same /\ UNCHANGED <<up, left, done>>

\* Or the write raises SIGPIPE, which ends the process.
ProcessEnds(c) ==
  /\ srv[c].send # <<>> /\ cli[c].pc = "ended"
  /\ running' = FALSE /\ queue' = <<>> /\ acceptor' = None /\ lock' = None
  /\ srv' = [d \in Conns |-> [NewThread EXCEPT !.pc = "closed"]]
  /\ UNCHANGED <<cli, up, down, left, done, acked>>

\* Nothing more will come.
EndOfStream(c) ==
  /\ Reads(c, {"first", "lines", "http", "body"}) /\ up[c] = <<>> /\ cli[c].pc = "ended"
  /\ srv[c].rest > 0 \/ srv[c].pc # "body"
  /\ Becomes(c, [srv[c] EXCEPT !.pc = "closed"])
  /\ Same /\ UNCHANGED <<up, lock, left, done>>

ClientStep(c) == \/ Dial(c) \/ DialFails(c) \/ Send(c) \/ SendFails(c) \/ ReadReply(c)
                 \/ ReadData(c) \/ ReadFails(c)
AcceptStep    == \E c \in Conns : Accept(c) \/ Handshake(c) \/ HandshakeFails(c)
Handle(c)     == \/ Greet(c) \/ DoLogin(c) \/ DoAuth(c) \/ Unproven(c) \/ DoStat(c)
                 \/ DoPut(c) \/ DoGet(c) \/ DoDel(c) \/ DoList(c) \/ BodyAsLines(c)
                 \/ HttpRequest(c)
ThreadStep(c) == \/ Handle(c) \/ Receive(c) \/ ReceiveFails(c) \/ Stored(c) \/ SendReply(c)
                 \/ ReplyIsLost(c) \/ ProcessEnds(c) \/ EndOfStream(c)

Next == \/ AcceptStep
        \/ \E c \in Conns : ClientStep(c) \/ ThreadStep(c) \/ Leave(c)

\* Programs and threads do not stop of their own accord, and a mutex is granted in turn.
Spec == /\ Init /\ [][Next]_vars
        /\ WF_vars(AcceptStep)
        /\ \A c \in Conns : WF_vars(ClientStep(c)) /\ SF_vars(ThreadStep(c))

-----------------------------------------------------------------------------
\* The variables stay within their ranges, a thread that holds the mutex has an answer to
\* send, and no thread runs in a process that has ended.
TypeOK ==
  /\ running \in BOOLEAN /\ queue \in Seq(Conns) /\ acceptor \in Conns \cup {None}
  /\ cli \in [Conns -> Client] /\ srv \in [Conns -> Thread]
  /\ up \in [Conns -> Seq(Unit)] /\ down \in [Conns -> Seq(Reply)]
  /\ \A c \in Conns : Len(up[c]) <= Room /\ Len(down[c]) <= Room
  /\ lock \in Conns \cup {None} /\ left \in 0 .. Budget
  /\ lock # None => srv[lock].send # <<>>
  /\ ~running => acceptor = None /\ \A c \in Conns : srv[c].pc = "closed"

\* What a client is about to read answers the command it is waiting for, although commands
\* carry no identity and a refused upload fills the stream with replies to its own body
\* (Remote's methods, Session::handle).
RepliesMatch ==
  \A c \in Conns :
    Awaits(c) /\ down[c] # <<>> => Head(down[c]).n = cli[c].n

\* A client told that its upload or delete succeeded belongs to a server that has made the
\* change, whatever broke in between (Session::do_put_file, Remote::put_file).
AckedWasDone == acked \subseteq done

\* Client and server never both wait for the other to read, unless the server refused an
\* upload and answers its body line by line while the client still writes it
\* (Session::fail, Remote::send_file_body).
StuckOnEachOther(c) ==
  /\ cli[c].pc = "talking" /\ cli[c].send # <<>> /\ Len(up[c]) = Room
  /\ srv[c].send # <<>> /\ Len(down[c]) = Room
NoMutualBlock == \A c \in Conns : StuckOnEachOther(c) => srv[c].refused

\* The thread that sends while it holds the store's mutex never has to wait for its client:
\* the program sends a command only once the one before it is answered, so the stream is
\* empty whenever such a reply is due, even if the client reads nothing of it and never will
\* (Session::do_stat, do_get_file, do_put_file).
MutexHolderCanSend ==
  \A c \in Conns : lock = c => cli[c].pc = "ended" \/ Len(down[c]) < Room

\* Every connection comes to its end, unless the accept loop waits for the handshake of a
\* peer that never speaks, or a refused upload has blocked both sides: nothing else makes a
\* client hang, although no read has a timeout (TlsListener::accept, TlsChannel::recv).
Hostage(c) == \/ acceptor # None /\ cli[acceptor].todo = Silent /\ cli[acceptor].pc = "waiting"
              \/ cli[c].todo = Silent /\ cli[c].pc = "waiting"
              \/ StuckOnEachOther(c)
ClientsEnd == \A c \in Conns : cli[c].pc # "ended" ~> cli[c].pc = "ended" \/ Hostage(c)
=============================================================================
