----------------------------- MODULE WireProofs -----------------------------
(***************************************************************************)
(* What holds of every connection for any number of clients, any scripts   *)
(* and bodies of any length, streams of any capacity and whatever breaks:  *)
(* the types; that replies answer the command they are read for; that what *)
(* was acknowledged was done; who may block whom.                          *)
(***************************************************************************)
EXTENDS Wire, TLAPS

Bodies(s)    == \A i \in 1 .. Len(s) : s[i].cmd = "body"
Expected(cl) == IF cl.cmd \in Uploads THEN 1 + BodySize ELSE 1

\* The oldest of the replies that d and then s hold.
First(d, s) == IF d # <<>> THEN d[1] ELSE s[1]

\* Where the conversation of client cl with thread th stands: u and d are their streams,
\* made the changes the server has made.

\* The server has not read the command's line.
Asking(cl, th, u, d) ==
  /\ th.send = <<>> /\ d = <<>> /\ cl.rest = 0 /\ th.pc # "body"
  /\ Len(u) + Len(cl.send) = Expected(cl)
  /\ \A i \in 1 .. Len(u) + Len(cl.send) :
       LET unit == IF i <= Len(u) THEN u[i] ELSE cl.send[i - Len(u)] IN
       IF i = 1 THEN unit.cmd = cl.cmd /\ unit.n = cl.n ELSE unit.cmd = "body"

\* It reads the command's body.
Receiving(cl, th, u, d) ==
  /\ th.send = <<>> /\ d = <<>> /\ cl.rest = 0 /\ th.pc = "body"
  /\ th.n = cl.n /\ Len(u) + Len(cl.send) = th.rest

Fits(c, cl, r, made) ==
  r.n = cl.n /\ (r.kind = "OK" /\ cl.cmd \in Changes => <<c, cl.n>> \in made)

\* It has read the whole command, and d and s are what the client has yet to read.
Answering(c, cl, s, d, made) ==
  /\ \A i \in 1 .. Len(d) : Fits(c, cl, d[i], made)
  /\ \A i \in 1 .. Len(s) : Fits(c, cl, s[i], made)
  /\ IF cl.rest > 0
     THEN Len(d) + Len(s) <= cl.rest
     ELSE \/ Len(d) + Len(s) <= 1
          \/ Len(d) + Len(s) <= 1 + BodySize /\ First(d, s).kind = "DATA"

\* It has refused an upload whose body it has not read.
Refusing(cl, s, d) ==
  /\ cl.rest = 0 /\ (d # <<>> \/ s # <<>>)
  /\ First(d, s).kind = "ERR" /\ First(d, s).n = cl.n

Talk(c, cl, th, u, d, made) ==
  \/ th.pc # "closed" /\ Asking(cl, th, u, d)
  \/ th.pc # "closed" /\ Receiving(cl, th, u, d)
  \/ /\ th.pc \notin {"body", "closed"} /\ u = <<>> /\ cl.send = <<>>
     /\ Answering(c, cl, th.send, d, made)
  \/ /\ th.pc \notin {"body", "closed"} /\ th.refused /\ Bodies(u) /\ Bodies(cl.send)
     /\ Refusing(cl, th.send, d)
  \/ /\ th.pc = "closed"
     /\ cl.send = <<>> => Answering(c, cl, <<>>, d, made) \/ Refusing(cl, <<>>, d)

\* One connection; on says whether the server process runs.
Link(c, cl, th, u, d, made, on) ==
  /\ cl \in Client /\ th \in Thread
  /\ u \in Seq(Unit) /\ Len(u) <= Room /\ d \in Seq(Reply) /\ Len(d) <= Room
  /\ cl.n + Len(cl.todo) <= Longest
  /\ cl.pc \in {"idle", "waiting"} => /\ u = <<>> /\ d = <<>> /\ cl.n = 0
                                      /\ on => th = NewThread
  /\ cl.pc = "talking" => Talk(c, cl, th, u, d, made)
  /\ th.pc = "closed" => th.send = <<>>
  /\ ~on => th.pc = "closed"

Links == \A c \in Conns : Link(c, cli[c], srv[c], up[c], down[c], done, running)

\* The mutex is held for one line at a time, by a thread whose client has read the rest.
LockOK ==
  lock # None => /\ Len(srv[lock].send) = 1
                 /\ cli[lock].pc # "ended" => down[lock] = <<>>

Safe == TypeOK /\ Links /\ LockOK /\ AckedWasDone
-----------------------------------------------------------------------------
(* Sequences and records *)

LEMMA HeadTail ==
  ASSUME NEW S, NEW s \in Seq(S), s # <<>>
  PROVE  /\ Tail(s) \in Seq(S) /\ Len(Tail(s)) = Len(s) - 1 /\ Len(s) \in Nat \ {0}
         /\ s[1] \in S /\ Head(s) = s[1]
         /\ \A i \in 1 .. Len(s) - 1 : Tail(s)[i] = s[i + 1]
OBVIOUS

LEMMA EmptySeq == ASSUME NEW S, NEW s \in Seq(S), Len(s) = 0 PROVE s = <<>>
OBVIOUS

LEMMA NoEmptyLine == ASSUME NEW s, Len(s) = 1 PROVE s # <<>>
<1>1. Len(<<>>) = 0
  OBVIOUS
<1> QED BY <1>1

LEMMA Appended ==
  ASSUME NEW S, NEW s \in Seq(S), NEW x \in S
  PROVE  /\ Append(s, x) \in Seq(S) /\ Len(Append(s, x)) = Len(s) + 1 /\ Append(s, x) # <<>>
         /\ Append(s, x)[Len(s) + 1] = x
         /\ \A i \in 1 .. Len(s) : Append(s, x)[i] = s[i]
OBVIOUS

LEMMA Prefixed ==
  ASSUME NEW S, NEW s \in Seq(S), NEW x \in S
  PROVE  /\ <<x>> \o s \in Seq(S) /\ Len(<<x>> \o s) = Len(s) + 1 /\ <<x>> \o s # <<>>
         /\ (<<x>> \o s)[1] = x
         /\ \A i \in 1 .. Len(s) : (<<x>> \o s)[i + 1] = s[i]
OBVIOUS

LEMMA BodyTypes ==
  ASSUME NEW n \in 0 .. Longest
  PROVE  /\ Body(n) \in Seq(Unit) /\ Len(Body(n)) = BodySize /\ Bodies(Body(n))
         /\ Data(n) \in Seq(Reply) /\ Len(Data(n)) = BodySize
         /\ \A i \in 1 .. BodySize : Data(n)[i].n = n /\ Data(n)[i].kind = "data"
BY WireAssumption DEF Body, Data, Unit, Reply, Bodies

LEMMA LineTypes ==
  ASSUME NEW n \in 0 .. Longest,
         NEW kind \in {"OK", "ERR", "NONE", "META", "DATA", "PONG", "BYE", "data"}
  PROVE  /\ Line(kind, n) \in Seq(Reply) /\ Len(Line(kind, n)) = 1
         /\ Line(kind, n)[1].kind = kind /\ Line(kind, n)[1].n = n
BY DEF Line, Reply

\* The announced size and what follows it.
Transfer(n) == Line("DATA", n) \o Data(n)

LEMMA StreamTypes ==
  ASSUME NEW n \in 0 .. Longest, NEW all, all = Transfer(n)
  PROVE  /\ all \in Seq(Reply) /\ Len(all) = BodySize + 1 /\ all[1].kind = "DATA"
         /\ \A i \in 1 .. Len(all) : all[i].n = n /\ all[i].kind # "OK"
<1> DEFINE x == [kind |-> "DATA", n |-> n]
           body == Data(n)
<1>1. x \in Reply /\ x.kind = "DATA" /\ x.n = n
  BY DEF Reply
<1>2. all = <<x>> \o body
  BY DEF Line, Transfer
<1>3. /\ body \in Seq(Reply) /\ Len(body) = BodySize
      /\ \A i \in 1 .. BodySize : body[i].n = n /\ body[i].kind = "data"
  BY BodyTypes
<1> HIDE DEF x, body
<1>4. /\ all \in Seq(Reply) /\ Len(all) = BodySize + 1 /\ all[1] = x
      /\ \A i \in 1 .. BodySize : all[i + 1] = body[i]
  <2>1. /\ <<x>> \o body \in Seq(Reply) /\ Len(<<x>> \o body) = Len(body) + 1
        /\ (<<x>> \o body)[1] = x
        /\ \A i \in 1 .. Len(body) : (<<x>> \o body)[i + 1] = body[i]
    BY ONLY <1>1, <1>3, Prefixed
  <2> QED BY <1>2, <1>3, <2>1
<1>5. ASSUME NEW i \in 1 .. BodySize + 1 PROVE all[i].n = n /\ all[i].kind # "OK"
  <2>1. CASE i = 1
    BY <1>1, <1>4, <2>1
  <2>2. CASE i # 1
    <3>1. i - 1 \in 1 .. BodySize /\ (i - 1) + 1 = i
      BY <2>2, WireAssumption
    <3>2. all[(i - 1) + 1] = body[i - 1]
      BY <1>4, <3>1
    <3> QED BY <1>3, <3>1, <3>2
  <2> QED BY <2>1, <2>2
<1> QED BY <1>1, <1>4, <1>5

LEMMA NewTypes ==
  /\ NewClient \in Client /\ NewClient.n = 0 /\ Len(NewClient.todo) = 0
  /\ NewClient.send = <<>> /\ NewClient.rest = 0 /\ NewClient.pc = "idle"
  /\ NewThread \in Thread /\ NewThread.send = <<>> /\ NewThread.pc = "none"
<1>1. <<>> \in Seq(Commands) /\ <<>> \in Seq(Unit) /\ <<>> \in Seq(Reply) /\ Len(<<>>) = 0
  OBVIOUS
<1>2. 0 \in 0 .. Longest /\ 0 \in 0 .. BodySize
  BY WireAssumption
<1> QED BY <1>1, <1>2 DEF NewClient, NewThread, Client, Thread, Commands

\* The next command as the client sends it.
LEMMA LoadedTypes ==
  ASSUME NEW cl \in Client, cl.todo # <<>>, cl.n + Len(cl.todo) <= Longest
  PROVE  LET next == Loaded(cl) IN
         /\ next \in Client /\ next.n + Len(next.todo) <= Longest /\ next.rest = 0
         /\ next.pc = cl.pc /\ Len(next.send) = Expected(next) /\ next.send # <<>>
         /\ next.send[1].cmd = next.cmd /\ next.send[1].n = next.n
         /\ \A i \in 2 .. Len(next.send) : next.send[i].cmd = "body"
<1> DEFINE cmd == Head(cl.todo)
           n == cl.n + 1
           x == [cmd |-> cmd, n |-> n]
           rest == IF cmd \in Uploads THEN Body(n) ELSE <<>>
<1>1. cl.todo \in Seq(Commands) /\ cl.n \in Nat
  BY DEF Client
<1>2. /\ cmd \in Commands /\ Tail(cl.todo) \in Seq(Commands)
      /\ Len(Tail(cl.todo)) = Len(cl.todo) - 1 /\ Len(cl.todo) \in Nat \ {0}
  BY <1>1, HeadTail
<1>3. n \in 0 .. Longest /\ n + Len(Tail(cl.todo)) <= Longest
  BY <1>1, <1>2, WireAssumption
<1>4. /\ rest \in Seq(Unit) /\ \A i \in 1 .. Len(rest) : rest[i].cmd = "body"
      /\ Len(rest) = IF cmd \in Uploads THEN BodySize ELSE 0
  BY <1>3, BodyTypes DEF Bodies
<1>5. x \in Unit
  BY <1>2, <1>3 DEF Unit
<1> DEFINE all == <<x>> \o rest
<1>6. /\ all \in Seq(Unit) /\ Len(all) = Len(rest) + 1 /\ all # <<>> /\ all[1] = x
      /\ \A i \in 1 .. Len(rest) : all[i + 1] = rest[i]
  BY ONLY <1>4, <1>5, Prefixed
<1>7. ASSUME NEW i \in 2 .. Len(all) PROVE all[i].cmd = "body"
  <2>1. i - 1 \in 1 .. Len(rest) /\ (i - 1) + 1 = i
    BY <1>4, <1>6, WireAssumption
  <2>2. all[(i - 1) + 1] = rest[i - 1]
    BY <1>6, <2>1
  <2> QED BY <1>4, <2>1, <2>2
<1>8. Loaded(cl) = [cl EXCEPT !.todo = Tail(cl.todo), !.cmd = cmd, !.n = n, !.rest = 0,
                              !.send = all]
  BY DEF Loaded
<1>9. 0 \in 0 .. BodySize
  BY WireAssumption
<1> HIDE DEF all, rest, n, cmd
<1>10. /\ Loaded(cl) \in Client /\ Loaded(cl).n = n /\ Loaded(cl).todo = Tail(cl.todo)
       /\ Loaded(cl).cmd = cmd /\ Loaded(cl).send = all /\ Loaded(cl).rest = 0
       /\ Loaded(cl).pc = cl.pc
  BY <1>2, <1>3, <1>6, <1>8, <1>9 DEF Client
<1>11. Len(all) = IF cmd \in Uploads THEN 1 + BodySize ELSE 1
  BY <1>4, <1>6, WireAssumption
<1> QED BY <1>3, <1>6, <1>7, <1>10, <1>11 DEF Expected
-----------------------------------------------------------------------------
(* One connection *)

LEMMA LinkTypes ==
  ASSUME NEW c, NEW cl, NEW th, NEW u, NEW d, NEW made, NEW on, Link(c, cl, th, u, d, made, on)
  PROVE  /\ cl.n \in 0 .. Longest /\ cl.send \in Seq(Unit) /\ cl.rest \in 0 .. BodySize
         /\ cl.cmd \in Commands /\ cl.todo \in Seq(Commands)
         /\ th.n \in 0 .. Longest /\ th.send \in Seq(Reply) /\ th.rest \in 0 .. BodySize
         /\ BodySize \in Nat \ {0} /\ Room \in Nat \ {0} /\ Longest \in Nat
BY WireAssumption DEF Link, Client, Thread

\* More changes made take nothing back.
LEMMA LinkGrows ==
  ASSUME NEW c, NEW cl, NEW th, NEW u, NEW d, NEW made, NEW more, NEW on,
         Link(c, cl, th, u, d, made, on), made \subseteq more
  PROVE  Link(c, cl, th, u, d, more, on)
BY DEF Link, Talk, Answering, Fits

LEMMA EndedTypes ==
  ASSUME NEW result \in {"none", "ok", "failed", "killed"}, NEW new,
         new = [NewClient EXCEPT !.pc = "ended", !.result = result]
  PROVE  new \in Client /\ new.pc = "ended" /\ new.n + Len(new.todo) <= Longest
<1>1. new \in Client /\ new.pc = "ended" /\ new.n = 0 /\ Len(new.todo) = 0
  BY NewTypes DEF Client
<1> QED BY <1>1, WireAssumption

LEMMA EndedLink ==
  ASSUME NEW c, NEW cl, NEW th, NEW u, NEW d, NEW made, NEW on,
         Link(c, cl, th, u, d, made, on),
         NEW new \in Client, new.pc = "ended", new.n + Len(new.todo) <= Longest,
         NEW w, w = u \/ w = <<>>, NEW e \in Seq(Reply), Len(e) <= Room
  PROVE  Link(c, new, th, w, e, made, on)
<1>1. w \in Seq(Unit) /\ Len(w) <= Room
  <2>1. <<>> \in Seq(Unit) /\ Len(<<>>) = 0
    OBVIOUS
  <2>2. CASE w = u
    BY <2>2 DEF Link
  <2>3. CASE w = <<>>
    BY <2>1, <2>3, WireAssumption
  <2> QED BY <2>2, <2>3
<1> QED BY <1>1 DEF Link

\* The next command is on its way: the server is ready for it, or gone.
LEMMA LoadedLink ==
  ASSUME NEW c, NEW cl \in Client, NEW th \in Thread, NEW made, NEW on,
         NEW u \in Seq(Unit), Len(u) <= Room, NEW d \in Seq(Reply), Len(d) <= Room,
         cl.pc = "talking", cl.todo # <<>>, cl.n + Len(cl.todo) <= Longest,
         th.send = <<>>, th.pc # "body", ~on => th.pc = "closed",
         th.pc # "closed" => u = <<>> /\ d = <<>>
  PROVE  Link(c, Loaded(cl), th, u, d, made, on)
<1> DEFINE next == Loaded(cl)
<1>1. /\ next \in Client /\ next.n + Len(next.todo) <= Longest /\ next.rest = 0
      /\ next.pc = "talking" /\ Len(next.send) = Expected(next) /\ next.send # <<>>
      /\ next.send[1].cmd = next.cmd /\ next.send[1].n = next.n
      /\ \A i \in 2 .. Len(next.send) : next.send[i].cmd = "body"
  BY LoadedTypes
<1>2. next.send \in Seq(Unit)
  BY <1>1 DEF Client
<1> HIDE DEF next
<1>3. CASE th.pc = "closed"
  BY <1>1, <1>3 DEF Link, Talk, next
<1>4. CASE th.pc # "closed"
  <2>1. Asking(next, th, <<>>, <<>>)
    <3>1. Len(<<>>) = 0 /\ Len(next.send) \in Nat
      BY <1>2
    <3>2. ASSUME NEW i \in 1 .. Len(<<>>) + Len(next.send)
          PROVE  ~(i <= Len(<<>>)) /\ i - Len(<<>>) = i /\ i \in 1 .. Len(next.send)
      BY <3>1
    <3>3. ASSUME NEW i \in 1 .. Len(<<>>) + Len(next.send)
          PROVE  LET unit == IF i <= Len(<<>>) THEN <<>>[i] ELSE next.send[i - Len(<<>>)] IN
                 IF i = 1 THEN unit.cmd = next.cmd /\ unit.n = next.n ELSE unit.cmd = "body"
      <4>1. CASE i = 1
        BY <1>1, <3>2, <4>1
      <4>2. CASE i # 1
        BY <1>1, <3>2, <4>2
      <4> QED BY <4>1, <4>2
    <3> QED BY <1>1, <3>1, <3>3 DEF Asking
  <2> QED BY <1>1, <1>4, <2>1 DEF Link, Talk, next
<1> QED BY <1>3, <1>4

LEMMA SendLink ==
  ASSUME NEW c, NEW cl, NEW th, NEW u, NEW d, NEW made, NEW on,
         Link(c, cl, th, u, d, made, on),
         cl.pc = "talking", cl.send # <<>>, th.pc # "closed", Len(u) < Room
  PROVE  Link(c, [cl EXCEPT !.send = Tail(@)], th, Append(u, Head(cl.send)), d, made, on)
<1> DEFINE next == [cl EXCEPT !.send = Tail(@)]
           w == Append(u, Head(cl.send))
           s == cl.send
<1>1. /\ cl \in Client /\ th \in Thread /\ u \in Seq(Unit) /\ d \in Seq(Reply)
      /\ Len(d) <= Room /\ cl.n + Len(cl.todo) <= Longest
      /\ Talk(c, cl, th, u, d, made) /\ on
  BY DEF Link
<1>2. s \in Seq(Unit) /\ Tail(s) \in Seq(Unit) /\ Len(s) \in Nat \ {0}
      /\ Len(Tail(s)) = Len(s) - 1 /\ s[1] \in Unit /\ Head(s) = s[1]
      /\ \A i \in 1 .. Len(s) - 1 : Tail(s)[i] = s[i + 1]
  BY LinkTypes, HeadTail
<1>3. /\ w \in Seq(Unit) /\ Len(w) = Len(u) + 1 /\ w[Len(u) + 1] = s[1] /\ Len(u) \in Nat
      /\ \A i \in 1 .. Len(u) : w[i] = u[i]
  BY <1>1, <1>2, Appended
<1>4. /\ next \in Client /\ next.send = Tail(s) /\ next.pc = "talking" /\ next.n = cl.n
      /\ next.todo = cl.todo /\ next.cmd = cl.cmd /\ next.rest = cl.rest
      /\ Expected(next) = Expected(cl)
  BY <1>1, <1>2 DEF Client, Expected
<1> HIDE DEF next, w, s
<1>5. th.pc # "closed"
  OBVIOUS
<1>6. SUFFICES Talk(c, next, th, w, d, made)
  <2>1. SUFFICES ASSUME Talk(c, next, th, w, d, made) PROVE Link(c, next, th, w, d, made, on)
    BY <2>1 DEF next, w
  <2> QED BY <1>1, <1>3, <1>4, <2>1, WireAssumption DEF Link
<1>7. CASE Asking(cl, th, u, d)
  <2>1. Len(w) + Len(next.send) = Len(u) + Len(s)
    BY <1>2, <1>3, <1>4
  <2>2. ASSUME NEW i \in 1 .. Len(w) + Len(next.send)
        PROVE  (IF i <= Len(w) THEN w[i] ELSE next.send[i - Len(w)])
                 = IF i <= Len(u) THEN u[i] ELSE s[i - Len(u)]
    <3>1. CASE i <= Len(u)
      BY <1>3, <3>1
    <3>2. CASE i = Len(u) + 1
      BY <1>2, <1>3, <3>2
    <3>3. CASE i > Len(u) + 1
      <4>1. i - Len(w) \in 1 .. Len(s) - 1 /\ (i - Len(w)) + 1 = i - Len(u)
        BY <1>2, <1>3, <1>4, <2>1, <3>3
      <4> QED BY <1>2, <1>3, <1>4, <3>3, <4>1
    <3> QED BY <1>3, <3>1, <3>2, <3>3
  <2>3. Asking(next, th, w, d)
    BY <1>4, <1>7, <2>1, <2>2 DEF Asking, s
  <2> QED BY <1>5, <2>3 DEF Talk
<1>8. CASE Receiving(cl, th, u, d)
  <2>1. Len(w) + Len(next.send) = Len(u) + Len(s)
    BY <1>2, <1>3, <1>4
  <2>2. Receiving(next, th, w, d)
    BY <1>4, <1>8, <2>1 DEF Receiving, s
  <2> QED BY <1>5, <2>2 DEF Talk
<1>9. CASE /\ th.pc \notin {"body", "closed"} /\ th.refused /\ Bodies(u) /\ Bodies(cl.send)
           /\ Refusing(cl, th.send, d)
  <2>1. Bodies(next.send) /\ Bodies(w)
    <3>1. ASSUME NEW i \in 1 .. Len(Tail(s)) PROVE Tail(s)[i].cmd = "body"
      BY <1>2, <1>9, <3>1 DEF Bodies, s
    <3>2. s[1].cmd = "body"
      BY <1>2, <1>9 DEF Bodies, s
    <3>3. ASSUME NEW i \in 1 .. Len(w) PROVE w[i].cmd = "body"
      BY <1>3, <1>9, <3>2, <3>3 DEF Bodies
    <3> QED BY <1>4, <3>1, <3>3 DEF Bodies
  <2>2. Refusing(next, th.send, d)
    BY <1>4, <1>9 DEF Refusing
  <2> QED BY <1>9, <2>1, <2>2 DEF Talk
<1> QED BY <1>1, <1>7, <1>8, <1>9 DEF Talk

\* What a client that waits for an answer may find.
LEMMA AwaitedReply ==
  ASSUME NEW c, NEW cl, NEW th, NEW u, NEW d, NEW made, NEW on,
         Link(c, cl, th, u, d, made, on),
         cl.pc = "talking", cl.send = <<>>, d # <<>>
  PROVE  /\ d[1] = Head(d) /\ Head(d) \in Reply /\ Head(d).n = cl.n
         /\ Tail(d) \in Seq(Reply) /\ Len(Tail(d)) = Len(d) - 1 /\ Len(d) \in Nat \ {0}
         /\ \A i \in 1 .. Len(d) - 1 : Tail(d)[i] = d[i + 1]
         /\ \/ Answering(c, cl, th.send, d, made) /\ th.pc # "body"
                 /\ (th.pc = "closed" \/ u = <<>>)
            \/ Head(d).kind = "ERR" /\ cl.rest = 0
<1>1. /\ d[1] = Head(d) /\ Head(d) \in Reply /\ Tail(d) \in Seq(Reply)
      /\ Len(Tail(d)) = Len(d) - 1 /\ Len(d) \in Nat \ {0}
      /\ \A i \in 1 .. Len(d) - 1 : Tail(d)[i] = d[i + 1]
  <2>1. d \in Seq(Reply)
    BY DEF Link
  <2> QED BY <2>1, HeadTail
<1>2. \/ Answering(c, cl, th.send, d, made) /\ th.pc # "body"
           /\ (th.pc = "closed" \/ u = <<>>)
      \/ Refusing(cl, th.send, d)
  <2>1. Talk(c, cl, th, u, d, made) /\ (th.pc = "closed" => th.send = <<>>)
    BY DEF Link
  <2> QED BY <2>1 DEF Talk, Asking, Receiving
<1>3. Answering(c, cl, th.send, d, made) => Head(d).n = cl.n
  <2>1. 1 \in 1 .. Len(d)
    BY <1>1
  <2> QED BY <1>1, <2>1 DEF Answering, Fits
<1>4. Refusing(cl, th.send, d) => /\ Head(d).n = cl.n /\ Head(d).kind = "ERR"
                                  /\ cl.rest = 0
  BY <1>1 DEF Refusing, First
<1> QED BY <1>1, <1>2, <1>3, <1>4

\* The answer a command was waiting for is its last: what follows it is a new command.
LEMMA AnswerIsLast ==
  ASSUME NEW c, NEW cl, NEW th, NEW u, NEW d, NEW made, NEW on,
         Link(c, cl, th, u, d, made, on),
         cl.pc = "talking", cl.send = <<>>, d # <<>>,
         \/ cl.rest = 0 /\ Head(d).kind \notin {"ERR", "DATA"}
         \/ cl.rest = 1
  PROVE  /\ Tail(d) = <<>> /\ th.send = <<>> /\ th.pc # "body"
         /\ th.pc = "closed" \/ u = <<>>
<1>1. /\ Answering(c, cl, th.send, d, made) /\ th.pc # "body" /\ d[1] = Head(d)
      /\ (th.pc = "closed" \/ u = <<>>) /\ Len(d) \in Nat \ {0}
      /\ Tail(d) \in Seq(Reply) /\ Len(Tail(d)) = Len(d) - 1
  BY AwaitedReply
<1>2. Len(d) + Len(th.send) <= 1
  <2>1. CASE cl.rest = 0 /\ Head(d).kind \notin {"ERR", "DATA"}
    BY <1>1, <2>1 DEF Answering, First
  <2>2. CASE cl.rest = 1
    BY <1>1, <2>2 DEF Answering
  <2> QED BY <2>1, <2>2
<1>3. th.send \in Seq(Reply)
  BY LinkTypes
<1>4. Len(th.send) \in Nat
  BY <1>3
<1>5. Len(th.send) = 0 /\ Len(Tail(d)) = 0
  BY <1>1, <1>2, <1>4
<1>6. th.send = <<>> /\ Tail(d) = <<>>
  BY ONLY <1>1, <1>3, <1>5, EmptySeq
<1> QED BY <1>1, <1>6

\* What Proceed makes of a client whose command is answered.
Goes(cl, last, next) ==
  \/ cl.todo = <<>> /\ next = [NewClient EXCEPT !.pc = "ended", !.result = "ok"]
  \/ cl.todo # <<>> /\ next = Loaded(cl)
  \/ cl.todo # <<>> /\ cl.cmd = "STAT" /\ last = "META"
       /\ next = Loaded([cl EXCEPT !.todo = <<"QUIT">>])

LEMMA ProceedLink ==
  ASSUME NEW c, NEW cl, NEW th, NEW u, NEW d, NEW made, NEW on, NEW last, NEW next,
         Link(c, cl, th, u, d, made, on),
         cl.pc = "talking", cl.send = <<>>, d # <<>>,
         \/ cl.rest = 0 /\ Head(d).kind \notin {"ERR", "DATA"}
         \/ cl.rest = 1,
         Goes(cl, last, next)
  PROVE  Link(c, next, th, u, Tail(d), made, on)
<1>1. /\ Tail(d) = <<>> /\ th.send = <<>> /\ th.pc # "body"
      /\ th.pc = "closed" \/ u = <<>>
  BY AnswerIsLast
<1>2. <<>> \in Seq(Reply) /\ Len(<<>>) <= Room
  BY WireAssumption
<1>3. CASE next = [NewClient EXCEPT !.pc = "ended", !.result = "ok"]
  <2>1. next \in Client /\ next.pc = "ended" /\ next.n + Len(next.todo) <= Longest
    BY <1>3, EndedTypes
  <2> QED BY <1>1, <1>2, <2>1, EndedLink
<1>4. /\ cl \in Client /\ th \in Thread /\ u \in Seq(Unit) /\ Len(u) <= Room
      /\ cl.n + Len(cl.todo) <= Longest /\ (~on => th.pc = "closed")
  BY DEF Link
<1>5. CASE cl.todo # <<>> /\ next = Loaded(cl)
  BY <1>1, <1>2, <1>4, <1>5, LoadedLink
<1>6. CASE cl.todo # <<>> /\ next = Loaded([cl EXCEPT !.todo = <<"QUIT">>])
  <2> DEFINE short == [cl EXCEPT !.todo = <<"QUIT">>]
  <2>1. cl.todo \in Seq(Commands) /\ cl.n \in Nat
    BY LinkTypes
  <2>2. Len(cl.todo) \in Nat \ {0}
    BY <1>6, <2>1
  <2>3. "QUIT" \in Commands
    BY DEF Commands
  <2>4. <<"QUIT">> \in Seq(Commands) /\ Len(<<"QUIT">>) = 1 /\ <<"QUIT">> # <<>>
    BY <2>3
  <2>5. /\ short \in Client /\ short.todo = <<"QUIT">> /\ short.n = cl.n
        /\ short.pc = "talking"
    BY <1>4, <2>4 DEF Client
  <2> HIDE DEF short
  <2>6. short.n + Len(short.todo) <= Longest
    BY <1>4, <2>1, <2>2, <2>4, <2>5, WireAssumption
  <2>7. Link(c, Loaded(short), th, u, Tail(d), made, on)
    BY <1>1, <1>2, <1>4, <2>4, <2>5, <2>6, LoadedLink
  <2> QED BY <1>6, <2>7 DEF short
<1> QED BY <1>3, <1>5, <1>6 DEF Goes

\* A unit of an answer is read and more are to come.
LEMMA MoreLink ==
  ASSUME NEW c, NEW cl, NEW th, NEW u, NEW d, NEW made, NEW on, NEW rest \in 1 .. BodySize,
         Link(c, cl, th, u, d, made, on),
         cl.pc = "talking", cl.send = <<>>, d # <<>>,
         \/ cl.rest = 0 /\ Head(d).kind = "DATA" /\ rest = BodySize
         \/ cl.rest > 1 /\ rest = cl.rest - 1
  PROVE  Link(c, [cl EXCEPT !.rest = rest], th, u, Tail(d), made, on)
<1> DEFINE next == [cl EXCEPT !.rest = rest]
<1>1. /\ Answering(c, cl, th.send, d, made) /\ th.pc # "body" /\ d[1] = Head(d)
      /\ (th.pc = "closed" \/ u = <<>>) /\ Len(d) \in Nat \ {0}
      /\ Tail(d) \in Seq(Reply) /\ Len(Tail(d)) = Len(d) - 1
      /\ \A i \in 1 .. Len(d) - 1 : Tail(d)[i] = d[i + 1]
  BY AwaitedReply
<1>2. /\ cl \in Client /\ th \in Thread /\ u \in Seq(Unit) /\ Len(u) <= Room
      /\ cl.n + Len(cl.todo) <= Longest /\ (~on => th.pc = "closed")
      /\ (th.pc = "closed" => th.send = <<>>) /\ Len(d) <= Room
  BY DEF Link
<1>3. /\ next \in Client /\ next.send = <<>> /\ next.pc = "talking" /\ next.n = cl.n
      /\ next.cmd = cl.cmd /\ next.rest = rest /\ next.todo = cl.todo
  <2>1. rest \in 0 .. BodySize
    BY WireAssumption
  <2> QED BY <1>2, <2>1 DEF Client
<1>4. cl.rest \in 0 .. BodySize /\ rest \in Nat
  BY LinkTypes
<1> HIDE DEF next
<1>5. Len(th.send) \in Nat
  <2>1. th.send \in Seq(Reply)
    BY LinkTypes
  <2> QED BY <2>1
<1>6. Len(Tail(d)) + Len(th.send) <= rest
  <2>1. CASE cl.rest = 0
    BY <1>1, <1>5, <1>4, <2>1, WireAssumption DEF Answering
  <2>2. CASE cl.rest > 1
    BY <1>1, <1>5, <1>4, <2>2 DEF Answering
  <2> QED BY <2>1, <2>2
<1>7. Answering(c, next, th.send, Tail(d), made)
  <2>1. ASSUME NEW i \in 1 .. Len(Tail(d)) PROVE Fits(c, next, Tail(d)[i], made)
    <3>1. Tail(d)[i] = d[i + 1] /\ i + 1 \in 1 .. Len(d)
      BY <1>1
    <3> QED BY <1>1, <1>3, <3>1 DEF Answering, Fits
  <2>2. ASSUME NEW i \in 1 .. Len(th.send) PROVE Fits(c, next, th.send[i], made)
    BY <1>1, <1>3 DEF Answering, Fits
  <2> QED BY <1>3, <1>6, <2>1, <2>2 DEF Answering
<1>8. Talk(c, next, th, u, Tail(d), made)
  BY <1>1, <1>2, <1>3, <1>7 DEF Talk
<1>9. Len(Tail(d)) <= Room
  BY <1>1, <1>2, WireAssumption
<1>10. Link(c, next, th, u, Tail(d), made, on)
  BY <1>1, <1>2, <1>3, <1>8, <1>9 DEF Link
<1> QED BY <1>10 DEF next

LEMMA ThreadLink ==
  ASSUME NEW c, NEW cl, NEW th, NEW u, NEW d, NEW made, NEW more, NEW on,
         Link(c, cl, th, u, d, made, on), th.pc # "closed",
         NEW t \in Thread, t.pc = "closed" => t.send = <<>>,
         NEW w, w = u \/ (u # <<>> /\ w = Tail(u)),
         cl.pc \notin {"idle", "waiting"},
         cl.pc = "talking" => Talk(c, cl, t, w, d, more)
  PROVE  Link(c, cl, t, w, d, more, on)
<1>1. u \in Seq(Unit) /\ Len(u) <= Room
  BY DEF Link
<1>2. w \in Seq(Unit) /\ Len(w) <= Room
  <2>1. CASE w = u
    BY <1>1, <2>1
  <2>2. CASE u # <<>> /\ w = Tail(u)
    BY <1>1, <2>2, HeadTail, WireAssumption
  <2> QED BY <2>1, <2>2
<1> QED BY <1>2 DEF Link

\* A thread that finds a command on its stream finds the one its client waits for.
LEMMA HeardIsAsked ==
  ASSUME NEW c, NEW cl, NEW th, NEW u, NEW d, NEW made, NEW on,
         Link(c, cl, th, u, d, made, on),
         th.pc \notin {"body", "closed"}, th.send = <<>>, u # <<>>, Head(u).cmd # "body"
  PROVE  /\ cl.pc \notin {"idle", "waiting"}
         /\ cl.pc = "talking" =>
              /\ cl.cmd = Head(u).cmd /\ cl.n = Head(u).n /\ d = <<>> /\ cl.rest = 0
              /\ Bodies(Tail(u)) /\ Bodies(cl.send)
              /\ Len(Tail(u)) + Len(cl.send) + 1 = Expected(cl)
<1>1. cl.pc \notin {"idle", "waiting"}
  BY DEF Link
<1>2. /\ u[1] = Head(u) /\ Len(u) \in Nat \ {0} /\ Len(Tail(u)) = Len(u) - 1
      /\ \A i \in 1 .. Len(u) - 1 : Tail(u)[i] = u[i + 1]
  <2>1. u \in Seq(Unit)
    BY DEF Link
  <2> QED BY <2>1, HeadTail
<1>3. Len(cl.send) \in Nat
  <2>1. cl.send \in Seq(Unit)
    BY LinkTypes
  <2> QED BY <2>1
<1> SUFFICES ASSUME cl.pc = "talking"
             PROVE  /\ cl.cmd = Head(u).cmd /\ cl.n = Head(u).n /\ d = <<>> /\ cl.rest = 0
                    /\ Bodies(Tail(u)) /\ Bodies(cl.send)
                    /\ Len(Tail(u)) + Len(cl.send) + 1 = Expected(cl)
  BY <1>1
<1>4. Asking(cl, th, u, d)
  <2>1. ~Bodies(u)
    BY <1>2 DEF Bodies
  <2> QED BY <2>1 DEF Link, Talk, Receiving
<1>5. cl.cmd = Head(u).cmd /\ cl.n = Head(u).n
  <2>1. 1 \in 1 .. Len(u) + Len(cl.send) /\ 1 <= Len(u)
    BY <1>2, <1>3
  <2> QED BY <1>2, <1>4, <2>1 DEF Asking
<1>6. ASSUME NEW i \in 1 .. Len(Tail(u)) PROVE Tail(u)[i].cmd = "body"
  <2>1. i + 1 \in 1 .. Len(u) + Len(cl.send) /\ i + 1 <= Len(u) /\ i + 1 # 1
    BY <1>2, <1>3
  <2> QED BY <1>2, <1>4, <2>1 DEF Asking
<1>7. ASSUME NEW i \in 1 .. Len(cl.send) PROVE cl.send[i].cmd = "body"
  <2> DEFINE j == Len(u) + i
  <2>1. j \in 1 .. Len(u) + Len(cl.send) /\ ~(j <= Len(u)) /\ j # 1 /\ j - Len(u) = i
    BY <1>2, <1>3
  <2> HIDE DEF j
  <2> QED BY <1>4, <2>1 DEF Asking
<1> QED BY <1>2, <1>3, <1>4, <1>5, <1>6, <1>7 DEF Asking, Bodies

\* A command without a body is answered.
LEMMA AnswerLink ==
  ASSUME NEW c, NEW cl, NEW th, NEW u, NEW d, NEW made, NEW more, NEW on,
         Link(c, cl, th, u, d, made, on),
         th.pc \notin {"body", "closed"}, th.send = <<>>, u # <<>>,
         Head(u).cmd \notin Uploads \cup {"body"},
         NEW t \in Thread, t.pc \notin {"body", "closed"},
         \A i \in 1 .. Len(t.send) :
           /\ t.send[i].n = Head(u).n
           /\ t.send[i].kind = "OK" /\ Head(u).cmd \in Changes => <<c, Head(u).n>> \in more,
         \/ Len(t.send) = 1
         \/ Len(t.send) = BodySize + 1 /\ t.send[1].kind = "DATA"
  PROVE  Link(c, cl, t, Tail(u), d, more, on)
<1>1. /\ cl.pc \notin {"idle", "waiting"}
      /\ cl.pc = "talking" =>
           /\ cl.cmd = Head(u).cmd /\ cl.n = Head(u).n /\ d = <<>> /\ cl.rest = 0
           /\ Len(Tail(u)) + Len(cl.send) + 1 = Expected(cl)
  BY HeardIsAsked
<1>2. u \in Seq(Unit) /\ cl.send \in Seq(Unit)
  BY LinkTypes DEF Link
<1>3. ASSUME cl.pc = "talking" PROVE Talk(c, cl, t, Tail(u), d, more)
  <2>1. Len(Tail(u)) = 0 /\ Len(cl.send) = 0 /\ Tail(u) \in Seq(Unit)
    <3> DEFINE m == Len(Tail(u))
               n == Len(cl.send)
    <3>1. Tail(u) \in Seq(Unit)
      BY <1>2, HeadTail
    <3>2. m \in Nat /\ n \in Nat
      BY <1>2, <3>1
    <3>3. m + n + 1 = 1
      BY <1>1, <1>3 DEF Expected
    <3> HIDE DEF m, n
    <3>4. m = 0 /\ n = 0
      BY <3>2, <3>3
    <3> QED BY <3>1, <3>4 DEF m, n
  <2>2. Tail(u) = <<>> /\ cl.send = <<>>
    BY ONLY <1>2, <2>1, EmptySeq
  <2>3. Answering(c, cl, t.send, <<>>, more)
    <3>1. Len(<<>>) = 0 /\ First(<<>>, t.send) = t.send[1]
      BY DEF First
    <3>2. IF cl.rest > 0
          THEN Len(<<>>) + Len(t.send) <= cl.rest
          ELSE \/ Len(<<>>) + Len(t.send) <= 1
               \/ Len(<<>>) + Len(t.send) <= 1 + BodySize /\ First(<<>>, t.send).kind = "DATA"
      BY <1>1, <1>3, <3>1, WireAssumption
    <3> QED BY <1>1, <1>3, <3>1, <3>2 DEF Answering, Fits
  <2> QED BY <1>1, <1>3, <2>2, <2>3 DEF Talk
<1> QED BY <1>1, <1>3, ThreadLink

\* An upload is refused before its body is read.
LEMMA RefusalLink ==
  ASSUME NEW c, NEW cl, NEW th, NEW u, NEW d, NEW made, NEW on,
         Link(c, cl, th, u, d, made, on),
         th.pc \notin {"body", "closed"}, th.send = <<>>, u # <<>>, Head(u).cmd # "body",
         NEW t \in Thread, t.pc \notin {"body", "closed"}, t.refused,
         t.send = Line("ERR", Head(u).n)
  PROVE  Link(c, cl, t, Tail(u), d, made, on)
<1>1. /\ cl.pc \notin {"idle", "waiting"}
      /\ cl.pc = "talking" =>
           /\ cl.n = Head(u).n /\ d = <<>> /\ cl.rest = 0
           /\ Bodies(Tail(u)) /\ Bodies(cl.send)
  BY HeardIsAsked
<1>2. t.send # <<>> /\ t.send[1].kind = "ERR" /\ t.send[1].n = Head(u).n
  BY DEF Line
<1>3. ASSUME cl.pc = "talking" PROVE Talk(c, cl, t, Tail(u), d, made)
  BY <1>1, <1>2, <1>3 DEF Talk, Refusing, First
<1> QED BY <1>1, <1>3, ThreadLink

\* An upload's line is accepted.
LEMMA AcceptedLink ==
  ASSUME NEW c, NEW cl, NEW th, NEW u, NEW d, NEW made, NEW on,
         Link(c, cl, th, u, d, made, on),
         th.pc \notin {"body", "closed"}, th.send = <<>>, u # <<>>, Head(u).cmd \in Uploads,
         NEW t \in Thread, t.pc = "body", t.send = <<>>, t.rest = BodySize, t.n = Head(u).n
  PROVE  Link(c, cl, t, Tail(u), d, made, on)
<1>1. Head(u).cmd # "body"
  BY DEF Uploads
<1>2. /\ cl.pc \notin {"idle", "waiting"}
      /\ cl.pc = "talking" =>
           /\ cl.cmd = Head(u).cmd /\ cl.n = Head(u).n /\ d = <<>> /\ cl.rest = 0
           /\ Len(Tail(u)) + Len(cl.send) + 1 = Expected(cl)
  BY <1>1, HeardIsAsked
<1>3. ASSUME cl.pc = "talking" PROVE Talk(c, cl, t, Tail(u), d, made)
  <2>1. Len(Tail(u)) \in Nat /\ Len(cl.send) \in Nat
    <3>1. u \in Seq(Unit) /\ cl.send \in Seq(Unit)
      BY LinkTypes DEF Link
    <3> QED BY <3>1
  <2>2. Len(Tail(u)) + Len(cl.send) = t.rest
    BY <1>2, <1>3, <2>1, WireAssumption DEF Expected
  <2> QED BY <1>2, <1>3, <2>2 DEF Talk, Receiving
<1> QED BY <1>2, <1>3, ThreadLink

\* A buffer of the body is received.
LEMMA ReceivedLink ==
  ASSUME NEW c, NEW cl, NEW th, NEW u, NEW d, NEW made, NEW on,
         Link(c, cl, th, u, d, made, on),
         th.pc = "body", th.send = <<>>, u # <<>>, th.rest > 0
  PROVE  Link(c, cl, [th EXCEPT !.rest = @ - 1], Tail(u), d, made, on)
<1> DEFINE t == [th EXCEPT !.rest = @ - 1]
<1>1. th \in Thread /\ th.rest \in 0 .. BodySize /\ cl.pc \notin {"idle", "waiting"}
  BY LinkTypes DEF Link
<1>2. /\ t \in Thread /\ t.pc = "body" /\ t.send = <<>> /\ t.rest = th.rest - 1 /\ t.n = th.n
  <2>1. th.rest - 1 \in 0 .. BodySize
    BY <1>1, LinkTypes
  <2> QED BY <1>1, <2>1 DEF Thread
<1> HIDE DEF t
<1>3. ASSUME cl.pc = "talking" PROVE Talk(c, cl, t, Tail(u), d, made)
  <2>1. Receiving(cl, th, u, d)
    BY <1>3 DEF Link, Talk, Asking
  <2>2. Len(Tail(u)) = Len(u) - 1 /\ Len(u) \in Nat /\ Len(cl.send) \in Nat
    <3>1. u \in Seq(Unit) /\ cl.send \in Seq(Unit)
      BY LinkTypes DEF Link
    <3> QED BY <3>1, HeadTail
  <2>3. Receiving(cl, t, Tail(u), d)
    BY <1>1, <1>2, <2>1, <2>2 DEF Receiving
  <2> QED BY <1>2, <2>3 DEF Talk
<1>4. Link(c, cl, t, Tail(u), d, made, on)
  BY <1>1, <1>2, <1>3, ThreadLink
<1> QED BY <1>4 DEF t

\* A whole body is answered by one line.
LEMMA StoredLink ==
  ASSUME NEW c, NEW cl, NEW th, NEW u, NEW d, NEW made, NEW more, NEW on,
         Link(c, cl, th, u, d, made, on),
         th.pc = "body", th.send = <<>>, th.rest = 0,
         NEW kind \in {"OK", "NONE", "ERR"}, kind = "OK" => <<c, th.n>> \in more,
         NEW t \in Thread, t.pc \notin {"body", "closed"}, t.send = Line(kind, th.n)
  PROVE  Link(c, cl, t, u, d, more, on)
<1>1. cl.pc \notin {"idle", "waiting"}
  BY NewTypes DEF Link
<1>2. /\ Len(t.send) = 1 /\ t.send[1].kind = kind /\ t.send[1].n = th.n
  BY LinkTypes, LineTypes
<1>3. ASSUME cl.pc = "talking" PROVE Talk(c, cl, t, u, d, more)
  <2>1. Receiving(cl, th, u, d)
    BY <1>3 DEF Link, Talk, Asking
  <2>2. u \in Seq(Unit) /\ cl.send \in Seq(Unit)
    BY LinkTypes DEF Link
  <2>3. Len(u) = 0 /\ Len(cl.send) = 0
    <3>1. Len(u) \in Nat /\ Len(cl.send) \in Nat
      BY <2>2
    <3> QED BY <2>1, <3>1 DEF Receiving
  <2>4. u = <<>> /\ cl.send = <<>>
    BY ONLY <2>2, <2>3, EmptySeq
  <2>5. Answering(c, cl, t.send, <<>>, more)
    <3>1. Len(<<>>) = 0
      OBVIOUS
    <3>2. cl.n = th.n /\ cl.rest = 0
      BY <2>1 DEF Receiving
    <3>3. \A i \in 1 .. Len(t.send) : Fits(c, cl, t.send[i], more)
      BY <1>2, <3>2 DEF Fits
    <3> QED BY <1>2, <3>1, <3>2, <3>3 DEF Answering
  <2> QED BY <2>1, <2>4, <2>5 DEF Talk, Receiving
<1> QED BY <1>1, <1>3, ThreadLink

\* The transfer breaks off, or the process ends: the client finds what it has been sent.
LEMMA ClosedLink ==
  ASSUME NEW c, NEW cl, NEW th, NEW u, NEW d, NEW made, NEW on,
         Link(c, cl, th, u, d, made, on),
         NEW t \in Thread, t.pc = "closed", t.send = <<>>
  PROVE  /\ Link(c, cl, t, u, d, made, FALSE)
         /\ cl.pc \notin {"idle", "waiting"} => Link(c, cl, t, u, d, made, on)
<1>1. ASSUME cl.pc = "talking" PROVE Talk(c, cl, t, u, d, made)
  <2> SUFFICES ASSUME cl.send = <<>>
               PROVE  Answering(c, cl, <<>>, d, made) \/ Refusing(cl, <<>>, d)
    BY DEF Talk
  <2>1. Talk(c, cl, th, u, d, made) /\ (th.pc = "closed" => th.send = <<>>)
    BY <1>1 DEF Link
  <2>2. th.send \in Seq(Reply) /\ d \in Seq(Reply) /\ cl.rest \in 0 .. BodySize
        /\ BodySize \in Nat
    BY LinkTypes DEF Link
  <2>3. Len(th.send) \in Nat /\ Len(d) \in Nat /\ Len(<<>>) = 0
    BY <2>2
  <2>4. ASSUME d = <<>> PROVE Answering(c, cl, <<>>, d, made)
    BY <2>2, <2>3, <2>4 DEF Answering
  <2>5. ASSUME Answering(c, cl, th.send, d, made), d # <<>>
        PROVE  Answering(c, cl, <<>>, d, made)
    <3>1. First(d, <<>>) = First(d, th.send)
      BY <2>5 DEF First
    <3> QED BY <2>2, <2>3, <2>5, <3>1 DEF Answering
  <2>6. ASSUME Refusing(cl, th.send, d), d # <<>> PROVE Refusing(cl, <<>>, d)
    BY <2>6 DEF Refusing, First
  <2> QED BY <2>1, <2>4, <2>5, <2>6 DEF Talk, Asking, Receiving
<1> QED BY <1>1 DEF Link

\* A line of a reply goes out: the conversation keeps what it was.
LEMMA ReplyLink ==
  ASSUME NEW c, NEW cl, NEW th, NEW u, NEW d, NEW made, NEW on,
         Link(c, cl, th, u, d, made, on),
         th.send # <<>>, cl.pc = "talking", Len(d) < Room,
         NEW pc, pc = th.pc \/ (pc = "closed" /\ Len(th.send) = 1)
  PROVE  Link(c, cl, [th EXCEPT !.send = Tail(@), !.pc = pc], u,
              Append(d, Head(th.send)), made, on)
<1> DEFINE s == th.send
           t == [th EXCEPT !.send = Tail(@), !.pc = pc]
           e == Append(d, Head(s))
<1>1. /\ cl \in Client /\ th \in Thread /\ u \in Seq(Unit) /\ d \in Seq(Reply)
      /\ Len(u) <= Room /\ cl.n + Len(cl.todo) <= Longest
      /\ Talk(c, cl, th, u, d, made) /\ th.pc # "closed" /\ on
  BY DEF Link
<1>2. /\ s \in Seq(Reply) /\ Tail(s) \in Seq(Reply) /\ Len(s) \in Nat \ {0}
      /\ Len(Tail(s)) = Len(s) - 1 /\ s[1] \in Reply /\ Head(s) = s[1]
      /\ \A i \in 1 .. Len(s) - 1 : Tail(s)[i] = s[i + 1]
  BY LinkTypes, HeadTail
<1>3. /\ e \in Seq(Reply) /\ Len(e) = Len(d) + 1 /\ e[Len(d) + 1] = s[1] /\ Len(d) \in Nat
      /\ \A i \in 1 .. Len(d) : e[i] = d[i]
      /\ e # <<>>
  BY <1>1, <1>2, Appended
<1>4. t \in Thread /\ t.send = Tail(s) /\ t.pc = pc /\ t.refused = th.refused
  BY <1>1, <1>2 DEF Thread
<1>5. t.pc = "closed" => t.send = <<>>
  <2> SUFFICES ASSUME t.pc = "closed" PROVE Tail(s) = <<>>
    BY <1>4
  <2>1. Len(Tail(s)) = 0
    BY <1>1, <1>2, <1>4
  <2> QED BY ONLY <1>2, <2>1, EmptySeq
<1> HIDE DEF t, e, s
<1>6. First(e, Tail(s)) = First(d, s)
  <2>1. CASE d = <<>>
    <3>1. Len(d) = 0
      BY <2>1
    <3> QED BY <1>3, <2>1, <3>1 DEF First
  <2>2. CASE d # <<>>
    <3>1. 1 \in 1 .. Len(d)
      BY <1>1, <2>2
    <3> QED BY <1>3, <2>2, <3>1 DEF First
  <2> QED BY <2>1, <2>2
<1>7. Answering(c, cl, s, d, made) => Answering(c, cl, Tail(s), e, made)
  <2> SUFFICES ASSUME Answering(c, cl, s, d, made) PROVE Answering(c, cl, Tail(s), e, made)
    OBVIOUS
  <2>1. ASSUME NEW i \in 1 .. Len(e) PROVE Fits(c, cl, e[i], made)
    <3>1. CASE i = Len(d) + 1
      <4>1. 1 \in 1 .. Len(s)
        BY <1>2
      <4> QED BY <1>3, <3>1, <4>1 DEF Answering
    <3>2. CASE i # Len(d) + 1
      <4>1. i \in 1 .. Len(d)
        BY <1>3, <3>2
      <4> QED BY <1>3, <4>1 DEF Answering
    <3> QED BY <3>1, <3>2
  <2>2. ASSUME NEW i \in 1 .. Len(Tail(s)) PROVE Fits(c, cl, Tail(s)[i], made)
    <3>1. i + 1 \in 1 .. Len(s) /\ Tail(s)[i] = s[i + 1]
      BY <1>2
    <3> QED BY <3>1 DEF Answering
  <2>3. Len(e) + Len(Tail(s)) = Len(d) + Len(s)
    BY <1>2, <1>3
  <2> QED BY <1>6, <2>1, <2>2, <2>3 DEF Answering
<1>8. Refusing(cl, s, d) => Refusing(cl, Tail(s), e)
  BY <1>3, <1>6 DEF Refusing
<1>9. Talk(c, cl, t, u, e, made)
  <2>1. s # <<>>
    BY DEF s
  <2>2. CASE th.pc \notin {"body", "closed"} /\ u = <<>> /\ cl.send = <<>>
             /\ Answering(c, cl, s, d, made)
    BY <1>1, <1>4, <1>5, <1>7, <2>2 DEF Talk
  <2>3. CASE th.pc \notin {"body", "closed"} /\ th.refused /\ Bodies(u) /\ Bodies(cl.send)
             /\ Refusing(cl, s, d)
    BY <1>1, <1>4, <1>5, <1>8, <2>3 DEF Talk
  <2> QED BY <1>1, <2>1, <2>2, <2>3 DEF Talk, Asking, Receiving, s
<1>10. Len(e) <= Room
  BY <1>1, <1>3, WireAssumption
<1>11. Link(c, cl, t, u, e, made, on)
  BY <1>1, <1>3, <1>4, <1>5, <1>9, <1>10 DEF Link
<1> QED BY <1>11 DEF t, e, s

\* A buffer of a refused body is taken for a line.
LEMMA RefusedBodyLink ==
  ASSUME NEW c, NEW cl, NEW th, NEW u, NEW d, NEW made, NEW on,
         Link(c, cl, th, u, d, made, on),
         th.pc \notin {"body", "closed"}, th.send = <<>>, u # <<>>, Head(u).cmd = "body",
         NEW t \in Thread, t.pc # "body", t.refused = th.refused,
         t.pc = "closed" => t.send = <<>>
  PROVE  Link(c, cl, t, Tail(u), d, made, on)
<1>1. cl.pc \notin {"idle", "waiting"} /\ u \in Seq(Unit) /\ cl.cmd \in Commands
  BY LinkTypes DEF Link
<1>2. /\ u[1] = Head(u) /\ Len(u) \in Nat \ {0} /\ Len(Tail(u)) = Len(u) - 1
      /\ \A i \in 1 .. Len(u) - 1 : Tail(u)[i] = u[i + 1]
  BY <1>1, HeadTail
<1>3. ASSUME cl.pc = "talking" PROVE Talk(c, cl, t, Tail(u), d, made)
  <2>1. ~Asking(cl, th, u, d)
    <3>1. Len(cl.send) \in Nat
      <4>1. cl.send \in Seq(Unit)
        BY LinkTypes
      <4> QED BY <4>1
    <3>2. 1 \in 1 .. Len(u) + Len(cl.send) /\ 1 <= Len(u)
      BY <1>2, <3>1
    <3>3. "body" \notin Commands
      BY DEF Commands, FileCommands, ChunkCommands, HttpRequests
    <3> QED BY <1>1, <1>2, <3>2, <3>3 DEF Asking
  <2>2. th.refused /\ Bodies(u) /\ Bodies(cl.send) /\ Refusing(cl, <<>>, d)
    BY <1>3, <2>1 DEF Link, Talk, Receiving
  <2>3. Bodies(Tail(u))
    <3>1. ASSUME NEW i \in 1 .. Len(Tail(u)) PROVE Tail(u)[i].cmd = "body"
      <4>1. i + 1 \in 1 .. Len(u) /\ Tail(u)[i] = u[i + 1]
        BY <1>2
      <4> QED BY <2>2, <4>1 DEF Bodies
    <3> QED BY <3>1 DEF Bodies
  <2>4. Refusing(cl, t.send, d)
    BY <2>2 DEF Refusing, First
  <2> QED BY <2>2, <2>3, <2>4 DEF Talk
<1> QED BY <1>1, <1>3, ThreadLink
-----------------------------------------------------------------------------
(* The whole system *)

Only(c) ==
  /\ cli' = [cli EXCEPT ![c] = cli'[c]] /\ srv' = [srv EXCEPT ![c] = srv'[c]]
  /\ up' = [up EXCEPT ![c] = up'[c]] /\ down' = [down EXCEPT ![c] = down'[c]]

\* A step of one connection keeps the invariant if it keeps that connection's part.
LEMMA Turn ==
  ASSUME Safe, NEW c \in Conns, Only(c),
         running' = running, queue' \in Seq(Conns), acceptor' \in Conns \cup {None},
         ~running => acceptor' = None, left' \in 0 .. Budget,
         done \subseteq done', acked' \subseteq done',
         Link(c, cli'[c], srv'[c], up'[c], down'[c], done', running),
         lock' \in {lock, None, c},
         lock' = c => /\ Len(srv'[c].send) = 1
                      /\ cli'[c].pc # "ended" => down'[c] = <<>>
  PROVE  Safe'
<1>1. ASSUME NEW e \in Conns, e # c
      PROVE  cli'[e] = cli[e] /\ srv'[e] = srv[e] /\ up'[e] = up[e] /\ down'[e] = down[e]
  BY <1>1 DEF Only, Safe, TypeOK
<1>2. ASSUME NEW e \in Conns
      PROVE  Link(e, cli'[e], srv'[e], up'[e], down'[e], done', running')
  <2>1. CASE e = c
    BY <2>1
  <2>2. CASE e # c
    <3>1. Link(e, cli[e], srv[e], up[e], down[e], done, running)
      BY DEF Safe, Links
    <3>2. Link(e, cli[e], srv[e], up[e], down[e], done', running)
      BY <3>1, LinkGrows
    <3> QED BY <1>1, <2>2, <3>2
  <2> QED BY <2>1, <2>2
<1>3. Links'
  BY <1>2 DEF Links
<1>4. LockOK'
  <2>1. lock # None /\ lock # c => /\ lock \in Conns
                                   /\ srv'[lock] = srv[lock] /\ cli'[lock] = cli[lock]
                                   /\ down'[lock] = down[lock]
    BY <1>1 DEF Safe, TypeOK
  <2> QED BY <2>1 DEF LockOK, Safe
<1>5. ASSUME NEW e \in Conns
      PROVE  /\ cli'[e] \in Client /\ srv'[e] \in Thread
             /\ up'[e] \in Seq(Unit) /\ down'[e] \in Seq(Reply)
             /\ Len(up'[e]) <= Room /\ Len(down'[e]) <= Room
             /\ ~running => srv'[e].pc = "closed"
  BY <1>2 DEF Link
<1>6. cli' \in [Conns -> Client] /\ srv' \in [Conns -> Thread]
      /\ up' \in [Conns -> Seq(Unit)] /\ down' \in [Conns -> Seq(Reply)]
  BY <1>5 DEF Only, Safe, TypeOK
<1>7. lock' # None => srv'[lock'].send # <<>>
  BY <1>4, NoEmptyLine DEF LockOK
<1>8. TypeOK'
  BY <1>5, <1>6, <1>7 DEF TypeOK, Safe
<1> QED BY <1>3, <1>4, <1>8 DEF Safe, AckedWasDone

LEMMA SafeLink ==
  ASSUME Safe, NEW c \in Conns
  PROVE  /\ Link(c, cli[c], srv[c], up[c], down[c], done, running)
         /\ cli = [cli EXCEPT ![c] = cli[c]] /\ srv = [srv EXCEPT ![c] = srv[c]]
         /\ up = [up EXCEPT ![c] = up[c]] /\ down = [down EXCEPT ![c] = down[c]]
         /\ c \in DOMAIN cli /\ c \in DOMAIN srv /\ c \in DOMAIN up /\ c \in DOMAIN down
BY DEF Safe, Links, TypeOK

LEMMA Spends == ASSUME Safe, Strikes PROVE left' \in 0 .. Budget
BY WireAssumption DEF Safe, TypeOK, Strikes

\* A client's step leaves the threads and the mutex alone.
LEMMA ClientTurn ==
  ASSUME Safe, NEW c \in Conns, NEW cl, NEW w, NEW e,
         cli' = [cli EXCEPT ![c] = cl], up' = [up EXCEPT ![c] = w],
         down' = [down EXCEPT ![c] = e], UNCHANGED <<running, srv, lock, done>>,
         queue' \in Seq(Conns), acceptor' \in Conns \cup {None},
         ~running => acceptor' = None, left' \in 0 .. Budget, acked' \subseteq done,
         Link(c, cl, srv[c], w, e, done, running),
         cl.pc # "ended" /\ down[c] = <<>> => e = <<>>,
         cli[c].pc = "ended" => cl.pc = "ended"
  PROVE  Safe'
<1>1. cli'[c] = cl /\ up'[c] = w /\ down'[c] = e /\ srv'[c] = srv[c]
  BY SafeLink
<1>2. Only(c)
  BY <1>1, SafeLink DEF Only
<1>3. lock' = c => Len(srv'[c].send) = 1 /\ (cli'[c].pc # "ended" => down'[c] = <<>>)
  <2>1. c # None
    BY WireAssumption
  <2> QED BY <1>1, <2>1 DEF Safe, LockOK
<1> QED BY <1>1, <1>2, <1>3, Turn

\* A step of a thread that has nothing to send.
LEMMA ThreadTurn ==
  ASSUME Safe, NEW c \in Conns, NEW t, NEW w, Same, srv[c].send = <<>>,
         srv' = [srv EXCEPT ![c] = t], up' = [up EXCEPT ![c] = w],
         done \subseteq done', left' \in 0 .. Budget,
         Link(c, cli[c], t, w, down[c], done', running),
         \/ lock' = lock
         \/ lock' = c /\ Len(t.send) = 1 /\ (cli[c].pc # "ended" => down[c] = <<>>)
  PROVE  Safe'
<1>1. cli'[c] = cli[c] /\ up'[c] = w /\ down'[c] = down[c] /\ srv'[c] = t
  BY SafeLink DEF Same
<1>2. Only(c)
  BY <1>1, SafeLink DEF Only, Same
<1>3. lock # c
  <2>1. c # None
    BY WireAssumption
  <2> QED BY <2>1, NoEmptyLine DEF Safe, LockOK
<1>4. queue' \in Seq(Conns) /\ acceptor' \in Conns \cup {None} /\ running' = running
      /\ (~running => acceptor' = None) /\ acked' \subseteq done'
  BY DEF Same, Safe, TypeOK, AckedWasDone
<1> QED BY <1>1, <1>2, <1>3, <1>4, Turn
-----------------------------------------------------------------------------
(* The client's steps and the accept loop's *)

LEMMA EndTurn ==
  ASSUME Safe, NEW c \in Conns, NEW result \in {"none", "ok", "failed", "killed"},
         End(c, result), UNCHANGED <<running, srv, lock, done>>,
         queue' \in Seq(Conns), acceptor' \in Conns \cup {None},
         ~running => acceptor' = None, left' \in 0 .. Budget, acked' \subseteq done
  PROVE  Safe'
<1> DEFINE cl == [NewClient EXCEPT !.pc = "ended", !.result = result]
<1>1. cl \in Client /\ cl.pc = "ended" /\ cl.n + Len(cl.todo) <= Longest
  BY EndedTypes
<1>2. \E w : (w = up[c] \/ w = <<>>) /\ up' = [up EXCEPT ![c] = w]
  BY SafeLink DEF End
<1>3. cli' = [cli EXCEPT ![c] = cl] /\ down' = [down EXCEPT ![c] = <<>>]
  BY DEF End
<1> HIDE DEF cl
<1>4. PICK w : (w = up[c] \/ w = <<>>) /\ up' = [up EXCEPT ![c] = w]
  BY <1>2
<1>5. <<>> \in Seq(Reply) /\ Len(<<>>) <= Room
  BY WireAssumption
<1>6. Link(c, cl, srv[c], w, <<>>, done, running)
  BY <1>1, <1>4, <1>5, SafeLink, EndedLink
<1> QED BY <1>1, <1>3, <1>4, <1>6, ClientTurn

LEMMA Around ==
  ASSUME Safe, UNCHANGED <<queue, acceptor, left, done, acked>>
  PROVE  /\ queue' \in Seq(Conns) /\ acceptor' \in Conns \cup {None}
         /\ (~running => acceptor' = None) /\ left' \in 0 .. Budget /\ acked' \subseteq done
BY DEF Safe, TypeOK, AckedWasDone

LEMMA DialSafe == ASSUME Safe, NEW c \in Conns, Dial(c) PROVE Safe'
<1>1. PICK s \in Scripts[c] : cli' = [cli EXCEPT ![c].pc = "waiting", ![c].todo = s]
  BY DEF Dial
<1> DEFINE cl == [cli[c] EXCEPT !.pc = "waiting", !.todo = s]
<1>2. cli' = [cli EXCEPT ![c] = cl]
  BY <1>1, SafeLink
<1>3. Link(c, cli[c], srv[c], up[c], down[c], done, running) /\ cli[c].pc = "idle"
  BY SafeLink DEF Dial
<1>4. s \in Seq(Commands) /\ Len(s) <= Longest /\ Len(s) \in Nat
  BY ScriptsAssumption
<1>5. /\ cl \in Client /\ cl.pc = "waiting" /\ cl.n = cli[c].n /\ cl.todo = s
  BY <1>3, <1>4 DEF Link, Client
<1> HIDE DEF cl
<1>6. Link(c, cl, srv[c], up[c], down[c], done, running)
  <2>1. cl.n + Len(cl.todo) <= Longest
    BY <1>3, <1>4, <1>5, WireAssumption DEF Link
  <2> QED BY <1>3, <1>5, <2>1 DEF Link
<1>7. /\ queue' \in Seq(Conns) /\ acceptor' \in Conns \cup {None}
      /\ (~running => acceptor' = None) /\ left' \in 0 .. Budget /\ acked' \subseteq done
  <2>1. queue \in Seq(Conns) /\ queue' = Append(queue, c)
    BY DEF Dial, Safe, TypeOK
  <2>2. queue' \in Seq(Conns)
    BY <2>1, Appended
  <2> QED BY <2>2 DEF Dial, Safe, TypeOK, AckedWasDone
<1>8. /\ up' = [up EXCEPT ![c] = up[c]] /\ down' = [down EXCEPT ![c] = down[c]]
      /\ UNCHANGED <<running, srv, lock, done>>
  BY SafeLink DEF Dial
<1> QED BY <1>2, <1>3, <1>6, <1>7, <1>8, ClientTurn

LEMMA GiveUpSafe ==
  ASSUME Safe, NEW c \in Conns,
         \/ DialFails(c) \/ SendFails(c) \/ ReadFails(c) \/ Leave(c) \/ HandshakeFails(c)
  PROVE  Safe'
<1>1. CASE DialFails(c) \/ SendFails(c) \/ ReadFails(c)
  <2>1. /\ UNCHANGED <<running, srv, lock, done>> /\ UNCHANGED <<queue, acceptor, left, acked>>
        /\ \E result \in {"none", "ok", "failed", "killed"} : End(c, result)
    BY <1>1 DEF DialFails, SendFails, ReadFails
  <2>2. PICK result \in {"none", "ok", "failed", "killed"} : End(c, result)
    BY <2>1
  <2>3. /\ queue' \in Seq(Conns) /\ acceptor' \in Conns \cup {None}
        /\ (~running => acceptor' = None) /\ left' \in 0 .. Budget /\ acked' \subseteq done
    BY <2>1, Around
  <2> QED BY <2>1, <2>2, <2>3, EndTurn
<1>2. CASE Leave(c)
  <2>1. left' \in 0 .. Budget
    <3>1. Strikes \/ left' = left
      BY <1>2 DEF Leave
    <3> QED BY <3>1, Spends DEF Safe, TypeOK
  <2>2. /\ queue' \in Seq(Conns) /\ acceptor' \in Conns \cup {None}
        /\ (~running => acceptor' = None) /\ acked' \subseteq done
    BY <1>2 DEF Leave, Safe, TypeOK, AckedWasDone
  <2>3. UNCHANGED <<running, srv, lock, done>> /\ End(c, "failed")
    BY <1>2 DEF Leave
  <2> QED BY <2>1, <2>2, <2>3, EndTurn
<1>3. CASE HandshakeFails(c)
  <2>1. left' \in 0 .. Budget
    <3>1. Strikes \/ left' = left
      BY <1>3 DEF HandshakeFails
    <3> QED BY <3>1, Spends DEF Safe, TypeOK
  <2>2. /\ queue' \in Seq(Conns) /\ acceptor' = None /\ acked' \subseteq done
        /\ UNCHANGED <<running, srv, lock, done>>
    BY <1>3 DEF HandshakeFails, Safe, TypeOK, AckedWasDone
  <2>3. CASE End(c, "failed")
    BY <2>1, <2>2, <2>3, EndTurn
  <2>4. CASE UNCHANGED <<cli, up, down>>
    <3>1. /\ cli' = [cli EXCEPT ![c] = cli[c]] /\ up' = [up EXCEPT ![c] = up[c]]
          /\ down' = [down EXCEPT ![c] = down[c]]
          /\ Link(c, cli[c], srv[c], up[c], down[c], done, running)
      BY <2>4, SafeLink
    <3> QED BY <2>1, <2>2, <3>1, ClientTurn
  <2> QED BY <1>3, <2>3, <2>4 DEF HandshakeFails
<1> QED BY <1>1, <1>2, <1>3

LEMMA SendSafe == ASSUME Safe, NEW c \in Conns, Send(c) PROVE Safe'
<1> DEFINE cl == [cli[c] EXCEPT !.send = Tail(@)]
           w == Append(up[c], Head(cli[c].send))
<1>1. /\ cli' = [cli EXCEPT ![c] = cl] /\ up' = [up EXCEPT ![c] = w]
      /\ down' = [down EXCEPT ![c] = down[c]] /\ UNCHANGED <<running, srv, lock, done>>
      /\ UNCHANGED <<queue, acceptor, left, acked>>
  BY SafeLink DEF Send
<1>2. Link(c, cl, srv[c], w, down[c], done, running)
  BY SafeLink, SendLink DEF Send
<1>3. cli[c].pc # "ended"
  BY DEF Send
<1>4. /\ queue' \in Seq(Conns) /\ acceptor' \in Conns \cup {None}
      /\ (~running => acceptor' = None) /\ left' \in 0 .. Budget /\ acked' \subseteq done
  BY <1>1, Around
<1> HIDE DEF cl, w
<1> QED BY <1>1, <1>2, <1>3, <1>4, ClientTurn

\* The step of a client that reads a unit and goes on as cl.
LEMMA ReadTurn ==
  ASSUME Safe, NEW c \in Conns, NEW cl, cli[c].pc = "talking", down[c] # <<>>,
         cli' = [cli EXCEPT ![c] = cl], down' = [down EXCEPT ![c] = Tail(@)], up' = up,
         UNCHANGED <<running, srv, lock, done>>, UNCHANGED <<queue, acceptor, left>>,
         acked' \subseteq done,
         Link(c, cl, srv[c], up[c], Tail(down[c]), done, running)
  PROVE  Safe'
<1>1. /\ queue' \in Seq(Conns) /\ acceptor' \in Conns \cup {None}
      /\ (~running => acceptor' = None) /\ left' \in 0 .. Budget
  BY DEF Safe, TypeOK
<1>2. /\ down' = [down EXCEPT ![c] = Tail(down[c])] /\ up' = [up EXCEPT ![c] = up[c]]
  BY SafeLink
<1> QED BY <1>1, <1>2, ClientTurn

LEMMA ProceedGoes ==
  ASSUME Safe, NEW c \in Conns, Proceed(c)
  PROVE  \E cl : cli' = [cli EXCEPT ![c] = cl] /\ Goes(cli[c], Head(down[c]).kind, cl)
BY SafeLink DEF Proceed, Goes

LEMMA ReadReplySafe == ASSUME Safe, NEW c \in Conns, ReadReply(c) PROVE Safe'
<1> DEFINE r == Head(down[c])
<1>1. /\ cli[c].pc = "talking" /\ cli[c].send = <<>> /\ cli[c].rest = 0 /\ down[c] # <<>>
      /\ UNCHANGED <<running, srv, lock, done>> /\ UNCHANGED <<queue, acceptor, left>>
  BY DEF ReadReply, Awaits
<1>2. Link(c, cli[c], srv[c], up[c], down[c], done, running)
  BY SafeLink
<1>3. acked' \subseteq done
  <2>1. acked \subseteq done
    BY DEF Safe, AckedWasDone
  <2>2. ASSUME r.kind = "OK", cli[c].cmd \in Changes PROVE <<c, cli[c].n>> \in done
    <3>1. /\ Answering(c, cli[c], srv[c].send, down[c], done) /\ down[c][1] = r
          /\ 1 \in 1 .. Len(down[c])
      BY <1>1, <1>2, <2>2, AwaitedReply
    <3> QED BY <2>2, <3>1 DEF Answering, Fits
  <2> QED BY <2>1, <2>2 DEF ReadReply
<1>4. CASE End(c, "failed")
  <2>1. /\ queue' \in Seq(Conns) /\ acceptor' \in Conns \cup {None}
        /\ (~running => acceptor' = None) /\ left' \in 0 .. Budget
    BY <1>1 DEF Safe, TypeOK
  <2> QED BY <1>1, <1>3, <1>4, <2>1, EndTurn
<1>5. CASE /\ r.kind \notin {"ERR", "DATA"} /\ Proceed(c)
           /\ down' = [down EXCEPT ![c] = Tail(@)] /\ up' = up
  <2>1. PICK cl : cli' = [cli EXCEPT ![c] = cl] /\ Goes(cli[c], Head(down[c]).kind, cl)
    BY <1>5, ProceedGoes
  <2>2. Link(c, cl, srv[c], up[c], Tail(down[c]), done, running)
    BY <1>1, <1>2, <1>5, <2>1, ProceedLink
  <2> QED BY <1>1, <1>3, <1>5, <2>1, <2>2, ReadTurn
<1>6. CASE /\ r.kind = "DATA" /\ cli' = [cli EXCEPT ![c].rest = BodySize]
           /\ down' = [down EXCEPT ![c] = Tail(@)] /\ up' = up
  <2> DEFINE cl == [cli[c] EXCEPT !.rest = BodySize]
  <2>1. cli' = [cli EXCEPT ![c] = cl]
    BY <1>6, SafeLink
  <2>2. BodySize \in 1 .. BodySize
    BY WireAssumption
  <2>3. Link(c, cl, srv[c], up[c], Tail(down[c]), done, running)
    BY <1>1, <1>2, <1>6, <2>2, MoreLink
  <2> HIDE DEF cl
  <2> QED BY <1>1, <1>3, <1>6, <2>1, <2>3, ReadTurn
<1> QED BY <1>4, <1>5, <1>6 DEF ReadReply, Refuses

LEMMA ReadDataSafe == ASSUME Safe, NEW c \in Conns, ReadData(c) PROVE Safe'
<1>1. /\ cli[c].pc = "talking" /\ cli[c].send = <<>> /\ cli[c].rest > 0 /\ down[c] # <<>>
      /\ UNCHANGED <<running, srv, lock, done>> /\ UNCHANGED <<queue, acceptor, left>>
      /\ down' = [down EXCEPT ![c] = Tail(@)] /\ up' = up
  BY DEF ReadData, Awaits
<1>2. Link(c, cli[c], srv[c], up[c], down[c], done, running) /\ cli[c].rest \in 0 .. BodySize
      /\ BodySize \in Nat
  BY SafeLink, LinkTypes
<1>3. acked' \subseteq done
  BY DEF ReadData, Safe, AckedWasDone
<1>4. CASE cli[c].rest = 1
  <2>1. PICK cl : cli' = [cli EXCEPT ![c] = cl] /\ Goes(cli[c], Head(down[c]).kind, cl)
    BY <1>4, ProceedGoes DEF ReadData
  <2>2. Link(c, cl, srv[c], up[c], Tail(down[c]), done, running)
    BY <1>1, <1>2, <1>4, <2>1, ProceedLink
  <2> QED BY <1>1, <1>3, <2>1, <2>2, ReadTurn
<1>5. CASE cli[c].rest # 1
  <2> DEFINE rest == cli[c].rest - 1
             cl == [cli[c] EXCEPT !.rest = rest]
  <2>1. rest \in 1 .. BodySize /\ cli[c].rest > 1
    BY <1>1, <1>2, <1>5
  <2>2. cli' = [cli EXCEPT ![c] = cl]
    BY <1>5, SafeLink DEF ReadData
  <2>3. Link(c, cl, srv[c], up[c], Tail(down[c]), done, running)
    BY <1>1, <1>2, <2>1, MoreLink
  <2> HIDE DEF cl
  <2> QED BY <1>1, <1>3, <2>2, <2>3, ReadTurn
<1> QED BY <1>4, <1>5

LEMMA AcceptSafe == ASSUME Safe, NEW c \in Conns, Accept(c) PROVE Safe'
<1>1. queue' \in Seq(Conns)
  <2>1. queue \in Seq(Conns) /\ queue # <<>> /\ queue' = Tail(queue)
    BY DEF Accept, Safe, TypeOK
  <2> QED BY <2>1, HeadTail
<1>2. /\ acceptor' \in Conns \cup {None} /\ (~running => acceptor' = None)
      /\ left' \in 0 .. Budget /\ acked' \subseteq done /\ UNCHANGED <<running, srv, lock, done>>
  BY DEF Accept, Safe, TypeOK, AckedWasDone
<1>3. /\ cli' = [cli EXCEPT ![c] = cli[c]] /\ up' = [up EXCEPT ![c] = up[c]]
      /\ down' = [down EXCEPT ![c] = down[c]]
      /\ Link(c, cli[c], srv[c], up[c], down[c], done, running)
  BY SafeLink DEF Accept
<1> QED BY <1>1, <1>2, <1>3, ClientTurn

LEMMA HandshakeSafe == ASSUME Safe, NEW c \in Conns, Handshake(c) PROVE Safe'
<1> DEFINE base == [cli[c] EXCEPT !.pc = "talking"]
           th == [srv[c] EXCEPT !.pc = "first"]
<1>1. /\ cli' = [cli EXCEPT ![c] = Loaded(base)] /\ srv' = [srv EXCEPT ![c] = th]
      /\ UNCHANGED <<running, queue, up, down, lock, left, done, acked>>
      /\ acceptor' = None /\ cli[c].pc = "waiting" /\ cli[c].todo # <<>>
  BY SafeLink DEF Handshake, Silent
<1>2. running
  <2>1. c # None
    BY WireAssumption
  <2> QED BY <2>1 DEF Handshake, Safe, TypeOK
<1>3. Link(c, cli[c], srv[c], up[c], down[c], done, running)
  BY SafeLink
<1>4. srv[c] = NewThread /\ up[c] = <<>> /\ down[c] = <<>>
  BY <1>1, <1>2, <1>3 DEF Link
<1>5. th \in Thread /\ th.pc = "first" /\ th.send = <<>>
  BY <1>4, NewTypes DEF Thread
<1>6. /\ base \in Client /\ base.pc = "talking" /\ base.todo = cli[c].todo
      /\ base.n + Len(base.todo) <= Longest
  BY <1>3 DEF Link, Client
<1>7. /\ up[c] \in Seq(Unit) /\ Len(up[c]) <= Room
      /\ down[c] \in Seq(Reply) /\ Len(down[c]) <= Room
  BY <1>3 DEF Link
<1> HIDE DEF base, th
<1>8. Link(c, Loaded(base), th, up[c], down[c], done, running)
  BY <1>1, <1>2, <1>4, <1>5, <1>6, <1>7, LoadedLink
<1>9. /\ cli'[c] = Loaded(base) /\ srv'[c] = th /\ up'[c] = up[c] /\ down'[c] = down[c]
  BY <1>1, SafeLink
<1>10. Only(c)
  BY <1>1, <1>9, SafeLink DEF Only
<1>11. lock' # c
  <2>1. c # None
    BY WireAssumption
  <2>2. srv[c].send = <<>>
    BY <1>4, NewTypes
  <2> QED BY <1>1, <2>1, <2>2, NoEmptyLine DEF Safe, LockOK
<1>12. /\ queue' \in Seq(Conns) /\ left' \in 0 .. Budget /\ done \subseteq done'
       /\ acked' \subseteq done' /\ done' = done
  BY <1>1 DEF Safe, TypeOK, AckedWasDone
<1> QED BY <1>1, <1>8, <1>9, <1>10, <1>11, <1>12, Turn
-----------------------------------------------------------------------------
(* The threads' steps *)

\* A thread between two commands, with a line to read.
Ready(c) ==
  /\ srv[c].pc \notin {"body", "closed"} /\ srv[c].send = <<>> /\ up[c] # <<>>
  /\ up' = [up EXCEPT ![c] = Tail(@)]

LEMMA HeardTypes ==
  ASSUME Safe, NEW c \in Conns, Ready(c), Head(up[c]).cmd # "body"
  PROVE  LET h == Heard(c) IN
         /\ h \in Thread /\ h.pc \in {"http", "lines"} /\ h.send = <<>>
         /\ h.cmd = Head(up[c]).cmd /\ h.n = Head(up[c]).n
<1>1. srv[c] \in Thread /\ Head(up[c]) \in Unit
  <2>1. srv[c] \in Thread /\ up[c] \in Seq(Unit)
    BY DEF Safe, TypeOK
  <2> QED BY <2>1, HeadTail DEF Ready
<1>2. Head(up[c]).cmd \in Commands /\ Head(up[c]).n \in 0 .. Longest
  BY <1>1 DEF Unit
<1> QED BY <1>1, <1>2 DEF Heard, Thread, Ready

LEMMA HearsReady ==
  ASSUME NEW c \in Conns, NEW cmds, Hears(c, cmds)
  PROVE  Ready(c) /\ Head(up[c]).cmd \in cmds /\ ~srv[c].close
BY DEF Hears, Reads, Ready

LEMMA SaysTypes ==
  ASSUME NEW h \in Thread, NEW kind \in {"OK", "ERR", "NONE", "META", "DATA", "PONG", "BYE"},
         NEW t, t = [h EXCEPT !.send = Line(kind, h.n)]
  PROVE  /\ t \in Thread /\ t.pc = h.pc /\ t.n = h.n /\ t.refused = h.refused
         /\ t.send = Line(kind, h.n) /\ Len(t.send) = 1
         /\ t.send[1].kind = kind /\ t.send[1].n = h.n
<1>1. h.n \in 0 .. Longest
  BY DEF Thread
<1>2. /\ Line(kind, h.n) \in Seq(Reply) /\ Len(Line(kind, h.n)) = 1
      /\ Line(kind, h.n)[1].kind = kind /\ Line(kind, h.n)[1].n = h.n
  BY <1>1, LineTypes
<1> QED BY <1>2 DEF Thread

LEMMA AnswerTurn ==
  ASSUME Safe, NEW c \in Conns, Same, Ready(c), Head(up[c]).cmd \notin Uploads \cup {"body"},
         NEW h \in Thread, h.pc \notin {"body", "closed"}, h.n = Head(up[c]).n,
         NEW kind \in {"OK", "ERR", "NONE", "META", "DATA", "PONG", "BYE"}, Says(c, h, kind),
         done \subseteq done', left' \in 0 .. Budget, lock' = lock \/ lock' = c,
         kind = "OK" /\ Head(up[c]).cmd \in Changes => <<c, h.n>> \in done'
  PROVE  Safe'
<1> DEFINE t == [h EXCEPT !.send = Line(kind, h.n)]
<1>1. /\ t \in Thread /\ t.pc = h.pc /\ Len(t.send) = 1
      /\ t.send[1].kind = kind /\ t.send[1].n = h.n
  BY SaysTypes
<1>2. srv' = [srv EXCEPT ![c] = t] /\ up' = [up EXCEPT ![c] = Tail(up[c])]
  BY DEF Says, Becomes, Ready
<1> HIDE DEF t
<1>3. Link(c, cli[c], srv[c], up[c], down[c], done, running)
  BY SafeLink
<1>4. Link(c, cli[c], t, Tail(up[c]), down[c], done', running)
  <2>1. \A i \in 1 .. Len(t.send) :
          /\ t.send[i].n = Head(up[c]).n
          /\ t.send[i].kind = "OK" /\ Head(up[c]).cmd \in Changes
               => <<c, Head(up[c]).n>> \in done'
    BY <1>1
  <2> QED BY <1>1, <1>3, <2>1, AnswerLink DEF Ready
<1>5. cli[c].pc # "ended" => down[c] = <<>>
  <2>1. cli[c].pc \in {"idle", "waiting", "talking", "ended"}
    BY <1>3 DEF Link, Client
  <2>2. /\ cli[c].pc \notin {"idle", "waiting"}
        /\ cli[c].pc = "talking" => down[c] = <<>>
    BY <1>3, HeardIsAsked DEF Ready
  <2> QED BY <2>1, <2>2
<1> QED BY <1>1, <1>2, <1>4, <1>5, ThreadTurn DEF Ready

LEMMA StreamTurn ==
  ASSUME Safe, NEW c \in Conns, Same, Ready(c), Head(up[c]).cmd \notin Uploads \cup {"body"},
         Streams(c, Heard(c)), UNCHANGED <<lock, left, done>>
  PROVE  Safe'
<1> DEFINE h == Heard(c)
           all == Transfer(h.n)
           t == [h EXCEPT !.send = all]
<1>1. /\ h \in Thread /\ h.pc \in {"http", "lines"} /\ h.n = Head(up[c]).n
      /\ h.n \in 0 .. Longest
  BY HeardTypes DEF Thread
<1>2. srv' = [srv EXCEPT ![c] = t] /\ up' = [up EXCEPT ![c] = Tail(up[c])]
  BY DEF Streams, Becomes, Ready, Transfer
<1> HIDE DEF h
<1>3. /\ all \in Seq(Reply) /\ Len(all) = BodySize + 1 /\ all[1].kind = "DATA"
      /\ \A i \in 1 .. Len(all) : all[i].n = h.n /\ all[i].kind # "OK"
  BY <1>1, StreamTypes
<1> HIDE DEF all
<1>4. t \in Thread /\ t.pc = h.pc /\ t.send = all
  BY <1>1, <1>3 DEF Thread
<1> HIDE DEF t
<1>5. Link(c, cli[c], t, Tail(up[c]), down[c], done, running)
  BY <1>1, <1>3, <1>4, SafeLink, AnswerLink DEF Ready
<1>6. left' \in 0 .. Budget
  BY DEF Safe, TypeOK
<1> QED BY <1>2, <1>5, <1>6, ThreadTurn DEF Ready

LEMMA RefuseTurn ==
  ASSUME Safe, NEW c \in Conns, Same, Ready(c), Head(up[c]).cmd # "body",
         NEW h \in Thread, h.pc \notin {"body", "closed"}, h.n = Head(up[c]).n, h.refused,
         Says(c, h, "ERR"), UNCHANGED <<lock, done>>, left' \in 0 .. Budget
  PROVE  Safe'
<1> DEFINE t == [h EXCEPT !.send = Line("ERR", h.n)]
<1>1. /\ t \in Thread /\ t.pc = h.pc /\ t.refused /\ t.send = Line("ERR", h.n)
  BY SaysTypes
<1>2. srv' = [srv EXCEPT ![c] = t] /\ up' = [up EXCEPT ![c] = Tail(up[c])]
  BY DEF Says, Becomes, Ready
<1> HIDE DEF t
<1>3. Link(c, cli[c], t, Tail(up[c]), down[c], done, running)
  BY <1>1, SafeLink, RefusalLink DEF Ready
<1> QED BY <1>2, <1>3, ThreadTurn DEF Ready

LEMMA AcceptTurn ==
  ASSUME Safe, NEW c \in Conns, Same, Ready(c), Head(up[c]).cmd \in Uploads, NEW keep \in BOOLEAN,
         \/ Becomes(c, [Heard(c) EXCEPT !.pc = "body", !.rest = BodySize, !.keep = keep])
         \/ Becomes(c, [Heard(c) EXCEPT !.pc = "body", !.rest = BodySize]),
         UNCHANGED <<lock, left, done>>
  PROVE  Safe'
<1>1. Head(up[c]).cmd # "body"
  BY DEF Uploads
<1>2. /\ Heard(c) \in Thread /\ Heard(c).n = Head(up[c]).n /\ Heard(c).send = <<>>
  BY <1>1, HeardTypes
<1>3. PICK t : /\ Becomes(c, t) /\ t \in Thread /\ t.pc = "body" /\ t.rest = BodySize
               /\ t.n = Head(up[c]).n /\ t.send = <<>>
  <2>1. BodySize \in 0 .. BodySize
    BY WireAssumption
  <2>2. CASE Becomes(c, [Heard(c) EXCEPT !.pc = "body", !.rest = BodySize, !.keep = keep])
    <3> DEFINE t == [Heard(c) EXCEPT !.pc = "body", !.rest = BodySize, !.keep = keep]
    <3>1. /\ t \in Thread /\ t.pc = "body" /\ t.rest = BodySize /\ t.n = Head(up[c]).n
          /\ t.send = <<>>
      BY <1>2, <2>1 DEF Thread
    <3> QED BY <2>2, <3>1
  <2>3. CASE Becomes(c, [Heard(c) EXCEPT !.pc = "body", !.rest = BodySize])
    <3> DEFINE t == [Heard(c) EXCEPT !.pc = "body", !.rest = BodySize]
    <3>1. /\ t \in Thread /\ t.pc = "body" /\ t.rest = BodySize /\ t.n = Head(up[c]).n
          /\ t.send = <<>>
      BY <1>2, <2>1 DEF Thread
    <3> QED BY <2>3, <3>1
  <2> QED BY <2>2, <2>3
<1>4. srv' = [srv EXCEPT ![c] = t] /\ up' = [up EXCEPT ![c] = Tail(up[c])]
  BY <1>3 DEF Becomes, Ready
<1>5. Link(c, cli[c], t, Tail(up[c]), down[c], done, running)
  BY <1>3, SafeLink, AcceptedLink DEF Ready
<1>6. left' \in 0 .. Budget
  BY DEF Safe, TypeOK
<1> QED BY <1>4, <1>5, <1>6, ThreadTurn DEF Ready

LEMMA LeftSame == Safe => left \in 0 .. Budget
BY DEF Safe, TypeOK

\* The answers a command of no consequence may have.
LEMMA TalkTurn ==
  ASSUME Safe, NEW c \in Conns, Same, Ready(c),
         Head(up[c]).cmd \notin Uploads \cup Changes \cup {"body"},
         NEW h \in Thread, h.pc = Heard(c).pc, h.n = Heard(c).n,
         NEW kind \in {"OK", "ERR", "NONE", "META", "DATA", "PONG", "BYE"}, Says(c, h, kind),
         left' = left \/ Strikes, done' = done, lock' = lock \/ lock' = c
  PROVE  Safe'
<1>1. h.pc \notin {"body", "closed"} /\ h.n = Head(up[c]).n
  BY HeardTypes
<1>2. left' \in 0 .. Budget
  BY LeftSame, Spends
<1> QED BY <1>1, <1>2, AnswerTurn

LEMMA GreetSafe ==
  ASSUME Safe, NEW c \in Conns, Greet(c) \/ DoLogin(c) \/ DoAuth(c) PROVE Safe'
<1>1. /\ Same /\ lock' = lock /\ done' = done /\ (left' = left \/ Strikes)
      /\ Hears(c, {"HELLO", "PING", "QUIT", "LOGIN", "AUTH"})
  BY DEF Greet, DoLogin, DoAuth, Hears
<1>2. Ready(c) /\ Head(up[c]).cmd \notin Uploads \cup Changes \cup {"body"}
  BY <1>1, HearsReady DEF Uploads, Changes
<1> DEFINE h == Heard(c)
           Variants == {h, [h EXCEPT !.close = TRUE], [h EXCEPT !.logged = TRUE],
                        [h EXCEPT !.trusted = TRUE]}
<1>3. h \in Thread
  BY <1>2, HeardTypes
<1>4. \A v \in Variants : v \in Thread /\ v.pc = h.pc /\ v.n = h.n
  BY <1>3 DEF Thread
<1>5. \E v \in Variants, kind \in {"OK", "ERR", "PONG", "BYE"} : Says(c, v, kind)
  BY DEF Greet, DoLogin, DoAuth
<1> HIDE DEF Variants
<1>6. PICK v \in Variants, kind \in {"OK", "ERR", "PONG", "BYE"} : Says(c, v, kind)
  BY <1>5
<1> QED BY <1>1, <1>2, <1>4, <1>6, TalkTurn

LEMMA UnprovenSafe == ASSUME Safe, NEW c \in Conns, Unproven(c) PROVE Safe'
<1> DEFINE h == [Heard(c) EXCEPT !.refused = Head(up[c]).cmd \in Uploads]
<1>1. /\ Same /\ UNCHANGED <<lock, left, done>> /\ Says(c, h, "ERR")
      /\ Ready(c) /\ Head(up[c]).cmd \in FileCommands \cup ChunkCommands
  BY HearsReady DEF Unproven
<1>2. Head(up[c]).cmd # "body"
  BY <1>1 DEF FileCommands, ChunkCommands
<1>3. /\ h \in Thread /\ h.pc \notin {"body", "closed"} /\ h.n = Head(up[c]).n
      /\ h.refused = (Head(up[c]).cmd \in Uploads)
  <2>1. Heard(c) \in Thread /\ Heard(c).pc \in {"http", "lines"} /\ Heard(c).n = Head(up[c]).n
    BY <1>1, <1>2, HeardTypes
  <2>2. (Head(up[c]).cmd \in Uploads) \in BOOLEAN
    OBVIOUS
  <2> QED BY <2>1, <2>2 DEF Thread
<1> HIDE DEF h
<1>4. CASE Head(up[c]).cmd \in Uploads
  BY <1>1, <1>2, <1>3, <1>4, LeftSame, RefuseTurn
<1>5. CASE Head(up[c]).cmd \notin Uploads
  BY <1>1, <1>2, <1>3, <1>5, LeftSame, AnswerTurn
<1> QED BY <1>4, <1>5

LEMMA AskSafe ==
  ASSUME Safe, NEW c \in Conns, DoStat(c) \/ DoGet(c) \/ DoList(c) PROVE Safe'
<1>1. /\ Same /\ Ready(c) /\ done' = done
      /\ Head(up[c]).cmd \in {"STAT", "GETFILE", "GETCHUNK", "LIST"}
      /\ (lock' = lock \/ lock' = c) /\ (left' = left \/ Strikes)
  BY HearsReady DEF DoStat, DoGet, DoList, Proven
<1>2. Head(up[c]).cmd \notin Uploads \cup Changes \cup {"body"}
  BY <1>1 DEF Uploads, Changes
<1>3. Heard(c) \in Thread
  BY <1>1, <1>2, HeardTypes
<1>4. ASSUME NEW kind \in {"NONE", "META"}, Says(c, Heard(c), kind) PROVE Safe'
  BY <1>1, <1>2, <1>3, <1>4, TalkTurn
<1>5. ASSUME Says(c, [Heard(c) EXCEPT !.close = TRUE], "DATA") PROVE Safe'
  <2> DEFINE h == [Heard(c) EXCEPT !.close = TRUE]
  <2>1. h \in Thread /\ h.pc = Heard(c).pc /\ h.n = Heard(c).n
    BY <1>3 DEF Thread
  <2>2. Says(c, h, "DATA")
    BY <1>5
  <2> HIDE DEF h
  <2> QED BY <1>1, <1>2, <2>1, <2>2, TalkTurn
<1>6. ASSUME Streams(c, Heard(c)), lock' = lock, left' = left PROVE Safe'
  BY <1>1, <1>2, <1>6, StreamTurn
<1> QED BY <1>4, <1>5, <1>6 DEF DoStat, DoGet, DoList

LEMMA PutSafe == ASSUME Safe, NEW c \in Conns, DoPut(c) PROVE Safe'
<1>1. /\ Same /\ Ready(c) /\ Head(up[c]).cmd \in {"PUTFILE", "PUTCHUNK"}
      /\ UNCHANGED <<lock, done>>
  BY HearsReady DEF DoPut, Proven
<1>2. Head(up[c]).cmd \in Uploads /\ Head(up[c]).cmd # "body"
  BY <1>1 DEF Uploads
<1>3. CASE Becomes(c, [Heard(c) EXCEPT !.pc = "body", !.rest = BodySize]) /\ left' = left
  BY <1>1, <1>2, <1>3, AcceptTurn
<1>4. CASE Says(c, [Heard(c) EXCEPT !.refused = TRUE], "ERR") /\ Strikes
  <2> DEFINE h == [Heard(c) EXCEPT !.refused = TRUE]
  <2>1. h \in Thread /\ h.pc \notin {"body", "closed"} /\ h.n = Head(up[c]).n /\ h.refused
    <3>1. Heard(c) \in Thread /\ Heard(c).pc \in {"http", "lines"}
          /\ Heard(c).n = Head(up[c]).n
      BY <1>1, <1>2, HeardTypes
    <3> QED BY <3>1 DEF Thread
  <2>2. Says(c, h, "ERR")
    BY <1>4
  <2> HIDE DEF h
  <2> QED BY <1>1, <1>2, <1>4, <2>1, <2>2, Spends, RefuseTurn
<1> QED BY <1>3, <1>4 DEF DoPut

LEMMA DelSafe == ASSUME Safe, NEW c \in Conns, DoDel(c) PROVE Safe'
<1>1. /\ Same /\ Ready(c) /\ Head(up[c]).cmd \in {"DELFILE", "DELCHUNK"}
      /\ UNCHANGED <<lock, left>>
  BY HearsReady DEF DoDel, Proven
<1>2. Head(up[c]).cmd \notin Uploads \cup {"body"}
  BY <1>1 DEF Uploads
<1>3. Heard(c) \in Thread /\ Heard(c).pc \in {"http", "lines"} /\ Heard(c).n = Head(up[c]).n
  BY <1>1, <1>2, HeardTypes
<1>4. CASE Says(c, Heard(c), "OK") /\ done' = done \cup {<<c, Heard(c).n>>}
  <2>1. done \subseteq done' /\ <<c, Heard(c).n>> \in done'
    BY <1>4
  <2> QED BY <1>1, <1>2, <1>3, <1>4, <2>1, LeftSame, AnswerTurn
<1>5. CASE Says(c, Heard(c), "NONE") /\ done' = done
  BY <1>1, <1>2, <1>3, <1>5, LeftSame, AnswerTurn
<1> QED BY <1>4, <1>5 DEF DoDel

LEMMA HttpSafe == ASSUME Safe, NEW c \in Conns, HttpRequest(c) PROVE Safe'
<1>1. Same /\ Ready(c) /\ done' = done
  BY DEF HttpRequest, Reads, Ready
<1>2. CASE Head(up[c]).cmd = "GET"
  <2>1. Head(up[c]).cmd \notin Uploads \cup Changes \cup {"body"}
    BY <1>2 DEF Uploads, Changes
  <2>2. Heard(c) \in Thread
    BY <1>1, <2>1, HeardTypes
  <2>3. CASE Streams(c, Heard(c)) /\ UNCHANGED <<lock, left>>
    BY <1>1, <2>1, <2>3, StreamTurn
  <2>4. CASE /\ Says(c, [Heard(c) EXCEPT !.close = TRUE], "DATA") /\ Strikes /\ lock' = lock
    <3> DEFINE h == [Heard(c) EXCEPT !.close = TRUE]
    <3>1. h \in Thread /\ h.pc = Heard(c).pc /\ h.n = Heard(c).n
      BY <2>2 DEF Thread
    <3>2. Says(c, h, "DATA")
      BY <2>4
    <3> HIDE DEF h
    <3> QED BY <1>1, <2>1, <2>4, <3>1, <3>2, TalkTurn
  <2>5. CASE lock' = c /\ Says(c, Heard(c), "NONE") /\ left' = left
    BY <1>1, <2>1, <2>2, <2>5, TalkTurn
  <2> QED BY <1>2, <2>3, <2>4, <2>5 DEF HttpRequest
<1>3. CASE Head(up[c]).cmd = "PUT" /\ UNCHANGED <<lock, left>>
  <2>1. Head(up[c]).cmd \in Uploads
    BY <1>3 DEF Uploads
  <2>2. PICK stored \in BOOLEAN :
          Becomes(c, [Heard(c) EXCEPT !.pc = "body", !.rest = BodySize, !.keep = stored])
    BY <1>3 DEF HttpRequest
  <2> QED BY <1>1, <1>3, <2>1, <2>2, AcceptTurn
<1> QED BY <1>2, <1>3 DEF HttpRequest

LEMMA BodyAsLinesSafe == ASSUME Safe, NEW c \in Conns, BodyAsLines(c) PROVE Safe'
<1>1. Same /\ Ready(c) /\ Head(up[c]).cmd = "body" /\ UNCHANGED <<lock, left, done>>
  BY HearsReady DEF BodyAsLines
<1>2. srv[c] \in Thread /\ 0 \in 0 .. Longest
  BY WireAssumption DEF Safe, TypeOK
<1> DEFINE none == [srv[c] EXCEPT !.n = 0]
           said == [none EXCEPT !.send = Line("ERR", none.n)]
           over == [srv[c] EXCEPT !.pc = "closed"]
<1>3. none \in Thread /\ none.pc = srv[c].pc /\ none.refused = srv[c].refused
  BY <1>2 DEF Thread
<1>4. said \in Thread /\ said.pc = srv[c].pc /\ said.refused = srv[c].refused
  <2> HIDE DEF none, said
  <2>1. said = [none EXCEPT !.send = Line("ERR", none.n)]
    BY DEF said
  <2> QED BY <1>3, <2>1, SaysTypes
<1>5. over \in Thread /\ over.pc = "closed" /\ over.refused = srv[c].refused /\ over.send = <<>>
  BY <1>1, <1>2 DEF Thread, Ready
<1>6. Becomes(c, said) \/ Becomes(c, srv[c]) \/ Becomes(c, over)
  BY DEF BodyAsLines, Says
<1> HIDE DEF none, said, over
<1>7. PICK t \in Thread : /\ Becomes(c, t) /\ t.pc # "body" /\ t.refused = srv[c].refused
                          /\ t.pc = "closed" => t.send = <<>>
  BY <1>1, <1>2, <1>4, <1>5, <1>6 DEF Ready
<1>8. srv' = [srv EXCEPT ![c] = t] /\ up' = [up EXCEPT ![c] = Tail(up[c])]
  BY <1>1, <1>7 DEF Becomes, Ready
<1>9. Link(c, cli[c], t, Tail(up[c]), down[c], done, running)
  BY <1>1, <1>7, SafeLink, RefusedBodyLink DEF Ready
<1> QED BY <1>1, <1>8, <1>9, LeftSame, ThreadTurn DEF Ready

LEMMA ReceiveSafe == ASSUME Safe, NEW c \in Conns, Receive(c) PROVE Safe'
<1> DEFINE t == [srv[c] EXCEPT !.rest = @ - 1]
<1>1. /\ Same /\ UNCHANGED <<lock, left, done>> /\ srv[c].pc = "body" /\ srv[c].send = <<>>
      /\ srv[c].rest > 0 /\ up[c] # <<>> /\ srv' = [srv EXCEPT ![c] = t]
      /\ up' = [up EXCEPT ![c] = Tail(up[c])]
  BY DEF Receive, Reads, Becomes
<1>2. Link(c, cli[c], t, Tail(up[c]), down[c], done, running)
  BY <1>1, SafeLink, ReceivedLink
<1> HIDE DEF t
<1> QED BY <1>1, <1>2, LeftSame, ThreadTurn

\* A thread that closes its connection with nothing left to send.
LEMMA CloseTurn ==
  ASSUME Safe, NEW c \in Conns, Same, srv[c].send = <<>>, cli[c].pc \notin {"idle", "waiting"},
         Becomes(c, [srv[c] EXCEPT !.pc = "closed"]), UNCHANGED <<up, lock, done>>,
         left' \in 0 .. Budget
  PROVE  Safe'
<1> DEFINE t == [srv[c] EXCEPT !.pc = "closed"]
<1>1. t \in Thread /\ t.pc = "closed" /\ t.send = <<>>
  BY DEF Thread, Safe, TypeOK
<1>2. srv' = [srv EXCEPT ![c] = t] /\ up' = [up EXCEPT ![c] = up[c]]
  BY SafeLink DEF Becomes
<1> HIDE DEF t
<1>3. Link(c, cli[c], t, up[c], down[c], done, running)
  BY <1>1, SafeLink, ClosedLink
<1> QED BY <1>2, <1>3, ThreadTurn

LEMMA CloseSafe ==
  ASSUME Safe, NEW c \in Conns, ReceiveFails(c) \/ EndOfStream(c) PROVE Safe'
<1>1. /\ Same /\ UNCHANGED <<up, lock, done>> /\ srv[c].send = <<>>
      /\ Becomes(c, [srv[c] EXCEPT !.pc = "closed"]) /\ (left' = left \/ Strikes)
      /\ srv[c].pc = "body" \/ cli[c].pc = "ended"
  BY DEF ReceiveFails, EndOfStream, Reads
<1>2. cli[c].pc \notin {"idle", "waiting"}
  <2>1. Link(c, cli[c], srv[c], up[c], down[c], done, running)
    BY SafeLink
  <2> QED BY <1>1, <2>1, NewTypes DEF Link
<1> QED BY <1>1, <1>2, LeftSame, Spends, CloseTurn

LEMMA StoredSafe == ASSUME Safe, NEW c \in Conns, Stored(c) PROVE Safe'
<1> DEFINE th == [srv[c] EXCEPT !.pc = IF srv[c].cmd = "PUT" THEN "http" ELSE "lines",
                                !.keep = TRUE]
<1>1. /\ Same /\ up' = up /\ (lock' = lock \/ lock' = c) /\ srv[c].pc = "body" /\ srv[c].send = <<>>
      /\ srv[c].rest = 0 /\ done \subseteq done' /\ (left' = left \/ Strikes)
  BY DEF Stored, Reads
<1>2. PICK kind \in {"OK", "NONE", "ERR"} :
        Says(c, th, kind) /\ (kind = "OK" => <<c, srv[c].n>> \in done')
  BY DEF Stored
<1>3. th \in Thread /\ th.pc \in {"http", "lines"} /\ th.n = srv[c].n
  BY DEF Thread, Safe, TypeOK
<1> HIDE DEF th
<1> DEFINE t == [th EXCEPT !.send = Line(kind, th.n)]
<1>4. t \in Thread /\ t.pc = th.pc /\ t.send = Line(kind, srv[c].n)
  BY <1>3, SaysTypes
<1>5. srv' = [srv EXCEPT ![c] = t] /\ up' = [up EXCEPT ![c] = up[c]]
  BY <1>1, <1>2, SafeLink DEF Says, Becomes
<1> HIDE DEF t
<1>6. Link(c, cli[c], t, up[c], down[c], done', running)
  BY <1>1, <1>2, <1>3, <1>4, SafeLink, StoredLink
<1>7. cli[c].pc # "ended" => down[c] = <<>>
  <2>1. Link(c, cli[c], srv[c], up[c], down[c], done, running)
    BY SafeLink
  <2>2. cli[c].pc \notin {"idle", "waiting"}
    BY <1>1, <2>1, NewTypes DEF Link
  <2>3. cli[c].pc \in {"idle", "waiting", "talking", "ended"}
    BY DEF Safe, TypeOK, Client
  <2> QED BY <1>1, <2>1, <2>2, <2>3 DEF Link, Talk, Asking, Receiving
<1>8. Len(t.send) = 1
  BY <1>4 DEF Line
<1> QED BY <1>1, <1>5, <1>6, <1>7, <1>8, LeftSame, Spends, ThreadTurn

LEMMA SendReplySafe == ASSUME Safe, NEW c \in Conns, SendReply(c) PROVE Safe'
<1> DEFINE pc == IF srv[c].close /\ Len(srv[c].send) = 1 THEN "closed" ELSE srv[c].pc
           t == [srv[c] EXCEPT !.send = Tail(@), !.pc = pc]
           e == Append(down[c], Head(srv[c].send))
<1>1. /\ UNCHANGED <<running, queue, acceptor, cli, up, left, done, acked>>
      /\ srv[c].send # <<>> /\ cli[c].pc = "talking" /\ Len(down[c]) < Room
      /\ down' = [down EXCEPT ![c] = e]
      /\ lock' = IF lock = c /\ Len(srv[c].send) = 1 THEN None ELSE lock
  BY SafeLink DEF SendReply, Released
<1>2. srv' = [srv EXCEPT ![c] = t]
  BY SafeLink DEF SendReply, Becomes
<1>3. pc = srv[c].pc \/ (pc = "closed" /\ Len(srv[c].send) = 1)
  OBVIOUS
<1> HIDE DEF pc
<1>4. Link(c, cli[c], t, up[c], e, done, running)
  BY <1>1, <1>3, SafeLink, ReplyLink
<1> HIDE DEF t, e
<1>5. /\ srv'[c] = t /\ down'[c] = e /\ cli'[c] = cli[c] /\ up'[c] = up[c]
  BY <1>1, <1>2, SafeLink
<1>6. Only(c)
  BY <1>1, <1>2, <1>5, SafeLink DEF Only
<1>7. lock' # c /\ lock' \in {lock, None}
  <2>1. c # None
    BY WireAssumption
  <2> QED BY <1>1, <2>1 DEF Safe, LockOK
<1>8. /\ queue' \in Seq(Conns) /\ acceptor' \in Conns \cup {None} /\ left' \in 0 .. Budget
      /\ (~running => acceptor' = None) /\ done \subseteq done' /\ acked' \subseteq done'
  BY <1>1 DEF Safe, TypeOK, AckedWasDone
<1> QED BY <1>1, <1>4, <1>5, <1>6, <1>7, <1>8, Turn

LEMMA ReplyIsLostSafe == ASSUME Safe, NEW c \in Conns, ReplyIsLost(c) PROVE Safe'
<1> DEFINE pc == IF srv[c].close \/ Len(srv[c].send) > 1 THEN "closed" ELSE srv[c].pc
           t == [srv[c] EXCEPT !.send = <<>>, !.pc = pc]
<1>1. /\ UNCHANGED <<running, queue, acceptor, cli, down, up, left, done, acked>>
      /\ srv[c].send # <<>> /\ cli[c].pc = "ended"
      /\ lock' = IF lock = c /\ Len(srv[c].send) = 1 THEN None ELSE lock
  BY DEF ReplyIsLost, Released, Same
<1>2. srv' = [srv EXCEPT ![c] = t]
  BY SafeLink DEF ReplyIsLost, Becomes
<1>3. srv[c] \in Thread /\ <<>> \in Seq(Reply)
  BY DEF Safe, TypeOK
<1>4. t \in Thread /\ t.send = <<>>
  BY <1>3 DEF Thread
<1>5. Link(c, cli[c], srv[c], up[c], down[c], done, running)
  BY SafeLink
<1> HIDE DEF t
<1>6. srv[c].pc # "closed"
  BY <1>1, <1>5 DEF Link
<1>7. Link(c, cli[c], t, up[c], down[c], done, running)
  BY <1>1, <1>4, <1>5, <1>6, ThreadLink
<1>8. /\ srv'[c] = t /\ down'[c] = down[c] /\ cli'[c] = cli[c] /\ up'[c] = up[c]
  BY <1>1, <1>2, SafeLink
<1>9. Only(c)
  BY <1>1, <1>2, <1>8, SafeLink DEF Only
<1>10. lock' # c /\ lock' \in {lock, None}
  <2>1. c # None
    BY WireAssumption
  <2> QED BY <1>1, <2>1 DEF Safe, LockOK
<1>11. /\ queue' \in Seq(Conns) /\ acceptor' \in Conns \cup {None} /\ left' \in 0 .. Budget
       /\ (~running => acceptor' = None) /\ done \subseteq done' /\ acked' \subseteq done'
  BY <1>1 DEF Safe, TypeOK, AckedWasDone
<1> QED BY <1>1, <1>7, <1>8, <1>9, <1>10, <1>11, Turn

LEMMA ProcessEndsSafe == ASSUME Safe, NEW c \in Conns, ProcessEnds(c) PROVE Safe'
<1> DEFINE over == [NewThread EXCEPT !.pc = "closed"]
<1>1. over \in Thread /\ over.pc = "closed" /\ over.send = <<>>
  BY NewTypes DEF Thread
<1>2. /\ running' = FALSE /\ queue' = <<>> /\ acceptor' = None /\ lock' = None
      /\ srv' = [d \in Conns |-> over] /\ UNCHANGED <<cli, up, down, left, done, acked>>
  BY DEF ProcessEnds
<1> HIDE DEF over
<1>3. ASSUME NEW e \in Conns
      PROVE  Link(e, cli'[e], srv'[e], up'[e], down'[e], done', FALSE)
  <2>1. Link(e, cli[e], srv[e], up[e], down[e], done, running)
    BY SafeLink
  <2>2. Link(e, cli[e], over, up[e], down[e], done, FALSE)
    BY <1>1, <2>1, ClosedLink
  <2> QED BY <1>2, <2>2
<1>4. TypeOK'
  <2>1. <<>> \in Seq(Conns)
    OBVIOUS
  <2> QED BY <1>1, <1>2, <2>1 DEF Safe, TypeOK
<1>5. Links' /\ LockOK' /\ AckedWasDone'
  BY <1>2, <1>3 DEF Links, LockOK, AckedWasDone, Safe
<1> QED BY <1>4, <1>5 DEF Safe

-----------------------------------------------------------------------------
LEMMA InitSafe == Init => Safe
<1> SUFFICES ASSUME Init PROVE Safe
  OBVIOUS
<1>1. <<>> \in Seq(Conns) /\ <<>> \in Seq(Unit) /\ <<>> \in Seq(Reply) /\ Len(<<>>) = 0
  OBVIOUS
<1>2. Budget \in 0 .. Budget /\ 0 <= Room /\ 0 <= Longest
  BY WireAssumption
<1>3. TypeOK
  BY <1>1, <1>2, NewTypes DEF Init, TypeOK
<1>4. ASSUME NEW c \in Conns PROVE Link(c, cli[c], srv[c], up[c], down[c], done, running)
  BY <1>1, <1>2, NewTypes DEF Init, Link
<1> QED BY <1>3, <1>4 DEF Safe, Links, LockOK, AckedWasDone, Init

LEMMA StepSafe == Safe /\ [Next]_vars => Safe'
<1> SUFFICES ASSUME Safe, [Next]_vars PROVE Safe'
  OBVIOUS
<1>1. CASE UNCHANGED vars
  BY <1>1 DEF vars, Safe, TypeOK, Links, LockOK, AckedWasDone
<1>2. ASSUME NEW c \in Conns, ClientStep(c) \/ Leave(c) PROVE Safe'
  BY <1>2, DialSafe, GiveUpSafe, SendSafe, ReadReplySafe, ReadDataSafe DEF ClientStep
<1>3. ASSUME NEW c \in Conns, Accept(c) \/ Handshake(c) \/ HandshakeFails(c) PROVE Safe'
  BY <1>3, AcceptSafe, HandshakeSafe, GiveUpSafe
<1>4. ASSUME NEW c \in Conns, Handle(c) PROVE Safe'
  BY <1>4, GreetSafe, UnprovenSafe, AskSafe, PutSafe, DelSafe, BodyAsLinesSafe, HttpSafe
     DEF Handle
<1>5. ASSUME NEW c \in Conns, ThreadStep(c) PROVE Safe'
  BY <1>4, <1>5, ReceiveSafe, CloseSafe, StoredSafe, SendReplySafe, ReplyIsLostSafe,
     ProcessEndsSafe DEF ThreadStep
<1> QED BY <1>1, <1>2, <1>3, <1>5 DEF Next, AcceptStep

-----------------------------------------------------------------------------
\* The whole invariant holds in every reachable state.
THEOREM SafeAlways == Spec => []Safe
<1> QED BY InitSafe, StepSafe, PTL DEF Spec

\* Types, the capacity of the streams, and that a thread that holds the mutex has an answer
\* to send (Session::handle, TlsListener::accept).
THEOREM TypeCorrect == Spec => []TypeOK
<1>1. Safe => TypeOK
  BY DEF Safe
<1> QED BY <1>1, SafeAlways, PTL

\* What a client reads answers the command it waits for (Remote's methods, Session::handle).
THEOREM RepliesAlwaysMatch == Spec => []RepliesMatch
<1>1. Safe => RepliesMatch
  <2> SUFFICES ASSUME Safe, NEW c \in Conns, Awaits(c), down[c] # <<>>
               PROVE  Head(down[c]).n = cli[c].n
    BY DEF RepliesMatch
  <2> QED BY SafeLink, AwaitedReply DEF Awaits
<1> QED BY <1>1, SafeAlways, PTL

\* What a client was told is done has been done, whatever broke in between
\* (Session::do_put_file, Remote::put_file).
THEOREM AckedIsDone == Spec => []AckedWasDone
<1>1. Safe => AckedWasDone
  BY DEF Safe
<1> QED BY <1>1, SafeAlways, PTL

\* Client and server only wait for each other over the body of a refused upload
\* (Session::fail, Remote::send_file_body).
THEOREM NobodyBlocks == Spec => []NoMutualBlock
<1>1. Safe => NoMutualBlock
  <2> SUFFICES ASSUME Safe, NEW c \in Conns, StuckOnEachOther(c) PROVE srv[c].refused
    BY DEF NoMutualBlock
  <2>1. /\ Talk(c, cli[c], srv[c], up[c], down[c], done)
        /\ srv[c].pc = "closed" => srv[c].send = <<>>
    BY SafeLink DEF Link, StuckOnEachOther
  <2> QED BY <2>1 DEF Talk, Asking, Receiving, StuckOnEachOther
<1> QED BY <1>1, SafeAlways, PTL

\* Whoever sends under the store's mutex has room to send (Session::do_stat, do_get_file).
THEOREM HolderNeverWaits == Spec => []MutexHolderCanSend
<1>1. Safe => MutexHolderCanSend
  <2>1. Len(<<>>) = 0 /\ Room > 0
    BY WireAssumption
  <2>2. ASSUME Safe, NEW c \in Conns, lock = c, cli[c].pc # "ended"
        PROVE  Len(down[c]) < Room
    <3>1. c # None
      BY WireAssumption
    <3>2. down[c] = <<>>
      BY <2>2, <3>1 DEF Safe, LockOK
    <3> QED BY <2>1, <3>2
  <2> QED BY <2>2 DEF MutexHolderCanSend
<1> QED BY <1>1, SafeAlways, PTL
=============================================================================
