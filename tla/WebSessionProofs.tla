-------------------------- MODULE WebSessionProofs --------------------------
(***************************************************************************)
(* What holds of the browser sessions for any accounts, files and          *)
(* contents, any number of calls under way and whatever breaks: the types; *)
(* how long a token is honoured; that what an account has stored opens     *)
(* with its own passphrase; and that an upload is only skipped for content *)
(* the account has stored under that name.                                 *)
(***************************************************************************)
EXTENDS WebSession, TLAPS

\* A body that opens with u's passphrase and says so in its tag.
Opens(body, u) == body.pass = u /\ body.tag = Tag(body.content, u)

\* Every tag of a list belongs to content its account has stored under the name.
Shown(l, h) ==
  \A f \in Files, v \in Contents, u \in Users : l[f] = <<v, u>> => <<<<u, f>>, v>> \in h

\* What is true of a call's record p when n tokens have been issued, to the accounts of s.
Fine(p, n, s) ==
  /\ p \in Call /\ p.token <= n
  /\ p.pc # "idle" /\ p.kind = "login" => p.user \in Users
  /\ p.pc = "answered" /\ p.kind = "login" /\ p.status = "ok" =>
       p.token \in 1 .. n /\ s[p.token].user = p.user
  /\ p.pc \in {"tag", "seal", "receiving"} => p.kind = "put"
  /\ p.pc # "idle" /\ p.kind = "put" => p.body \in Sealed
  /\ p.pc = "tag" => p.body.tag = Tag(p.body.content, p.user)
  /\ p.pc \in {"tag", "receiving"} => p.user \in Users

\* The same while nobody has signed in under an upload: me is the page's session.
Owns(p, me, s, h) ==
  /\ p.pc \in {"tag", "seal"} => me = SignedOut \/ Opens(p.body, me.user)
  /\ p.pc = "sent" /\ p.kind = "put" => p.token = 0 \/ Opens(p.body, s[p.token].user)
  /\ p.pc = "receiving" => Opens(p.body, p.user)
  /\ Shown(p.reply, h)

\* The record r of f for account u: it opens with u's passphrase, its tag is its content's
\* unless it was lost (w), and is in any case the tag of something f has held.
Sits(r, u, f, w, h) ==
  r # NoFile =>
    /\ r.pass = u
    /\ <<u, f>> \in w \/ r.tag = Tag(r.content, u)
    /\ \A v \in Contents, o \in Users : r.tag = <<v, o>> => <<<<o, f>>, v>> \in h

\* Tokens are numbered as they are issued, and one that was signed out is gone.
Tokens ==
  /\ since \in [1 .. issued -> [user : Users, at : Nat]]
  /\ \A t \in tokens : /\ t.token \in 1 .. issued /\ t.token \notin ended
                       /\ t.user = since[t.token].user
                       /\ t.expires = since[t.token].at + Lifetime
  /\ ended \subseteq 0 .. issued
  /\ session # SignedOut => /\ session.token \in 1 .. issued
                            /\ session.user = since[session.token].user

Owned ==
  ~mixed => /\ \A c \in Calls : Owns(call[c], session, since, held)
            /\ \A u \in Users, f \in Files : Sits(store[<<u, f>>], u, f, untagged, held)
            /\ Shown(list, held)

\* SealedForOwner relies on whom the session, each call's token and each body belong to,
\* SkippedWasHeld on where each list came from.
Safe == TypeOK /\ Tokens /\ (\A c \in Calls : Fine(call[c], issued, since)) /\ Owned

-----------------------------------------------------------------------------
(* Records of calls *)

LEMMA NoListTypes == NoList \in Lists
BY DEF NoList, Lists, Entries

LEMMA NobodyShown == \A h : Shown(NoList, h)
<1>1. \A v, u : Missing # <<v, u>>
  BY DEF Missing
<1> QED BY <1>1 DEF Shown, NoList

LEMMA IdleTypes ==
  /\ Idle \in Call /\ Idle.pc = "idle" /\ Idle.token = 0 /\ Idle.reply = NoList
  /\ Idle.kind = "list" /\ Idle.status = "ok" /\ Idle.body = NoFile /\ Idle.user = Nobody
<1>1. (CHOOSE f \in Files : TRUE) \in Files
  BY WebAssumption
<1>2. NoList \in Lists /\ 0 \in 0 .. MaxTokens
  BY NoListTypes, WebAssumption
<1> QED BY <1>1, <1>2 DEF Idle, Call, Steps, Kinds

LEMMA IdleFine ==
  ASSUME NEW n \in Nat, NEW s, NEW me, NEW h
  PROVE  Fine(Idle, n, s) /\ Owns(Idle, me, s, h)
BY IdleTypes, NobodyShown DEF Fine, Owns

\* A call without a body that is sent with the token of a session.
LEMMA SentFine ==
  ASSUME NEW n \in Nat, NEW s, NEW h, NEW me \in [token : 0 .. n, user : Users \cup {Nobody}],
         NEW they, n <= MaxTokens, NEW kind \in {"logout", "list", "get", "delete"}, NEW f \in Files
  PROVE  Fine(SendIn(me, kind, f), n, s) /\ Owns(SendIn(me, kind, f), they, s, h)
<1> DEFINE p == SendIn(me, kind, f)
<1>1. me.token \in 0 .. MaxTokens /\ me.token <= n
  BY WebAssumption
<1>2. /\ p \in Call /\ p.pc = "sent" /\ p.kind = kind /\ p.token = me.token
      /\ p.reply = NoList
  BY <1>1, IdleTypes DEF SendIn, Call, Steps, Kinds
<1> HIDE DEF p
<1>3. Fine(p, n, s) /\ Owns(p, they, s, h)
  BY <1>1, <1>2, NobodyShown DEF Fine, Owns
<1> QED BY <1>3 DEF p

\* Later tokens change nothing for a call.
LEMMA FineLater ==
  ASSUME NEW p, NEW n \in Nat, NEW s, NEW m \in Nat, NEW r, Fine(p, n, s),
         n <= m, \A t \in 1 .. n : r[t] = s[t]
  PROVE  Fine(p, m, r)
<1>1. p.token \in Nat /\ p.token <= n
  BY WebAssumption DEF Fine, Call
<1>2. p.token <= m
  BY <1>1
<1>3. p.token \in 1 .. n => p.token \in 1 .. m /\ r[p.token] = s[p.token]
  BY <1>1
<1> QED BY <1>2, <1>3 DEF Fine

LEMMA OwnsLater ==
  ASSUME NEW p, NEW n \in Nat, NEW s, NEW r, NEW me, NEW they, NEW h, NEW i,
         Fine(p, n, s), Owns(p, me, s, h), h \subseteq i, \A t \in 1 .. n : r[t] = s[t],
         they \in {me, SignedOut} \/ p.pc \notin {"tag", "seal"}
  PROVE  Owns(p, they, r, i)
<1>1. p.token # 0 => r[p.token] = s[p.token]
  <2>1. p.token \in 0 .. MaxTokens /\ p.token <= n
    BY DEF Fine, Call
  <2>2. p.token # 0 => p.token \in 1 .. n
    BY <2>1, WebAssumption
  <2> QED BY <2>2
<1>2. Shown(p.reply, i)
  BY DEF Owns, Shown
<1> QED BY <1>1, <1>2 DEF Owns

\* An answer changes the step and the status only; nobody waits for it on a page that has gone.
LEMMA AnswerFine ==
  ASSUME NEW c \in Calls, Fine(call[c], issued, since), issued \in Nat,
         NEW status \in {"ok", "refused", "unauthorised", "broken"},
         call[c].pc \in {"sent", "receiving"},
         call[c].kind = "login" => status # "ok", NEW me, NEW h
  PROVE  /\ Fine(Answer(c, status), issued, since)
         /\ Owns(call[c], session, since, h) => Owns(Answer(c, status), me, since, h)
<1>1. CASE ~call[c].awaited
  BY <1>1, IdleFine DEF Answer
<1>2. CASE call[c].awaited
  <2> DEFINE p == [call[c] EXCEPT !.pc = "answered", !.status = status]
  <2>1. /\ p \in Call /\ p.pc = "answered" /\ p.kind = call[c].kind /\ p.user = call[c].user
        /\ p.token = call[c].token /\ p.body = call[c].body /\ p.status = status
        /\ p.reply = call[c].reply
    BY DEF Fine, Call, Steps
  <2> HIDE DEF p
  <2>2. Fine(p, issued, since)
    BY <2>1 DEF Fine
  <2>3. Owns(call[c], session, since, h) => Owns(p, me, since, h)
    BY <2>1 DEF Owns
  <2> QED BY <1>2, <2>2, <2>3 DEF Answer, p
<1> QED BY <1>1, <1>2

-----------------------------------------------------------------------------
(* Steps of one call *)

\* What the parts of Safe say of the numbers and of the calls.
LEMMA Parts ==
  ASSUME Safe
  PROVE  /\ issued \in Nat /\ issued <= MaxTokens /\ issued \in 0 .. MaxTokens
         /\ clock \in 0 .. MaxClock /\ clock \in Nat /\ left \in 0 .. Budget /\ calls \in 0 .. MaxCalls
         /\ session \in [token : 0 .. issued, user : Users \cup {Nobody}]
         /\ pass = session.user /\ list \in Lists /\ accounts \subseteq Users
         /\ store \in [Users \X Files -> Sealed \cup {NoFile}] /\ untagged \subseteq Users \X Files
         /\ call \in [Calls -> Call]
         /\ \A c \in Calls : call[c] \in Call /\ Fine(call[c], issued, since)
         /\ ~mixed => \A c \in Calls : Owns(call[c], session, since, held)
         /\ since \in [1 .. issued -> [user : Users, at : Nat]]
BY WebAssumption DEF Safe, TypeOK, Tokens, Owned

\* The page signs out, or in while no upload is under way.
LEMMA CallsKeep ==
  ASSUME Safe, NEW c \in Calls, NEW p, call' = [call EXCEPT ![c] = p],
         Fine(p, issued', since'), ~mixed' => Owns(p, session', since', held'),
         issued' \in Nat, issued <= issued', \A t \in 1 .. issued : since'[t] = since[t],
         held \subseteq held', mixed => mixed',
         ~mixed' => \/ session' \in {session, SignedOut}
                    \/ \A d \in Calls : call[d].pc \notin {"tag", "seal"}
  PROVE  /\ call' \in [Calls -> Call]
         /\ \A d \in Calls : Fine(call'[d], issued', since')
         /\ ~mixed' => \A d \in Calls : Owns(call'[d], session', since', held')
<1>1. \A d \in Calls : d # c => Fine(call[d], issued', since')
  BY Parts, FineLater
<1>2. ASSUME ~mixed', NEW d \in Calls PROVE Owns(call[d], session', since', held')
  <2>1. Fine(call[d], issued, since) /\ Owns(call[d], session, since, held) /\ issued \in Nat
    BY <1>2, Parts
  <2>2. session' \in {session, SignedOut} \/ call[d].pc \notin {"tag", "seal"}
    BY <1>2
  <2> QED BY <2>1, <2>2, OwnsLater
<1>3. p \in Call /\ call \in [Calls -> Call]
  BY Parts DEF Fine
<1>4. /\ call' \in [Calls -> Call] /\ call'[c] = p
      /\ \A d \in Calls : d # c => call'[d] = call[d]
  BY <1>3
<1>5. ASSUME NEW d \in Calls
      PROVE  /\ Fine(call'[d], issued', since')
             /\ ~mixed' => Owns(call'[d], session', since', held')
  BY <1>1, <1>2, <1>4
<1> QED BY <1>4, <1>5

\* What is stored belongs to its account, and so does whatever tag it ends up with.
LEMMA PutSits ==
  ASSUME Safe, NEW u \in Users, NEW f \in Files, NEW b \in Sealed, NEW tag,
         Put(<<u, f>>, b, tag), ~mixed => Opens(b, u)
  PROVE  /\ store' \in [Users \X Files -> Sealed \cup {NoFile}]
         /\ untagged' \subseteq Users \X Files /\ held \subseteq held'
         /\ ~mixed => \A w \in Users, g \in Files : Sits(store'[<<w, g>>], w, g, untagged', held')
<1> DEFINE x == <<u, f>>
           r == [b EXCEPT !.tag = tag]
<1>0. x \in Users \X Files /\ store \in [Users \X Files -> Sealed \cup {NoFile}]
      /\ untagged \subseteq Users \X Files
  BY Parts
<1>1. tag \in Tags
  BY <1>0 DEF Put, Sealed, Tags, NoFile
<1>2. r \in Sealed /\ r.content = b.content /\ r.pass = b.pass /\ r.tag = tag
  BY <1>1 DEF Sealed
<1>3. /\ store' = [store EXCEPT ![x] = r] /\ held' = held \cup {<<x, b.content>>}
      /\ untagged' = (IF tag = b.tag THEN untagged \ {x} ELSE untagged \cup {x})
      /\ tag \in {b.tag, store[x].tag, NoTag}
  BY DEF Put
<1> HIDE DEF r
<1>4. /\ store' \in [Users \X Files -> Sealed \cup {NoFile}] /\ store'[x] = r
      /\ \A y \in Users \X Files : y # x => store'[y] = store[y] /\ (y \in untagged' <=> y \in untagged)
  BY <1>0, <1>2, <1>3
<1>5. ASSUME ~mixed, NEW w \in Users, NEW g \in Files
      PROVE  Sits(store'[<<w, g>>], w, g, untagged', held')
  <2>1. CASE <<w, g>> = x
    <3>1. w = u /\ g = f /\ Opens(b, u)
      BY <1>5, <2>1
    <3>2. ASSUME NEW v \in Contents, NEW o \in Users, tag = <<v, o>>
          PROVE  <<<<o, f>>, v>> \in held'
      <4>1. NoTag # <<v, o>>
        BY DEF NoTag
      <4>2. CASE tag = b.tag
        <5>1. v = b.content /\ o = u
          BY <3>1, <3>2, <4>1, <4>2 DEF Opens, Tag
        <5> QED BY <1>3, <5>1
      <4>3. CASE tag = store[x].tag
        <5>1. store[x] # NoFile
          BY <3>2, <4>1, <4>3 DEF NoFile
        <5>2. Sits(store[x], u, f, untagged, held)
          BY <1>5 DEF Safe, Owned
        <5> QED BY <1>3, <3>2, <4>3, <5>1, <5>2 DEF Sits
      <4> QED BY <1>3, <3>2, <4>1, <4>2, <4>3
    <3>3. x \in untagged' \/ tag = Tag(b.content, u)
      BY <1>3, <3>1 DEF Opens
    <3> QED BY <1>2, <1>4, <3>1, <3>2, <3>3 DEF Sits, Opens
  <2>2. CASE <<w, g>> # x
    <3>1. Sits(store[<<w, g>>], w, g, untagged, held)
      BY <1>5 DEF Safe, Owned
    <3> QED BY <1>3, <1>4, <2>2, <3>1 DEF Sits
  <2> QED BY <2>1, <2>2
<1>6. untagged' \subseteq Users \X Files
  BY <1>0, <1>3
<1> QED BY <1>3, <1>4, <1>5, <1>6

\* Nothing is left where a file was removed.
LEMMA RemoveSits ==
  ASSUME Safe, NEW u \in Users, NEW f \in Files, Remove(<<u, f>>)
  PROVE  /\ store' \in [Users \X Files -> Sealed \cup {NoFile}]
         /\ untagged' \subseteq Users \X Files
         /\ ~mixed => \A w \in Users, g \in Files : Sits(store'[<<w, g>>], w, g, untagged', held)
<1>1. /\ store' \in [Users \X Files -> Sealed \cup {NoFile}] /\ store'[<<u, f>>] = NoFile
      /\ untagged' \subseteq Users \X Files
      /\ \A y \in Users \X Files :
           y # <<u, f>> => store'[y] = store[y] /\ (y \in untagged' <=> y \in untagged)
  BY Parts DEF Remove
<1>2. ASSUME ~mixed, NEW w \in Users, NEW g \in Files
      PROVE  Sits(store'[<<w, g>>], w, g, untagged', held)
  <2>1. Sits(store[<<w, g>>], w, g, untagged, held)
    BY <1>2 DEF Safe, Owned
  <2>2. CASE <<w, g>> = <<u, f>>
    BY <1>1, <2>2 DEF Sits
  <2>3. CASE <<w, g>> # <<u, f>>
    BY <1>1, <2>1, <2>3 DEF Sits
  <2> QED BY <2>2, <2>3
<1> QED BY <1>1, <1>2

\* A step of one call that neither issues a token nor stores a file.
LEMMA CallTurn ==
  ASSUME Safe, NEW c \in Calls, NEW p, call' = [call EXCEPT ![c] = p],
         Fine(p, issued, since), ~mixed => Owns(p, session, since, held),
         UNCHANGED <<clock, accounts, issued, Page, since, ended, held, mixed>>,
         tokens' \subseteq tokens, left' \in 0 .. Budget, calls' \in 0 .. MaxCalls,
         UNCHANGED <<store, untagged>> \/ \E u \in Users, f \in Files : Remove(<<u, f>>)
  PROVE  Safe'
<1>1. /\ call' \in [Calls -> Call]
      /\ \A d \in Calls : Fine(call'[d], issued', since')
      /\ ~mixed' => \A d \in Calls : Owns(call'[d], session', since', held')
  <2>1. /\ issued' = issued /\ since' = since /\ held' = held /\ session' = session
        /\ (mixed' <=> mixed) /\ issued \in Nat /\ issued <= issued'
    BY Parts DEF Page
  <2>2. Fine(p, issued', since') /\ (~mixed' => Owns(p, session', since', held'))
    BY <2>1
  <2> QED BY ONLY Safe, call' = [call EXCEPT ![c] = p], <2>1, <2>2, CallsKeep
<1>2. /\ store' \in [Users \X Files -> Sealed \cup {NoFile}] /\ untagged' \subseteq Users \X Files
      /\ ~mixed => \A u \in Users, f \in Files : Sits(store'[<<u, f>>], u, f, untagged', held)
  <2>1. CASE UNCHANGED <<store, untagged>>
    BY <2>1, Parts DEF Safe, Owned
  <2>2. CASE \E u \in Users, f \in Files : Remove(<<u, f>>)
    BY <2>2, RemoveSits
  <2> QED BY <2>1, <2>2
<1>3. TypeOK'
  BY <1>1, <1>2 DEF Page, Safe, TypeOK
<1>4. Tokens'
  BY DEF Page, Safe, Tokens
<1>5. Owned'
  BY <1>1, <1>2 DEF Page, Safe, Owned
<1> QED BY <1>1, <1>3, <1>4, <1>5 DEF Safe

LEMMA CountCalls == ASSUME Safe, NEW c \in Calls, Free(c) PROVE calls' \in 0 .. MaxCalls
BY Parts, WebAssumption DEF Free

LEMMA StrikeTypes == ASSUME Safe, Strike PROVE left' \in 0 .. Budget
BY Parts, WebAssumption DEF Strike

LEMMA SignInSafe == ASSUME Safe, NEW c \in Calls, NEW u \in Users, SignIn(c, u) PROVE Safe'
<1> DEFINE p == [Idle EXCEPT !.pc = "sent", !.kind = "login", !.user = u]
<1>1. /\ p \in Call /\ p.pc = "sent" /\ p.kind = "login" /\ p.user = u /\ p.token = 0
      /\ p.reply = NoList
  BY IdleTypes DEF Call, Steps, Kinds
<1>2. call' = [call EXCEPT ![c] = p]
  BY DEF SignIn
<1> HIDE DEF p
<1>3. Fine(p, issued, since) /\ Owns(p, session, since, held)
  BY <1>1, Parts, NobodyShown DEF Fine, Owns
<1>4. calls' \in 0 .. MaxCalls
  BY CountCalls DEF SignIn
<1> QED BY <1>2, <1>3, <1>4, CallTurn, Parts DEF SignIn, Server, History

LEMMA ClickSafe ==
  ASSUME Safe, NEW c \in Calls, NEW kind \in {"get", "delete", "logout"}, NEW f \in Files,
         Click(c, kind, f)
  PROVE  Safe'
<1>1. Fine(Send(kind, f), issued, since) /\ Owns(Send(kind, f), session, since, held)
  BY Parts, SentFine DEF Send
<1>2. calls' \in 0 .. MaxCalls
  BY CountCalls DEF Click
<1> QED BY <1>1, <1>2, CallTurn, Parts DEF Click, Server, History

LEMMA DropSafe ==
  ASSUME Safe, NEW c \in Calls, NEW f \in Files, NEW v \in Contents, Drop(c, f, v)
  PROVE  Safe'
<1> DEFINE b == [content |-> v, pass |-> pass, tag |-> Tag(v, pass)]
           p == [Idle EXCEPT !.pc = "tag", !.kind = "put", !.name = f, !.user = session.user,
                             !.body = b]
<1>1. session.user \in Users /\ pass = session.user
  BY Parts DEF Safe, Tokens, Drop
<1>2. b \in Sealed /\ b.content = v /\ b.pass = pass /\ b.tag = Tag(v, pass)
  BY <1>1 DEF Sealed, Tags, Tag, NoTag
<1> HIDE DEF b
<1>3. /\ p \in Call /\ p.pc = "tag" /\ p.kind = "put" /\ p.user = session.user /\ p.body = b
      /\ p.token = 0 /\ p.reply = NoList
  BY <1>1, <1>2, IdleTypes DEF Call, Steps, Kinds
<1>4. call' = [call EXCEPT ![c] = p]
  BY DEF Drop, b
<1> HIDE DEF p
<1>5. Fine(p, issued, since)
  BY <1>1, <1>2, <1>3, Parts DEF Fine
<1>6. Owns(p, session, since, held)
  BY <1>1, <1>2, <1>3, NobodyShown DEF Owns, Opens
<1>7. calls' \in 0 .. MaxCalls
  BY CountCalls DEF Drop
<1> QED BY <1>4, <1>5, <1>6, <1>7, CallTurn, Parts DEF Drop, Server, History

LEMMA SkipSafe == ASSUME Safe, NEW c \in Calls, Skip(c) PROVE Safe'
<1>1. call[c].name \in Files
  BY Parts DEF Call
<1>2. /\ Fine(Send("list", call[c].name), issued, since)
      /\ Owns(Send("list", call[c].name), session, since, held)
  BY <1>1, Parts, SentFine DEF Send
<1> QED BY <1>2, CallTurn, Parts DEF Skip, Server, History

LEMMA SealSafe == ASSUME Safe, NEW c \in Calls, Seal(c) PROVE Safe'
<1> DEFINE b == [call[c].body EXCEPT !.pass = pass]
           p == [call[c] EXCEPT !.pc = "seal", !.body = b]
<1>1. /\ call[c] \in Call /\ Fine(call[c], issued, since) /\ call[c].pc = "tag"
      /\ call[c].body \in Sealed /\ pass = session.user /\ pass \in Users \cup {Nobody}
  BY Parts DEF Seal, Fine
<1>2. /\ b \in Sealed /\ b.pass = pass /\ b.content = call[c].body.content
      /\ b.tag = call[c].body.tag
  BY <1>1 DEF Sealed
<1>3. call' = [call EXCEPT ![c] = p]
  BY <1>1, Parts DEF Seal, Call
<1> HIDE DEF b
<1>4. /\ p \in Call /\ p.pc = "seal" /\ p.kind = call[c].kind /\ p.token = call[c].token
      /\ p.body = b /\ p.reply = call[c].reply
  BY <1>1, <1>2 DEF Call, Steps
<1> HIDE DEF p
<1>5. Fine(p, issued, since)
  BY <1>1, <1>2, <1>4 DEF Fine
<1>6. ~mixed => Owns(p, session, since, held)
  <2>1. ~mixed => Owns(call[c], session, since, held)
    BY Parts
  <2> QED BY <1>1, <1>2, <1>4, <2>1 DEF Owns, Opens
<1> QED BY <1>3, <1>5, <1>6, CallTurn, Parts DEF Seal, Server, History

LEMMA SendFileSafe == ASSUME Safe, NEW c \in Calls, SendFile(c) PROVE Safe'
<1> DEFINE p == [Send("put", call[c].name) EXCEPT !.body = call[c].body]
<1>1. /\ call[c] \in Call /\ Fine(call[c], issued, since) /\ call[c].pc = "seal"
      /\ call[c].body \in Sealed /\ call[c].name \in Files
  BY Parts DEF SendFile, Fine, Call
<1>0. session.token \in 0 .. MaxTokens /\ session.token <= issued
  <2>1. session.token \in 0 .. issued /\ issued \in 0 .. MaxTokens
    BY Parts
  <2> QED BY <2>1, WebAssumption
<1>2. /\ p \in Call /\ p.pc = "sent" /\ p.kind = "put" /\ p.token = session.token
      /\ p.body = call[c].body /\ p.reply = NoList
  BY <1>0, <1>1, IdleTypes DEF Send, SendIn, Call, Steps, Kinds
<1>3. call' = [call EXCEPT ![c] = p]
  BY DEF SendFile
<1> HIDE DEF p
<1>4. Fine(p, issued, since)
  BY <1>0, <1>1, <1>2 DEF Fine
<1>5. ~mixed => Owns(p, session, since, held)
  <2>1. ~mixed => Owns(call[c], session, since, held)
    BY Parts
  <2>2. session = SignedOut => session.token = 0
    BY DEF SignedOut
  <2>3. session # SignedOut => session.user = since[session.token].user
    BY DEF Safe, Tokens
  <2> QED BY <1>1, <1>2, <2>1, <2>2, <2>3, NobodyShown DEF Owns
<1> QED BY <1>3, <1>4, <1>5, CallTurn, Parts DEF SendFile, Server, History

LEMMA RefuseSafe == ASSUME Safe, NEW c \in Calls, Refuse(c) PROVE Safe'
<1>1. /\ call[c].pc = "sent" /\ call[c].kind # "login" /\ Fine(call[c], issued, since)
      /\ issued \in Nat
  BY Parts DEF Refuse, Guarded, Pending
<1>2. /\ Fine(Answer(c, "unauthorised"), issued, since)
      /\ ~mixed => Owns(Answer(c, "unauthorised"), session, since, held)
  BY <1>1, AnswerFine, Parts
<1>3. tokens' \subseteq tokens
  BY DEF Refuse, Live
<1> QED BY <1>2, <1>3, CallTurn, Parts DEF Refuse, History

LEMMA BreakSafe == ASSUME Safe, NEW c \in Calls, Break(c) PROVE Safe'
<1>1. call[c].pc \in {"sent", "receiving"} /\ Fine(call[c], issued, since) /\ issued \in Nat
  BY Parts DEF Break
<1>2. /\ Fine(Answer(c, "broken"), issued, since)
      /\ ~mixed => Owns(Answer(c, "broken"), session, since, held)
  BY <1>1, AnswerFine, Parts
<1> QED BY <1>2, StrikeTypes, CallTurn, Parts DEF Break, Server, History

\* The list of an account shows the tags of its own files.
LEMMA TagsTypes ==
  ASSUME Safe, NEW u \in Users
  PROVE  TagsOf(u) \in Lists /\ (~mixed => Shown(TagsOf(u), held))
<1>1. NoFile.tag \in Tags /\ \A b \in Sealed : b.tag \in Tags
  BY DEF NoFile, Sealed, Tags
<1>2. TagsOf(u) \in Lists
  BY <1>1, Parts DEF TagsOf, Lists, Entries
<1>3. ASSUME ~mixed, NEW f \in Files, NEW v \in Contents, NEW w \in Users, TagsOf(u)[f] = <<v, w>>
      PROVE  <<<<w, f>>, v>> \in held
  <2>1. Missing # <<v, w>> /\ NoTag # <<v, w>>
    BY DEF Missing, NoTag
  <2>2. store[<<u, f>>] # NoFile /\ store[<<u, f>>].tag = <<v, w>>
    BY <1>3, <2>1 DEF TagsOf
  <2>3. Sits(store[<<u, f>>], u, f, untagged, held)
    BY <1>3 DEF Safe, Owned
  <2> QED BY <2>2, <2>3 DEF Sits
<1> QED BY <1>2, <1>3 DEF Shown

LEMMA ServeSafe == ASSUME Safe, NEW c \in Calls, Serve(c) PROVE Safe'
<1>0. /\ call[c].pc = "sent" /\ call[c].kind \in {"list", "get", "put", "delete"}
      /\ Fine(call[c], issued, since) /\ issued \in Nat /\ call[c] \in Call
      /\ ~mixed => Owns(call[c], session, since, held)
      /\ UNCHANGED <<clock, accounts, issued, Page, since, ended, held, mixed, left, calls>>
      /\ tokens' \subseteq tokens /\ left' \in 0 .. Budget /\ calls' \in 0 .. MaxCalls
      /\ call[c].name \in Files
  BY Parts DEF Serve, Guarded, Pending, History, Live, Call
<1>1. PICK t \in Live :
        LET x == <<t.user, call[c].name>>
        IN
        /\ t.token = call[c].token
        /\ CASE call[c].kind = "list" ->
                  /\ call' = [call EXCEPT ![c] = [Answer(c, "ok") EXCEPT !.reply = TagsOf(t.user)]]
                  /\ UNCHANGED <<store, untagged>>
             [] call[c].kind = "put" ->
                  /\ call' = [call EXCEPT ![c].pc = "receiving", ![c].user = t.user]
                  /\ UNCHANGED <<store, untagged>>
             [] call[c].kind = "get" ->
                  /\ call' = [call EXCEPT ![c] =
                                Answer(c, IF store[x] = NoFile THEN "refused" ELSE "ok")]
                  /\ UNCHANGED <<store, untagged>>
             [] OTHER ->
                  /\ Remove(x)
                  /\ call' = [call EXCEPT ![c] =
                                Answer(c, IF store[x] = NoFile THEN "refused" ELSE "ok")]
  BY DEF Serve
<1>2. /\ t.token \in 1 .. issued /\ t.user = since[t.token].user /\ t.user \in Users
      /\ t.token = call[c].token
  BY <1>1 DEF Live, Safe, Tokens, TypeOK
<1>3. CASE call[c].kind = "list"
  <2> DEFINE a == Answer(c, "ok")
             p == [a EXCEPT !.reply = TagsOf(t.user)]
  <2>1. Fine(a, issued, since) /\ (~mixed => Owns(a, session, since, held))
    BY <1>0, <1>3, AnswerFine
  <2>2. a.kind = "list" /\ a.pc \in {"answered", "idle"}
    BY <1>0, <1>3, IdleTypes DEF Answer, Call
  <2>3. call' = [call EXCEPT ![c] = p] /\ UNCHANGED <<store, untagged>>
    BY <1>1, <1>3
  <2>4. TagsOf(t.user) \in Lists /\ (~mixed => Shown(TagsOf(t.user), held))
    BY <1>2, TagsTypes
  <2> HIDE DEF a
  <2>5. /\ p \in Call /\ p.pc = a.pc /\ p.kind = "list" /\ p.token = a.token
        /\ p.reply = TagsOf(t.user)
    BY <2>1, <2>2, <2>4 DEF Fine, Call
  <2> HIDE DEF p
  <2>6. Fine(p, issued, since) /\ (~mixed => Owns(p, session, since, held))
    BY <2>1, <2>2, <2>4, <2>5 DEF Fine, Owns
  <2> QED BY <1>0, <2>3, <2>6, CallTurn
<1>4. CASE call[c].kind = "put"
  <2> DEFINE p == [call[c] EXCEPT !.pc = "receiving", !.user = t.user]
  <2>1. call' = [call EXCEPT ![c] = p] /\ UNCHANGED <<store, untagged>>
    BY <1>0, <1>1, <1>4, Parts
  <2>2. /\ p \in Call /\ p.pc = "receiving" /\ p.kind = "put" /\ p.user = t.user
        /\ p.token = call[c].token /\ p.body = call[c].body /\ p.reply = call[c].reply
    BY <1>0, <1>2, <1>4 DEF Call, Steps
  <2> HIDE DEF p
  <2>3. Fine(p, issued, since)
    BY <1>0, <1>2, <1>4, <2>2 DEF Fine
  <2>4. ~mixed => Owns(p, session, since, held)
    BY <1>0, <1>2, <1>4, <2>2 DEF Owns
  <2> QED BY <1>0, <2>1, <2>3, <2>4, CallTurn
<1>5. CASE call[c].kind \in {"get", "delete"}
  <2>1. PICK status \in {"refused", "ok"} : call' = [call EXCEPT ![c] = Answer(c, status)]
    BY <1>1, <1>5
  <2>2. \/ UNCHANGED <<store, untagged>>
        \/ \E u \in Users, f \in Files : Remove(<<u, f>>)
    BY <1>0, <1>1, <1>2, <1>5
  <2>3. /\ Fine(Answer(c, status), issued, since)
        /\ ~mixed => Owns(Answer(c, status), session, since, held)
    BY <1>0, <1>5, AnswerFine
  <2> QED BY <1>0, <2>1, <2>2, <2>3, CallTurn
<1> QED BY <1>0, <1>3, <1>4, <1>5

\* Signing out takes the token away for good.
LEMMA LogoutSafe == ASSUME Safe, NEW c \in Calls, Logout(c) PROVE Safe'
<1>0. /\ call[c].pc = "sent" /\ call[c].kind = "logout" /\ Fine(call[c], issued, since)
      /\ issued \in Nat /\ call[c].token \in 0 .. MaxTokens /\ call[c].token <= issued
      /\ UNCHANGED <<clock, accounts, issued, store, untagged, Page, calls, left, since, held, mixed>>
      /\ tokens' = {t \in tokens : t.token # call[c].token} /\ ended' = ended \cup {call[c].token}
      /\ call' = [call EXCEPT ![c] = Answer(c, "ok")]
  BY Parts DEF Logout, Pending, Fine, Call
<1>1. Fine(Answer(c, "ok"), issued, since) /\ (~mixed => Owns(Answer(c, "ok"), session, since, held))
  BY <1>0, AnswerFine, Parts
<1>2. /\ call' \in [Calls -> Call]
      /\ \A d \in Calls : Fine(call'[d], issued', since')
      /\ ~mixed' => \A d \in Calls : Owns(call'[d], session', since', held')
  <2>1. /\ issued' = issued /\ since' = since /\ held' = held /\ session' = session
        /\ (mixed' <=> mixed) /\ issued <= issued'
    BY <1>0 DEF Page
  <2>2. /\ Fine(Answer(c, "ok"), issued', since')
        /\ ~mixed' => Owns(Answer(c, "ok"), session', since', held')
    BY <1>1, <2>1
  <2> QED BY ONLY Safe, <1>0, <2>1, <2>2, CallsKeep
<1>3. TypeOK'
  BY <1>0, <1>2 DEF Page, Safe, TypeOK
<1>4. Tokens'
  <2>1. call[c].token \in 0 .. issued
    BY <1>0, WebAssumption
  <2> QED BY <1>0, <2>1 DEF Page, Safe, Tokens
<1>5. Owned'
  BY <1>0, <1>2 DEF Page, Safe, Owned
<1> QED BY <1>2, <1>3, <1>4, <1>5 DEF Safe

\* A fresh token goes to the account whose password was checked.
LEMMA LoginSafe == ASSUME Safe, NEW c \in Calls, Login(c) PROVE Safe'
<1> DEFINE u == call[c].user
<1>0. /\ call[c].pc = "sent" /\ call[c].kind = "login" /\ Fine(call[c], issued, since)
      /\ call[c] \in Call /\ issued \in Nat /\ issued < MaxTokens /\ u \in Users
      /\ ~mixed => Owns(call[c], session, since, held)
      /\ UNCHANGED <<clock, accounts, store, untagged, Page, calls, left, ended, held, mixed>>
  BY Parts DEF Login, Pending, Fine
<1>1. CASE /\ call' = [call EXCEPT ![c] = Answer(c, "refused")]
           /\ UNCHANGED <<tokens, issued, since>>
  <2>1. /\ Fine(Answer(c, "refused"), issued, since)
        /\ ~mixed => Owns(Answer(c, "refused"), session, since, held)
    BY <1>0, AnswerFine
  <2> QED BY <1>0, <1>1, <2>1, CallTurn, Parts
<1>2. CASE /\ issued' = issued + 1
           /\ tokens' = Live \cup {[token |-> issued', user |-> u, expires |-> clock + Lifetime]}
           /\ since' = [t \in 1 .. issued' |->
                          IF t = issued' THEN [user |-> u, at |-> clock] ELSE since[t]]
           /\ call' = [call EXCEPT ![c] =
                          IF call[c].awaited THEN [Answer(c, "ok") EXCEPT !.token = issued'] ELSE Idle]
  <2> DEFINE p == IF call[c].awaited THEN [Answer(c, "ok") EXCEPT !.token = issued'] ELSE Idle
  <2>1. /\ issued' \in Nat /\ issued' \in 0 .. MaxTokens /\ issued <= issued'
        /\ issued' \in 1 .. issued' /\ \A t \in 1 .. issued : t \in 1 .. issued' /\ t # issued'
        /\ \A t \in 1 .. issued' : t # issued' => t \in 1 .. issued
    BY <1>0, <1>2, WebAssumption
  <2>2. /\ \A t \in 1 .. issued : since'[t] = since[t]
        /\ since'[issued'] = [user |-> u, at |-> clock]
        /\ since' \in [1 .. issued' -> [user : Users, at : Nat]]
    BY <1>0, <1>2, <2>1, Parts
  <2>3. Fine(p, issued', since') /\ (~mixed' => Owns(p, session', since', held'))
    <3>1. CASE call[c].awaited
      <4>1. p = [call[c] EXCEPT !.pc = "answered", !.status = "ok", !.token = issued']
        BY <1>0, <3>1 DEF Answer, Call
      <4>2. /\ p \in Call /\ p.pc = "answered" /\ p.kind = "login" /\ p.user = u
            /\ p.token = issued' /\ p.reply = call[c].reply
        BY <1>0, <2>1, <4>1 DEF Call, Steps
      <4> HIDE DEF p
      <4>3. Fine(p, issued', since')
        BY <1>0, <2>1, <2>2, <4>2 DEF Fine
      <4> QED BY <1>0, <4>2, <4>3 DEF Owns
    <3>2. CASE ~call[c].awaited
      BY <2>1, <3>2, IdleFine
    <3> QED BY <3>1, <3>2
  <2>4. call' = [call EXCEPT ![c] = p]
    BY <1>2
  <2> HIDE DEF p
  <2>5. /\ call' \in [Calls -> Call]
        /\ \A d \in Calls : Fine(call'[d], issued', since')
        /\ ~mixed' => \A d \in Calls : Owns(call'[d], session', since', held')
    BY <1>0, <2>1, <2>2, <2>3, <2>4, CallsKeep DEF Page
  <2>6. Tokens'
    <3>1. \A t \in tokens' : \/ t \in tokens
                             \/ t = [token |-> issued', user |-> u, expires |-> clock + Lifetime]
      BY <1>2 DEF Live
    <3>2. issued' \notin ended /\ ended \subseteq 0 .. issued'
      BY <1>0, <1>2 DEF Safe, Tokens
    <3>3. ASSUME NEW t \in tokens'
          PROVE  /\ t.token \in 1 .. issued' /\ t.token \notin ended' /\ t.user = since'[t.token].user
                 /\ t.expires = since'[t.token].at + Lifetime /\ t.user \in Users
      <4>1. CASE t \in tokens
        BY <1>0, <2>1, <2>2, <4>1 DEF Safe, Tokens, TypeOK
      <4>2. CASE t = [token |-> issued', user |-> u, expires |-> clock + Lifetime]
        BY <1>0, <2>1, <2>2, <3>2, <4>2
      <4> QED BY <3>1, <4>1, <4>2
    <3>4. session' # SignedOut => /\ session'.token \in 1 .. issued'
                                  /\ session'.user = since'[session'.token].user
      BY <1>0, <2>1, <2>2 DEF Page, Safe, Tokens
    <3> QED BY <1>0, <2>2, <3>2, <3>3, <3>4 DEF Tokens
  <2>7. TypeOK'
    <3>1. DOMAIN since' = 1 .. issued' /\ \A t \in tokens' : t.token \in 1 .. issued' /\ t.user \in Users
      BY <2>2, <2>6 DEF Tokens
    <3>2. session' \in [token : 0 .. issued', user : Users \cup {Nobody}]
      BY <1>0, <1>2, Parts DEF Page
    <3> QED BY <1>0, <2>1, <2>5, <3>1, <3>2 DEF Page, Safe, TypeOK
  <2>8. Owned'
    BY <1>0, <2>5 DEF Page, Safe, Owned
  <2> QED BY <2>5, <2>6, <2>7, <2>8 DEF Safe
<1> QED BY <1>1, <1>2 DEF Login

\* What is stored belongs to the account the request's token was issued to.
LEMMA StoreSafe == ASSUME Safe, NEW c \in Calls, Store(c) PROVE Safe'
<1> DEFINE x == <<call[c].user, call[c].name>>
           b == call[c].body
<1>0. /\ call[c].pc = "receiving" /\ call[c].kind = "put" /\ Fine(call[c], issued, since)
      /\ issued \in Nat /\ call[c].user \in Users /\ call[c].name \in Files /\ b \in Sealed
      /\ call' = [call EXCEPT ![c] = Answer(c, "ok")]
      /\ UNCHANGED <<clock, accounts, tokens, issued, Page, calls, since, ended, mixed>>
      /\ ~mixed => Owns(call[c], session, since, held)
  BY Parts DEF Store, Fine, Call
<1>5. PICK tag : Put(x, b, tag)
  BY DEF Store
<1>8. /\ store' \in [Users \X Files -> Sealed \cup {NoFile}]
      /\ untagged' \subseteq Users \X Files /\ held \subseteq held'
      /\ ~mixed => \A w \in Users, g \in Files : Sits(store'[<<w, g>>], w, g, untagged', held')
  BY <1>0, <1>5, PutSits DEF Owns
<1>10. left' \in 0 .. Budget
  BY StrikeTypes, Parts DEF Store
<1>1. Fine(Answer(c, "ok"), issued, since)
  BY <1>0, AnswerFine
<1>2. ~mixed => Owns(Answer(c, "ok"), session, since, held)
  BY <1>0, AnswerFine
<1>3. ~mixed => Owns(Answer(c, "ok"), session, since, held')
  BY <1>0, <1>2, <1>8 DEF Owns, Shown
<1>4. /\ call' \in [Calls -> Call]
      /\ \A d \in Calls : Fine(call'[d], issued', since')
      /\ ~mixed' => \A d \in Calls : Owns(call'[d], session', since', held')
  <2>1. /\ issued' = issued /\ since' = since /\ session' = session
        /\ (mixed' <=> mixed) /\ issued <= issued' /\ held \subseteq held'
    BY <1>0, <1>8 DEF Page
  <2>2. /\ Fine(Answer(c, "ok"), issued', since')
        /\ ~mixed' => Owns(Answer(c, "ok"), session', since', held')
    BY <1>1, <1>3, <2>1
  <2> QED BY ONLY Safe, <1>0, <2>1, <2>2, CallsKeep
<1>6. TypeOK'
  BY <1>0, <1>4, <1>8, <1>10 DEF Page, Safe, TypeOK
<1>7. Tokens'
  BY <1>0 DEF Page, Safe, Tokens
<1>9. ~mixed' => Shown(list', held')
  BY <1>0, <1>8 DEF Page, Safe, Owned, Shown
<1> QED BY <1>0, <1>4, <1>6, <1>7, <1>8, <1>9 DEF Safe, Owned

\* The page's variables change; the server does not.
LEMMA PageTurn ==
  ASSUME Safe, NEW c \in Calls, NEW p, call' = [call EXCEPT ![c] = p],
         UNCHANGED <<Server, calls, left, History>>,
         Fine(p, issued, since), ~mixed' => Owns(p, session', since, held),
         mixed => mixed',
         ~mixed' => \/ session' \in {session, SignedOut}
                    \/ \A d \in Calls : call[d].pc \notin {"tag", "seal"},
         session' \in [token : 0 .. issued, user : Users \cup {Nobody}],
         session' # SignedOut => /\ session'.token \in 1 .. issued
                                 /\ session'.user = since[session'.token].user,
         pass' = session'.user, list' \in Lists, ~mixed' => Shown(list', held)
  PROVE  Safe'
<1>1. /\ issued' = issued /\ since' = since /\ held' = held /\ issued \in Nat /\ issued <= issued'
      /\ UNCHANGED <<clock, accounts, tokens, issued, store, untagged, ended, calls, left>>
  BY Parts DEF Server, History
<1>2. /\ call' \in [Calls -> Call]
      /\ \A d \in Calls : Fine(call'[d], issued', since')
      /\ ~mixed' => \A d \in Calls : Owns(call'[d], session', since', held')
  BY <1>1, CallsKeep
<1>3. TypeOK'
  BY <1>1, <1>2 DEF Safe, TypeOK
<1>4. Tokens'
  BY <1>1 DEF Safe, Tokens
<1>5. Owned'
  BY <1>1, <1>2 DEF Safe, Owned
<1> QED BY <1>2, <1>3, <1>4, <1>5 DEF Safe

\* A sign-in under an upload is what mixed notes.
LEMMA ReplySignInSafe == ASSUME Safe, NEW c \in Calls, ReplySignIn(c) PROVE Safe'
<1>0. /\ call[c].pc = "answered" /\ call[c].kind = "login" /\ Fine(call[c], issued, since)
      /\ call[c] \in Call /\ issued \in Nat /\ call[c].name \in Files /\ issued <= MaxTokens
      /\ UNCHANGED <<Server, list, calls, left, History>> /\ list \in Lists
      /\ ~mixed => Shown(list, held)
  BY Parts DEF ReplySignIn, Call, Safe, Owned
<1>1. CASE call[c].status = "ok"
  <2> DEFINE me == [token |-> call[c].token, user |-> call[c].user]
  <2>1. /\ session' = me /\ pass' = me.user
        /\ call' = [call EXCEPT ![c] = SendIn(session', "list", call[c].name)]
        /\ mixed' = (mixed \/ \E d \in Calls : call[d].pc \in {"tag", "seal"})
    BY <1>1 DEF ReplySignIn
  <2>2. /\ me.token \in 1 .. issued /\ since[me.token].user = me.user
        /\ me \in [token : 0 .. issued, user : Users \cup {Nobody}]
    BY <1>0, <1>1 DEF Fine
  <2> HIDE DEF me
  <2>3. Fine(SendIn(session', "list", call[c].name), issued, since)
    BY <1>0, <2>1, <2>2, SentFine
  <2>4. Owns(SendIn(session', "list", call[c].name), session', since, held)
    BY <1>0, <2>1, <2>2, SentFine
  <2> QED BY <1>0, <2>1, <2>2, <2>3, <2>4, PageTurn
<1>2. CASE call[c].status # "ok"
  <2>1. call' = [call EXCEPT ![c] = Idle] /\ UNCHANGED <<session, pass, mixed>>
    BY <1>2 DEF ReplySignIn
  <2>2. Fine(Idle, issued, since) /\ Owns(Idle, session', since, held)
    BY <1>0, IdleFine
  <2> QED BY <1>0, <2>1, <2>2, CallTurn, Parts DEF Page, Server, History
<1> QED BY <1>1, <1>2

\* A new page: uploads not sent yet are forgotten.
LEMMA FreshSafe ==
  ASSUME Safe, Fresh, UNCHANGED <<Server, calls, History, mixed>>, left' \in 0 .. Budget
  PROVE  Safe'
<1>1. /\ issued' = issued /\ since' = since /\ held' = held /\ issued \in Nat
      /\ UNCHANGED <<clock, accounts, tokens, issued, store, untagged, ended, calls, mixed>>
  BY Parts DEF Server, History
<1>2. ASSUME NEW d \in Calls
      PROVE  /\ Fine(call'[d], issued, since)
             /\ ~mixed => Owns(call'[d], SignedOut, since, held)
  <2>1. CASE call[d].pc \in {"sent", "receiving"}
    <3> DEFINE p == [call[d] EXCEPT !.awaited = FALSE]
    <3>1. /\ call[d] \in Call /\ Fine(call[d], issued, since)
          /\ ~mixed => Owns(call[d], session, since, held)
      BY Parts
    <3>2. /\ p \in Call /\ p.pc = call[d].pc /\ p.kind = call[d].kind /\ p.user = call[d].user
          /\ p.token = call[d].token /\ p.body = call[d].body /\ p.reply = call[d].reply
      BY <3>1 DEF Call
    <3>3. call'[d] = p
      BY <2>1 DEF Fresh
    <3> HIDE DEF p
    <3>4. Fine(p, issued, since)
      BY <2>1, <3>1, <3>2 DEF Fine
    <3>5. ~mixed => Owns(p, SignedOut, since, held)
      BY <2>1, <3>1, <3>2 DEF Owns
    <3> QED BY <3>3, <3>4, <3>5
  <2>2. CASE call[d].pc \notin {"sent", "receiving"}
    <3>1. call'[d] = Idle
      BY <2>2 DEF Fresh
    <3> QED BY <1>1, <3>1, IdleFine
  <2> QED BY <2>1, <2>2
<1>3. call' \in [Calls -> Call]
  <2>1. \A d \in Calls : call'[d] \in Call
    BY <1>2 DEF Fine
  <2> QED BY <2>1 DEF Fresh
<1>4. /\ session' = SignedOut /\ pass' = session'.user /\ list' = NoList
      /\ session' \in [token : 0 .. issued, user : Users \cup {Nobody}]
  BY <1>1 DEF Fresh, SignedOut
<1>5. TypeOK'
  BY <1>1, <1>3, <1>4, NoListTypes DEF Safe, TypeOK
<1>6. Tokens'
  BY <1>1, <1>4 DEF Safe, Tokens
<1>7. Owned'
  BY <1>1, <1>2, <1>4, NobodyShown DEF Safe, Owned
<1> QED BY <1>1, <1>2, <1>5, <1>6, <1>7 DEF Safe

LEMMA ReplySignOutSafe == ASSUME Safe, NEW c \in Calls, ReplySignOut(c) PROVE Safe'
<1>1. CASE call[c].status = "broken"
  <2>1. call' = [call EXCEPT ![c] = Idle] /\ UNCHANGED Page
    BY <1>1 DEF ReplySignOut
  <2>2. Fine(Idle, issued, since) /\ Owns(Idle, session, since, held)
    BY IdleFine, Parts
  <2> QED BY <2>1, <2>2, CallTurn, Parts DEF ReplySignOut, Server, History
<1>2. CASE call[c].status # "broken"
  BY <1>2, FreshSafe, Parts DEF ReplySignOut
<1> QED BY <1>1, <1>2

LEMMA ReplySafe == ASSUME Safe, NEW c \in Calls, Reply(c) PROVE Safe'
<1> DEFINE me == call[c]
           out == me.status = "unauthorised" /\ session # SignedOut
           again == me.kind = "put" \/ (me.kind = "delete" /\ me.status # "broken")
           p == IF again THEN SendIn(session', "list", me.name) ELSE Idle
<1>0. /\ me \in Call /\ issued \in Nat /\ me.name \in Files /\ issued <= MaxTokens
      /\ UNCHANGED <<Server, calls, left, History, mixed>> /\ list \in Lists /\ me.reply \in Lists
      /\ ~mixed => Shown(list, held) /\ Shown(me.reply, held)
      /\ session \in [token : 0 .. issued, user : Users \cup {Nobody}] /\ pass = session.user
  BY Parts DEF Reply, Call, Safe, Owned, Owns
<1>1. /\ session' = (IF out THEN SignedOut ELSE session) /\ pass' = (IF out THEN Nobody ELSE pass)
      /\ list' = (IF out THEN NoList
                  ELSE IF me.kind = "list" /\ me.status = "ok" THEN me.reply ELSE list)
      /\ call' = [call EXCEPT ![c] = p]
  BY DEF Reply
<1>2. /\ session' \in {session, SignedOut} /\ pass' = session'.user
      /\ session' \in [token : 0 .. issued, user : Users \cup {Nobody}]
  <2>1. SignedOut \in [token : 0 .. issued, user : Users \cup {Nobody}] /\ SignedOut.user = Nobody
    BY <1>0 DEF SignedOut
  <2> QED BY <1>0, <1>1, <2>1
<1>3. list' \in Lists /\ (~mixed => Shown(list', held))
  BY <1>0, <1>1, NoListTypes, NobodyShown
<1>4. Fine(p, issued, since) /\ Owns(p, session', since, held)
  <2>1. CASE again
    BY <1>0, <1>2, <2>1, SentFine
  <2>2. CASE ~again
    BY <1>0, <2>2, IdleFine
  <2> QED BY <2>1, <2>2
<1> HIDE DEF p, me, out, again
<1>5. session' # SignedOut => /\ session'.token \in 1 .. issued
                              /\ session'.user = since[session'.token].user
  BY <1>2 DEF Safe, Tokens
<1>6. mixed' = mixed
  BY <1>0
<1>7. /\ call' = [call EXCEPT ![c] = p] /\ UNCHANGED <<Server, calls, left, History>>
      /\ ~mixed' => Owns(p, session', since, held)
      /\ mixed => mixed'
      /\ ~mixed' => Shown(list', held)
      /\ ~mixed' => session' \in {session, SignedOut}
  BY <1>0, <1>1, <1>2, <1>3, <1>4, <1>6
<1> QED BY ONLY Safe, <1>2, <1>3, <1>4, <1>5, <1>7, PageTurn

\* The world around: time passes, accounts go, other devices write.
LEMMA AroundSafe ==
  ASSUME Safe, \/ Tick
               \/ \E u \in Users : Userdel(u)
               \/ UNCHANGED vars
  PROVE  Safe'
<1>1. /\ UNCHANGED <<tokens, issued, store, untagged, session, pass, list, call, calls, since, ended, held, mixed>>
      /\ clock' \in 0 .. MaxClock /\ accounts' \subseteq Users /\ left' \in 0 .. Budget
  BY Parts, StrikeTypes, WebAssumption DEF Tick, Userdel, vars, Page, History
<1>2. TypeOK'
  BY <1>1 DEF Safe, TypeOK
<1>3. Tokens' /\ Owned'
  BY <1>1 DEF Safe, Tokens, Owned
<1> QED BY <1>1, <1>2, <1>3 DEF Safe

LEMMA ElsewhereSafe ==
  ASSUME Safe, NEW u \in Users, NEW f \in Files, Elsewhere(u, f) PROVE Safe'
<1>0. /\ UNCHANGED <<clock, accounts, tokens, issued, session, pass, list, call, calls, since, ended, mixed>>
      /\ left' \in 0 .. Budget
  BY StrikeTypes DEF Elsewhere, Page
<1>1. /\ store' \in [Users \X Files -> Sealed \cup {NoFile}]
      /\ untagged' \subseteq Users \X Files /\ held \subseteq held'
      /\ ~mixed => \A w \in Users, g \in Files : Sits(store'[<<w, g>>], w, g, untagged', held')
  <2>1. CASE Remove(<<u, f>>) /\ UNCHANGED held
    BY <2>1, RemoveSits
  <2>2. CASE \E b \in Sealed, tag \in Tags : Opens(b, u) /\ Put(<<u, f>>, b, tag)
    BY <2>2, PutSits
  <2>3. ASSUME NEW v \in Contents
        PROVE  LET b == [content |-> v, pass |-> u, tag |-> Tag(v, u)]
               IN  b \in Sealed /\ Opens(b, u)
    BY DEF Sealed, Tags, Tag, NoTag, Opens
  <2> QED BY <2>1, <2>2, <2>3 DEF Elsewhere
<1>2. ~mixed => \A d \in Calls : Owns(call[d], session, since, held')
  BY <1>1, Parts DEF Owns, Shown
<1>3. ~mixed => Shown(list, held')
  BY <1>1 DEF Safe, Owned, Shown
<1>4. Owned'
  BY <1>0, <1>1, <1>2, <1>3 DEF Owned
<1>5. TypeOK' /\ Tokens'
  BY <1>0, <1>1 DEF Safe, TypeOK, Tokens
<1> QED BY <1>0, <1>4, <1>5 DEF Safe

LEMMA InitSafe == Init => Safe
<1> SUFFICES ASSUME Init PROVE Safe
  OBVIOUS
<1>1. TypeOK
  <2>1. /\ call \in [Calls -> Call] /\ list \in Lists
        /\ store \in [Users \X Files -> Sealed \cup {NoFile}]
    BY IdleTypes, NoListTypes DEF Init
  <2>2. DOMAIN since = 1 .. issued
    BY DEF Init
  <2> QED BY <2>1, <2>2, WebAssumption DEF Init, TypeOK, SignedOut
<1>2. since \in [1 .. issued -> [user : Users, at : Nat]]
  BY DEF Init
<1>3. Tokens
  BY <1>2 DEF Init, Tokens
<1>4. \A c \in Calls : Fine(call[c], issued, since) /\ Owns(call[c], session, since, held)
  BY IdleFine DEF Init
<1>5. Shown(list, held)
  BY NobodyShown DEF Init
<1>6. Owned
  BY <1>4, <1>5 DEF Init, Owned, Sits
<1> QED BY <1>1, <1>3, <1>4, <1>6 DEF Safe

LEMMA StepSafe == Safe /\ [Next]_vars => Safe'
<1> SUFFICES ASSUME Safe, [Next]_vars PROVE Safe'
  OBVIOUS
<1>1. CASE Reload
  BY <1>1, FreshSafe, StrikeTypes DEF Reload
<1>2. ASSUME NEW c \in Calls, Reply(c) \/ ReplySignIn(c) \/ ReplySignOut(c) PROVE Safe'
  BY <1>2, ReplySafe, ReplySignInSafe, ReplySignOutSafe
<1>3. ASSUME NEW c \in Calls,
             Login(c) \/ Logout(c) \/ Refuse(c) \/ Serve(c) \/ Store(c) \/ Break(c)
      PROVE  Safe'
  BY <1>3, LoginSafe, LogoutSafe, RefuseSafe, ServeSafe, StoreSafe, BreakSafe
<1>4. ASSUME NEW c \in Calls, Skip(c) \/ Seal(c) \/ SendFile(c) PROVE Safe'
  BY <1>4, SkipSafe, SealSafe, SendFileSafe
<1> QED
  BY <1>1, <1>2, <1>3, <1>4, SignInSafe, ClickSafe, DropSafe, AroundSafe, ElsewhereSafe DEF Next

-----------------------------------------------------------------------------
\* The whole invariant holds in every reachable state.
THEOREM SafeAlways == Spec => []Safe
<1> QED BY InitSafe, StepSafe, PTL DEF Spec

\* Every variable of the page and the server stays within its range, and the passphrase is
\* the session's (page.cpp: signIn, api).
THEOREM TypeCorrect == Spec => []TypeOK
<1>1. Safe => TypeOK
  BY DEF Safe
<1> QED BY <1>1, SafeAlways, PTL

\* A token is honoured for less than a lifetime, only for the account it was issued to, and
\* never again once it was signed out (BrowserSessions::lookup, destroy, expire_locked).
THEOREM TokensAlwaysEnd == Spec => []TokensEnd
<1>1. Safe => TokensEnd
  <2> SUFFICES ASSUME Safe, NEW t \in Live
               PROVE  /\ t.user = since[t.token].user
                      /\ clock - since[t.token].at < Lifetime
                      /\ t.token \notin ended
    BY DEF TokensEnd
  <2>1. /\ t \in tokens /\ t.expires > clock /\ t.token \in 1 .. issued
        /\ t.expires = since[t.token].at + Lifetime /\ clock \in Nat
        /\ since[t.token].at \in Nat /\ t.user = since[t.token].user /\ t.token \notin ended
    BY Parts DEF Live, Safe, Tokens
  <2> QED BY <2>1, WebAssumption
<1> QED BY <1>1, SafeAlways, PTL

\* What an account has stored opens with that account's passphrase, and its tag is the tag
\* of its content unless writing the tag failed, when nobody signed in under an upload
\* (page.cpp: upload; webui.cpp: serve_put_file).
THEOREM StoredOpens == Spec => []SealedForOwner
<1>1. Safe => SealedForOwner
  BY DEF Safe, Owned, Sits, SealedForOwner
<1> QED BY <1>1, SafeAlways, PTL

\* An upload is skipped only for content the account has stored under the name, however
\* old the list that says so (page.cpp: upload).
THEOREM SkippedIsHeld == Spec => []SkippedWasHeld
<1>1. Safe => SkippedWasHeld
  <2> SUFFICES ASSUME Safe, NEW c \in Calls, call[c].pc = "tag", Stored(call[c]), ~mixed
               PROVE  <<<<call[c].user, call[c].name>>, call[c].body.content>> \in held
    BY DEF SkippedWasHeld
  <2>1. /\ Fine(call[c], issued, since) /\ call[c].name \in Files /\ Shown(list, held)
    BY Parts DEF Call, Safe, Owned
  <2>2. /\ call[c].user \in Users /\ call[c].body.content \in Contents
        /\ call[c].body.tag = Tag(call[c].body.content, call[c].user)
    BY <2>1 DEF Fine, Sealed
  <2>3. list[call[c].name] = <<call[c].body.content, call[c].user>>
    BY <2>2 DEF Stored, Tag
  <2> QED BY <2>1, <2>2, <2>3 DEF Shown
<1> QED BY <1>1, SafeAlways, PTL
=============================================================================
