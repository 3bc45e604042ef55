----------------------------- MODULE WebSession -----------------------------
(***************************************************************************)
(* A browser page and the server's handling of its sessions.  The page     *)
(* signs in for a token, lists, uploads, fetches and deletes files with    *)
(* it, and keeps three variables that its asynchronous calls share: the    *)
(* session, the passphrase and the file list.  Each call is a sequence of  *)
(* steps with awaits in between; several calls run at once, replies arrive *)
(* in any order, tokens expire, accounts are removed and other devices     *)
(* change the same files.                                                  *)
(*                                                                         *)
(* The clock counts in units far longer than a request is handled in.  How *)
(* the bytes of a body are stored is ServerStore's subject.                *)
(***************************************************************************)
EXTENDS Integers, FiniteSets

CONSTANTS
  Users,      \* accounts; each has one passphrase, named by its account
  Nobody,     \* no account, and the empty passphrase
  Files,      \* file names
  Contents,   \* contents of a file
  Large,      \* the contents too large for a dedup tag
  Calls,      \* calls of the page that may be under way at the same time
  Lifetime,   \* a token's lifetime (kSessionMinutes), in units of the clock
  MaxClock,   \* bound: the clock's last value
  MaxTokens,  \* bound: sign-ins
  MaxCalls,   \* bound: calls the page makes
  Budget      \* bound: how often a connection breaks, a tag is lost, a page is reloaded,
              \* an account is removed or another device changes a file

ASSUME WebAssumption ==
  /\ Users # {} /\ Nobody \notin Users /\ Files # {}
  /\ Large \subseteq Contents
  /\ Lifetime \in Nat \ {0} /\ MaxClock \in Nat
  /\ MaxTokens \in Nat /\ MaxCalls \in Nat
  /\ Budget \in Nat

VARIABLES
  clock,
  accounts,  \* the accounts that exist
  tokens,    \* the server's sessions: token, account, expiry
  issued,    \* tokens handed out so far
  store,     \* (account, name) -> content, passphrase it is sealed with, tag beside it
  session,   \* the page's session: token and account (token 0: signed out)
  pass,      \* the page's passphrase
  list,      \* the page's file list: name -> tag shown for it
  call,      \* call -> the step it has reached
  calls,     \* calls made
  left,      \* hazards that may still strike
  since,     \* history: token -> account it was issued to, and when
  ended,     \* history: tokens that were signed out
  held,      \* history: what each account's names have held
  mixed,     \* history: a sign-in was answered while an upload was under way
  untagged   \* history: the (account, name) whose last upload lost its tag

vars == <<clock, accounts, tokens, issued, store, session, pass, list, call, calls,
          left, since, ended, held, mixed, untagged>>

NoTag   == <<>>
NoFile  == [content |-> "none", pass |-> Nobody, tag |-> NoTag]
Tag(content, p) == IF content \in Large THEN NoTag ELSE <<content, p>>
Tags    == {NoTag} \cup (Contents \X (Users \cup {Nobody}))
Sealed  == [content : Contents, pass : Users \cup {Nobody}, tag : Tags]
Missing == <<"missing">>
Entries == Tags \cup {Missing}
Lists   == [Files -> Entries]
Steps   == {"idle", "tag", "seal", "sent", "receiving", "answered"}
Kinds   == {"login", "logout", "list", "get", "put", "delete"}
Call    == [pc : Steps, kind : Kinds, user : Users \cup {Nobody}, name : Files,
            token : 0 .. MaxTokens, body : Sealed \cup {NoFile},
            status : {"ok", "refused", "unauthorised", "broken"}, reply : Lists,
            awaited : BOOLEAN]

NoList    == [f \in Files |-> Missing]
SignedOut == [token |-> 0, user |-> Nobody]
Idle == [pc |-> "idle", kind |-> "list", user |-> Nobody,
         name |-> CHOOSE f \in Files : TRUE, token |-> 0, body |-> NoFile,
         status |-> "ok", reply |-> NoList, awaited |-> TRUE]

Init ==
  /\ clock = 0 /\ accounts = Users
  /\ tokens = {} /\ issued = 0
  /\ store = [x \in Users \X Files |-> NoFile]
  /\ session = SignedOut /\ pass = Nobody /\ list = NoList
  /\ call = [c \in Calls |-> Idle] /\ calls = 0
  /\ left = Budget
  /\ since = <<>> /\ ended = {} /\ held = {} /\ mixed = FALSE
  /\ untagged = {}

Strike == left > 0 /\ left' = left - 1

Page   == <<session, pass, list>>
Server == <<clock, accounts, tokens, issued, store, untagged>>
History == <<since, ended, held>>

-----------------------------------------------------------------------------
(* The page: what the user starts *)

\* api(): a request carries the token the page has at this moment.
SendIn(s, kind, f) ==
  [Idle EXCEPT !.pc = "sent", !.kind = kind, !.name = f, !.token = s.token]

Send(kind, f) == SendIn(session, kind, f)

Free(c) == call[c].pc = "idle" /\ calls < MaxCalls /\ calls' = calls + 1

\* signIn: account, password and passphrase are typed in; the right password.
SignIn(c, u) ==
  /\ session = SignedOut
  /\ Free(c)
  /\ call' = [call EXCEPT ![c] = [Idle EXCEPT !.pc = "sent", !.kind = "login", !.user = u]]
  /\ UNCHANGED <<Server, Page, left, History, mixed>>

\* The buttons: download, delete and sign out.
Click(c, kind, f) ==
  /\ session # SignedOut
  /\ Free(c)
  /\ kind \in {"get", "delete", "logout"}
  /\ call' = [call EXCEPT ![c] = Send(kind, f)]
  /\ UNCHANGED <<Server, Page, left, History, mixed>>

\* Files are dropped on the page: the tag is computed with the passphrase the
\* page has now.
Drop(c, f, v) ==
  /\ session # SignedOut
  /\ Free(c)
  /\ call' = [call EXCEPT ![c] =
               [Idle EXCEPT !.pc = "tag", !.kind = "put", !.name = f, !.user = session.user,
                  !.body = [content |-> v, pass |-> pass, tag |-> Tag(v, pass)]]]
  /\ UNCHANGED <<Server, Page, left, History, mixed>>

-----------------------------------------------------------------------------
(* The page: an upload between its awaits *)

\* Mutation of Stored: the list has the name, whatever its content.
StoredByName(me) == list[me.name] # Missing

\* The list shows this content under this name.
Stored(me) == me.body.tag # NoTag /\ list[me.name] = me.body.tag

\* "already stored": nothing is sent, the list is fetched again.
Skip(c) ==
  /\ call[c].pc = "tag"
  /\ Stored(call[c])
  /\ call' = [call EXCEPT ![c] = Send("list", call[c].name)]
  /\ UNCHANGED <<Server, Page, calls, left, History, mixed>>

\* sealFile takes the passphrase the page has when the tag is there.
Seal(c) ==
  /\ call[c].pc = "tag"
  /\ ~Stored(call[c])
  /\ call' = [call EXCEPT ![c].pc = "seal", ![c].body.pass = pass]
  /\ UNCHANGED <<Server, Page, calls, left, History, mixed>>

\* The sealed file is sent in whatever session the page has by now.
SendFile(c) ==
  /\ call[c].pc = "seal"
  /\ call' = [call EXCEPT ![c] =
               [Send("put", call[c].name) EXCEPT !.body = call[c].body]]
  /\ UNCHANGED <<Server, Page, calls, left, History, mixed>>

-----------------------------------------------------------------------------
(* The server *)

\* A stored body and its tag, which write_tag leaves as it was or empty when it
\* fails; its result is ignored.
Put(x, body, tag) ==
  /\ tag \in {body.tag, store[x].tag, NoTag}
  /\ store' = [store EXCEPT ![x] = [body EXCEPT !.tag = tag]]
  /\ untagged' = IF tag = body.tag THEN untagged \ {x} ELSE untagged \cup {x}
  /\ held' = held \cup {<<x, body.content>>}

\* remove_file: the file and its tag.
Remove(x) == store' = [store EXCEPT ![x] = NoFile] /\ untagged' = untagged \ {x}

\* expire_locked, run by every sign-in and every look-up.
Live == {t \in tokens : t.expires > clock}

\* The reply goes to the page, if the page that asked is still there.
Answer(c, status) ==
  IF call[c].awaited THEN [call[c] EXCEPT !.pc = "answered", !.status = status] ELSE Idle

Pending(c) == call[c].pc = "sent"

\* serve_login: the password is checked, a fresh token made.
Login(c) ==
  LET u == call[c].user
  IN
  /\ Pending(c) /\ call[c].kind = "login"
  /\ issued < MaxTokens
  /\ \/ /\ u \notin accounts
        /\ call' = [call EXCEPT ![c] = Answer(c, "refused")]
        /\ UNCHANGED <<tokens, issued, since>>
     \/ /\ u \in accounts
        /\ issued' = issued + 1
        /\ tokens' = Live \cup {[token |-> issued', user |-> u, expires |-> clock + Lifetime]}
        /\ since' = [t \in 1 .. issued' |->
                       IF t = issued' THEN [user |-> u, at |-> clock] ELSE since[t]]
        /\ call' = [call EXCEPT ![c] = 
                       IF call[c].awaited THEN [Answer(c, "ok") EXCEPT !.token = issued'] ELSE Idle]
  /\ UNCHANGED <<clock, accounts, store, untagged, Page, calls, left, ended, held, mixed>>

\* Mutation of Logout: the page forgets its token and the server does not.
LogoutOfPageOnly(c) ==
  /\ Pending(c) /\ call[c].kind = "logout"
  /\ call' = [call EXCEPT ![c] = Answer(c, "ok")]
  /\ ended' = ended \cup {call[c].token}
  /\ UNCHANGED <<Server, Page, calls, left, since, held, mixed>>

\* serve_logout: whatever the token, the answer is yes.
Logout(c) ==
  /\ Pending(c) /\ call[c].kind = "logout"
  /\ tokens' = {t \in tokens : t.token # call[c].token}
  /\ call' = [call EXCEPT ![c] = Answer(c, "ok")]
  /\ ended' = ended \cup {call[c].token}
  /\ UNCHANGED <<clock, accounts, issued, store, untagged, Page, calls, left, since, held, mixed>>

Guarded(c) == Pending(c) /\ call[c].kind \in {"list", "get", "put", "delete"}

\* authenticate fails: 401.  Without a token nothing is looked up or expired.
Refuse(c) ==
  /\ Guarded(c)
  /\ \A t \in Live : t.token # call[c].token
  /\ tokens' = IF call[c].token = 0 THEN tokens ELSE Live
  /\ call' = [call EXCEPT ![c] = Answer(c, "unauthorised")]
  /\ UNCHANGED <<clock, accounts, issued, store, untagged, Page, calls, left, History, mixed>>

TagsOf(u) ==
  [f \in Files |-> IF store[<<u, f>>] = NoFile THEN Missing ELSE store[<<u, f>>].tag]

\* authenticate succeeds: list and delete are answered, an upload's body is
\* received, in the name of the account the token was issued to.
Serve(c) ==
  /\ Guarded(c)
  /\ tokens' = Live
  /\ \E t \in Live :
       LET x == <<t.user, call[c].name>>
       IN
       /\ t.token = call[c].token
       /\ CASE call[c].kind = "list" ->
                 /\ call' = [call EXCEPT ![c] = [Answer(c, "ok") EXCEPT !.reply = TagsOf(t.user)]]
                 /\ UNCHANGED <<store, untagged>>
            [] call[c].kind = "put" ->
                 /\ call' = [call EXCEPT ![c].pc = "receiving", ![c].user = t.user]
                 /\ UNCHANGED <<store, untagged>>
            [] call[c].kind = "get" ->
                 /\ call' = [call EXCEPT ![c] =
                               Answer(c, IF store[x] = NoFile THEN "refused" ELSE "ok")]
                 /\ UNCHANGED <<store, untagged>>
            [] OTHER ->
                 /\ Remove(x)
                 /\ call' = [call EXCEPT ![c] =
                               Answer(c, IF store[x] = NoFile THEN "refused" ELSE "ok")]
  /\ UNCHANGED <<clock, accounts, issued, Page, calls, left, History, mixed>>

\* The body is complete: serve_put_file renames it into place, then writes its
\* tag, unless that write fails.
Store(c) ==
  LET body == call[c].body
  IN
  /\ call[c].pc = "receiving"
  /\ \E tag \in Tags :
       /\ Put(<<call[c].user, call[c].name>>, body, tag)
       /\ IF tag = body.tag THEN UNCHANGED left ELSE Strike
  /\ call' = [call EXCEPT ![c] = Answer(c, "ok")]
  /\ UNCHANGED <<clock, accounts, tokens, issued, Page, calls, since, ended, mixed>>

\* The connection breaks before the request is read or in the middle of the
\* body; fetch throws.
Break(c) ==
  /\ call[c].pc \in {"sent", "receiving"}
  /\ Strike
  /\ call' = [call EXCEPT ![c] = Answer(c, "broken")]
  /\ UNCHANGED <<Server, Page, calls, History, mixed>>

-----------------------------------------------------------------------------
(* The page: replies *)

\* Mutation of ReplySignIn: the passphrase of the form is not taken over.
ReplySignInHalf(c) ==
  /\ call[c].pc = "answered" /\ call[c].kind = "login"
  /\ IF call[c].status = "ok"
       THEN /\ session' = [token |-> call[c].token, user |-> call[c].user]
            /\ call' = [call EXCEPT ![c] = SendIn(session', "list", call[c].name)]
            /\ mixed' = (mixed \/ \E d \in Calls : call[d].pc \in {"tag", "seal"})
       ELSE call' = [call EXCEPT ![c] = Idle] /\ UNCHANGED <<session, mixed>>
  /\ UNCHANGED <<Server, pass, list, calls, left, History>>

\* Mutation of ReplySignIn: the passphrase is what the form holds by now.
ReplySignInFromForm(c) ==
  /\ call[c].pc = "answered" /\ call[c].kind = "login"
  /\ IF call[c].status = "ok"
       THEN /\ session' = [token |-> call[c].token, user |-> call[c].user]
            /\ pass' \in Users
            /\ call' = [call EXCEPT ![c] = SendIn(session', "list", call[c].name)]
            /\ mixed' = (mixed \/ \E d \in Calls : call[d].pc \in {"tag", "seal"})
       ELSE call' = [call EXCEPT ![c] = Idle] /\ UNCHANGED <<session, pass, mixed>>
  /\ UNCHANGED <<Server, list, calls, left, History>>

\* Session and passphrase are set together, then the list is fetched.
ReplySignIn(c) ==
  /\ call[c].pc = "answered" /\ call[c].kind = "login"
  /\ IF call[c].status = "ok"
       THEN /\ session' = [token |-> call[c].token, user |-> call[c].user]
            /\ pass' = call[c].user
            /\ call' = [call EXCEPT ![c] = SendIn(session', "list", call[c].name)]
            /\ mixed' = (mixed \/ \E d \in Calls : call[d].pc \in {"tag", "seal"})
       ELSE call' = [call EXCEPT ![c] = Idle] /\ UNCHANGED <<session, pass, mixed>>
  /\ UNCHANGED <<Server, list, calls, left, History>>

\* A new page: what it had in memory is gone, what it had sent may arrive.
Fresh ==
  /\ session' = SignedOut /\ pass' = Nobody /\ list' = NoList
  /\ call' = [d \in Calls |-> IF call[d].pc \in {"sent", "receiving"}
                               THEN [call[d] EXCEPT !.awaited = FALSE] ELSE Idle]

\* Signed out: location.reload().  A request that broke leaves all as it was.
ReplySignOut(c) ==
  /\ call[c].pc = "answered" /\ call[c].kind = "logout"
  /\ IF call[c].status = "broken"
       THEN call' = [call EXCEPT ![c] = Idle] /\ UNCHANGED Page
       ELSE Fresh
  /\ UNCHANGED <<Server, calls, left, History, mixed>>

\* api() first: a 401 signs the page out.  A list is then taken over; a
\* finished upload and an answered delete fetch it again.
Reply(c) ==
  LET me == call[c]
      out == me.status = "unauthorised" /\ session # SignedOut
      again == me.kind = "put" \/ (me.kind = "delete" /\ me.status # "broken")
  IN
  /\ me.pc = "answered" /\ me.kind \in {"list", "get", "put", "delete"}
  /\ session' = IF out THEN SignedOut ELSE session
  /\ pass' = IF out THEN Nobody ELSE pass
  /\ list' = IF out THEN NoList
             ELSE IF me.kind = "list" /\ me.status = "ok" THEN me.reply ELSE list
  /\ call' = [call EXCEPT ![c] = IF again THEN SendIn(session', "list", me.name) ELSE Idle]
  /\ UNCHANGED <<Server, calls, left, History, mixed>>

Reload == Strike /\ Fresh /\ UNCHANGED <<Server, calls, History, mixed>>

-----------------------------------------------------------------------------
(* The world around *)

Tick ==
  /\ clock < MaxClock
  /\ clock' = clock + 1
  /\ UNCHANGED <<accounts, tokens, issued, store, untagged, Page, call, calls, left, History, mixed>>

\* pcs-server userdel: the file of accounts changes, the sessions do not.
Userdel(u) ==
  /\ u \in accounts
  /\ Strike
  /\ accounts' = accounts \ {u}
  /\ UNCHANGED <<clock, tokens, issued, store, untagged, Page, call, calls, History, mixed>>

\* Another device of the account deletes a file or stores one, with or without
\* its tag.
Elsewhere(u, f) ==
  /\ Strike
  /\ \/ Remove(<<u, f>>) /\ UNCHANGED held
     \/ \E v \in Contents, tag \in Tags :
          Put(<<u, f>>, [content |-> v, pass |-> u, tag |-> Tag(v, u)], tag)
  /\ UNCHANGED <<clock, accounts, tokens, issued, Page, call, calls, since, ended, mixed>>

-----------------------------------------------------------------------------
Next ==
  \/ \E c \in Calls, u \in Users : SignIn(c, u)
  \/ \E c \in Calls, f \in Files, kind \in {"get", "delete", "logout"} : Click(c, kind, f)
  \/ \E c \in Calls, f \in Files, v \in Contents : Drop(c, f, v)
  \/ \E c \in Calls : Skip(c) \/ Seal(c) \/ SendFile(c)
  \/ \E c \in Calls : Login(c) \/ Logout(c) \/ Refuse(c) \/ Serve(c) \/ Store(c) \/ Break(c)
  \/ \E c \in Calls : ReplySignIn(c) \/ ReplySignOut(c) \/ Reply(c)
  \/ \E u \in Users : Userdel(u)
  \/ \E u \in Users, f \in Files : Elsewhere(u, f)
  \/ Reload \/ Tick

Spec == Init /\ [][Next]_vars

-----------------------------------------------------------------------------
(* Properties *)

\* Every variable keeps its type; passphrase and session come and go together.
TypeOK ==
  /\ clock \in 0 .. MaxClock /\ accounts \subseteq Users
  /\ issued \in 0 .. MaxTokens /\ DOMAIN since = 1 .. issued
  /\ \A t \in tokens : t.token \in 1 .. issued /\ t.user \in Users
  /\ store \in [Users \X Files -> Sealed \cup {NoFile}]
  /\ untagged \subseteq Users \X Files
  /\ session \in [token : 0 .. issued, user : Users \cup {Nobody}]
  /\ pass = session.user
  /\ list \in Lists
  /\ call \in [Calls -> Call] /\ calls \in 0 .. MaxCalls
  /\ left \in 0 .. Budget

\* An upload is only skipped for content the account has stored under this very
\* name at some time (page.cpp:547-550), however old the list that says so,
\* whoever it was fetched for and even when a tag outlived its content, unless
\* the account changed in the middle of the upload.
SkippedWasHeld ==
  \A c \in Calls : call[c].pc = "tag" /\ Stored(call[c]) /\ ~mixed =>
    <<<<call[c].user, call[c].name>>, call[c].body.content>> \in held

\* What an account has stored opens with that account's passphrase, whichever
\* replies were late and whatever session ended meanwhile (page.cpp:355-358,
\* 564), and its tag is the tag of its content unless writing that tag failed
\* (webui.cpp:293).  The exception is a sign-in between an upload's tag and its
\* request: the passphrase is read at several moments.
SealedForOwner ==
  ~mixed => \A u \in Users, f \in Files :
    LET there == store[<<u, f>>]
    IN  there # NoFile =>
          /\ there.pass = u
          /\ <<u, f>> \in untagged \/ there.tag = Tag(there.content, u)

\* Whatever token authenticate accepts was issued for its account less than a
\* lifetime ago and has not been signed out (webui.cpp:22-77); so an account
\* that was removed is served for less than a lifetime after its last sign-in.
TokensEnd ==
  \A t \in Live :
    /\ t.user = since[t.token].user
    /\ clock - since[t.token].at < Lifetime
    /\ t.token \notin ended
=============================================================================
