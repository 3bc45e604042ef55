------------------------------- MODULE Startup -------------------------------
(***************************************************************************)
(* How the server comes up: it loads or makes its machine token, its       *)
(* certificate authority and its own certificate, each in files that are   *)
(* written in place one after another, then listens and may detach.  A     *)
(* start can die between any two of these steps, a write can fail with or  *)
(* without anyone noticing, and the next start works with what is left.    *)
(* Keys and certificates are numbers: a pair fits when its numbers agree.  *)
(***************************************************************************)
EXTENDS Integers

CONSTANTS
  HostSets,  \* the sets of names the server may be reached by
  Lifetime,  \* what a server certificate is valid for, in units of the clock
  Margin,    \* it is reissued when it has less than this left
  CaLifetime, \* what an authority is valid for
  MaxClock,  \* bound: the clock's last value
  MaxStarts, \* bound: starts of the server
  MaxIds,    \* bound: keys and tokens ever generated
  Budget     \* bound: starts that die, writes that fail, ports that are taken

ASSUME StartupAssumption ==
  /\ Margin \in Nat /\ Lifetime \in Nat /\ Margin < Lifetime /\ CaLifetime \in Nat
  /\ MaxClock \in Nat /\ MaxStarts \in Nat /\ MaxIds \in Nat /\ Budget \in Nat

VARIABLES
  pc,         \* the step the start has reached
  hosts,      \* names this start was given
  ids,        \* keys and tokens generated so far
  tokenFile, caCert, caKey, cert, key,   \* the files
  bornAt,     \* when each authority was made, as its certificate says
  made,       \* a pair whose certificate is written and whose key is not yet
  token, loaded,  \* the running server's token and certificate
  clock, starts, left,
  announced,  \* history: tokens printed by servers that came up
  unsaved,    \* history: a token was used that its file does not hold
  installed,  \* history: authorities copied to devices since the server first came up
  cameUp,     \* history: the clock when the server came up
  halved      \* history: a start replaced an authority's certificate and not its key

files == <<tokenFile, caCert, caKey, cert, key, bornAt>>
vars  == <<pc, hosts, ids, files, made, token, loaded, clock, starts, left, announced,
           unsaved, installed, cameUp, halved>>

Absent == 0
Torn   == -1
Ids    == 1 .. MaxIds
NoCert == [id |-> Absent, signer |-> Absent, issuer |-> Absent, hosts |-> {}, born |-> 0]
Broken == [NoCert EXCEPT !.id = Torn]
Certs  == [id : Ids, signer : Ids, issuer : Ids, hosts : HostSets, born : 0 .. MaxClock]

Readable(f) == f \notin {Absent, Torn}

Init ==
  /\ pc = "down" /\ hosts = {} /\ ids = 0
  /\ tokenFile = Absent /\ caCert = Absent /\ caKey = Absent /\ cert = NoCert /\ key = Absent
  /\ bornAt = [n \in Ids |-> 0] /\ made = NoCert /\ token = Absent /\ loaded = NoCert
  /\ clock = 0 /\ starts = 0 /\ left = Budget
  /\ announced = {} /\ unsaved = FALSE /\ installed = {} /\ cameUp = 0 /\ halved = FALSE

Strikes == left > 0 /\ left' = left - 1
New     == ids + 1
Fresh   == ids < MaxIds /\ ids' = ids + 1

\* A file written in place: whole; torn and noticed; torn, when closing it fails, which
\* nobody looks at; or left as it was, when it cannot be opened.
Wrote(whole)    == whole /\ left' = left
WroteHalf(torn) == torn /\ Strikes
Unopened(file)  == UNCHANGED file /\ Strikes

History == UNCHANGED <<announced, installed, cameUp>>

Start ==
  /\ pc = "down" /\ starts < MaxStarts
  /\ starts' = starts + 1 /\ pc' = "token"
  /\ hosts' \in HostSets
  /\ UNCHANGED <<ids, files, made, token, loaded, clock, left, unsaved, halved>> /\ History

\* Mutation of LoadOrCreateToken: the token on the disk is not looked for.
CreateToken ==
  /\ pc = "token" /\ pc' = "ca" /\ Fresh
  /\ token' = New /\ tokenFile' = New /\ left' = left
  /\ UNCHANGED <<hosts, caCert, caKey, bornAt, cert, key, made, loaded, clock, starts, halved,
                 unsaved>>
  /\ History

\* A token that was not written out whole is used all the same.
LoadOrCreateToken ==
  /\ pc = "token" /\ pc' = "ca"
  /\ \/ /\ Readable(tokenFile)
        /\ token' = tokenFile /\ UNCHANGED <<ids, tokenFile, unsaved, left>>
     \/ /\ ~Readable(tokenFile) /\ Fresh
        /\ token' = New
        /\ \/ Wrote(tokenFile' = New) /\ unsaved' = unsaved
           \/ WroteHalf(tokenFile' = Torn) /\ unsaved' = TRUE
           \/ Unopened(tokenFile) /\ unsaved' = TRUE
  /\ UNCHANGED <<hosts, caCert, caKey, bornAt, cert, key, made, loaded, clock, starts, halved>>
  /\ History

CaReadable == Readable(caCert) /\ Readable(caKey)
\* Mutation of Reusable: every start makes an authority of its own.
ReusableNever == FALSE
\* An authority whose two files can be read is kept, whether or not they belong together and
\* its own lifetime is over.
Reusable == CaReadable

EnsureCa ==
  /\ pc = "ca"
  /\ \/ /\ Reusable /\ pc' = "cert"
        /\ UNCHANGED <<ids, caCert, bornAt, made, left>>
     \/ /\ ~Reusable /\ Fresh
        /\ made' = [NoCert EXCEPT !.id = New] /\ bornAt' = [bornAt EXCEPT ![New] = clock]
        /\ \/ Wrote(caCert' = New) /\ pc' = "ca key"
           \/ WroteHalf(caCert' = Torn) /\ pc' \in {"down", "ca key"}
           \/ Unopened(caCert) /\ pc' = "down"
  /\ UNCHANGED <<hosts, tokenFile, caKey, cert, key, token, loaded, clock, starts, unsaved,
                 halved>>
  /\ History

WriteCaKey ==
  /\ pc = "ca key"
  /\ \/ Wrote(caKey' = made.id) /\ pc' = "cert" /\ halved' = halved
     \/ WroteHalf(caKey' = Torn) /\ pc' \in {"down", "cert"} /\ halved' = halved
     \/ Unopened(caKey) /\ pc' = "down" /\ halved' = (halved \/ Readable(caKey))
  /\ made' = NoCert
  /\ UNCHANGED <<hosts, ids, tokenFile, caCert, bornAt, cert, key, token, loaded, clock, starts,
                 unsaved>>
  /\ History

\* A certificate that cannot be read, or has less than the margin left.  Mutation of
\* NeedsReissue: nothing else is looked at.
ExpiryOnly(c) == ~Readable(c.id) \/ c.born + Lifetime - clock < Margin
\* Mutation of NeedsReissue: whether the key is there is not looked at.
KeyIgnored(c) == ExpiryOnly(c) \/ ~(hosts \subseteq c.hosts)
NeedsReissue(c) == key = Absent \/ ExpiryOnly(c) \/ ~(hosts \subseteq c.hosts)

\* issue_server_cert reads both files of the authority and signs with its key.
IssueServerCert ==
  /\ pc = "cert"
  /\ \/ /\ ~NeedsReissue(cert) /\ pc' = "listen"
        /\ UNCHANGED <<ids, cert, made, left>>
     \/ /\ NeedsReissue(cert) /\ ~CaReadable /\ pc' = "down"
        /\ UNCHANGED <<ids, cert, made, left>>
     \/ /\ NeedsReissue(cert) /\ CaReadable /\ Fresh
        /\ made' = [id |-> New, signer |-> caKey, issuer |-> caCert, hosts |-> hosts,
                    born |-> clock]
        /\ \/ Wrote(cert' = made') /\ pc' = "key"
           \/ WroteHalf(cert' = Broken) /\ pc' \in {"down", "key"}
           \/ Unopened(cert) /\ pc' = "down"
  /\ UNCHANGED <<hosts, tokenFile, caCert, caKey, bornAt, key, token, loaded, clock, starts,
                 unsaved, halved>>
  /\ History

WriteServerKey ==
  /\ pc = "key"
  /\ \/ Wrote(key' = made.id) /\ pc' = "listen"
     \/ WroteHalf(key' = Torn) /\ pc' \in {"down", "listen"}
     \/ Unopened(key) /\ pc' = "down"
  /\ made' = NoCert
  /\ UNCHANGED <<hosts, ids, tokenFile, caCert, caKey, bornAt, cert, token, loaded, clock, starts,
                 unsaved, halved>>
  /\ History

\* Mutation of ListenTls: any certificate and key are served.
ListenUnchecked ==
  /\ pc = "listen" /\ left' = left /\ pc' = "bound"
  /\ loaded' = cert
  /\ UNCHANGED <<hosts, ids, files, made, token, clock, starts, unsaved, halved>> /\ History

\* OpenSSL refuses a key that does not belong to the certificate.
ListenTls ==
  /\ pc = "listen"
  /\ \/ /\ Readable(cert.id) /\ key = cert.id /\ left' = left
        /\ pc' = "bound" /\ loaded' = cert
     \/ /\ ~Readable(cert.id) \/ key # cert.id
        /\ pc' = "down" /\ loaded' = loaded /\ left' = left
     \/ \* the port is taken
        Strikes /\ pc' = "down" /\ loaded' = loaded
  /\ UNCHANGED <<hosts, ids, files, made, token, clock, starts, unsaved, halved>> /\ History

\* Detached or not, the banner announces the token; a detached start can still fail when
\* it forks or opens its log.
Serve ==
  /\ pc = "bound"
  /\ \/ /\ pc' = "serving" /\ announced' = announced \cup {token} /\ cameUp' = clock
        /\ UNCHANGED <<loaded, left>>
     \/ Strikes /\ pc' = "down" /\ loaded' = NoCert /\ UNCHANGED <<announced, cameUp>>
  /\ UNCHANGED <<hosts, ids, files, made, token, clock, starts, unsaved, installed, halved>>

\* The start is killed, or the server stopped.
Stop ==
  /\ pc # "down" /\ pc' = "down"
  /\ IF pc = "serving" THEN left' = left ELSE Strikes
  /\ token' = Absent /\ loaded' = NoCert /\ made' = NoCert
  /\ halved' = (halved \/ (pc = "ca key" /\ Readable(caKey)))
  /\ UNCHANGED <<hosts, ids, files, clock, starts, unsaved>> /\ History

\* ca-export copies ca.crt as it is, for devices to install.
ExportCa ==
  /\ caCert # Absent /\ announced # {}
  /\ installed' = installed \cup {caCert}
  /\ UNCHANGED <<pc, hosts, ids, files, made, token, loaded, clock, starts, left, announced,
                 unsaved, cameUp, halved>>

\* A start is over long before a unit of time is.
Tick ==
  /\ pc \in {"down", "serving"} /\ clock < MaxClock /\ clock' = clock + 1
  /\ UNCHANGED <<pc, hosts, ids, files, made, token, loaded, starts, left, unsaved, halved>>
  /\ History

StartStep == \/ LoadOrCreateToken \/ EnsureCa \/ WriteCaKey \/ IssueServerCert
             \/ WriteServerKey \/ ListenTls \/ Serve
Next == Start \/ StartStep \/ Stop \/ ExportCa \/ Tick

\* A start under way goes on until it serves or fails.
Spec == Init /\ [][Next]_vars /\ WF_vars(StartStep)

-----------------------------------------------------------------------------
\* The variables stay within their ranges; the server's own key is never one of the
\* authority's, and only a listening server holds a certificate.
TypeOK ==
  /\ pc \in {"down", "token", "ca", "ca key", "cert", "key", "listen", "bound", "serving"}
  /\ hosts \in HostSets \cup {{}} /\ ids \in 0 .. MaxIds
  /\ {tokenFile, caCert, caKey, key, token} \subseteq Ids \cup {Absent, Torn}
  /\ bornAt \in [Ids -> 0 .. MaxClock]
  /\ cert \in Certs \cup {NoCert, Broken} /\ loaded \in Certs \cup {NoCert}
  /\ clock \in 0 .. MaxClock /\ starts \in 0 .. MaxStarts /\ left \in 0 .. Budget
  /\ announced \subseteq Ids /\ installed \subseteq Ids \cup {Torn}
  /\ Readable(key) => key # caKey
  /\ loaded # NoCert => pc \in {"bound", "serving"}

\* A server that comes up serves a certificate that covers every name it was given and has
\* at least the margin left, whatever earlier starts left on the disk
\* (server_cert_needs_reissue, main).
ComesUpFresh ==
  pc = "serving" => /\ hosts \subseteq loaded.hosts
                    /\ loaded.born + Lifetime - cameUp >= Margin

\* A device that installed the authority of a server that had come up finds every later
\* start of it under that authority, still valid: crashes and failed writes never replace it.
\* Two exceptions: a start replaced the certificate and not the key of an authority that
\* could no longer be read, or the authority in use has outlived its ten years, which nobody
\* looks at (ensure_ca).
Expired(ca) == bornAt[ca] + CaLifetime <= cameUp
Outlived    == Expired(caCert)
TrustHolds ==
  pc = "serving" /\ ~halved =>
    /\ loaded.issuer = loaded.signer
    /\ \A ca \in installed : ca = loaded.issuer /\ (Expired(ca) => Outlived)

\* The token peers were given stays the server's token, unless its file could not be
\* written, which load_or_create_token does not report.
TokenKept == pc = "serving" /\ ~unsaved => announced = {token}

\* A start that nothing disturbs comes up, whatever the starts before it left behind, but
\* for one state: a valid server certificate next to a key that is not its own, which no
\* start repairs until the certificate nears its end (main, listen_tls).
Stranded == Readable(cert.id) /\ key # Absent /\ key # cert.id
ComesUp == pc = "token" /\ left = 0 /\ ids + 3 <= MaxIds ~> pc = "serving" \/ Stranded
=============================================================================
