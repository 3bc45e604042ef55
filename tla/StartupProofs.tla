---------------------------- MODULE StartupProofs ----------------------------
(***************************************************************************)
(* What holds of every server that comes up: for any names, lifetimes and  *)
(* margins, and any number of starts, deaths and failed writes.            *)
(***************************************************************************)
EXTENDS Startup, TLAPS

Types ==
  /\ clock \in Nat /\ ids \in Nat /\ cameUp \in Nat
  /\ cert.born \in Nat /\ made.id \in Nat /\ loaded.born \in Nat

\* Enough of the lifetime is left, and every name is covered.
FreshAt(c, t) == hosts \subseteq c.hosts /\ c.born + Lifetime - t >= Margin

\* The certificate a start goes on with is the one it checked, or has just made.
Freshness ==
  /\ pc \in {"key", "listen"} /\ Readable(cert.id) => FreshAt(cert, clock)
  /\ pc = "bound" => FreshAt(loaded, clock)
  /\ pc = "serving" => FreshAt(loaded, cameUp)

\* A token that was announced is the one in the file, and so is the one in use.
Tokens ==
  ~unsaved => /\ announced # {} => Readable(tokenFile) /\ announced = {tokenFile}
              /\ pc \notin {"down", "token"} => Readable(tokenFile) /\ token = tokenFile
              /\ pc = "serving" => announced # {}

\* Once a certificate has been issued both files of the authority can be read, and no start
\* ever writes them again.
Signed == cert.id # Absent

Authority ==
  /\ Signed \/ pc = "key" => CaReadable /\ pc # "ca key"
  /\ pc = "key" => Signed
  /\ Readable(cert.id) => cert.issuer = caCert /\ cert.signer = caKey
  /\ pc \in {"bound", "serving"} => Signed /\ loaded.issuer = caCert /\ loaded.signer = caKey
  /\ announced # {} \/ installed # {} => Signed
  /\ installed \subseteq {caCert}
  /\ pc = "ca key" /\ Readable(caCert) => caCert = made.id
  /\ ~halved /\ CaReadable /\ pc # "ca key" => caCert = caKey

Safe == Types /\ Freshness /\ Tokens /\ Authority

LEMMA Records ==
  /\ NoCert.id = Absent /\ NoCert.born = 0
  /\ Broken.id = Torn /\ Broken.born = 0
  /\ \A n : [NoCert EXCEPT !.id = n].id = n
BY DEF NoCert, Broken

LEMMA NewIsReadable == ids \in Nat => New \in Nat /\ Readable(New) /\ New # Absent
BY DEF New, Readable, Absent, Torn

LEMMA InitSafe == Init => Safe
BY Records DEF Init, Safe, Types, Freshness, Tokens, Authority, Signed, CaReadable, Readable, FreshAt, Absent, Torn

LEMMA StartSafe == ASSUME Safe, Start PROVE Safe'
BY DEF Start, History, files, Safe, Types, Freshness, Tokens, Authority, Signed, CaReadable, Readable

LEMMA TokenSafe == ASSUME Safe, LoadOrCreateToken PROVE Safe'
<1> USE DEF Safe, LoadOrCreateToken, History, Wrote, WroteHalf, Unopened, Fresh, Strikes
<1>1. Types'
  BY DEF Types
<1>2. Freshness'
  BY DEF Freshness
<1>3. Authority'
  BY DEF Authority, Signed, CaReadable
<1>4. Tokens'
  BY NewIsReadable DEF Tokens, Types
<1> QED BY <1>1, <1>2, <1>3, <1>4

LEMMA EnsureCaSafe == ASSUME Safe, EnsureCa PROVE Safe'
<1> USE DEF Safe, EnsureCa, History, Wrote, WroteHalf, Unopened, Fresh, Strikes
<1>1. Types'
  <2>1. made' = made \/ made' = [NoCert EXCEPT !.id = New]
    OBVIOUS
  <2>2. [NoCert EXCEPT !.id = New].id = New
    BY Records
  <2>3. made'.id \in {made.id, New}
    BY <2>1, <2>2
  <2>4. ids \in Nat /\ ids' \in Nat /\ New \in Nat
    <3>1. ids' = ids \/ ids' = ids + 1
      OBVIOUS
    <3>2. ids \in Nat
      BY DEF Types
    <3> QED BY ONLY <3>1, <3>2, NewIsReadable
  <2>5. made'.id \in Nat
    BY <2>3, <2>4 DEF Types
  <2>6. UNCHANGED <<clock, cameUp, cert, loaded>>
    OBVIOUS
  <2> QED BY ONLY Types, <2>4, <2>5, <2>6 DEF Types
<1>2. Freshness'
  BY DEF Freshness
<1>3. Tokens'
  BY DEF Tokens
<1>4. Authority'
  <2>1. CASE Reusable
    BY <2>1 DEF Authority, Signed, CaReadable
  <2>2. CASE ~Reusable
    <3>1. ~Signed /\ installed = {} /\ made'.id = New
      BY <2>2, Records DEF Authority, Reusable
    <3>2. \/ caCert' = New /\ pc' = "ca key"
          \/ caCert' = Torn /\ pc' \in {"down", "ca key"}
          \/ caCert' = caCert /\ pc' = "down"
      BY <2>2
    <3>3. ~Readable(Torn)
      BY DEF Readable
    <3>4. ~Readable(cert.id)
      BY <2>2 DEF Authority, Readable, Signed, Reusable
    <3> QED BY <2>2, <3>1, <3>2, <3>3, <3>4 DEF Authority, Signed, CaReadable, Readable
  <2> QED BY <2>1, <2>2
<1> QED BY <1>1, <1>2, <1>3, <1>4

LEMMA CaKeySafe == ASSUME Safe, WriteCaKey PROVE Safe'
<1> USE DEF Safe, WriteCaKey, History, Wrote, WroteHalf, Unopened, Strikes
<1>1. Types'
  <2>1. made'.id = 0
    BY Records DEF Absent
  <2>2. UNCHANGED <<clock, ids, cameUp, cert>>
    BY DEF files
  <2>3. loaded' = loaded \/ loaded' = NoCert
    OBVIOUS
  <2>4. loaded'.born = loaded.born \/ loaded'.born = 0
    BY <2>3, Records
  <2> QED BY ONLY Types, <2>1, <2>2, <2>4 DEF Types
<1>2. Freshness'
  BY DEF Freshness
<1>3. Tokens'
  BY DEF Tokens
<1>4. Authority'
  <2>1. ~Signed /\ ~Readable(cert.id) /\ ~Readable(Torn)
    BY DEF Authority, Signed, Readable
  <2> QED BY <2>1 DEF Authority, Signed, CaReadable, Readable
<1> QED BY <1>1, <1>2, <1>3, <1>4

LEMMA IssueSafe == ASSUME Safe, IssueServerCert PROVE Safe'
<1> USE DEF Safe, IssueServerCert, History, Wrote, WroteHalf, Unopened, Strikes
<1>1. /\ clock \in Nat /\ Lifetime \in Nat /\ Margin \in Nat /\ Margin < Lifetime
      /\ New \in Nat /\ Readable(New) /\ New # Absent
      /\ ~Readable(Torn) /\ Torn # Absent
  BY StartupAssumption, NewIsReadable DEF Types, Readable, Torn, Absent
<1>2. CASE ~NeedsReissue(cert) /\ pc' = "listen" /\ UNCHANGED <<ids, cert, made, left>>
  <2>1. FreshAt(cert, clock)
    BY <1>1, <1>2 DEF NeedsReissue, ExpiryOnly, FreshAt, Types
  <2>2. Types'
    BY <1>2 DEF Types
  <2>3. Freshness' /\ Tokens'
    BY <1>2, <2>1 DEF Freshness, Tokens, FreshAt
  <2>4. Authority'
    BY <1>2 DEF Authority, Signed, CaReadable
  <2> QED BY <2>2, <2>3, <2>4
<1>3. CASE ~CaReadable /\ pc' = "down" /\ UNCHANGED <<ids, cert, made, left>>
  BY <1>3 DEF Types, Freshness, Tokens, Authority, Signed, CaReadable
<1>4. CASE /\ NeedsReissue(cert) /\ CaReadable /\ Fresh
           /\ made' = [id |-> New, signer |-> caKey, issuer |-> caCert, hosts |-> hosts,
                       born |-> clock]
           /\ \/ cert' = made' /\ pc' = "key"
              \/ cert' = Broken /\ pc' \in {"down", "key"}
              \/ cert' = cert /\ pc' = "down"
  <2>1. /\ made'.id = New /\ made'.signer = caKey /\ made'.issuer = caCert
        /\ made'.hosts = hosts /\ made'.born = clock
    BY <1>4
  <2>2. Types'
    BY <1>1, <1>4, <2>1, Records DEF Types, Fresh
  <2>3. pc' = "key" => cert'.id # Absent
    BY <1>1, <1>4, <2>1, Records
  <2>4. pc' # "down" /\ Readable(cert'.id) => cert' = made'
    BY <1>1, <1>4, Records
  <2>5. Freshness' /\ Tokens'
    BY <1>1, <1>4, <2>1, <2>4 DEF Freshness, FreshAt, Tokens
  <2>6. Authority'
    <3>1. CASE cert' = cert
      BY <1>4, <2>3, <3>1 DEF Authority, Signed, CaReadable
    <3>2. CASE cert' = made' \/ cert' = Broken
      <4>1. cert'.id # Absent /\ (Readable(cert'.id) => cert' = made')
        BY <1>1, <2>1, <3>2, Records
      <4> QED BY <1>4, <2>1, <4>1 DEF Authority, Signed, CaReadable
    <3> QED BY <1>4, <3>1, <3>2
  <2> QED BY <2>2, <2>5, <2>6
<1> QED BY <1>2, <1>3, <1>4

LEMMA ServerKeySafe == ASSUME Safe, WriteServerKey PROVE Safe'
<1> USE DEF Safe, WriteServerKey, History, Wrote, WroteHalf, Unopened, Strikes
<1>1. Types'
  <2>1. made'.id = 0
    BY Records DEF Absent
  <2>2. UNCHANGED <<clock, ids, cameUp, cert>>
    BY DEF files
  <2>3. loaded' = loaded \/ loaded' = NoCert
    OBVIOUS
  <2>4. loaded'.born = loaded.born \/ loaded'.born = 0
    BY <2>3, Records
  <2> QED BY ONLY Types, <2>1, <2>2, <2>4 DEF Types
<1>2. Freshness' /\ Tokens'
  BY DEF Freshness, FreshAt, Tokens
<1>3. Authority'
  BY DEF Authority, Signed, CaReadable
<1> QED BY <1>1, <1>2, <1>3

LEMMA ListenSafe == ASSUME Safe, ListenTls PROVE Safe'
<1> USE DEF Safe, ListenTls, History, files, Strikes
<1>1. Types'
  BY DEF Types
<1>2. Freshness' /\ Tokens'
  BY DEF Freshness, FreshAt, Tokens
<1>3. Authority'
  BY DEF Authority, Signed, CaReadable, Readable
<1> QED BY <1>1, <1>2, <1>3

LEMMA ServeSafe == ASSUME Safe, Serve PROVE Safe'
<1> USE DEF Safe, Serve, files, Strikes
<1>1. Types'
  BY Records DEF Types
<1>2. Freshness' /\ Tokens'
  BY DEF Freshness, FreshAt, Tokens
<1>3. Authority'
  BY DEF Authority, Signed, CaReadable
<1> QED BY <1>1, <1>2, <1>3

LEMMA StopSafe == ASSUME Safe, Stop PROVE Safe'
<1> USE DEF Safe, Stop, History, files
<1>1. Types'
  <2>1. made'.id = 0
    BY Records DEF Absent
  <2>2. UNCHANGED <<clock, ids, cameUp, cert>>
    BY DEF files
  <2>3. loaded' = loaded \/ loaded' = NoCert
    OBVIOUS
  <2>4. loaded'.born = loaded.born \/ loaded'.born = 0
    BY <2>3, Records
  <2> QED BY ONLY Types, <2>1, <2>2, <2>4 DEF Types
<1>2. Freshness' /\ Tokens'
  BY DEF Freshness, Tokens
<1>3. Authority'
  BY DEF Authority, Signed, CaReadable
<1> QED BY <1>1, <1>2, <1>3

LEMMA ExportSafe == ASSUME Safe, ExportCa PROVE Safe'
<1> USE DEF Safe, ExportCa, files
<1>1. Types' /\ Freshness' /\ Tokens'
  BY DEF Types, Freshness, FreshAt, Tokens
<1>2. Authority'
  BY DEF Authority, Signed, CaReadable
<1> QED BY <1>1, <1>2

LEMMA TickSafe == ASSUME Safe, Tick PROVE Safe'
<1> USE DEF Safe, Tick, History, files
<1>1. Types' /\ Freshness' /\ Tokens'
  BY DEF Types, Freshness, FreshAt, Tokens
<1>2. Authority'
  BY DEF Authority, Signed, CaReadable
<1> QED BY <1>1, <1>2

LEMMA StepSafe == Safe /\ [Next]_vars => Safe'
<1> SUFFICES ASSUME Safe, [Next]_vars PROVE Safe'
  OBVIOUS
<1>1. CASE UNCHANGED vars
  BY <1>1 DEF vars, files, Safe, Types, Freshness, FreshAt, Tokens, Authority, Signed, CaReadable
<1> QED
  BY <1>1, StartSafe, TokenSafe, EnsureCaSafe, CaKeySafe, IssueSafe, ServerKeySafe,
     ListenSafe, ServeSafe, StopSafe, ExportSafe, TickSafe DEF Next, StartStep

THEOREM SafeAlways == Spec => []Safe
<1> QED BY InitSafe, StepSafe, PTL DEF Spec

\* A server that comes up covers all its names for at least the margin, whatever earlier
\* starts left behind (server_cert_needs_reissue, main).
THEOREM AlwaysFresh == Spec => []ComesUpFresh
<1>1. Safe => ComesUpFresh
  BY DEF Safe, Freshness, FreshAt, ComesUpFresh
<1> QED BY <1>1, SafeAlways, PTL

\* Peers' tokens stay valid from start to start unless the file could not be written
\* (load_or_create_token).
THEOREM TokenIsKept == Spec => []TokenKept
<1>1. Safe => TokenKept
  BY DEF Safe, Tokens, TokenKept
<1> QED BY <1>1, SafeAlways, PTL

\* A device that trusts the authority once finds every later start under it: unless a start
\* replaced the certificate and not the key of an authority that could no longer be read, or
\* until the authority itself expires (ensure_ca).
THEOREM TrustIsKept == Spec => []TrustHolds
<1>1. Safe => TrustHolds
  BY DEF Safe, Authority, TrustHolds, Outlived, Signed, CaReadable
<1> QED BY <1>1, SafeAlways, PTL

-----------------------------------------------------------------------------
(* Types, and keys that are told apart *)

\* A key that is written was numbered before, and differs from the other key on the disk,
\* since a new one is numbered past all there are.
Numbered ==
  /\ Readable(key) => key <= ids
  /\ Readable(caKey) => caKey <= ids
  /\ pc \in {"ca key", "key"} => made.id \in Ids /\ made.id <= ids
  /\ pc = "ca key" => made.id # key
  /\ pc = "key" => made.id # caKey

\* What a start under way has been given.
Given ==
  /\ pc # "down" => hosts \in HostSets
  /\ pc \notin {"down", "token"} => token \in Ids

Typed == TypeOK /\ Numbered /\ Given

LEMMA FileTypes ==
  ASSUME Typed
  PROVE  /\ tokenFile \in Ids \cup {Absent, Torn} /\ caCert \in Ids \cup {Absent, Torn}
         /\ caKey \in Ids \cup {Absent, Torn} /\ key \in Ids \cup {Absent, Torn}
         /\ token \in Ids \cup {Absent, Torn} /\ ids \in 0 .. MaxIds
         /\ left \in 0 .. Budget /\ clock \in 0 .. MaxClock /\ starts \in 0 .. MaxStarts
BY DEF Typed, TypeOK

\* A new number is larger than all there are.
LEMMA NewIsNew ==
  ASSUME Typed, Fresh
  PROVE  /\ New \in Ids /\ New <= ids' /\ ids' \in 0 .. MaxIds /\ ids <= ids'
         /\ Readable(key) => key <= ids'
         /\ Readable(caKey) => caKey <= ids'
         /\ Readable(New) /\ New # key /\ New # caKey
<1>1. ids \in Nat /\ ids < MaxIds /\ MaxIds \in Nat /\ New = ids + 1 /\ ids' = ids + 1
  BY FileTypes, StartupAssumption DEF Fresh, New
<1>2. New \in Ids /\ New <= ids' /\ ids' \in 0 .. MaxIds /\ ids <= ids' /\ Readable(New)
  BY <1>1 DEF Ids, Readable, Absent, Torn
<1>3. (Readable(key) => key \in Ids /\ key <= ids) /\ (Readable(caKey) => caKey \in Ids /\ caKey <= ids)
  BY FileTypes DEF Typed, Numbered, Readable
<1>4. \A n \in Ids : n <= ids => n <= ids' /\ n # New
  BY <1>1 DEF Ids
<1>5. ~Readable(key) => New # key
  BY <1>2
<1>6. ~Readable(caKey) => New # caKey
  BY <1>2
<1> QED BY <1>2, <1>3, <1>4, <1>5, <1>6

LEMMA LeftTypes ==
  ASSUME Typed, left' = left \/ Strikes
  PROVE  left' \in 0 .. Budget
BY FileTypes, StartupAssumption DEF Strikes

LEMMA InitTyped == Init => Typed
<1> SUFFICES ASSUME Init PROVE Typed
  OBVIOUS
<1>1. TypeOK
  BY StartupAssumption, Records DEF Init, TypeOK, Readable
<1>2. Numbered /\ Given
  BY DEF Init, Numbered, Given, Readable
<1> QED BY <1>1, <1>2 DEF Typed

LEMMA TypedStep == Typed /\ [Next]_vars => Typed'
<1> SUFFICES ASSUME Typed, [Next]_vars PROVE Typed'
  OBVIOUS
<1> USE DEF History, Wrote, WroteHalf, Unopened
<1>0. Absent = 0 /\ Torn = -1 /\ Ids = 1 .. MaxIds
  BY DEF Absent, Torn, Ids
<1>1. CASE Start
  <2>1. starts' \in 0 .. MaxStarts
    BY <1>1, FileTypes, StartupAssumption DEF Start
  <2> QED BY <1>1, <2>1 DEF Start, files, Typed, TypeOK, Numbered, Given
<1>2. CASE LoadOrCreateToken
  <2>1. token' \in Ids /\ tokenFile' \in Ids \cup {Absent, Torn}
    BY <1>2, FileTypes, NewIsNew DEF LoadOrCreateToken, Readable
  <2>2. ids' \in 0 .. MaxIds /\ ids <= ids' /\ ids \in Nat
    BY <1>2, FileTypes, NewIsNew, StartupAssumption DEF LoadOrCreateToken
  <2>3. left' \in 0 .. Budget
    BY <1>2, LeftTypes DEF LoadOrCreateToken
  <2>4. TypeOK'
    BY <1>2, <2>1, <2>2, <2>3 DEF LoadOrCreateToken, Typed, TypeOK
  <2>5. Numbered'
    BY <1>2, <2>2, FileTypes, <1>0 DEF LoadOrCreateToken, Typed, Numbered, Readable
  <2>6. Given'
    BY <1>2, <2>1 DEF LoadOrCreateToken, Typed, Given
  <2> QED BY <2>4, <2>5, <2>6 DEF Typed
<1>3. CASE EnsureCa
  <2>1. CASE Reusable
    BY <1>3, <2>1 DEF EnsureCa, Typed, TypeOK, Numbered, Given
  <2>2. CASE ~Reusable
    <3>1. /\ Fresh /\ made'.id = New /\ caCert' \in {New, Torn, caCert}
          /\ pc' \in {"down", "ca key"} /\ bornAt' = [bornAt EXCEPT ![New] = clock]
      BY <1>3, <2>2, Records DEF EnsureCa
    <3>2. left' \in 0 .. Budget
      BY <1>3, LeftTypes DEF EnsureCa
    <3>3. TypeOK'
      <4>1. bornAt' \in [Ids -> 0 .. MaxClock]
        BY <3>1, FileTypes DEF Typed, TypeOK
      <4>2. caCert' \in Ids \cup {Absent, Torn} /\ ids' \in 0 .. MaxIds
        BY <3>1, FileTypes, NewIsNew
      <4>3. UNCHANGED <<hosts, tokenFile, caKey, cert, key, token, loaded, clock, starts,
                        announced, installed>> /\ pc = "ca"
        BY <1>3 DEF EnsureCa, History
      <4> QED BY <3>1, <3>2, <4>1, <4>2, <4>3 DEF Typed, TypeOK, Readable
    <3>4. Numbered'
      BY <1>3, <3>1, NewIsNew DEF EnsureCa, Numbered
    <3>5. Given'
      BY <1>3, <3>1 DEF EnsureCa, Typed, Given
    <3> QED BY <3>3, <3>4, <3>5 DEF Typed
  <2> QED BY <2>1, <2>2
<1>4. CASE WriteCaKey
  <2>1. made.id \in Ids /\ made.id <= ids /\ made.id # key
    BY <1>4 DEF WriteCaKey, Typed, Numbered
  <2>2. caKey' \in {made.id, Torn, caKey} /\ pc' \in {"down", "cert"}
    BY <1>4 DEF WriteCaKey
  <2>3. left' \in 0 .. Budget
    BY <1>4, LeftTypes DEF WriteCaKey
  <2>4. TypeOK'
    BY <1>4, <2>1, <2>2, <2>3, <1>0 DEF WriteCaKey, Typed, TypeOK, Readable
  <2>5. Numbered'
    BY <1>4, <2>1, <2>2 DEF WriteCaKey, Typed, Numbered, Readable
  <2>6. Given'
    BY <1>4 DEF WriteCaKey, Typed, Given
  <2> QED BY <2>4, <2>5, <2>6 DEF Typed
<1>5. CASE IssueServerCert
  <2>1. CASE UNCHANGED <<ids, cert, made, left>> /\ pc' \in {"listen", "down"}
    BY <1>5, <2>1 DEF IssueServerCert, Typed, TypeOK, Numbered, Given
  <2>2. CASE /\ CaReadable /\ Fresh
             /\ made' = [id |-> New, signer |-> caKey, issuer |-> caCert, hosts |-> hosts,
                         born |-> clock]
             /\ \/ Wrote(cert' = made') /\ pc' = "key"
                \/ WroteHalf(cert' = Broken) /\ pc' \in {"down", "key"}
                \/ Unopened(cert) /\ pc' = "down"
    <3>1. made' \in Certs /\ made'.id = New
      BY <1>5, <2>2, FileTypes, NewIsNew DEF CaReadable, Readable, Certs, Typed, Given,
         IssueServerCert
    <3>2. left' \in 0 .. Budget
      BY <2>2, LeftTypes
    <3>3. TypeOK'
      BY <1>5, <2>2, <3>1, <3>2, NewIsNew DEF IssueServerCert, Typed, TypeOK
    <3>4. Numbered'
      BY <1>5, <2>2, <3>1, NewIsNew DEF IssueServerCert, Numbered
    <3>5. Given'
      BY <1>5, <2>2 DEF IssueServerCert, Typed, Given
    <3> QED BY <3>3, <3>4, <3>5 DEF Typed
  <2> QED BY <1>5, <2>1, <2>2 DEF IssueServerCert
<1>6. CASE WriteServerKey
  <2>1. made.id \in Ids /\ made.id <= ids /\ made.id # caKey
    BY <1>6 DEF WriteServerKey, Typed, Numbered
  <2>2. key' \in {made.id, Torn, key} /\ pc' \in {"down", "listen"}
    BY <1>6 DEF WriteServerKey
  <2>3. left' \in 0 .. Budget
    BY <1>6, LeftTypes DEF WriteServerKey
  <2>4. TypeOK'
    BY <1>6, <2>1, <2>2, <2>3, <1>0 DEF WriteServerKey, Typed, TypeOK, Readable
  <2>5. Numbered'
    BY <1>6, <2>1, <2>2 DEF WriteServerKey, Typed, Numbered, Readable
  <2>6. Given'
    BY <1>6 DEF WriteServerKey, Typed, Given
  <2> QED BY <2>4, <2>5, <2>6 DEF Typed
<1>7. CASE ListenTls
  <2>1. \/ loaded' = loaded /\ pc' = "down"
        \/ loaded' = cert /\ Readable(cert.id) /\ pc' = "bound"
    BY <1>7 DEF ListenTls
  <2>2. Readable(cert.id) => cert \in Certs
    BY Records DEF Typed, TypeOK, Readable
  <2>3. left' \in 0 .. Budget
    BY <1>7, LeftTypes DEF ListenTls
  <2>4. TypeOK'
    BY <1>7, <2>1, <2>2, <2>3 DEF ListenTls, files, Typed, TypeOK
  <2> QED BY <1>7, <2>1, <2>4 DEF ListenTls, files, Typed, Numbered, Given
<1>8. CASE Serve
  <2>1. left' \in 0 .. Budget
    BY <1>8, LeftTypes DEF Serve
  <2>2. announced' \subseteq Ids
    BY <1>8 DEF Serve, Typed, TypeOK, Given
  <2>3. TypeOK'
    BY <1>8, <2>1, <2>2 DEF Serve, files, Typed, TypeOK
  <2> QED BY <1>8, <2>3 DEF Serve, files, Typed, Numbered, Given
<1>9. CASE Stop
  <2>1. left' \in 0 .. Budget
    BY <1>9, LeftTypes DEF Stop
  <2> QED BY <1>9, <2>1 DEF Stop, files, Typed, TypeOK, Numbered, Given
<1>10. CASE ExportCa
  <2>1. installed' \subseteq Ids \cup {Torn}
    BY <1>10, FileTypes DEF ExportCa, Typed, TypeOK
  <2> QED BY <1>10, <2>1 DEF ExportCa, files, Typed, TypeOK, Numbered, Given
<1>11. CASE Tick
  <2>1. clock' \in 0 .. MaxClock
    BY <1>11, FileTypes, StartupAssumption DEF Tick
  <2> QED BY <1>11, <2>1 DEF Tick, files, Typed, TypeOK, Numbered, Given
<1>12. CASE UNCHANGED vars
  BY <1>12 DEF vars, files, Typed, TypeOK, Numbered, Given
<1> QED
  BY <1>1, <1>2, <1>3, <1>4, <1>5, <1>6, <1>7, <1>8, <1>9, <1>10, <1>11, <1>12
     DEF Next, StartStep

\* Every variable of a start stays within its range, and the server's own key is never one
\* of the authority's (ensure_ca, issue_server_cert).
THEOREM TypeCorrect == Spec => []TypeOK
<1>1. Typed => TypeOK
  BY DEF Typed
<1> QED BY InitTyped, TypedStep, <1>1, PTL DEF Spec
=============================================================================
