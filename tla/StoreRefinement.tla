-------------------------- MODULE StoreRefinement --------------------------
(***************************************************************************)
(* How the server's storage implements FileRegister: what each key holds,  *)
(* content and tag together, as whoever takes the mutex next will see it.  *)
(***************************************************************************)
EXTENDS ServerStore

Version(u) == <<u, uploads[u].tag>>
Versions == (1 .. MaxRequests) \X Markers

\* The versions that some client has begun to upload under k.
OfferedFor(k) == {Version(u) : u \in {v \in 1 .. Len(uploads) : uploads[v].key = k}}

\* A thread past its rename has published the version whose tag it is about to
\* write, and a thread past its unlink has removed it: nobody else can look
\* before the mutex is free.  A chunk is its own tag.
ContentOf(k) ==
  LET u == file[k].upload
  IN  IF u = 0 THEN NoTag
      ELSE IF Changing(k) \/ k \in Chunks THEN Version(u)
      ELSE <<u, tag[k]>>

Offered == [k \in Keys |-> OfferedFor(k)]
Content == [k \in Keys |-> ContentOf(k)]

Register == INSTANCE FileRegister WITH
  Absent <- NoTag, offered <- Offered, content <- Content

\* The mutex makes each upload and each delete one atomic change of content and
\* tag together (session.cpp:256-266), as long as no sidecar write is lost.
ImplementsRegister == Register!Spec
=============================================================================
