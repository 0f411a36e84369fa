------------------------ MODULE StagedResponseProofs ------------------------
(***************************************************************************)
(* Response staging, proved for any number of requests, any lengths of     *)
(* writes and any limits: the budget is exact and never exceeded, and each *)
(* response satisfies StagedIsReserved, RefusedGivesNothing, SentWhole,    *)
(* NoFailureAfterProcessing and NothingManagedSent.                        *)
(*                                                                         *)
(* A step changes one response and the budget, so the invariant is a       *)
(* predicate of a single response record: what is staged is reserved, and  *)
(* is everything that was written unless a write failed (BodyInv); what    *)
(* the client has got and what the session has become agree with how far   *)
(* the response has come (OutcomeInv).  Each lemma takes one successor of  *)
(* a record.                                                               *)
(*                                                                         *)
(* That the budget is the sum of the reservations needs induction over the *)
(* responses.  It is done on sets: among the sets of responses for which a *)
(* claim fails one is minimal, and the claim holds once one of its members *)
(* is taken away.                                                          *)
(***************************************************************************)
EXTENDS StagedResponse, FiniteSetTheorems, WellFoundedInduction, TLAPS

\* Every leaf is tried with Zenon first, then with the SMT solver, then again.
USE ZenonT(4), SMTT(20), Z3T(20), ZenonT(20)

Held(q) == IF q.file = NoFile THEN q.mem ELSE q.file

BodyInv(q) ==
    /\ q.pc # "storing" => q.chunk = 0
    /\ q.file # NoFile => q.mem = 0
    /\ Held(q) + q.chunk <= q.reserved
    /\ q.size > 0 \/ q.pc = "storing" => q.wroteHeader
    /\ ~q.writeErr /\ q.pc \notin {"closing", "done"} =>
          /\ q.reserved = q.size + q.chunk + q.metadataBytes
          /\ Held(q) = q.size
          /\ ~q.refused
          /\ ~q.terminal => q.written = q.size

\* The downstream handler has not been answered for yet.
Early == {"idle", "backend", "storing", "upgrading", "returned", "validating", "processing"}

OutcomeInv(q) ==
    /\ ~q.leaked
    /\ q.terminal => ~q.mutated /\ ~q.failed /\ q.pc \in {"backend", "returned", "closing", "done"}
    /\ q.pc \in Early => ~q.mutated /\ ~q.failed /\ q.sent = 0
    /\ q.pc \in Early /\ ~q.terminal => q.status = None /\ ~q.once /\ q.sentInformational = 0
    /\ q.pc \in {"validating", "processing", "committing", "flushing"} => ~q.writeErr /\ ~q.err
    /\ q.pc = "committing" => /\ q.status = None /\ q.sent = 0 /\ q.sentInformational = 0
                              /\ q.header # "managed" /\ ~q.failed
    /\ q.pc = "flushing" => /\ q.status = "backend" /\ ~q.failed
                            /\ q.sentInformational = Len(q.informational)
    /\ q.pc \in {"closing", "done"} /\ ~q.terminal =>
          /\ q.refused => q.status \in {"badgateway", "aborted"}
          /\ q.status = "backend" => /\ ~q.err
                                     /\ q.sentInformational = Len(q.informational)
                                     /\ q.cut \/ q.sent = q.written
          /\ q.status # "backend" => q.sent = 0 /\ q.sentInformational = 0
          /\ q.mutated => q.failed \/ q.status = "backend"
          /\ q.failed => q.status = "badgateway" /\ ~q.err /\ ~q.refused

ResponseInv(q) == q \in Rsp /\ BodyInv(q) /\ OutcomeInv(q)

StagingInv ==
    /\ \A r \in REQ : ResponseInv(rsp[r])
    /\ rsp \in [REQ -> Rsp]
    /\ used \in Int /\ used <= AggregateBytes

-----------------------------------------------------------------------------
(* Successors of a record.                                                 *)

LEMMA IdleInv == ResponseInv(IdleResponse) /\ ResponseInv([IdleResponse EXCEPT !.pc = "backend"])
<1>1. IdleResponse \in Rsp /\ [IdleResponse EXCEPT !.pc = "backend"] \in Rsp
  <2>1. <<>> \in Seq(HEADER) /\ "none" \in HEADER
    BY DEF HEADER
  <2>2. IdleResponse \in Rsp
    BY <2>1 DEF IdleResponse, Rsp, PC
  <2> QED BY <2>2 DEF Rsp, PC
<1>2. BodyInv(IdleResponse) /\ BodyInv([IdleResponse EXCEPT !.pc = "backend"])
  BY DEF IdleResponse, BodyInv, Held, NoFile
<1>3. OutcomeInv(IdleResponse) /\ OutcomeInv([IdleResponse EXCEPT !.pc = "backend"])
  BY DEF IdleResponse, OutcomeInv, Early
<1> QED BY <1>1, <1>2, <1>3 DEF ResponseInv

\* A write that failed, with its bytes given back or in the file.
LEMMA RefuseInv ==
    ASSUME NEW q \in Rsp, OutcomeInv(q), q.pc \in {"backend", "storing"},
           q.file # NoFile => q.mem = 0, Held(q) <= q.reserved, q.size > 0 => q.wroteHeader
    PROVE  ResponseInv(Refuse(q))
<1> DEFINE p == Refuse(q)
<1>1. /\ p \in Rsp
      /\ p.pc = "backend" /\ p.chunk = 0 /\ p.writeErr /\ p.refused /\ p.written = 0
  BY DEF Refuse, Rsp, PC
<1>2. /\ p.file = q.file /\ p.mem = q.mem /\ p.reserved = q.reserved
      /\ p.size = q.size /\ p.wroteHeader = q.wroteHeader
  BY DEF Refuse, Rsp
<1>3. /\ p.leaked = q.leaked /\ p.terminal = q.terminal
      /\ p.mutated = q.mutated /\ p.failed = q.failed
      /\ p.sent = q.sent /\ p.status = q.status /\ p.once = q.once
      /\ p.sentInformational = q.sentInformational
  BY DEF Refuse, Rsp
<1> HIDE DEF p
<1>4. BodyInv(p)
  <2>1. Held(p) = Held(q) /\ Held(p) \in Nat
    BY <1>1, <1>2 DEF Held, Rsp, NoFile
  <2>2. Held(p) + p.chunk <= p.reserved
    BY <1>1, <1>2, <2>1 DEF Rsp
  <2> QED BY <1>1, <1>2, <2>2 DEF BodyInv
<1>5. OutcomeInv(p)
  BY <1>1, <1>3 DEF OutcomeInv, Early
<1> QED BY <1>1, <1>4, <1>5 DEF ResponseInv, p

LEMMA SetHeaderInv ==
    ASSUME NEW q, ResponseInv(q), q.pc = "backend", NEW h \in {"none", "managed"}
    PROVE  ResponseInv([q EXCEPT !.header = h])
<1> DEFINE p == [q EXCEPT !.header = h]
<1>1. p \in Rsp
  BY DEF ResponseInv, Rsp, HEADER
<1>2. BodyInv(p)
  BY DEF ResponseInv, BodyInv, Held, Rsp
<1>3. OutcomeInv(p)
  BY DEF ResponseInv, OutcomeInv, Early, Rsp
<1> QED BY <1>1, <1>2, <1>3 DEF ResponseInv

LEMMA WriteHeaderFinalInv ==
    ASSUME NEW q, ResponseInv(q), q.pc = "backend", NEW allowed \in BOOLEAN
    PROVE  ResponseInv([q EXCEPT !.wroteHeader = TRUE, !.bodyAllowed = allowed])
<1> DEFINE p == [q EXCEPT !.wroteHeader = TRUE, !.bodyAllowed = allowed]
<1>1. p \in Rsp
  BY DEF ResponseInv, Rsp
<1>2. BodyInv(p)
  BY DEF ResponseInv, BodyInv, Held, Rsp
<1>3. OutcomeInv(p)
  BY DEF ResponseInv, OutcomeInv, Early, Rsp
<1> QED BY <1>1, <1>2, <1>3 DEF ResponseInv

\* Metadata bytes are reserved and accounted together.
LEMMA WithMetadataInv ==
    ASSUME NEW q, ResponseInv(q), q.pc \in {"backend", "returned"}, NEW n \in Nat
    PROVE  ResponseInv(WithMetadata(q, n)) /\ WithMetadata(q, n).pc = q.pc
<1> DEFINE p == WithMetadata(q, n)
<1>1. p \in Rsp /\ p.pc = q.pc
  <2> DEFINE i == q.reserved + n
             j == q.metadataBytes + n
  <2>1. q \in Rsp /\ i \in Nat /\ j \in Nat
    BY DEF ResponseInv, Rsp
  <2>2. p = [q EXCEPT !.reserved = i, !.metadataBytes = j]
    BY DEF WithMetadata
  <2> HIDE DEF i, j, p
  <2> QED BY <2>1, <2>2 DEF Rsp
<1>2. BodyInv(p)
  <2>1. /\ p.reserved = q.reserved + n /\ p.metadataBytes = q.metadataBytes + n
        /\ p.chunk = q.chunk /\ p.file = q.file /\ p.mem = q.mem /\ p.size = q.size
        /\ p.pc = q.pc /\ p.wroteHeader = q.wroteHeader /\ p.writeErr = q.writeErr
        /\ p.refused = q.refused /\ p.terminal = q.terminal /\ p.written = q.written
    BY DEF ResponseInv, Rsp, WithMetadata
  <2>2. Held(p) = Held(q) /\ Held(q) \in Nat /\ q.reserved \in Nat /\ q.metadataBytes \in Nat
        /\ q.chunk \in Nat /\ q.size \in Nat
    BY <2>1 DEF ResponseInv, Rsp, Held, NoFile
  <2> HIDE DEF p
  <2>3. Held(p) + p.chunk <= p.reserved
    BY <2>1, <2>2 DEF ResponseInv, BodyInv
  <2>4. p.size > 0 \/ p.pc = "storing" => p.wroteHeader
    BY <2>1 DEF ResponseInv, BodyInv
  <2> QED BY <2>1, <2>2, <2>3, <2>4 DEF ResponseInv, BodyInv
<1>3. OutcomeInv(p)
  BY DEF ResponseInv, OutcomeInv, Early, Rsp, WithMetadata
<1> QED BY <1>1, <1>2, <1>3 DEF ResponseInv

LEMMA InformationalInv ==
    ASSUME NEW q, ResponseInv(q), q.pc = "backend", NEW h \in HEADER
    PROVE  ResponseInv([q EXCEPT !.informational = Append(@, h)])
<1> DEFINE p == [q EXCEPT !.informational = Append(@, h)]
<1>1. p \in Rsp
  <2>1. q.informational \in Seq(HEADER)
    BY DEF ResponseInv, Rsp
  <2>2. Append(q.informational, h) \in Seq(HEADER)
    BY <2>1
  <2> QED BY <2>2 DEF ResponseInv, Rsp
<1>2. BodyInv(p)
  BY DEF ResponseInv, BodyInv, Held, Rsp
<1>3. OutcomeInv(p)
  BY DEF ResponseInv, OutcomeInv, Early, Rsp
<1> QED BY <1>1, <1>2, <1>3 DEF ResponseInv

\* A chunk is reserved before it is stored.
LEMMA ReservedChunkInv ==
    ASSUME NEW q, ResponseInv(q), q.pc = "backend", q.wroteHeader, ~q.terminal, NEW n \in Nat
    PROVE  ResponseInv([q EXCEPT !.pc = "storing", !.chunk = n, !.reserved = @ + n])
<1> DEFINE p == [q EXCEPT !.pc = "storing", !.chunk = n, !.reserved = @ + n]
<1>1. p \in Rsp
  <2> DEFINE i == q.reserved + n
  <2>1. q \in Rsp /\ i \in Nat
    BY DEF ResponseInv, Rsp
  <2>2. p = [q EXCEPT !.pc = "storing", !.chunk = n, !.reserved = i]
    OBVIOUS
  <2> HIDE DEF i, p
  <2> QED BY <2>1, <2>2 DEF Rsp, PC
<1>2. BodyInv(p)
  <2>1. /\ p.reserved = q.reserved + n /\ p.chunk = n /\ p.pc = "storing"
        /\ p.metadataBytes = q.metadataBytes /\ p.file = q.file /\ p.mem = q.mem
        /\ p.size = q.size /\ p.wroteHeader = q.wroteHeader /\ p.writeErr = q.writeErr
        /\ p.refused = q.refused /\ p.terminal = q.terminal /\ p.written = q.written
    BY DEF ResponseInv, Rsp
  <2>2. Held(p) = Held(q) /\ Held(q) \in Nat /\ q.reserved \in Nat /\ q.metadataBytes \in Nat
        /\ q.size \in Nat
    BY <2>1 DEF ResponseInv, Rsp, Held, NoFile
  <2> HIDE DEF p
  <2> QED BY <2>1, <2>2 DEF ResponseInv, BodyInv
<1>3. OutcomeInv(p)
  BY DEF ResponseInv, OutcomeInv, Early, Rsp
<1> QED BY <1>1, <1>2, <1>3 DEF ResponseInv

LEMMA ImplicitHeaderInv ==
    ASSUME NEW q, ResponseInv(q), q.pc = "backend"
    PROVE  /\ ResponseInv(ImplicitHeader(q)) /\ ImplicitHeader(q).wroteHeader
           /\ ImplicitHeader(q).pc = q.pc /\ ImplicitHeader(q).terminal = q.terminal
<1> DEFINE p == ImplicitHeader(q)
<1>1. p \in Rsp /\ p.wroteHeader /\ p.pc = q.pc /\ p.terminal = q.terminal
  BY DEF ResponseInv, Rsp, ImplicitHeader
<1>2. BodyInv(p)
  BY DEF ResponseInv, BodyInv, Held, Rsp, ImplicitHeader
<1>3. OutcomeInv(p)
  BY DEF ResponseInv, OutcomeInv, Early, Rsp, ImplicitHeader
<1> QED BY <1>1, <1>2, <1>3 DEF ResponseInv

\* The bytes of a chunk are in memory or in the file, and are now counted.
LEMMA StoredInv ==
    ASSUME NEW q \in Rsp, OutcomeInv(q), q.pc = "storing", q.wroteHeader, ~q.terminal,
           q.file # NoFile => q.mem = 0, Held(q) <= q.reserved,
           ~q.writeErr => /\ q.reserved = q.size + q.chunk + q.metadataBytes
                          /\ Held(q) = q.size + q.chunk
                          /\ ~q.refused /\ q.written = q.size
    PROVE  ResponseInv(Stored(q))
<1> DEFINE i == q.size + q.chunk
           w == IF q.refused THEN 0 ELSE q.written + q.chunk
           p == Stored(q)
<1>1. i \in Nat /\ w \in Nat /\ (~q.refused => w = q.written + q.chunk)
  BY DEF Rsp
<1>2. p = [q EXCEPT !.pc = "backend", !.chunk = 0, !.size = i, !.written = w]
  BY DEF Stored
<1>3. i = q.size + q.chunk
  OBVIOUS
<1> HIDE DEF i, w, p
<1>4. /\ p \in Rsp
      /\ p.pc = "backend" /\ p.chunk = 0 /\ p.size = i /\ p.written = w
  BY <1>1, <1>2 DEF Rsp, PC
<1>5. /\ p.file = q.file /\ p.mem = q.mem /\ p.reserved = q.reserved
      /\ p.wroteHeader = q.wroteHeader /\ p.writeErr = q.writeErr /\ p.refused = q.refused
      /\ p.metadataBytes = q.metadataBytes
  BY <1>2 DEF Rsp
<1>6. /\ p.leaked = q.leaked /\ p.terminal = q.terminal
      /\ p.mutated = q.mutated /\ p.failed = q.failed
      /\ p.sent = q.sent /\ p.status = q.status /\ p.once = q.once
      /\ p.sentInformational = q.sentInformational
  BY <1>2 DEF Rsp
<1>7. BodyInv(p)
  <2>1. Held(p) = Held(q) /\ Held(p) \in Nat /\ q.metadataBytes \in Nat /\ q.chunk \in Nat
        /\ q.size \in Nat
    BY <1>5 DEF Held, Rsp, NoFile
  <2>2. Held(p) + p.chunk <= p.reserved
    BY <1>4, <1>5, <2>1 DEF Rsp
  <2>3. ASSUME ~p.writeErr
        PROVE  /\ p.reserved = p.size + p.chunk + p.metadataBytes
               /\ Held(p) = p.size /\ ~p.refused /\ p.written = p.size
    BY <1>1, <1>3, <1>4, <1>5, <2>1, <2>3
  <2> QED BY <1>4, <1>5, <2>2, <2>3 DEF BodyInv
<1>8. OutcomeInv(p)
  BY <1>4, <1>6 DEF OutcomeInv, Early
<1> QED BY <1>4, <1>7, <1>8 DEF ResponseInv, p

\* A response whose chunk is being stored has sent its header and no upgrade.
LEMMA StoringFacts ==
    ASSUME NEW q, ResponseInv(q), q.pc = "storing"
    PROVE  /\ q \in Rsp /\ OutcomeInv(q) /\ ~q.terminal /\ q.wroteHeader
           /\ q.file # NoFile => q.mem = 0
           /\ Held(q) + q.chunk <= q.reserved /\ Held(q) \in Nat /\ Held(q) = Spooled(q)
           /\ q.chunk \in Nat /\ q.reserved \in Nat /\ q.size \in Nat
           /\ ~q.writeErr => /\ q.reserved = q.size + q.chunk + q.metadataBytes
                             /\ Held(q) = q.size
                             /\ ~q.refused /\ q.written = q.size
<1>1. q \in Rsp /\ BodyInv(q) /\ OutcomeInv(q)
  BY DEF ResponseInv
<1>2. ~q.terminal
  BY <1>1 DEF OutcomeInv
<1>3. Held(q) = Spooled(q) /\ Held(q) \in Nat
  BY <1>1 DEF Held, Spooled, Rsp, NoFile
<1>4. q.chunk \in Nat /\ q.reserved \in Nat /\ q.size \in Nat
  BY <1>1 DEF Rsp
<1> QED BY <1>1, <1>2, <1>3, <1>4 DEF BodyInv

\* The body moves: f bytes in the file or m in memory, i reserved, j counted.
Moved(q, f, m, i, j) == [q EXCEPT !.file = f, !.mem = m, !.reserved = i, !.size = j]

MovedFrom(p, q, f, m, i, j) ==
    /\ p \in Rsp /\ p.file = f /\ p.mem = m /\ p.reserved = i /\ p.size = j
    /\ p.pc = q.pc /\ p.chunk = q.chunk /\ p.wroteHeader = q.wroteHeader
    /\ p.terminal = q.terminal /\ p.writeErr = q.writeErr
    /\ p.metadataBytes = q.metadataBytes /\ p.refused = q.refused /\ p.written = q.written
    /\ p.err = q.err /\ p.once = q.once /\ p.header = q.header /\ p.leaked = q.leaked
    /\ p.mutated = q.mutated /\ p.failed = q.failed /\ p.sent = q.sent /\ p.status = q.status
    /\ p.sentInformational = q.sentInformational /\ p.informational = q.informational
    /\ OutcomeInv(q) => OutcomeInv(p)

LEMMA BodyMoved ==
    ASSUME NEW q \in Rsp, NEW f \in Nat \union {NoFile}, NEW m \in Nat, NEW i \in Nat, NEW j \in Nat
    PROVE  MovedFrom(Moved(q, f, m, i, j), q, f, m, i, j)
<1> DEFINE p == Moved(q, f, m, i, j)
<1>1. p \in Rsp /\ p.file = f /\ p.mem = m /\ p.reserved = i /\ p.size = j
  BY DEF Rsp, Moved
<1>2. /\ p.pc = q.pc /\ p.chunk = q.chunk /\ p.wroteHeader = q.wroteHeader
      /\ p.terminal = q.terminal /\ p.writeErr = q.writeErr
      /\ p.metadataBytes = q.metadataBytes /\ p.refused = q.refused /\ p.written = q.written
  BY DEF Rsp, Moved
<1>3. /\ p.err = q.err /\ p.once = q.once /\ p.header = q.header /\ p.leaked = q.leaked
      /\ p.mutated = q.mutated /\ p.failed = q.failed /\ p.sent = q.sent /\ p.status = q.status
      /\ p.sentInformational = q.sentInformational /\ p.informational = q.informational
  BY DEF Rsp, Moved
<1>4. OutcomeInv(q) => OutcomeInv(p)
  BY DEF Rsp, OutcomeInv, Early, Moved
<1> QED BY <1>1, <1>2, <1>3, <1>4 DEF MovedFrom

-----------------------------------------------------------------------------
(* Steps of a response.                                                    *)

\* The step of response r leads to a record that satisfies the invariant.
Leads(r) == \E p : Become(r, p) /\ ResponseInv(p)

LEMMA StoreInMemoryInv ==
    ASSUME NEW r \in REQ, ResponseInv(rsp[r]), StoreInMemory(r)
    PROVE  Leads(r)
<1> DEFINE q == rsp[r]
           m == q.mem + q.chunk
           p == Moved(q, q.file, m, q.reserved, q.size)
<1>1. q.pc = "storing" /\ q.file = NoFile /\ ResponseInv(q)
  BY DEF StoreInMemory, At, FitsMemory
<1>2. /\ q \in Rsp /\ Held(q) = q.mem /\ q.mem \in Nat /\ q.reserved \in Nat /\ q.size \in Nat
      /\ q.file \in Nat \union {NoFile} /\ q.chunk \in Nat /\ m \in Nat /\ m = q.mem + q.chunk
  BY <1>1 DEF ResponseInv, Rsp, Held
<1>3. Become(r, Stored([q EXCEPT !.mem = m]))
  BY DEF StoreInMemory
<1> HIDE DEF m, q
<1>4. [q EXCEPT !.mem = m] = p
  BY <1>2 DEF Rsp, Moved
<1>5. MovedFrom(p, q, q.file, m, q.reserved, q.size)
  BY <1>2, BodyMoved
<1> HIDE DEF p
<1>6. Held(p) = m
  BY <1>1, <1>5 DEF Held, MovedFrom
<1>7. ResponseInv(Stored(p))
  BY <1>1, <1>2, <1>5, <1>6, StoringFacts, StoredInv DEF MovedFrom
<1> QED BY <1>3, <1>4, <1>7 DEF Leads

\* The file takes the chunk, or only n bytes of it.
LEMMA StoreInFileInv ==
    ASSUME NEW r \in REQ, ResponseInv(rsp[r]), StoreInFile(r)
    PROVE  Leads(r)
<1> DEFINE q == rsp[r]
<1>1. q.pc = "storing" /\ ResponseInv(q)
  BY DEF StoreInFile, At
<1>2. PICK n \in 0 .. q.chunk :
        LET p == [q EXCEPT !.file = Spooled(q) + n, !.mem = 0, !.reserved = @ - (q.chunk - n)]
        IN  Become(r, IF n = q.chunk THEN Stored(p) ELSE Refuse([p EXCEPT !.size = @ + n]))
  BY DEF StoreInFile
<1> DEFINE f == Spooled(q) + n
           i == q.reserved - (q.chunk - n)
           j == q.size + n
           p(k) == Moved(q, f, 0, i, k)
<1>3. /\ q \in Rsp /\ OutcomeInv(q) /\ ~q.terminal /\ q.wroteHeader
      /\ Held(q) + q.chunk <= q.reserved /\ Held(q) \in Nat /\ Held(q) = Spooled(q)
      /\ q.chunk \in Nat /\ q.reserved \in Nat /\ q.size \in Nat
      /\ ~q.writeErr => /\ q.reserved = q.size + q.chunk + q.metadataBytes
                        /\ Held(q) = q.size
                        /\ ~q.refused /\ q.written = q.size
  BY <1>1, StoringFacts
<1>4. f \in Nat /\ i \in Nat /\ j \in Nat /\ f <= i /\ f = Held(q) + n
      /\ (n = q.chunk => i = q.reserved) /\ f # NoFile /\ f \in Nat \union {NoFile} /\ 0 \in Nat
  BY <1>3 DEF NoFile
<1>5. Become(r, IF n = q.chunk THEN Stored([q EXCEPT !.file = f, !.mem = 0, !.reserved = i])
                ELSE Refuse([[q EXCEPT !.file = f, !.mem = 0, !.reserved = i] EXCEPT !.size = j]))
  <2>1. [q EXCEPT !.file = f, !.mem = 0, !.reserved = i].size = q.size
    BY <1>3 DEF Rsp
  <2> QED BY <1>2, <2>1
<1>6. j = q.size + n
  OBVIOUS
<1> HIDE DEF f, i, j, q
<1>7. /\ [q EXCEPT !.file = f, !.mem = 0, !.reserved = i] = p(q.size)
      /\ [[q EXCEPT !.file = f, !.mem = 0, !.reserved = i] EXCEPT !.size = j] = p(j)
  BY <1>3 DEF Rsp, Moved
<1>8. ASSUME NEW k \in Nat
      PROVE  /\ p(k) \in Rsp /\ p(k).file = f /\ p(k).mem = 0 /\ p(k).reserved = i /\ p(k).size = k
             /\ p(k).pc = q.pc /\ p(k).chunk = q.chunk /\ p(k).wroteHeader = q.wroteHeader
             /\ p(k).terminal = q.terminal /\ p(k).writeErr = q.writeErr
             /\ p(k).metadataBytes = q.metadataBytes /\ p(k).refused = q.refused
             /\ p(k).written = q.written
             /\ OutcomeInv(p(k)) /\ Held(p(k)) = f
  <2>1. MovedFrom(p(k), q, f, 0, i, k)
    BY <1>3, <1>4, BodyMoved
  <2> HIDE DEF p
  <2>2. Held(p(k)) = f
    BY <1>4, <2>1 DEF Held, MovedFrom
  <2> QED BY <1>3, <2>1, <2>2 DEF MovedFrom
<1> HIDE DEF p
<1>9. CASE n = q.chunk
  <2> DEFINE x == p(q.size)
  <2>1. /\ x \in Rsp /\ OutcomeInv(x) /\ x.pc = "storing" /\ x.wroteHeader /\ ~x.terminal
        /\ x.file # NoFile => x.mem = 0
        /\ Held(x) <= x.reserved
    BY <1>1, <1>3, <1>4, <1>8
  <2>2. ASSUME ~x.writeErr
        PROVE  /\ x.reserved = x.size + x.chunk + x.metadataBytes
               /\ Held(x) = x.size + x.chunk
               /\ ~x.refused /\ x.written = x.size
    <3>1. /\ q.reserved = q.size + q.chunk + q.metadataBytes
          /\ Held(q) = q.size /\ ~q.refused /\ q.written = q.size
      BY <1>3, <1>8, <2>2
    <3>2. /\ x.size = q.size /\ x.chunk = q.chunk /\ x.metadataBytes = q.metadataBytes
          /\ x.reserved = i /\ Held(x) = f /\ x.refused = q.refused /\ x.written = q.written
      BY <1>3, <1>8
    <3> HIDE DEF x
    <3> QED BY <1>4, <1>9, <3>1, <3>2
  <2>3. ResponseInv(Stored(x))
    BY <2>1, <2>2, StoredInv
  <2> QED BY <1>5, <1>7, <1>9, <2>3 DEF Leads
<1>10. CASE n # q.chunk
  <2>1. ResponseInv(Refuse(p(j)))
    BY <1>1, <1>3, <1>4, <1>8, RefuseInv
  <2> QED BY <1>5, <1>7, <1>10, <2>1 DEF Leads
<1> QED BY <1>9, <1>10

\* Reset and Close drop the body and its reservation.
LEMMA EmptyMoved ==
    ASSUME NEW q \in Rsp
    PROVE  MovedFrom(Empty(q), q, NoFile, 0, 0, 0)
<1>1. Empty(q) = Moved(q, NoFile, 0, 0, 0)
  BY DEF Empty, Moved, Rsp
<1>2. NoFile \in Nat \union {NoFile} /\ 0 \in Nat
  OBVIOUS
<1> QED BY <1>1, <1>2, BodyMoved

LEMMA CreateTempFailsInv ==
    ASSUME NEW r \in REQ, ResponseInv(rsp[r]), CreateTempFails(r)
    PROVE  Leads(r)
<1> DEFINE q == rsp[r]
           i == q.reserved - q.chunk
           p == Moved(q, q.file, q.mem, i, q.size)
<1>1. q.pc = "storing" /\ ResponseInv(q)
  BY DEF CreateTempFails, At
<1>2. /\ q \in Rsp /\ OutcomeInv(q) /\ q.wroteHeader /\ (q.file # NoFile => q.mem = 0)
      /\ Held(q) + q.chunk <= q.reserved /\ Held(q) \in Nat /\ q.chunk \in Nat /\ q.reserved \in Nat
  BY <1>1, StoringFacts
<1>3. /\ i \in Nat /\ Held(q) <= i
      /\ q.file \in Nat \union {NoFile} /\ q.mem \in Nat /\ q.size \in Nat
  <2>1. i \in Nat /\ Held(q) <= i
    BY <1>2
  <2>2. q.file \in Nat \union {NoFile} /\ q.mem \in Nat /\ q.size \in Nat
    BY <1>2 DEF Rsp
  <2> QED BY <2>1, <2>2
<1>4. Become(r, Refuse([q EXCEPT !.reserved = i]))
  BY DEF CreateTempFails
<1> HIDE DEF i, q
<1>5. [q EXCEPT !.reserved = i] = p
  BY <1>2 DEF Rsp, Moved
<1>6. MovedFrom(p, q, q.file, q.mem, i, q.size)
  BY <1>2, <1>3, BodyMoved
<1> HIDE DEF p
<1>7. Held(p) = Held(q)
  BY <1>6 DEF Held, MovedFrom
<1>8. ResponseInv(Refuse(p))
  BY <1>1, <1>2, <1>3, <1>6, <1>7, RefuseInv DEF MovedFrom
<1> QED BY <1>4, <1>5, <1>8 DEF Leads

LEMMA SpoolFailsInv ==
    ASSUME NEW r \in REQ, ResponseInv(rsp[r]), SpoolFails(r)
    PROVE  Leads(r)
<1> DEFINE q == rsp[r]
           p == Empty(q)
<1>1. q.pc = "storing" /\ q \in Rsp /\ OutcomeInv(q) /\ Become(r, Refuse(p))
  BY DEF SpoolFails, At, ResponseInv
<1>2. MovedFrom(p, q, NoFile, 0, 0, 0)
  BY <1>1, EmptyMoved
<1> HIDE DEF p, q
<1>3. Held(p) = 0 /\ p \in Rsp /\ OutcomeInv(p) /\ p.pc = "storing" /\ p.mem = 0
      /\ p.reserved = 0 /\ p.size = 0
  BY <1>1, <1>2 DEF Held, MovedFrom
<1>4. ResponseInv(Refuse(p))
  BY <1>3, RefuseInv
<1> QED BY <1>1, <1>4 DEF Leads

\* discardBackendMetadata touches the header only, and leaves nothing managed in
\* it the first time.
Discarded(p, q) ==
    /\ p \in Rsp
    /\ p.once /\ (~q.once => p.header # "managed")
    /\ p.pc = q.pc /\ p.chunk = q.chunk /\ p.file = q.file /\ p.mem = q.mem
    /\ p.size = q.size /\ p.reserved = q.reserved /\ p.metadataBytes = q.metadataBytes
    /\ p.wroteHeader = q.wroteHeader /\ p.writeErr = q.writeErr /\ p.refused = q.refused
    /\ p.written = q.written /\ p.terminal = q.terminal /\ p.err = q.err
    /\ p.leaked = q.leaked
    /\ p.mutated = q.mutated /\ p.failed = q.failed /\ p.sent = q.sent /\ p.status = q.status
    /\ p.sentInformational = q.sentInformational /\ p.informational = q.informational

LEMMA DiscardFacts ==
    ASSUME NEW q \in Rsp
    PROVE  Discarded(Discard(q), q)
<1> DEFINE h == Scrubbed(q.header)
           p == [q EXCEPT !.once = TRUE, !.header = h]
<1>1. CASE q.once
  BY <1>1 DEF Discard, Discarded
<1>2. CASE ~q.once
  <2>1. h \in HEADER /\ h # "managed"
    BY DEF Scrubbed, Rsp, HEADER
  <2>2. Discard(q) = p
    BY <1>2 DEF Discard
  <2> HIDE DEF h
  <2>3. p \in Rsp /\ p.once /\ p.header # "managed"
    BY <2>1 DEF Rsp
  <2>4. /\ p.pc = q.pc /\ p.chunk = q.chunk /\ p.file = q.file /\ p.mem = q.mem
        /\ p.size = q.size /\ p.reserved = q.reserved /\ p.metadataBytes = q.metadataBytes
        /\ p.wroteHeader = q.wroteHeader /\ p.writeErr = q.writeErr /\ p.refused = q.refused
    BY DEF Rsp
  <2>5. /\ p.written = q.written /\ p.terminal = q.terminal /\ p.err = q.err
        /\ p.leaked = q.leaked
        /\ p.mutated = q.mutated /\ p.failed = q.failed /\ p.sent = q.sent /\ p.status = q.status
        /\ p.sentInformational = q.sentInformational /\ p.informational = q.informational
    BY DEF Rsp
  <2> HIDE DEF p
  <2> QED BY <2>2, <2>3, <2>4, <2>5 DEF Discarded
<1> QED BY <1>1, <1>2

\* ServeHTTP gives a response up before anything has been sent, and before the
\* session is changed unless the processing itself fails.
LEMMA GiveUpInv ==
    ASSUME NEW q \in Rsp, q.pc \in {"returned", "validating", "processing"}, q.chunk = 0,
           ~q.leaked, q.mutated => q.failed, q.sent = 0,
           q.failed => ~q.terminal /\ ~q.refused /\ ~q.err,
           ~q.terminal => q.status = None /\ q.sentInformational = 0,
           NEW st \in {"badgateway", "error"}, q.refused \/ q.failed => st = "badgateway"
    PROVE  ResponseInv(GiveUp(q, st))
<1> DEFINE d == Discard(q)
           e == Empty(d)
           t == IF e.status = None THEN st ELSE e.status
           p == [e EXCEPT !.pc = "closing", !.status = t]
<1>1. GiveUp(q, st) = p
  BY DEF GiveUp
<1>2. Discarded(d, q)
  BY DiscardFacts
<1>3. MovedFrom(e, d, NoFile, 0, 0, 0)
  BY <1>2, EmptyMoved DEF Discarded
<1> HIDE DEF d, e
<1>4. /\ e \in Rsp /\ e.status = q.status /\ e.chunk = 0 /\ e.file = NoFile /\ e.mem = 0
      /\ e.reserved = 0 /\ e.size = 0 /\ e.leaked = q.leaked
      /\ e.mutated = q.mutated /\ e.failed = q.failed
      /\ e.sent = q.sent /\ e.sentInformational = q.sentInformational
      /\ e.refused = q.refused /\ e.terminal = q.terminal /\ e.err = q.err
  BY <1>2, <1>3 DEF Discarded, MovedFrom
<1>5. /\ t \in {None, "backend", "badgateway", "error", "aborted"}
      /\ ~q.terminal => t = st
  BY <1>4 DEF Rsp
<1> HIDE DEF t
<1>6. p \in Rsp /\ p.pc = "closing" /\ p.status = t
  BY <1>4, <1>5, ZenonT(30) DEF Rsp, PC
<1>7. /\ p.chunk = 0 /\ p.file = NoFile /\ p.mem = 0 /\ p.reserved = 0 /\ p.size = 0
      /\ p.leaked = q.leaked /\ p.mutated = q.mutated /\ p.failed = q.failed /\ p.sent = q.sent
      /\ p.sentInformational = q.sentInformational
      /\ p.refused = q.refused /\ p.terminal = q.terminal /\ p.err = q.err
  BY <1>4 DEF Rsp
<1> HIDE DEF p
<1>8. BodyInv(p)
  BY <1>6, <1>7 DEF BodyInv, Held
<1>9. OutcomeInv(p)
  BY <1>5, <1>6, <1>7 DEF OutcomeInv, Early
<1> QED BY <1>1, <1>6, <1>8, <1>9 DEF ResponseInv

\* The facts GiveUpInv needs, of any response it is applied to.
LEMMA GivenUpFacts ==
    ASSUME NEW q, ResponseInv(q), q.pc \in {"returned", "validating", "processing"}
    PROVE  /\ q \in Rsp /\ q.chunk = 0 /\ ~q.leaked /\ ~q.mutated /\ ~q.failed /\ q.sent = 0
           /\ ~q.terminal => q.status = None /\ q.sentInformational = 0 /\ ~q.once
           /\ ~q.writeErr => ~q.refused
BY DEF ResponseInv, BodyInv, OutcomeInv, Early

LEMMA ReturnInv ==
    ASSUME NEW r \in REQ, ResponseInv(rsp[r]), Return(r)
    PROVE  Leads(r)
<1> DEFINE q == rsp[r]
<1>1. PICK err \in BOOLEAN : Become(r, [q EXCEPT !.pc = "returned", !.err = err])
  BY DEF Return
<1>2. q.pc = "backend" /\ ResponseInv(q)
  BY DEF Return, At
<1> HIDE DEF q
<1> DEFINE p == [q EXCEPT !.pc = "returned", !.err = err]
<1>3. p \in Rsp
  BY <1>2 DEF ResponseInv, Rsp, PC
<1>4. BodyInv(p)
  BY <1>2 DEF ResponseInv, BodyInv, Held, Rsp
<1>5. OutcomeInv(p)
  BY <1>2 DEF ResponseInv, OutcomeInv, Early, Rsp
<1> QED BY <1>1, <1>3, <1>4, <1>5 DEF ResponseInv, Leads

LEMMA PanicInv ==
    ASSUME NEW r \in REQ, ResponseInv(rsp[r]), Panic(r)
    PROVE  Leads(r)
<1> DEFINE q == rsp[r]
           t == IF q.status = None THEN "aborted" ELSE q.status
           p == [q EXCEPT !.pc = "closing", !.status = t]
<1>1. q.pc = "backend" /\ ResponseInv(q) /\ Become(r, p)
  BY DEF Panic, At
<1>2. /\ t \in {None, "backend", "badgateway", "error", "aborted"}
      /\ ~q.terminal => t = "aborted"
  BY <1>1 DEF ResponseInv, Rsp, OutcomeInv, Early
<1> HIDE DEF q, t
<1>3. p \in Rsp
  BY <1>1, <1>2 DEF ResponseInv, Rsp, PC
<1>4. BodyInv(p)
  BY <1>1 DEF ResponseInv, BodyInv, Held, Rsp
<1>5. OutcomeInv(p)
  BY <1>1, <1>2 DEF ResponseInv, OutcomeInv, Early, Rsp
<1> QED BY <1>1, <1>3, <1>4, <1>5 DEF ResponseInv, Leads

LEMMA MetadataIsNat ==
    ASSUME NEW q
    PROVE  stagedHeaderBytes(q.header) \in Nat /\ FinalMetadata(q) \in Nat
BY StagingAssumption DEF stagedHeaderBytes, FinalMetadata

LEMMA FinalMetadataInv ==
    ASSUME NEW q, ResponseInv(q), q.pc \in {"backend", "returned"}
    PROVE  ResponseInv(WithFinalMetadata(q)) /\ WithFinalMetadata(q).pc = q.pc
<1> DEFINE w == WithMetadata(q, FinalMetadata(q))
           p == [w EXCEPT !.finalMetadataReserved = TRUE]
<1>1. ResponseInv(w) /\ w.pc = q.pc /\ WithFinalMetadata(q) = p
  BY MetadataIsNat, WithMetadataInv DEF WithFinalMetadata
<1> HIDE DEF w
<1>2. p \in Rsp /\ p.pc = q.pc
  BY <1>1 DEF ResponseInv, Rsp
<1>3. BodyInv(p)
  BY <1>1 DEF ResponseInv, BodyInv, Held, Rsp
<1>4. OutcomeInv(p)
  BY <1>1 DEF ResponseInv, OutcomeInv, Early, Rsp
<1> QED BY <1>1, <1>2, <1>3, <1>4 DEF ResponseInv

\* Reserving metadata leaves these alone.
LEMMA FinalMetadataKeeps ==
    ASSUME NEW q \in Rsp
    PROVE  LET p == WithFinalMetadata(q)
           IN  p.terminal = q.terminal /\ p.writeErr = q.writeErr /\ p.err = q.err
BY DEF WithFinalMetadata, WithMetadata, Rsp

LEMMA UpgradingInv ==
    ASSUME NEW q, ResponseInv(q), q.pc = "backend", ~q.terminal
    PROVE  ResponseInv([q EXCEPT !.pc = "upgrading"])
<1> DEFINE p == [q EXCEPT !.pc = "upgrading"]
<1>1. p \in Rsp
  BY DEF ResponseInv, Rsp, PC
<1>2. BodyInv(p)
  BY DEF ResponseInv, BodyInv, Held, Rsp
<1>3. OutcomeInv(p)
  BY DEF ResponseInv, OutcomeInv, Early, Rsp
<1> QED BY <1>1, <1>2, <1>3 DEF ResponseInv

\* A refused write, limit or upgrade of a response the handler still writes.
LEMMA BackendRefuseInv ==
    ASSUME NEW q, ResponseInv(q), q.pc = "backend"
    PROVE  ResponseInv(Refuse(q))
<1>1. q \in Rsp /\ OutcomeInv(q) /\ BodyInv(q)
  BY DEF ResponseInv
<1>2. Held(q) \in Nat /\ q.reserved \in Nat
  BY <1>1 DEF Held, Rsp, NoFile
<1>3. q.chunk = 0 /\ Held(q) + q.chunk <= q.reserved
  BY <1>1 DEF BodyInv
<1>4. Held(q) <= q.reserved
  BY <1>2, <1>3
<1>5. (q.file # NoFile => q.mem = 0) /\ (q.size > 0 => q.wroteHeader)
  BY <1>1 DEF BodyInv
<1> QED BY <1>1, <1>4, <1>5, RefuseInv

LEMMA UpgradeInv ==
    ASSUME NEW r \in REQ, ResponseInv(rsp[r]), Upgrade(r)
    PROVE  Leads(r)
<1> DEFINE q == rsp[r]
           p == WithFinalMetadata(q)
<1>1. q.pc = "backend" /\ ~q.terminal /\ ResponseInv(q)
  BY DEF Upgrade, At
<1>2. \/ Become(r, p)
      \/ \E u \in {p, ImplicitHeader(p)} : Become(r, [u EXCEPT !.pc = "upgrading"])
      \/ Become(r, Refuse(q))
  BY DEF Upgrade
<1>3. q \in Rsp
  BY <1>1 DEF ResponseInv
<1> HIDE DEF q
<1>4. ResponseInv(p) /\ p.pc = "backend" /\ ~p.terminal
  BY <1>1, <1>3, FinalMetadataInv, FinalMetadataKeeps
<1> HIDE DEF p
<1>5. ResponseInv([p EXCEPT !.pc = "upgrading"])
  BY <1>4, UpgradingInv
<1>6. ResponseInv([ImplicitHeader(p) EXCEPT !.pc = "upgrading"])
  BY <1>4, ImplicitHeaderInv, UpgradingInv
<1>7. ResponseInv(Refuse(q))
  BY <1>1, BackendRefuseInv
<1> QED BY <1>2, <1>4, <1>5, <1>6, <1>7 DEF Leads

LEMMA WriteHeaderInformationalInv ==
    ASSUME NEW r \in REQ, ResponseInv(rsp[r]), WriteHeaderInformational(r)
    PROVE  Leads(r)
<1> DEFINE q == rsp[r]
           n == stagedHeaderBytes(q.header)
           w == WithMetadata(q, n)
<1>1. q.pc = "backend" /\ ResponseInv(q) /\ n \in Nat /\ q.header \in HEADER
  BY MetadataIsNat DEF WriteHeaderInformational, At, ResponseInv, Rsp
<1>2. \/ Become(r, [w EXCEPT !.informational = Append(@, q.header)])
      \/ Become(r, Refuse(q))
  BY DEF WriteHeaderInformational
<1> HIDE DEF n, q
<1>3. ResponseInv(w) /\ w.pc = "backend"
  BY <1>1, WithMetadataInv
<1> HIDE DEF w
<1>4. ResponseInv([w EXCEPT !.informational = Append(@, q.header)])
  BY <1>1, <1>3, InformationalInv
<1>5. ResponseInv(Refuse(q))
  BY <1>1, BackendRefuseInv
<1> QED BY <1>2, <1>4, <1>5 DEF Leads

LEMMA WriteInv ==
    ASSUME NEW r \in REQ, ResponseInv(rsp[r]), Write(r)
    PROVE  Leads(r)
<1> DEFINE q == ImplicitHeader(rsp[r])
<1>1. rsp[r].pc = "backend" /\ ~q.terminal
  BY DEF Write, At
<1>2. \/ \E n \in CHUNK : Become(r, [q EXCEPT !.pc = "storing", !.chunk = n, !.reserved = @ + n])
      \/ Become(r, Refuse(q))
  BY DEF Write
<1>3. ResponseInv(q) /\ q.wroteHeader /\ q.pc = "backend"
  BY <1>1, ImplicitHeaderInv
<1> HIDE DEF q
<1>4. \A n \in CHUNK : n \in Nat
  BY StagingAssumption
<1>5. \A n \in CHUNK : ResponseInv([q EXCEPT !.pc = "storing", !.chunk = n, !.reserved = @ + n])
  BY <1>1, <1>3, <1>4, ReservedChunkInv
<1>6. ResponseInv(Refuse(q))
  BY <1>3, BackendRefuseInv
<1> QED BY <1>2, <1>5, <1>6 DEF Leads

LEMMA WriteDirectInv ==
    ASSUME NEW r \in REQ, ResponseInv(rsp[r]), WriteDirect(r)
    PROVE  Leads(r)
<1> DEFINE q == rsp[r]
           t == IF q.status = None THEN "backend" ELSE q.status
           p == [q EXCEPT !.status = t]
<1>1. q.pc = "backend" /\ q.terminal /\ ResponseInv(q) /\ Become(r, p)
  BY DEF WriteDirect, At
<1>2. t \in {None, "backend", "badgateway", "error", "aborted"}
  BY <1>1 DEF ResponseInv, Rsp
<1> HIDE DEF q, t
<1>3. p \in Rsp
  BY <1>1, <1>2 DEF ResponseInv, Rsp
<1>4. BodyInv(p)
  BY <1>1 DEF ResponseInv, BodyInv, Held, Rsp
<1>5. OutcomeInv(p)
  BY <1>1 DEF ResponseInv, OutcomeInv, Early, Rsp
<1> QED BY <1>1, <1>3, <1>4, <1>5 DEF ResponseInv, Leads

\* Whatever the handler staged, no managed entry is sent with it.
LEMMA NothingLeaks ==
    ASSUME NEW q \in Rsp, q.header # "managed"
    PROVE  /\ Leaks(q) = FALSE
           /\ Len(SentInformational(q)) = Len(q.informational) /\ Len(q.informational) \in Nat
<1>1. q.informational \in Seq(HEADER)
  BY DEF Rsp
<1>2. \A i \in DOMAIN q.informational : SentInformational(q)[i] # "managed"
  BY DEF SentInformational, Scrubbed
<1>3. Len(SentInformational(q)) = Len(q.informational) /\ Len(q.informational) \in Nat
  BY <1>1 DEF SentInformational
<1> QED BY <1>2, <1>3 DEF Leaks

LEMMA UpgradeCommitInv ==
    ASSUME NEW r \in REQ, ResponseInv(rsp[r]), UpgradeCommit(r)
    PROVE  Leads(r)
<1> DEFINE b == rsp[r]
           q == Discard(b)
           e == Empty(q)
           n == Len(SentInformational(q))
           t == IF q.wroteHeader THEN "backend" ELSE None
           none == <<>>
           p == [e EXCEPT !.pc = "backend", !.terminal = TRUE, !.sentInformational = n,
                          !.leaked = FALSE, !.status = t, !.informational = none,
                          !.header = "none", !.metadataBytes = 0]
<1>1. b.pc = "upgrading" /\ ResponseInv(b) /\ b \in Rsp
  BY DEF UpgradeCommit, At, ResponseInv
<1>2. Discarded(q, b) /\ ~b.once /\ ~b.mutated /\ ~b.failed /\ b.sent = 0 /\ b.chunk = 0
      /\ (~b.writeErr => ~b.refused)
  BY <1>1, DiscardFacts DEF ResponseInv, OutcomeInv, BodyInv, Early
<1>3. Leaks(q) = FALSE /\ n \in Nat
  BY <1>2, NothingLeaks DEF Discarded
<1>4. Become(r, p)
  BY <1>3 DEF UpgradeCommit
<1>5. MovedFrom(e, q, NoFile, 0, 0, 0)
  BY <1>2, EmptyMoved DEF Discarded
<1>6. t \in {None, "backend", "badgateway", "error", "aborted"}
  OBVIOUS
<1>8. "none" \in HEADER /\ none \in Seq(HEADER)
  BY DEF HEADER
<1> HIDE DEF b, q, e, n, t, none
<1>7. /\ e \in Rsp /\ e.file = NoFile /\ e.mem = 0 /\ e.reserved = 0 /\ e.size = 0
      /\ e.chunk = 0 /\ e.writeErr = b.writeErr /\ e.refused = b.refused
      /\ ~e.mutated /\ ~e.failed /\ e.sent = 0
  BY <1>2, <1>5 DEF Discarded, MovedFrom
<1>9. p \in Rsp
  <2> DEFINE x == [e EXCEPT !.pc = "backend", !.terminal = TRUE, !.leaked = FALSE, !.status = t]
             y == [x EXCEPT !.informational = none, !.header = "none"]
             z == [y EXCEPT !.sentInformational = n, !.metadataBytes = 0]
  <2>1. e \in Rsp
    BY <1>7
  <2>2. x \in Rsp
    BY <1>6, <2>1 DEF Rsp, PC
  <2>3. p = z
    BY <1>7 DEF Rsp
  <2> HIDE DEF x
  <2>4. y \in Rsp
    BY <1>8, <2>2 DEF Rsp
  <2> HIDE DEF y
  <2>5. z \in Rsp
    BY <1>3, <2>4 DEF Rsp
  <2> QED BY <2>3, <2>5
<1>10. /\ p.pc = "backend" /\ p.terminal /\ ~p.leaked /\ p.metadataBytes = 0
       /\ p.file = NoFile /\ p.mem = 0 /\ p.reserved = 0 /\ p.size = 0 /\ p.chunk = 0
       /\ p.writeErr = b.writeErr /\ p.refused = b.refused /\ ~p.mutated /\ ~p.failed /\ p.sent = 0
  BY <1>7 DEF Rsp
<1> HIDE DEF p
<1>11. BodyInv(p)
  BY <1>2, <1>10 DEF BodyInv, Held
<1>12. OutcomeInv(p)
  BY <1>10 DEF OutcomeInv, Early
<1> QED BY <1>4, <1>9, <1>11, <1>12 DEF ResponseInv, Leads

LEMMA ConcludeInv ==
    ASSUME NEW r \in REQ, ResponseInv(rsp[r]), Conclude(r)
    PROVE  Leads(r)
<1> DEFINE q == rsp[r]
           w == WithFinalMetadata(q)
           pc == IF q.terminal THEN "closing" ELSE "validating"
<1>1. /\ q.pc = "returned" /\ ResponseInv(q) /\ q \in Rsp
      /\ q.chunk = 0 /\ ~q.leaked /\ ~q.mutated /\ ~q.failed /\ q.sent = 0
      /\ ~q.terminal => q.status = None /\ q.sentInformational = 0
      /\ ~q.writeErr => ~q.refused
  BY GivenUpFacts DEF Conclude, At
<1>2. \/ q.writeErr /\ Become(r, GiveUp(q, "badgateway"))
      \/ ~q.writeErr /\ Become(r, GiveUp(q, "error"))
      \/ Become(r, GiveUp([q EXCEPT !.refused = TRUE], "badgateway"))
      \/ ~q.writeErr /\ ~q.err /\ Become(r, [w EXCEPT !.pc = pc])
  BY DEF Conclude
<1> HIDE DEF q
<1>3. ResponseInv(GiveUp(q, "badgateway"))
  BY <1>1, GiveUpInv
<1>4. ~q.writeErr => ResponseInv(GiveUp(q, "error"))
  BY <1>1, GiveUpInv
<1>5. ResponseInv(GiveUp([q EXCEPT !.refused = TRUE], "badgateway"))
  <2> DEFINE p == [q EXCEPT !.refused = TRUE]
  <2>1. /\ p \in Rsp /\ p.pc = "returned" /\ p.chunk = 0 /\ ~p.leaked
        /\ ~p.mutated /\ ~p.failed /\ p.sent = 0
        /\ p.terminal = q.terminal /\ p.status = q.status
        /\ p.sentInformational = q.sentInformational
    BY <1>1 DEF Rsp
  <2> HIDE DEF p
  <2>2. ResponseInv(GiveUp(p, "badgateway"))
    BY <1>1, <2>1, GiveUpInv
  <2> QED BY <2>2 DEF p
<1>6. ASSUME ~q.writeErr, ~q.err PROVE ResponseInv([w EXCEPT !.pc = pc])
  <2> DEFINE p == [w EXCEPT !.pc = pc]
  <2>1. /\ ResponseInv(w) /\ w.pc = "returned" /\ w.terminal = q.terminal
        /\ ~w.writeErr /\ ~w.err
    BY <1>1, <1>6, FinalMetadataInv, FinalMetadataKeeps
  <2>2. pc \in {"closing", "validating"} /\ (pc = "validating" <=> ~w.terminal)
    BY <2>1
  <2> HIDE DEF w, pc
  <2>3. p \in Rsp
    BY <2>1, <2>2 DEF ResponseInv, Rsp, PC
  <2>4. BodyInv(p)
    BY <2>1, <2>2 DEF ResponseInv, BodyInv, Held, Rsp
  <2>5. OutcomeInv(p)
    BY <2>1, <2>2 DEF ResponseInv, OutcomeInv, Early, Rsp
  <2> QED BY <2>3, <2>4, <2>5 DEF ResponseInv
<1> QED BY <1>2, <1>3, <1>4, <1>5, <1>6 DEF Leads

LEMMA ValidateInv ==
    ASSUME NEW r \in REQ, ResponseInv(rsp[r]), Validate(r)
    PROVE  Leads(r)
<1> DEFINE q == rsp[r]
           p == [q EXCEPT !.pc = "processing"]
<1>1. /\ q.pc = "validating" /\ ResponseInv(q) /\ q \in Rsp
      /\ q.chunk = 0 /\ ~q.leaked /\ ~q.mutated /\ ~q.failed /\ q.sent = 0 /\ ~q.refused
      /\ ~q.terminal => q.status = None /\ q.sentInformational = 0
  BY GivenUpFacts DEF Validate, At, ResponseInv, OutcomeInv
<1>2. Become(r, p) \/ Become(r, GiveUp(q, "badgateway"))
  BY DEF Validate
<1> HIDE DEF q
<1>3. ResponseInv(GiveUp(q, "badgateway"))
  BY <1>1, GiveUpInv
<1>4. p \in Rsp
  BY <1>1 DEF Rsp, PC
<1>5. BodyInv(p)
  BY <1>1 DEF ResponseInv, BodyInv, Held, Rsp
<1>6. OutcomeInv(p)
  BY <1>1 DEF ResponseInv, OutcomeInv, Early, Rsp
<1> QED BY <1>2, <1>3, <1>4, <1>5, <1>6 DEF ResponseInv, Leads

\* The session is changed or not, and the response is sent or given up.
LEMMA ProcessInv ==
    ASSUME NEW r \in REQ, ResponseInv(rsp[r]), Process(r)
    PROVE  Leads(r)
<1> DEFINE b == rsp[r]
           q == Discard(b)
<1>1. /\ b.pc = "processing" /\ BodyInv(b) /\ b \in Rsp
      /\ b.chunk = 0 /\ ~b.leaked /\ ~b.mutated /\ ~b.failed /\ b.sent = 0 /\ ~b.refused
      /\ b.status = None /\ b.sentInformational = 0 /\ ~b.once
      /\ ~b.terminal /\ ~b.writeErr /\ ~b.err
  BY GivenUpFacts DEF Process, At, ResponseInv, OutcomeInv
<1>2. PICK ok \in BOOLEAN :
          LET p == [q EXCEPT !.mutated = ok] IN
          \/ Become(r, [p EXCEPT !.pc = "committing"])
          \/ Become(r, GiveUp([p EXCEPT !.failed = TRUE], "badgateway"))
  BY DEF Process
<1>3. Discarded(q, b)
  BY <1>1, DiscardFacts
<1> HIDE DEF q, b
<1> DEFINE m == [q EXCEPT !.mutated = ok]
<1>4. ResponseInv(GiveUp([m EXCEPT !.failed = TRUE], "badgateway"))
  <2> DEFINE p == [m EXCEPT !.failed = TRUE]
  <2>1. q \in Rsp
    BY <1>3 DEF Discarded
  <2>2. p \in Rsp /\ p.failed
    BY <2>1 DEF Rsp
  <2>3. /\ p.pc = q.pc /\ p.chunk = q.chunk /\ p.leaked = q.leaked /\ p.sent = q.sent
        /\ p.status = q.status /\ p.sentInformational = q.sentInformational
        /\ p.terminal = q.terminal /\ p.refused = q.refused /\ p.err = q.err
    BY <2>1 DEF Rsp
  <2> HIDE DEF p
  <2>4. ResponseInv(GiveUp(p, "badgateway"))
    BY <1>1, <1>3, <2>2, <2>3, GiveUpInv DEF Discarded
  <2> QED BY <2>4 DEF p
<1>5. ResponseInv([m EXCEPT !.pc = "committing"])
  <2> DEFINE p == [m EXCEPT !.pc = "committing"]
  <2>1. q \in Rsp
    BY <1>3 DEF Discarded
  <2>2. p \in Rsp /\ p.pc = "committing"
    BY <2>1 DEF Rsp, PC
  <2>3. /\ p.chunk = q.chunk /\ p.file = q.file /\ p.mem = q.mem /\ p.size = q.size
        /\ p.reserved = q.reserved /\ p.metadataBytes = q.metadataBytes
        /\ p.wroteHeader = q.wroteHeader /\ p.writeErr = q.writeErr /\ p.refused = q.refused
        /\ p.written = q.written /\ p.terminal = q.terminal
    BY <2>1 DEF Rsp
  <2>4. /\ p.err = q.err /\ p.leaked = q.leaked /\ p.sent = q.sent /\ p.status = q.status
        /\ p.sentInformational = q.sentInformational /\ p.header = q.header /\ p.failed = q.failed
    BY <2>1 DEF Rsp
  <2> HIDE DEF p
  <2>5. BodyInv(p)
    <3>1. Held(p) = Held(b)
      BY <1>3, <2>3 DEF Held, Discarded
    <3> QED BY <1>1, <1>3, <2>2, <2>3, <3>1 DEF BodyInv, Discarded
  <2>6. OutcomeInv(p)
    BY <1>1, <1>3, <2>2, <2>3, <2>4 DEF OutcomeInv, Early, Discarded
  <2> QED BY <2>2, <2>5, <2>6 DEF ResponseInv, p
<1> QED BY <1>2, <1>4, <1>5 DEF Leads

LEMMA CommitInv ==
    ASSUME NEW r \in REQ, ResponseInv(rsp[r]), Commit(r)
    PROVE  Leads(r)
<1> DEFINE q == rsp[r]
           n == Len(SentInformational(q))
           pc == IF q.wroteHeader /\ q.size > 0 THEN "flushing" ELSE "closing"
           p == [q EXCEPT !.pc = pc, !.sentInformational = n, !.leaked = FALSE, !.status = "backend"]
<1>1. q.pc = "committing" /\ q \in Rsp /\ BodyInv(q) /\ OutcomeInv(q) /\ ~q.writeErr /\ ~q.err
      /\ q.header # "managed" /\ ~q.terminal /\ ~q.refused /\ q.sent = 0 /\ q.written = q.size
  BY DEF Commit, At, ResponseInv, OutcomeInv, BodyInv
<1>2. Leaks(q) = FALSE /\ n = Len(q.informational) /\ n \in Nat
  BY <1>1, NothingLeaks
<1>3. Become(r, p)
  BY <1>2 DEF Commit
<1>4. pc \in {"flushing", "closing"} /\ (pc = "closing" => q.size = 0)
  <2>1. q.size \in Nat /\ (q.size > 0 => q.wroteHeader)
    BY <1>1 DEF BodyInv, Rsp
  <2> QED BY <2>1
<1> HIDE DEF q, n, pc
<1>5. /\ p \in Rsp /\ p.pc = pc /\ p.sentInformational = n /\ ~p.leaked /\ p.status = "backend"
  BY <1>1, <1>2, <1>4, ZenonT(30) DEF Rsp, PC
<1>6. /\ p.chunk = q.chunk /\ p.file = q.file /\ p.mem = q.mem /\ p.size = q.size
      /\ p.reserved = q.reserved /\ p.metadataBytes = q.metadataBytes
      /\ p.wroteHeader = q.wroteHeader /\ p.writeErr = q.writeErr /\ p.refused = q.refused
      /\ p.written = q.written /\ p.terminal = q.terminal
  BY <1>1 DEF Rsp
<1>7. p.err = q.err /\ p.sent = q.sent /\ p.informational = q.informational /\ p.failed = q.failed
  BY <1>1 DEF Rsp
<1> HIDE DEF p
<1>8. BodyInv(p)
  <2>1. Held(p) = Held(q)
    BY <1>6 DEF Held
  <2> QED BY <1>1, <1>4, <1>5, <1>6, <2>1 DEF BodyInv
<1>9. OutcomeInv(p)
  BY <1>1, <1>2, <1>4, <1>5, <1>6, <1>7 DEF OutcomeInv, Early
<1> QED BY <1>3, <1>5, <1>8, <1>9 DEF ResponseInv, Leads

\* What is in memory and in the file is what the response holds.
LEMMA StagedIsHeld ==
    ASSUME NEW r \in REQ, ResponseInv(rsp[r])
    PROVE  Staged(r) = Held(rsp[r]) /\ Held(rsp[r]) \in Nat
<1> DEFINE q == rsp[r]
<1>1. q \in Rsp /\ (q.file # NoFile => q.mem = 0)
  BY DEF ResponseInv, BodyInv
<1>2. q.mem \in Nat /\ q.file \in Nat \union {NoFile}
  BY <1>1 DEF Rsp
<1>3. Staged(r) = q.mem + (IF q.file = NoFile THEN 0 ELSE q.file)
  BY DEF Staged
<1> HIDE DEF q
<1>4. Held(q) = IF q.file = NoFile THEN q.mem ELSE q.file
  BY DEF Held
<1>5. Staged(r) = Held(q) /\ Held(q) \in Nat
  BY <1>1, <1>2, <1>3, <1>4
<1> QED BY <1>5 DEF q

LEMMA FlushInv ==
    ASSUME NEW r \in REQ, ResponseInv(rsp[r]), Flush(r)
    PROVE  Leads(r)
<1> DEFINE q == rsp[r]
<1>1. PICK n \in 0 .. Staged(r) :
          Become(r, [q EXCEPT !.pc = "closing", !.sent = n, !.cut = n < Staged(r)])
  BY DEF Flush
<1>2. Staged(r) \in Nat /\ Staged(r) = Held(q)
  BY StagedIsHeld
<1> DEFINE cut == n < Staged(r)
           p == [q EXCEPT !.pc = "closing", !.sent = n, !.cut = cut]
<1>3. q.pc = "flushing" /\ q \in Rsp /\ BodyInv(q) /\ OutcomeInv(q) /\ ~q.writeErr /\ ~q.err
      /\ ~q.terminal /\ ~q.refused /\ q.written = q.size /\ Held(q) = q.size
      /\ q.status = "backend" /\ q.sentInformational = Len(q.informational)
  BY DEF Flush, At, ResponseInv, OutcomeInv, BodyInv
<1>4. n \in Nat /\ cut \in BOOLEAN /\ (cut \/ n = q.written)
  BY <1>2, <1>3
<1>5. Become(r, p)
  BY <1>1
<1> HIDE DEF q, cut
<1>6. p \in Rsp /\ p.pc = "closing" /\ p.sent = n /\ p.cut = cut
  BY <1>3, <1>4 DEF Rsp, PC
<1>7. /\ p.chunk = q.chunk /\ p.file = q.file /\ p.mem = q.mem /\ p.size = q.size
      /\ p.reserved = q.reserved /\ p.wroteHeader = q.wroteHeader /\ p.refused = q.refused
      /\ p.written = q.written /\ p.terminal = q.terminal
  BY <1>3 DEF Rsp
<1>8. /\ p.err = q.err /\ p.leaked = q.leaked /\ p.status = q.status
      /\ p.mutated = q.mutated /\ p.failed = q.failed
      /\ p.sentInformational = q.sentInformational /\ p.informational = q.informational
  BY <1>3 DEF Rsp
<1> HIDE DEF p
<1>9. BodyInv(p)
  <2>1. Held(p) = Held(q)
    BY <1>7 DEF Held
  <2> QED BY <1>3, <1>6, <1>7, <2>1 DEF BodyInv
<1>10. OutcomeInv(p)
  BY <1>3, <1>4, <1>6, <1>7, <1>8 DEF OutcomeInv, Early
<1> QED BY <1>5, <1>6, <1>9, <1>10 DEF ResponseInv, Leads

LEMMA CloseInv ==
    ASSUME NEW r \in REQ, ResponseInv(rsp[r]), Close(r)
    PROVE  Leads(r)
<1> DEFINE q == rsp[r]
           e == Empty(q)
           x == [e EXCEPT !.pc = "done", !.header = "none", !.wroteHeader = FALSE,
                          !.bodyAllowed = TRUE]
           p == [x EXCEPT !.metadataBytes = 0, !.finalMetadataReserved = FALSE, !.once = FALSE]
<1>1. q.pc = "closing" /\ q \in Rsp /\ BodyInv(q) /\ OutcomeInv(q)
  BY DEF Close, At, ResponseInv
<1>2. MovedFrom(e, q, NoFile, 0, 0, 0)
  BY <1>1, EmptyMoved
<1>3. e \in Rsp
  BY <1>2 DEF MovedFrom
<1>4. Become(r, [e EXCEPT
           !.pc = "done", !.header = "none", !.wroteHeader = FALSE, !.bodyAllowed = TRUE,
           !.metadataBytes = 0, !.finalMetadataReserved = FALSE, !.once = FALSE])
  BY DEF Close
<1> HIDE DEF q, e
<1>5. [e EXCEPT
           !.pc = "done", !.header = "none", !.wroteHeader = FALSE, !.bodyAllowed = TRUE,
           !.metadataBytes = 0, !.finalMetadataReserved = FALSE, !.once = FALSE] = p
  BY <1>3 DEF Rsp
<1>6. p \in Rsp
  <2>1. x \in Rsp
    BY <1>3 DEF Rsp, PC, HEADER
  <2> HIDE DEF x
  <2> QED BY <2>1 DEF Rsp
<1>7. /\ p.pc = "done" /\ p.chunk = e.chunk /\ p.file = e.file /\ p.mem = e.mem
      /\ p.size = e.size /\ p.reserved = e.reserved /\ p.refused = e.refused
      /\ p.written = e.written /\ p.terminal = e.terminal
  BY <1>3 DEF Rsp
<1>8. /\ p.err = e.err /\ p.leaked = e.leaked /\ p.status = e.status
      /\ p.mutated = e.mutated /\ p.failed = e.failed
      /\ p.sentInformational = e.sentInformational /\ p.informational = e.informational
      /\ p.sent = e.sent /\ p.cut = e.cut
  BY <1>3 DEF Rsp
<1> HIDE DEF p
<1>9. BodyInv(p)
  BY <1>1, <1>2, <1>7 DEF BodyInv, Held, MovedFrom
<1>10. OutcomeInv(p)
  <2>1. e.pc = "closing" /\ OutcomeInv(e)
    BY <1>1, <1>2 DEF MovedFrom
  <2> QED BY <1>7, <1>8, <2>1 DEF OutcomeInv, Early
<1> QED BY <1>4, <1>5, <1>6, <1>9, <1>10 DEF ResponseInv, Leads

-----------------------------------------------------------------------------
(* All together.                                                           *)

Step(r) == Start(r) \/ HandlerStep(r) \/ ProxyStep(r)

LEMMA StepLeads ==
    ASSUME NEW r \in REQ, ResponseInv(rsp[r]), Step(r)
    PROVE  Leads(r)
<1>1. CASE Start(r)
  BY <1>1, IdleInv DEF Start, Leads
<1>2. CASE SetHeader(r)
  BY <1>2, SetHeaderInv DEF SetHeader, At, Leads
<1>3. CASE WriteHeaderFinal(r)
  BY <1>3, WriteHeaderFinalInv DEF WriteHeaderFinal, At, Leads
<1>4. CASE HandlerStep(r)
  BY <1>2, <1>3, <1>4, WriteHeaderInformationalInv, WriteInv, WriteDirectInv, UpgradeInv,
     ReturnInv, PanicInv DEF HandlerStep
<1>5. CASE ProxyStep(r)
  BY <1>5, StoreInMemoryInv, StoreInFileInv, CreateTempFailsInv, SpoolFailsInv, UpgradeCommitInv,
     ConcludeInv, ValidateInv, ProcessInv, CommitInv, FlushInv, CloseInv DEF ProxyStep
<1> QED BY <1>1, <1>4, <1>5 DEF Step

\* A step takes from the budget only what is left of it, and gives back no less
\* than nothing.
LEMMA StepBudget ==
    ASSUME NEW r \in REQ, ResponseInv(rsp[r]), Step(r)
    PROVE  \/ used' = used
           \/ \E n \in Nat : CanReserve(n) /\ used' = used + n
           \/ \E n \in Nat : used' = used - n
<1> DEFINE q == rsp[r]
<1>1. q \in Rsp /\ q.reserved \in Nat /\ q.chunk \in Nat
  BY DEF ResponseInv, Rsp
<1>2. FinalMetadata(q) \in Nat /\ stagedHeaderBytes(q.header) \in Nat
  BY MetadataIsNat
<1>3. CHUNK \subseteq Nat
  BY StagingAssumption
<1>4. CASE Write(r)
  BY <1>3, <1>4 DEF Write, reserve
<1>5. CASE WriteHeaderInformational(r)
  BY <1>2, <1>5 DEF WriteHeaderInformational, MetadataFits, reserve
<1>6. CASE Upgrade(r)
  BY <1>2, <1>6 DEF Upgrade, MetadataFits, reserve
<1>7. CASE Conclude(r)
  BY <1>1, <1>2, <1>7 DEF Conclude, MetadataFits, reserve, release
<1>8. CASE StoreInFile(r)
  <2>1. PICK n \in 0 .. q.chunk : used' = used - (q.chunk - n)
    BY <1>8 DEF StoreInFile, release
  <2>2. q.chunk - n \in Nat
    BY <1>1
  <2> QED BY <2>1, <2>2
<1>9. CASE CreateTempFails(r) \/ SpoolFails(r) \/ Validate(r) \/ Close(r)
  BY <1>1, <1>9 DEF CreateTempFails, SpoolFails, Validate, Close, release
<1>10. CASE UpgradeCommit(r) \/ Process(r)
  <2>1. Discard(q).reserved = q.reserved
    BY <1>1, DiscardFacts DEF Discarded
  <2> QED BY <1>1, <1>10, <2>1 DEF UpgradeCommit, Process, release
<1>11. CASE \/ Start(r) \/ SetHeader(r) \/ WriteHeaderFinal(r) \/ WriteDirect(r) \/ Return(r)
            \/ Panic(r) \/ StoreInMemory(r) \/ Commit(r) \/ Flush(r)
  BY <1>11 DEF Start, SetHeader, WriteHeaderFinal, WriteDirect, Return, Panic, StoreInMemory,
     Commit, Flush
<1> QED BY <1>4, <1>5, <1>6, <1>7, <1>8, <1>9, <1>10, <1>11 DEF Step, HandlerStep, ProxyStep

LEMMA StagingInitInv == StagingInit => StagingInv
BY IdleInv, StagingAssumption DEF StagingInit, StagingInv, ResponseInv

LEMMA StagingNextInv == StagingInv /\ [StagingNext]_stagingVars => StagingInv'
<1> SUFFICES ASSUME StagingInv, [StagingNext]_stagingVars PROVE StagingInv'
  OBVIOUS
<1>1. ASSUME NEW r \in REQ, Step(r) PROVE StagingInv'
  <2>1. ResponseInv(rsp[r]) /\ used \in Int /\ used <= AggregateBytes /\ AggregateBytes \in Nat
    BY StagingAssumption DEF StagingInv
  <2>2. PICK p : Become(r, p) /\ ResponseInv(p)
    BY <1>1, <2>1, StepLeads DEF Leads
  <2>3. rsp' \in [REQ -> Rsp] /\ \A s \in REQ : ResponseInv(rsp'[s])
    BY <2>2 DEF Become, StagingInv, ResponseInv
  <2>4. used' \in Int /\ used' <= AggregateBytes
    BY <1>1, <2>1, StepBudget DEF CanReserve
  <2>5. \A s \in REQ : ResponseInv(rsp[s])'
    BY <2>3 DEF ResponseInv
  <2> QED BY <2>3, <2>4, <2>5 DEF StagingInv
<1>2. CASE UNCHANGED stagingVars
  BY <1>2 DEF stagingVars, StagingInv, ResponseInv
<1> QED BY <1>1, <1>2 DEF StagingNext, Step

LEMMA StagingInvariant == StagingSpec => []StagingInv
BY StagingInitInv, StagingNextInv, PTL DEF StagingSpec

-----------------------------------------------------------------------------
(* The sum of the reservations.                                            *)

\* The sum of the reservations of the responses s, by the recursion that
\* MapThenSumSet unfolds to: one of them, and the sum over the others.
One(s) == CHOOSE x \in s : TRUE
Summed(q, s, f) == IF s = {} THEN 0 ELSE q[One(s)].reserved + f[s \ {One(s)}]
Sums(q, S, f) == f = [s \in SUBSET S |-> Summed(q, s, f)]
Reserved(q, S) == MapThenSumSet(LAMBDA r : q[r].reserved, S)

LEMMA ReservedUnfolds ==
    ASSUME NEW q, NEW S
    PROVE  Reserved(q, S) = (CHOOSE f : Sums(q, S, f))[S]
BY DEF Reserved, MapThenSumSet, MapThenFoldSet, Sums, Summed, One

\* A set of subsets of a finite set that is not empty has a minimal member.
LEMMA MinimalSubset ==
    ASSUME NEW S, IsFiniteSet(S), NEW T, T \subseteq SUBSET S, T # {}
    PROVE  \E x \in T : \A y \in T : ~(y \subseteq x /\ y # x)
<1>1. IsWellFoundedOn(StrictSubsetOrdering(S), SUBSET S)
  BY FS_FiniteSubsetsOfFinite, FS_StrictSubsetOrderingWellFounded
<1>2. PICK x \in T : \A y \in T : ~(<<y, x>> \in StrictSubsetOrdering(S))
  BY <1>1, WFMin
<1> QED BY <1>2 DEF StrictSubsetOrdering

LEMMA OneIsMember ==
    ASSUME NEW s, s # {}
    PROVE  One(s) \in s
BY DEF One

LEMMA SumsStep ==
    ASSUME NEW q, NEW S, NEW f, Sums(q, S, f), NEW s \in SUBSET S
    PROVE  f[s] = Summed(q, s, f)
BY DEF Sums

\* The sum is unique...
LEMMA SumsUnique ==
    ASSUME NEW q, NEW S, IsFiniteSet(S), NEW R \in SUBSET S,
           NEW f, Sums(q, S, f), NEW g, Sums(q, R, g), NEW s \in SUBSET R
    PROVE  f[s] = g[s]
<1> DEFINE T == {t \in SUBSET R : f[t] # g[t]}
<1> SUFFICES ASSUME T # {} PROVE FALSE
  OBVIOUS
<1>1. T \subseteq SUBSET S
  OBVIOUS
<1>2. PICK t \in T : \A u \in T : ~(u \subseteq t /\ u # t)
  <2> HIDE DEF T
  <2> QED BY <1>1, MinimalSubset
<1>3. f[t] = Summed(q, t, f) /\ g[t] = Summed(q, t, g)
  BY SumsStep
<1>4. CASE t = {}
  BY <1>3, <1>4 DEF Summed
<1>5. CASE t # {}
  <2>1. One(t) \in t
    BY <1>5, OneIsMember
  <2>2. f[t \ {One(t)}] = g[t \ {One(t)}]
    BY <1>2, <2>1
  <2> QED BY <1>3, <1>5, <2>2 DEF Summed
<1> QED BY <1>4, <1>5

\* ... and exists.
LEMMA SumsExist ==
    ASSUME NEW q, NEW S, IsFiniteSet(S)
    PROVE  \E f : Sums(q, S, f)
<1> DEFINE T == {t \in SUBSET S : ~\E f : Sums(q, t, f)}
<1> SUFFICES ASSUME T # {} PROVE FALSE
  OBVIOUS
<1>1. PICK t \in T : \A u \in T : ~(u \subseteq t /\ u # t)
  <2>1. T \subseteq SUBSET S
    OBVIOUS
  <2> HIDE DEF T
  <2> QED BY <2>1, MinimalSubset
<1> DEFINE F(u) == CHOOSE f : Sums(q, u, f)
<1>2. ASSUME NEW u \in SUBSET t, u # t PROVE Sums(q, u, F(u)) /\ IsFiniteSet(u)
  <2>1. \E f : Sums(q, u, f)
    BY <1>1, <1>2
  <2> QED BY <2>1, FS_Subset
<1> HIDE DEF F
<1> DEFINE low == [u \in SUBSET t |-> F(u)[u]]
           f == [u \in SUBSET t |-> IF u = t THEN Summed(q, t, low) ELSE F(u)[u]]
<1>3. ASSUME NEW u \in SUBSET t PROVE f[u] = Summed(q, u, f)
  <2>0. u # {} => /\ One(u) \in u
                  /\ u \ {One(u)} \in SUBSET t /\ u \ {One(u)} # t
    BY OneIsMember
  <2>1. CASE u = t
    <3>1. u # {} => f[u \ {One(u)}] = low[u \ {One(u)}]
      BY <2>0
    <3> QED BY <2>1, <3>1 DEF Summed
  <2>2. CASE u # t
    <3>1. f[u] = F(u)[u] /\ Sums(q, u, F(u)) /\ IsFiniteSet(u)
      BY <1>2, <2>2
    <3>2. F(u)[u] = Summed(q, u, F(u))
      BY <3>1, SumsStep
    <3>3. CASE u # {}
      <4> DEFINE v == u \ {One(u)}
      <4>1. v \in SUBSET u /\ v \in SUBSET t /\ v # t /\ u # {}
        BY <2>0, <3>3
      <4>2. Sums(q, v, F(v))
        BY <1>2, <4>1
      <4>3. f[v] = F(v)[v]
        BY <4>1
      <4>4. F(u)[v] = F(v)[v]
        <5> HIDE DEF v
        <5> QED BY <3>1, <4>1, <4>2, SumsUnique
      <4> QED BY <3>1, <3>2, <4>1, <4>3, <4>4 DEF Summed
    <3> QED BY <3>1, <3>2, <3>3 DEF Summed
  <2> QED BY <2>1, <2>2
<1>4. Sums(q, t, f)
  BY <1>3 DEF Sums
<1> QED BY <1>1, <1>4

LEMMA ReservedSums ==
    ASSUME NEW q, NEW S, IsFiniteSet(S)
    PROVE  \E f : Sums(q, S, f) /\ Reserved(q, S) = f[S]
BY SumsExist, ReservedUnfolds

\* A sum of natural numbers is one.
LEMMA SumsNat ==
    ASSUME NEW S, IsFiniteSet(S), NEW q, \A r \in S : q[r].reserved \in Nat,
           NEW f, Sums(q, S, f)
    PROVE  \A s \in SUBSET S : f[s] \in Nat
<1> DEFINE T == {t \in SUBSET S : f[t] \notin Nat}
<1> SUFFICES ASSUME T # {} PROVE FALSE
  OBVIOUS
<1>1. PICK t \in T : \A u \in T : ~(u \subseteq t /\ u # t)
  <2>1. T \subseteq SUBSET S
    OBVIOUS
  <2> HIDE DEF T
  <2> QED BY <2>1, MinimalSubset
<1>2. f[t] = Summed(q, t, f)
  BY SumsStep
<1>3. CASE t = {}
  BY <1>2, <1>3 DEF Summed
<1>4. CASE t # {}
  <2>1. One(t) \in t
    BY <1>4, OneIsMember
  <2>2. f[t \ {One(t)}] \in Nat
    BY <1>1, <2>1
  <2>3. q[One(t)].reserved \in Nat
    BY <2>1
  <2> QED BY <1>2, <1>4, <2>2, <2>3 DEF Summed
<1> QED BY <1>3, <1>4

\* Another reservation of one response changes the sum by the difference.
LEMMA ReservedChanges ==
    ASSUME NEW S, IsFiniteSet(S), NEW r \in S,
           NEW q, \A s \in S : q[s].reserved \in Nat,
           NEW p, \A s \in S : p[s].reserved \in Nat,
           \A s \in S \ {r} : p[s] = q[s]
    PROVE  /\ Reserved(q, S) \in Nat /\ Reserved(p, S) \in Nat
           /\ Reserved(p, S) = Reserved(q, S) + (p[r].reserved - q[r].reserved)
<1>1. PICK f : Sums(q, S, f) /\ Reserved(q, S) = f[S]
  BY ReservedSums
<1>2. PICK g : Sums(p, S, g) /\ Reserved(p, S) = g[S]
  BY ReservedSums
<1>3. \A s \in SUBSET S : f[s] \in Nat
  BY <1>1, SumsNat
<1>4. \A s \in SUBSET S : g[s] \in Nat
  BY <1>2, SumsNat
<1> DEFINE d(s) == IF r \in s THEN p[r].reserved - q[r].reserved ELSE 0
           T == {t \in SUBSET S : g[t] # f[t] + d(t)}
<1>5. ASSUME T # {} PROVE FALSE
  <2>1. PICK t \in T : \A u \in T : ~(u \subseteq t /\ u # t)
    <3>1. T \subseteq SUBSET S
      OBVIOUS
    <3> HIDE DEF T
    <3> QED BY <1>5, <3>1, MinimalSubset
  <2>2. f[t] = Summed(q, t, f) /\ g[t] = Summed(p, t, g)
    BY <1>1, <1>2, SumsStep
  <2>3. CASE t = {}
    BY <2>2, <2>3 DEF Summed
  <2>4. CASE t # {}
    <3> DEFINE x == One(t)
               u == t \ {x}
    <3>1. x \in t /\ x \in S /\ u \in SUBSET S
      BY <2>4, OneIsMember
    <3>2. g[u] = f[u] + d(u)
      BY <2>1, <3>1
    <3>3. f[u] \in Nat /\ g[u] \in Nat /\ q[x].reserved \in Nat /\ p[x].reserved \in Nat
      BY <1>3, <1>4, <3>1
    <3>4. f[t] = q[x].reserved + f[u] /\ g[t] = p[x].reserved + g[u]
      BY <2>2, <2>4 DEF Summed
    <3>5. CASE x = r
      <4>1. r \notin u /\ r \in t
        BY <3>1, <3>5
      <4> HIDE DEF u, x
      <4>2. g[t] = f[t] + (p[x].reserved - q[x].reserved)
        BY <3>2, <3>3, <3>4, <4>1
      <4> QED BY <2>1, <3>5, <4>1, <4>2
    <3>6. CASE x # r
      <4>1. (r \in u <=> r \in t) /\ p[x] = q[x]
        BY <3>1, <3>6
      <4>2. d(u) = d(t) /\ d(t) \in Int
        <5>1. p[r].reserved \in Nat /\ q[r].reserved \in Nat
          OBVIOUS
        <5> QED BY <4>1, <5>1
      <4> HIDE DEF u, x, d
      <4>3. g[t] = f[t] + d(t)
        BY <3>2, <3>3, <3>4, <4>1, <4>2
      <4> QED BY <2>1, <4>3
    <3> QED BY <3>5, <3>6
  <2> QED BY <2>3, <2>4
<1>6. g[S] = f[S] + d(S)
  BY <1>5
<1> QED BY <1>1, <1>2, <1>3, <1>4, <1>6

\* Nothing reserved sums up to nothing.
LEMMA ReservedNothing ==
    ASSUME NEW S, IsFiniteSet(S), NEW q, \A r \in S : q[r].reserved = 0
    PROVE  Reserved(q, S) = 0
<1>1. PICK f : Sums(q, S, f) /\ Reserved(q, S) = f[S]
  BY ReservedSums
<1> DEFINE T == {t \in SUBSET S : f[t] # 0}
<1> SUFFICES ASSUME T # {} PROVE FALSE
  BY <1>1
<1>2. PICK t \in T : \A u \in T : ~(u \subseteq t /\ u # t)
  <2>1. T \subseteq SUBSET S
    OBVIOUS
  <2> HIDE DEF T
  <2> QED BY <2>1, MinimalSubset
<1>3. f[t] = Summed(q, t, f)
  BY <1>1, SumsStep
<1>4. CASE t = {}
  BY <1>3, <1>4 DEF Summed
<1>5. CASE t # {}
  <2>1. One(t) \in t
    BY <1>5, OneIsMember
  <2>2. f[t \ {One(t)}] = 0
    BY <1>2, <2>1
  <2>3. q[One(t)].reserved = 0
    BY <2>1
  <2> QED BY <1>3, <1>5, <2>2, <2>3 DEF Summed
<1> QED BY <1>4, <1>5

-----------------------------------------------------------------------------
(* The budget follows the reservations.                                    *)

Freed(q) == q.pc \in {"idle", "done"} => q.reserved = 0

\* The budget changes by what the step of response r does to its reservation,
\* and a response that is over has none left.
Accounted(r) ==
    \E p : /\ Become(r, p)
           /\ used' = used + (p.reserved - rsp[r].reserved)
           /\ Freed(p)

\* A successor that keeps the reservation, or gives it back.
LEMMA Keeps ==
    ASSUME NEW r \in REQ, rsp[r].reserved \in Nat, used \in Int, NEW p, Become(r, p),
           p.pc \notin {"idle", "done"}, p.reserved = rsp[r].reserved, UNCHANGED used
    PROVE  Accounted(r)
BY DEF Accounted, Freed

LEMMA GivesBack ==
    ASSUME NEW r \in REQ, rsp[r].reserved \in Nat, used \in Int, NEW p, Become(r, p),
           p.reserved = 0, release(rsp[r].reserved)
    PROVE  Accounted(r)
BY DEF Accounted, Freed, release

LEMMA RefuseKeeps ==
    ASSUME NEW q \in Rsp
    PROVE  Refuse(q).pc = "backend" /\ Refuse(q).reserved = q.reserved
BY DEF Refuse, Rsp

LEMMA StoredKeeps ==
    ASSUME NEW q \in Rsp
    PROVE  Stored(q).pc = "backend" /\ Stored(q).reserved = q.reserved
BY DEF Stored, Rsp

LEMMA GiveUpFrees ==
    ASSUME NEW q \in Rsp, NEW st
    PROVE  GiveUp(q, st).reserved = 0
<1> DEFINE e == Empty(Discard(q))
           t == IF e.status = None THEN st ELSE e.status
<1>1. GiveUp(q, st) = [e EXCEPT !.pc = "closing", !.status = t]
  BY DEF GiveUp
<1>2. Discard(q) \in Rsp
  BY DiscardFacts DEF Discarded
<1>3. e \in Rsp /\ e.reserved = 0
  BY <1>2, EmptyMoved DEF MovedFrom
<1> HIDE DEF e, t
<1> QED BY <1>1, <1>3 DEF Rsp

LEMMA FinalMetadataReserves ==
    ASSUME NEW q, ResponseInv(q), q.pc \in {"backend", "returned"}
    PROVE  LET p == WithFinalMetadata(q)
           IN  p \in Rsp /\ p.pc = q.pc /\ p.reserved = q.reserved + FinalMetadata(q)
<1>1. WithFinalMetadata(q) \in Rsp /\ WithFinalMetadata(q).pc = q.pc
  BY FinalMetadataInv DEF ResponseInv
<1> DEFINE n == FinalMetadata(q)
           i == q.reserved + n
           j == q.metadataBytes + n
<1>2. WithFinalMetadata(q) =
        [q EXCEPT !.reserved = i, !.metadataBytes = j, !.finalMetadataReserved = TRUE]
  BY DEF WithFinalMetadata, WithMetadata
<1>3. q \in Rsp
  BY DEF ResponseInv
<1> HIDE DEF i, j
<1>4. [q EXCEPT !.reserved = i, !.metadataBytes = j, !.finalMetadataReserved = TRUE].reserved = i
  BY <1>3 DEF Rsp
<1> QED BY <1>1, <1>2, <1>4 DEF i

LEMMA StepAccounted ==
    ASSUME NEW r \in REQ, ResponseInv(rsp[r]), Freed(rsp[r]), used \in Int, Step(r)
    PROVE  Accounted(r)
<1> DEFINE q == rsp[r]
<1>0. q \in Rsp /\ q.reserved \in Nat /\ q.chunk \in Nat /\ q.metadataBytes \in Nat
  BY DEF ResponseInv, Rsp
<1>1. FinalMetadata(q) \in Nat /\ stagedHeaderBytes(q.header) \in Nat
  BY MetadataIsNat
<1>3. CASE Start(r)
  <2> DEFINE p == [IdleResponse EXCEPT !.pc = "backend"]
  <2>1. p.pc = "backend" /\ p.reserved = 0 /\ Become(r, p) /\ UNCHANGED used
    BY <1>3 DEF Start, IdleResponse
  <2>2. q.reserved = 0
    BY <1>3 DEF Start, At, Freed
  <2> HIDE DEF p
  <2> QED BY <1>0, <2>1, <2>2 DEF Accounted, Freed
<1>4. CASE SetHeader(r) \/ WriteHeaderFinal(r) \/ WriteDirect(r) \/ Return(r) \/ Panic(r)
  BY <1>0, <1>4, Keeps DEF SetHeader, WriteHeaderFinal, WriteDirect, Return, Panic, At, Rsp
<1>5. CASE WriteHeaderInformational(r)
  <2> DEFINE n == stagedHeaderBytes(q.header)
             w == [WithMetadata(q, n) EXCEPT !.informational = Append(@, q.header)]
  <2>1. q.pc = "backend" /\ \/ Become(r, w) /\ reserve(n)
                            \/ Become(r, Refuse(q)) /\ UNCHANGED used
    BY <1>5 DEF WriteHeaderInformational, At
  <2>2. w.reserved = q.reserved + n /\ w.pc = q.pc
    BY <1>0 DEF WithMetadata, Rsp
  <2> HIDE DEF w, n
  <2>3. n \in Nat
    BY <1>1 DEF n
  <2> QED BY <1>0, <2>1, <2>2, <2>3, RefuseKeeps, Keeps DEF Accounted, Freed, reserve
<1>6. CASE Write(r)
  <2> DEFINE i == ImplicitHeader(q)
  <2>1. i \in Rsp /\ i.reserved = q.reserved
    BY <1>0 DEF ImplicitHeader, Rsp
  <2>2. PICK n \in CHUNK :
          \/ Become(r, [i EXCEPT !.pc = "storing", !.chunk = n, !.reserved = @ + n]) /\ reserve(n)
          \/ Become(r, Refuse(i)) /\ UNCHANGED used
    BY <1>6 DEF Write
  <2> DEFINE p == [i EXCEPT !.pc = "storing", !.chunk = n, !.reserved = @ + n]
  <2>3. n \in Nat /\ p.reserved = q.reserved + n /\ p.pc = "storing"
    BY <1>0, <2>1, StagingAssumption DEF Rsp
  <2>4. \/ Become(r, p) /\ reserve(n)
        \/ Become(r, Refuse(i)) /\ UNCHANGED used
    BY <2>2
  <2> HIDE DEF p, i
  <2> QED BY <1>0, <2>1, <2>3, <2>4, RefuseKeeps, Keeps DEF Accounted, Freed, reserve
<1>7. CASE Upgrade(r)
  <2> DEFINE n == FinalMetadata(q)
             p == WithFinalMetadata(q)
  <2>1. \/ Become(r, p) /\ reserve(n)
        \/ \E u \in {p, ImplicitHeader(p)} : Become(r, [u EXCEPT !.pc = "upgrading"]) /\ reserve(n)
        \/ Become(r, Refuse(q)) /\ UNCHANGED used
    BY <1>7 DEF Upgrade
  <2>2. p.reserved = q.reserved + n /\ p.pc = q.pc /\ q.pc = "backend" /\ p \in Rsp
    <3>1. q.pc = "backend"
      BY <1>7 DEF Upgrade, At
    <3> QED BY <3>1, FinalMetadataReserves
  <2>3. n \in Nat
    BY <1>1
  <2> HIDE DEF n, p
  <2>4. \A u \in {p, ImplicitHeader(p)} :
           [u EXCEPT !.pc = "upgrading"].reserved = p.reserved /\ [u EXCEPT !.pc = "upgrading"].pc = "upgrading"
    BY <2>2 DEF ImplicitHeader, Rsp
  <2>5. ASSUME NEW v, Become(r, v), reserve(n), v.reserved = p.reserved, v.pc \in {"backend", "upgrading"}
        PROVE  Accounted(r)
    BY <1>0, <2>2, <2>3, <2>5 DEF Accounted, Freed, reserve
  <2>6. CASE Become(r, Refuse(q)) /\ UNCHANGED used
    BY <1>0, <2>6, RefuseKeeps, Keeps
  <2> QED BY <2>1, <2>2, <2>4, <2>5, <2>6
<1>8. CASE StoreInMemory(r)
  <2> DEFINE m == q.mem + q.chunk
             p == [q EXCEPT !.mem = m]
  <2>2. Become(r, Stored(p)) /\ UNCHANGED used /\ m \in Nat
    BY <1>0, <1>8 DEF StoreInMemory, Rsp
  <2> HIDE DEF m
  <2>1. p \in Rsp /\ p.reserved = q.reserved
    BY <1>0, <2>2 DEF Rsp
  <2> HIDE DEF p
  <2> QED BY <1>0, <2>1, <2>2, StoredKeeps, Keeps
<1>9. CASE StoreInFile(r)
  <2>1. PICK n \in 0 .. q.chunk :
          LET p == [q EXCEPT !.file = Spooled(q) + n, !.mem = 0, !.reserved = @ - (q.chunk - n)]
          IN  /\ Become(r, IF n = q.chunk THEN Stored(p) ELSE Refuse([p EXCEPT !.size = @ + n]))
              /\ release(q.chunk - n)
    BY <1>9 DEF StoreInFile
  <2> DEFINE f == Spooled(q) + n
             i == q.reserved - (q.chunk - n)
             p == [q EXCEPT !.file = f, !.mem = 0, !.reserved = i]
             s == [p EXCEPT !.size = @ + n]
  <2>2. i \in Nat /\ f \in Nat /\ n \in Nat /\ i = q.reserved - (q.chunk - n)
    <3>1. At(r, "storing")
      BY <1>9 DEF StoreInFile
    <3>2. Spooled(q) \in Nat /\ q.chunk <= q.reserved
      <4>1. Held(q) + q.chunk <= q.reserved /\ Held(q) \in Nat /\ Held(q) = Spooled(q)
        BY <1>0 DEF ResponseInv, BodyInv, Held, Spooled, Rsp, NoFile
      <4> QED BY <1>0, <4>1
    <3> QED BY <1>0, <3>2
  <2>3. (Become(r, Stored(p)) \/ Become(r, Refuse(s))) /\ release(q.chunk - n)
    BY <2>1
  <2> HIDE DEF f, i
  <2>4. p \in Rsp /\ s \in Rsp /\ p.reserved = i /\ s.reserved = i
    <3>1. q.size \in Nat /\ 0 \in Nat /\ f \in Nat \union {NoFile}
      BY <1>0, <2>2 DEF Rsp
    <3>2. p = Moved(q, f, 0, i, q.size)
      BY <1>0 DEF Moved, Rsp
    <3> HIDE DEF p
    <3>4. i \in Nat
      BY <2>2
    <3>5. MovedFrom(p, q, f, 0, i, q.size)
      BY <1>0, <3>1, <3>2, <3>4, BodyMoved
    <3>3. p \in Rsp /\ p.reserved = i
      BY <3>5 DEF MovedFrom
    <3>6. \A j \in Nat : [p EXCEPT !.size = j] \in Rsp /\ [p EXCEPT !.size = j].reserved = i
      BY <3>3 DEF Rsp
    <3>7. p.size + n \in Nat
      BY <2>2, <3>3 DEF Rsp
    <3> QED BY <3>3, <3>6, <3>7
  <2> HIDE DEF p, s
  <2>5. PICK u : Become(r, u) /\ u.reserved = i /\ u.pc = "backend"
    BY <2>3, <2>4, StoredKeeps, RefuseKeeps
  <2>6. used' = used + (i - q.reserved)
    BY <1>0, <2>2, <2>3 DEF release
  <2> QED BY <2>5, <2>6 DEF Accounted, Freed
<1>10. CASE CreateTempFails(r)
  <2> DEFINE i == q.reserved - q.chunk
             p == [q EXCEPT !.reserved = i]
  <2>1. i \in Nat
    <3>1. Held(q) + q.chunk <= q.reserved /\ Held(q) \in Nat
      BY <1>0 DEF ResponseInv, BodyInv, Held, Rsp, NoFile
    <3> QED BY <1>0, <3>1
  <2>2. Become(r, Refuse(p)) /\ release(q.chunk)
    BY <1>10 DEF CreateTempFails
  <2>3. p \in Rsp /\ p.reserved = i
    BY <1>0, <2>1 DEF Rsp
  <2>4. used' = used + (i - q.reserved)
    BY <1>0, <2>2 DEF release
  <2> HIDE DEF p, i
  <2> QED BY <2>2, <2>3, <2>4, RefuseKeeps DEF Accounted, Freed
<1>11. CASE SpoolFails(r)
  <2> DEFINE e == Empty(q)
  <2>1. e \in Rsp /\ e.reserved = 0
    BY <1>0, EmptyMoved DEF MovedFrom
  <2>2. Become(r, Refuse(e)) /\ release(q.reserved)
    BY <1>11 DEF SpoolFails
  <2> HIDE DEF e
  <2> QED BY <1>0, <2>1, <2>2, RefuseKeeps, GivesBack
<1>12. CASE UpgradeCommit(r)
  <2> DEFINE d == Discard(q)
             e == Empty(d)
  <2>1. Discarded(d, q)
    BY <1>0, DiscardFacts
  <2>2. e \in Rsp /\ e.reserved = 0 /\ d.reserved = q.reserved
    BY <2>1, EmptyMoved DEF MovedFrom, Discarded
  <2>3. release(q.reserved)
    BY <1>12, <2>2 DEF UpgradeCommit
  <2> DEFINE st == IF d.wroteHeader THEN "backend" ELSE None
             ln == Len(SentInformational(d))
             lk == Leaks(d)
             p == [e EXCEPT !.pc = "backend", !.terminal = TRUE, !.sentInformational = ln,
                            !.leaked = lk, !.status = st, !.informational = <<>>,
                            !.header = "none", !.metadataBytes = 0]
  <2>4. Become(r, p)
    BY <1>12 DEF UpgradeCommit
  <2> HIDE DEF e, d, st, ln, lk
  <2>5. p.reserved = 0
    BY <2>2 DEF Rsp
  <2> HIDE DEF p
  <2> QED BY <1>0, <2>3, <2>4, <2>5, GivesBack
<1>13. CASE Conclude(r)
  <2> DEFINE n == FinalMetadata(q)
             w == WithFinalMetadata(q)
             m == IF q.terminal THEN "closing" ELSE "validating"
             p == [w EXCEPT !.pc = m]
             t == [q EXCEPT !.refused = TRUE]
  <2>1. \/ Become(r, GiveUp(q, "badgateway")) /\ release(q.reserved)
        \/ Become(r, GiveUp(q, "error")) /\ release(q.reserved)
        \/ Become(r, GiveUp(t, "badgateway")) /\ release(q.reserved)
        \/ Become(r, p) /\ reserve(n)
    BY <1>13 DEF Conclude
  <2>2. t \in Rsp
    BY <1>0 DEF Rsp
  <2>3. w.reserved = q.reserved + n /\ w \in Rsp
    <3>1. q.pc = "returned"
      BY <1>13 DEF Conclude, At
    <3> QED BY <3>1, FinalMetadataReserves
  <2>4. n \in Nat /\ m \notin {"idle", "done"}
    BY <1>1
  <2> HIDE DEF n, w, m, t
  <2>5. p.reserved = q.reserved + n /\ p.pc = m
    BY <2>3 DEF Rsp
  <2> HIDE DEF p
  <2>6. CASE Become(r, p) /\ reserve(n)
    BY <1>0, <2>4, <2>5, <2>6 DEF Accounted, Freed, reserve
  <2> QED BY <1>0, <2>1, <2>2, <2>6, GiveUpFrees, GivesBack
<1>14. CASE Validate(r)
  <2>1. \/ Become(r, [q EXCEPT !.pc = "processing"]) /\ UNCHANGED used
        \/ Become(r, GiveUp(q, "badgateway")) /\ release(q.reserved)
    BY <1>14 DEF Validate
  <2>2. [q EXCEPT !.pc = "processing"].reserved = q.reserved
    BY <1>0 DEF Rsp
  <2>3. [q EXCEPT !.pc = "processing"].pc = "processing"
    BY <1>0 DEF Rsp
  <2> QED BY <1>0, <2>1, <2>2, <2>3, GiveUpFrees, GivesBack, Keeps
<1>15. CASE Process(r)
  <2> DEFINE d == Discard(q)
  <2>1. d \in Rsp /\ d.reserved = q.reserved
    BY <1>0, DiscardFacts DEF Discarded
  <2>2. PICK ok \in BOOLEAN :
            LET p == [d EXCEPT !.mutated = ok] IN
            \/ Become(r, [p EXCEPT !.pc = "committing"]) /\ UNCHANGED used
            \/ Become(r, GiveUp([p EXCEPT !.failed = TRUE], "badgateway")) /\ release(d.reserved)
    BY <1>15 DEF Process
  <2> HIDE DEF d
  <2> DEFINE m == [d EXCEPT !.mutated = ok]
             p == [m EXCEPT !.pc = "committing"]
             f == [m EXCEPT !.failed = TRUE]
  <2>3. p.reserved = q.reserved /\ p.pc = "committing" /\ f \in Rsp /\ f.reserved = q.reserved
    BY <2>1 DEF Rsp
  <2>4. \/ Become(r, p) /\ UNCHANGED used
        \/ Become(r, GiveUp(f, "badgateway")) /\ release(q.reserved)
    BY <2>1, <2>2
  <2> HIDE DEF p, f
  <2> QED BY <1>0, <2>3, <2>4, GiveUpFrees, GivesBack, Keeps
<1>16. CASE Commit(r)
  <2> DEFINE m == IF q.wroteHeader /\ q.size > 0 THEN "flushing" ELSE "closing"
             ln == Len(SentInformational(q))
             lk == Leaks(q)
             p == [q EXCEPT !.pc = m, !.sentInformational = ln, !.leaked = lk, !.status = "backend"]
  <2>1. Become(r, p) /\ UNCHANGED used /\ m \notin {"idle", "done"}
    BY <1>16 DEF Commit
  <2> HIDE DEF m, ln, lk
  <2>2. p.reserved = q.reserved /\ p.pc = m
    BY <1>0 DEF Rsp
  <2> HIDE DEF p
  <2> QED BY <1>0, <2>1, <2>2, Keeps
<1>17. CASE Flush(r)
  <2>1. PICK n \in 0 .. Staged(r) :
           Become(r, [q EXCEPT !.pc = "closing", !.sent = n, !.cut = n < Staged(r)])
    BY <1>17 DEF Flush
  <2> DEFINE c == n < Staged(r)
             p == [q EXCEPT !.pc = "closing", !.sent = n, !.cut = c]
  <2>2. Become(r, p) /\ UNCHANGED used
    BY <1>17, <2>1 DEF Flush
  <2> HIDE DEF c
  <2>3. p.reserved = q.reserved /\ p.pc = "closing"
    BY <1>0 DEF Rsp
  <2> HIDE DEF p
  <2> QED BY <1>0, <2>2, <2>3, Keeps
<1>18. CASE Close(r)
  <2> DEFINE e == Empty(q)
             p == [e EXCEPT !.pc = "done", !.header = "none", !.wroteHeader = FALSE,
                            !.bodyAllowed = TRUE, !.metadataBytes = 0,
                            !.finalMetadataReserved = FALSE, !.once = FALSE]
  <2>1. e \in Rsp /\ e.reserved = 0
    BY <1>0, EmptyMoved DEF MovedFrom
  <2>2. Become(r, p) /\ release(q.reserved)
    BY <1>18 DEF Close
  <2> HIDE DEF e
  <2>3. p.reserved = 0
    BY <2>1 DEF Rsp
  <2> HIDE DEF p
  <2> QED BY <1>0, <2>2, <2>3, GivesBack
<1> QED BY <1>3, <1>4, <1>5, <1>6, <1>7, <1>8, <1>9, <1>10, <1>11, <1>12, <1>13, <1>14, <1>15,
           <1>16, <1>17, <1>18 DEF Step, HandlerStep, ProxyStep

-----------------------------------------------------------------------------
Exactly == used = Reserved(rsp, REQ) /\ \A r \in REQ : Freed(rsp[r])

StagingExactInv == StagingInv /\ Exactly

LEMMA StagingInitExact == StagingInit => StagingExactInv
<1> SUFFICES ASSUME StagingInit PROVE Exactly
  BY StagingInitInv DEF StagingExactInv
<1>1. \A r \in REQ : rsp[r].reserved = 0
  BY DEF StagingInit, IdleResponse
<1>2. Reserved(rsp, REQ) = 0
  BY <1>1, ReservedNothing, StagingAssumption
<1> QED BY <1>1, <1>2 DEF StagingInit, Exactly, Freed

LEMMA StagingNextExact == StagingExactInv /\ [StagingNext]_stagingVars => StagingExactInv'
<1> SUFFICES ASSUME StagingExactInv, [StagingNext]_stagingVars PROVE Exactly'
  BY StagingNextInv DEF StagingExactInv
<1>1. StagingInv /\ StagingInv' /\ Exactly
  BY StagingNextInv DEF StagingExactInv
<1>2. ASSUME NEW r \in REQ, Step(r) PROVE Exactly'
  <2>1. ResponseInv(rsp[r]) /\ Freed(rsp[r]) /\ used \in Int
    BY <1>1 DEF StagingInv, Exactly
  <2>2. PICK p : /\ Become(r, p)
                 /\ used' = used + (p.reserved - rsp[r].reserved)
                 /\ Freed(p)
    BY <1>2, <2>1, StepAccounted DEF Accounted
  <2>3. rsp \in [REQ -> Rsp] /\ rsp' \in [REQ -> Rsp]
    BY <1>1 DEF StagingInv
  <2>4. rsp'[r] = p /\ \A s \in REQ \ {r} : rsp'[s] = rsp[s]
    BY <2>2, <2>3 DEF Become
  <2>5. (\A s \in REQ : rsp[s].reserved \in Nat) /\ (\A s \in REQ : rsp'[s].reserved \in Nat)
    BY <2>3 DEF Rsp
  <2>6. Reserved(rsp', REQ) = Reserved(rsp, REQ) + (rsp'[r].reserved - rsp[r].reserved)
    BY <2>4, <2>5, ReservedChanges, StagingAssumption
  <2>7. used' = Reserved(rsp', REQ)
    BY <1>1, <2>2, <2>4, <2>6 DEF Exactly
  <2>8. \A s \in REQ : Freed(rsp'[s])
    BY <1>1, <2>2, <2>4 DEF Exactly
  <2> QED BY <2>7, <2>8 DEF Exactly, Freed
<1>3. CASE UNCHANGED stagingVars
  BY <1>1, <1>3 DEF stagingVars, Exactly, Freed
<1> QED BY <1>2, <1>3 DEF StagingNext, Step

LEMMA StagingExact == StagingSpec => []StagingExactInv
BY StagingInitExact, StagingNextExact, PTL DEF StagingSpec

\* The budget is the sum of what the responses in flight have reserved, within
\* the limit, and a response that is over has given back all of it
\* (stagedResponseBudget, stagedBody.Close).
THEOREM StagingBudgetExact == StagingSpec => []BudgetExact
<1>1. StagingExactInv => BudgetExact
  BY DEF StagingExactInv, StagingInv, Exactly, Freed, Reserved, BudgetExact
<1> QED BY <1>1, StagingExact, PTL

\* The state keeps its type; the budget is never negative, for it is a sum.
THEOREM StagingTypeCorrect == StagingSpec => []StagingTypeOK
<1>1. StagingExactInv => StagingTypeOK
  <2> SUFFICES ASSUME StagingExactInv PROVE StagingTypeOK
    OBVIOUS
  <2>1. rsp \in [REQ -> Rsp] /\ used = Reserved(rsp, REQ)
    BY DEF StagingExactInv, StagingInv, Exactly
  <2>2. \A s \in REQ : rsp[s].reserved \in Nat
    BY <2>1 DEF Rsp
  <2>3. PICK f : Sums(rsp, REQ, f) /\ Reserved(rsp, REQ) = f[REQ]
    BY ReservedSums, StagingAssumption
  <2>4. f[REQ] \in Nat
    BY <2>2, <2>3, SumsNat, StagingAssumption
  <2> QED BY <2>1, <2>3, <2>4 DEF StagingTypeOK
<1> QED BY <1>1, StagingExact, PTL

\* A response holds no more than it has reserved, and exactly that as long as
\* no write has failed.
THEOREM StagingStagedIsReserved == StagingSpec => []StagedIsReserved
<1>1. StagingInv => StagedIsReserved
  <2> SUFFICES ASSUME StagingInv, NEW r \in REQ
               PROVE  LET q == rsp[r] IN
                      /\ Staged(r) + q.chunk <= q.reserved
                      /\ ~q.writeErr /\ q.pc \notin {"closing", "done"} =>
                            q.reserved = q.size + q.chunk + q.metadataBytes
    BY DEF StagedIsReserved
  <2>1. ResponseInv(rsp[r]) /\ BodyInv(rsp[r])
    BY DEF StagingInv, ResponseInv
  <2>2. Staged(r) = Held(rsp[r])
    BY <2>1, StagedIsHeld
  <2> QED BY <2>1, <2>2 DEF BodyInv
<1> QED BY <1>1, StagingInvariant, PTL

\* Once a limit was exceeded or a write failed the client gets 502 and nothing
\* else, and the session is not changed.
THEOREM StagingRefusedGivesNothing == StagingSpec => []RefusedGivesNothing
<1>1. StagingInv => RefusedGivesNothing
  BY DEF StagingInv, ResponseInv, OutcomeInv, RefusedGivesNothing
<1> QED BY <1>1, StagingInvariant, PTL

\* A response the client gets is whole.
THEOREM StagingSentWhole == StagingSpec => []SentWhole
<1>1. StagingInv => SentWhole
  BY DEF StagingInv, ResponseInv, OutcomeInv, SentWhole
<1> QED BY <1>1, StagingInvariant, PTL

\* Nothing but the processing itself can fail once the session may have changed.
THEOREM StagingNoFailureAfterProcessing == StagingSpec => []NoFailureAfterProcessing
<1>1. StagingInv => NoFailureAfterProcessing
  <2> SUFFICES ASSUME StagingInv, NEW r \in REQ, rsp[r].mutated
               PROVE  LET q == rsp[r] IN
                      /\ ~q.terminal /\ ~q.err /\ ~q.refused
                      /\ q.pc = "committing" =>
                            q.status = None /\ q.sent = 0 /\ q.sentInformational = 0
                      /\ q.pc # "committing" =>
                            q.status = IF q.failed THEN "badgateway" ELSE "backend"
                      /\ q.failed => q.sent = 0 /\ q.sentInformational = 0
    BY DEF NoFailureAfterProcessing
  <2> DEFINE q == rsp[r]
  <2>1. q \in Rsp /\ BodyInv(q) /\ OutcomeInv(q) /\ q.mutated
    BY DEF StagingInv, ResponseInv
  <2> HIDE DEF q
  <2>2. q.pc \in {"committing", "flushing", "closing", "done"} /\ ~q.terminal
    BY <2>1 DEF OutcomeInv, Early, Rsp, PC
  <2>3. q.pc \in {"committing", "flushing"} =>
            /\ ~q.err /\ ~q.refused /\ ~q.failed
            /\ q.pc = "committing" => q.status = None /\ q.sent = 0 /\ q.sentInformational = 0
            /\ q.pc = "flushing" => q.status = "backend"
    BY <2>1 DEF OutcomeInv, BodyInv
  <2>4. q.pc \in {"closing", "done"} =>
            /\ ~q.err /\ ~q.refused
            /\ q.status = IF q.failed THEN "badgateway" ELSE "backend"
            /\ q.failed => q.sent = 0 /\ q.sentInformational = 0
    BY <2>1, <2>2 DEF OutcomeInv
  <2> QED BY <2>2, <2>3, <2>4 DEF q
<1> QED BY <1>1, StagingInvariant, PTL

\* No header entry the proxy manages reaches the client from the handler.
THEOREM StagingNothingManagedSent == StagingSpec => []NothingManagedSent
<1>1. StagingInv => NothingManagedSent
  BY DEF StagingInv, ResponseInv, OutcomeInv, NothingManagedSent
<1> QED BY <1>1, StagingInvariant, PTL
=============================================================================
