--------------------------- MODULE StagedResponse ---------------------------
(***************************************************************************)
(* Response staging: the interceptor, the staged body and the aggregate    *)
(* budget of session_store.go.  A response of the downstream handler is    *)
(* held back, in memory or in a spool file, until its outcome is known;    *)
(* only then is the session changed and the response sent.  An upgrade     *)
(* (HTTP/1 hijack, or a flush of an extended CONNECT) ends the staging of  *)
(* its response at once.                                                   *)
(*                                                                         *)
(* The responses in flight share nothing but the budget, so a step is one  *)
(* reservation or release, or a stretch of code without any.  A header is  *)
(* abstracted to whether it holds entries the proxy manages (Set-Cookie,   *)
(* the control headers, trailers announcing them); what the session change *)
(* does to the store is module Proxy.  The downstream handler is any       *)
(* handler that attempts no second upgrade once one has been sent.         *)
(***************************************************************************)
EXTENDS Integers, Sequences, FiniteSetsExt

CONSTANTS
    REQ,               \* the requests, each served once
    CHUNK,             \* lengths of the handler's Write calls
    MemoryLimit,       \* stagedResponseMemoryLimit
    MaxBytes,          \* stagedResponseMaxBytes
    AggregateBytes,    \* stagedResponseAggregateBytes
    MaxInformational,  \* stagedResponseMaxInformational
    MaxMetadataBytes,  \* stagedResponseMaxMetadataBytes
    Allowance,         \* generatedMetadataAllowance: room for the proxy cookie
    None               \* nothing on the wire yet

ASSUME StagingAssumption ==
    /\ IsFiniteSet(REQ) /\ CHUNK \subseteq Nat \ {0}
    /\ MemoryLimit \in Nat /\ MaxBytes \in Nat /\ AggregateBytes \in Nat
    /\ MaxInformational \in Nat /\ MaxMetadataBytes \in Nat /\ Allowance \in Nat
    /\ None \notin {"backend", "badgateway", "error", "aborted"}

VARIABLES
    rsp,   \* REQ -> the response: interceptor, staged body, and what the client has got
    used   \* stagedResponseBudget.used

stagingVars == <<rsp, used>>

\* What a response header holds: nothing, entries meant for the client, or also
\* entries the proxy manages.
HEADER == {"none", "plain", "managed"}

stagedHeaderBytes(h) == IF h = "none" THEN 0 ELSE 1

\* The body is in memory (file = NoFile) or in the spool file.
NoFile == -1

Staged(r) == rsp[r].mem + (IF rsp[r].file = NoFile THEN 0 ELSE rsp[r].file)

IdleResponse ==
    [pc |-> "idle", header |-> "none", wroteHeader |-> FALSE, bodyAllowed |-> TRUE,
     informational |-> <<>>, mem |-> 0, file |-> NoFile, size |-> 0, chunk |-> 0,
     reserved |-> 0, metadataBytes |-> 0, finalMetadataReserved |-> FALSE,
     writeErr |-> FALSE, terminal |-> FALSE, once |-> FALSE, err |-> FALSE,
     failed |-> FALSE,
     \* what the client has got
     status |-> None, sentInformational |-> 0, sent |-> 0, leaked |-> FALSE,
     \* history: bytes the handler wrote (until a write is refused), a limit or
     \* spool error met, the session changed (perhaps only in part, perhaps under a
     \* reported error), the sending of the body broken off
     written |-> 0, refused |-> FALSE, mutated |-> FALSE, cut |-> FALSE]

StagingInit ==
    /\ rsp = [r \in REQ |-> IdleResponse]
    /\ used = 0

At(r, pc) == rsp[r].pc = pc
Become(r, q) == rsp' = [rsp EXCEPT ![r] = q]

-----------------------------------------------------------------------------
(* The budget.                                                             *)

\* Mutant: the reservation compares with the limit alone.
CanReserveAlone(n) == n <= AggregateBytes

CanReserve(n) == n <= AggregateBytes - used

reserve(n) == used' = used + n
release(n) == used' = used - n

-----------------------------------------------------------------------------
(* Successors of a response record.                                        *)

\* The first error of a write sticks.
Refuse(q) ==
    [q EXCEPT !.pc = "backend", !.chunk = 0, !.writeErr = TRUE, !.refused = TRUE, !.written = 0]

\* The bytes of the chunk are stored.
Stored(q) ==
    [q EXCEPT !.pc = "backend", !.chunk = 0, !.size = @ + q.chunk,
              !.written = IF q.refused THEN 0 ELSE @ + q.chunk]

\* Mutant: the bytes of a reset body stay reserved.
EmptyReserved(q) == [q EXCEPT !.mem = 0, !.file = NoFile, !.size = 0]

\* stagedBody.Reset and Close, which also release the whole reservation.
Empty(q) == [q EXCEPT !.mem = 0, !.file = NoFile, !.size = 0, !.reserved = 0]

\* An implicit 200 precedes the first byte.
ImplicitHeader(q) == [q EXCEPT !.wroteHeader = TRUE]

\* scrubManagedResponseHeader, and what processing leaves of the final header.
Scrubbed(h) == IF h = "managed" THEN "plain" ELSE h

\* Mutant: the staged informational responses are sent as they are.
InformationalAsIs(q) == q.informational

\* commitInformational: every staged 1xx is scrubbed as it is sent.
SentInformational(q) == [i \in DOMAIN q.informational |-> Scrubbed(q.informational[i])]

\* A managed entry is among what goes out now: the 1xx responses and the header.
Leaks(q) ==
    q.header = "managed" \/ \E i \in DOMAIN q.informational : SentInformational(q)[i] = "managed"

\* discardBackendMetadata, once per response (shared with ensureProcessed).
Discard(q) == IF q.once THEN q ELSE [q EXCEPT !.once = TRUE, !.header = Scrubbed(@)]

\* ServeHTTP gives up: the client gets its error, or what an upgrade has sent.
GiveUp(q, status) ==
    [Empty(Discard(q)) EXCEPT !.pc = "closing", !.status = IF @ = None THEN status ELSE @]

FinalMetadata(q) ==
    IF q.finalMetadataReserved THEN 0 ELSE stagedHeaderBytes(q.header) + Allowance

\* reserveMetadataBytes refuses when either limit would be exceeded.
MetadataFits(q, n) == n <= MaxMetadataBytes - q.metadataBytes /\ CanReserve(n)

WithMetadata(q, n) == [q EXCEPT !.reserved = @ + n, !.metadataBytes = @ + n]

WithFinalMetadata(q) ==
    [WithMetadata(q, FinalMetadata(q)) EXCEPT !.finalMetadataReserved = TRUE]

-----------------------------------------------------------------------------
(* The downstream handler writes its response.                             *)

Start(r) ==
    /\ At(r, "idle")
    /\ Become(r, [IdleResponse EXCEPT !.pc = "backend"])
    /\ UNCHANGED used

SetHeader(r) ==
    /\ At(r, "backend")
    /\ \E h \in {"none", "managed"} : Become(r, [rsp[r] EXCEPT !.header = h])
    /\ UNCHANGED used

\* A second header is ignored; a status without a body (101, 204, 304) refuses
\* every later Write.
WriteHeaderFinal(r) ==
    /\ At(r, "backend") /\ ~rsp[r].wroteHeader
    /\ \E allowed \in BOOLEAN :
          Become(r, [rsp[r] EXCEPT !.wroteHeader = TRUE, !.bodyAllowed = allowed])
    /\ UNCHANGED used

\* A 1xx status other than 101 is staged with a copy of the header.
WriteHeaderInformational(r) ==
    LET q == rsp[r]
        n == stagedHeaderBytes(q.header)
    IN  /\ At(r, "backend") /\ ~q.wroteHeader
        /\ IF Len(q.informational) < MaxInformational /\ MetadataFits(q, n)
             THEN /\ Become(r, [WithMetadata(q, n) EXCEPT !.informational = Append(@, q.header)])
                  /\ reserve(n)
             ELSE Become(r, Refuse(q)) /\ UNCHANGED used

\* Mutant: the handler learns of a refused write, the interceptor forgets it.
WriteForgets(r) ==
    LET q == ImplicitHeader(rsp[r]) IN
    /\ At(r, "backend") /\ ~q.terminal /\ q.bodyAllowed
    /\ \E n \in CHUNK :
          IF n <= MaxBytes - q.size /\ CanReserve(n)
            THEN /\ Become(r, [q EXCEPT !.pc = "storing", !.chunk = n, !.reserved = @ + n])
                 /\ reserve(n)
            ELSE Become(r, [q EXCEPT !.refused = TRUE]) /\ UNCHANGED used

\* interceptor.Write up to the reservation in stagedBody.Write.
Write(r) ==
    LET q == ImplicitHeader(rsp[r]) IN
    /\ At(r, "backend") /\ ~q.terminal /\ q.bodyAllowed
    /\ \E n \in CHUNK :
          IF n <= MaxBytes - q.size /\ CanReserve(n)
            THEN /\ Become(r, [q EXCEPT !.pc = "storing", !.chunk = n, !.reserved = @ + n])
                 /\ reserve(n)
            ELSE Become(r, Refuse(q)) /\ UNCHANGED used

\* After an upgrade a Write goes to the client's connection directly.
WriteDirect(r) ==
    /\ At(r, "backend") /\ rsp[r].terminal
    /\ Become(r, [rsp[r] EXCEPT !.status = IF @ = None THEN "backend" ELSE @])
    /\ UNCHANGED used

FitsMemory(q) == q.file = NoFile /\ q.mem + q.chunk <= MemoryLimit

StoreInMemory(r) ==
    LET q == rsp[r] IN
    /\ At(r, "storing") /\ FitsMemory(q)
    /\ Become(r, Stored([q EXCEPT !.mem = @ + q.chunk]))
    /\ UNCHANGED used

\* The spool file before this chunk: a new one starts with what is in memory.
Spooled(q) == IF q.file = NoFile THEN q.mem ELSE q.file

\* Mutant: a short write releases the whole chunk.
StoreInFileReleasesAll(r) ==
    LET q == rsp[r] IN
    /\ At(r, "storing") /\ ~FitsMemory(q)
    /\ \E n \in 0 .. q.chunk :
          LET p == [q EXCEPT !.file = Spooled(q) + n, !.mem = 0,
                             !.reserved = IF n = q.chunk THEN @ ELSE @ - q.chunk]
          IN  /\ Become(r, IF n = q.chunk THEN Stored(p) ELSE Refuse([p EXCEPT !.size = @ + n]))
              /\ release(IF n = q.chunk THEN 0 ELSE q.chunk)

\* Mutant: a short write passes for a whole one.
StoreInFileShort(r) ==
    LET q == rsp[r] IN
    /\ At(r, "storing") /\ ~FitsMemory(q)
    /\ \E n \in 0 .. q.chunk :
          /\ Become(r, [Stored(q) EXCEPT !.file = Spooled(q) + n, !.mem = 0, !.size = q.size + n,
                                         !.reserved = @ - (q.chunk - n)])
          /\ release(q.chunk - n)

\* The file takes n bytes of the chunk; a short write is an error, and releases
\* what was not written.
StoreInFile(r) ==
    LET q == rsp[r] IN
    /\ At(r, "storing") /\ ~FitsMemory(q)
    /\ \E n \in 0 .. q.chunk :
          LET p == [q EXCEPT !.file = Spooled(q) + n, !.mem = 0, !.reserved = @ - (q.chunk - n)]
          IN  /\ Become(r, IF n = q.chunk THEN Stored(p) ELSE Refuse([p EXCEPT !.size = @ + n]))
              /\ release(q.chunk - n)

CreateTempFails(r) ==
    LET q == rsp[r] IN
    /\ At(r, "storing") /\ ~FitsMemory(q) /\ q.file = NoFile
    /\ Become(r, Refuse([q EXCEPT !.reserved = @ - q.chunk]))
    /\ release(q.chunk)

\* Copying the memory to the file fails: the body closes itself.
SpoolFails(r) ==
    LET q == rsp[r] IN
    /\ At(r, "storing") /\ ~FitsMemory(q) /\ q.file = NoFile
    /\ Become(r, Refuse(Empty(q)))
    /\ release(q.reserved)

\* FlushError and Hijack up to the check for a staged body.  An extended CONNECT
\* always has a status, a hijacked connection perhaps not.
Upgrade(r) ==
    LET q == rsp[r]
        p == WithFinalMetadata(q)
    IN  /\ At(r, "backend") /\ ~q.terminal /\ ~q.writeErr
        /\ IF MetadataFits(q, FinalMetadata(q))
             THEN /\ IF q.size > 0 THEN Become(r, p)
                     ELSE \E u \in {p, ImplicitHeader(p)} : Become(r, [u EXCEPT !.pc = "upgrading"])
                  /\ reserve(FinalMetadata(q))
             ELSE Become(r, Refuse(q)) /\ UNCHANGED used

\* The handshake is on the wire whether or not the connection can then be
\* taken over.
UpgradeCommit(r) ==
    LET q == Discard(rsp[r]) IN
    /\ At(r, "upgrading")
    /\ Become(r, [Empty(q) EXCEPT
           !.pc = "backend", !.terminal = TRUE,
           !.sentInformational = Len(SentInformational(q)),
           !.leaked = Leaks(q),
           !.status = IF q.wroteHeader THEN "backend" ELSE None,
           !.informational = <<>>, !.header = "none", !.metadataBytes = 0])
    /\ release(q.reserved)

Return(r) ==
    /\ At(r, "backend")
    /\ \E err \in BOOLEAN : Become(r, [rsp[r] EXCEPT !.pc = "returned", !.err = err])
    /\ UNCHANGED used

\* The handler panics (an invalid status makes WriteHeader panic): only the
\* deferred Close runs.
Panic(r) ==
    /\ At(r, "backend")
    /\ Become(r, [rsp[r] EXCEPT !.pc = "closing", !.status = IF @ = None THEN "aborted" ELSE @])
    /\ UNCHANGED used

-----------------------------------------------------------------------------
(* ServeHTTP after the handler has returned.                               *)

Conclude(r) ==
    LET q == rsp[r] IN
    /\ At(r, "returned")
    /\ CASE q.writeErr -> Become(r, GiveUp(q, "badgateway")) /\ release(q.reserved)
         [] ~q.writeErr /\ q.err -> Become(r, GiveUp(q, "error")) /\ release(q.reserved)
         [] ~q.writeErr /\ ~q.err /\ ~MetadataFits(q, FinalMetadata(q)) ->
              Become(r, GiveUp([q EXCEPT !.refused = TRUE], "badgateway")) /\ release(q.reserved)
         [] OTHER ->
              /\ Become(r, [WithFinalMetadata(q) EXCEPT
                              !.pc = IF q.terminal THEN "closing" ELSE "validating"])
              /\ reserve(FinalMetadata(q))

\* Mutant: the session is changed before the spool file is read back.
ValidateLate(r) ==
    LET q == rsp[r] IN
    /\ At(r, "validating")
    /\ \/ /\ q.file = NoFile \/ q.file = q.size
          /\ Become(r, [q EXCEPT !.pc = "processing"])
          /\ UNCHANGED used
       \/ /\ q.file # NoFile
          /\ Become(r, GiveUp([q EXCEPT !.mutated = TRUE], "badgateway"))
          /\ release(q.reserved)

\* The spool file is read back before anything irrevocable happens.
Validate(r) ==
    LET q == rsp[r] IN
    /\ At(r, "validating")
    /\ \/ /\ q.file = NoFile \/ q.file = q.size
          /\ Become(r, [q EXCEPT !.pc = "processing"])
          /\ UNCHANGED used
       \/ /\ q.file # NoFile
          /\ Become(r, GiveUp(q, "badgateway"))
          /\ release(q.reserved)

\* ensureProcessed.  Whether the session has been changed and whether an error
\* is reported are two things: a row and key begun before a failing
\* ApplyResponse stay, and a commit whose reply is lost has happened.  An error
\* that on_store_error or a logout makes fatal turns the answer into a 502; after
\* any other the handler's response goes out.  The header is stripped of managed
\* entries in every case.
Process(r) ==
    LET q == Discard(rsp[r]) IN
    /\ At(r, "processing")
    /\ \E changed \in BOOLEAN :
          LET p == [q EXCEPT !.mutated = changed] IN
          \/ Become(r, [p EXCEPT !.pc = "committing"]) /\ UNCHANGED used
          \/ Become(r, GiveUp([p EXCEPT !.failed = TRUE], "badgateway")) /\ release(q.reserved)

\* Without a WriteHeader the server sends an implicit, empty 200.
Commit(r) ==
    LET q == rsp[r] IN
    /\ At(r, "committing")
    /\ Become(r, [q EXCEPT
           !.pc = IF q.wroteHeader /\ q.size > 0 THEN "flushing" ELSE "closing",
           !.sentInformational = Len(SentInformational(q)),
           !.leaked = Leaks(q), !.status = "backend"])
    /\ UNCHANGED used

\* FlushTo; it breaks off when the client is gone or when the spool file, read
\* back once already, can no longer be read.
Flush(r) ==
    LET q == rsp[r] IN
    /\ At(r, "flushing")
    /\ \E n \in 0 .. Staged(r) :
          Become(r, [q EXCEPT !.pc = "closing", !.sent = n, !.cut = n < Staged(r)])
    /\ UNCHANGED used

\* The deferred body.Close; the interceptor is garbage from here on.
Close(r) ==
    /\ At(r, "closing")
    /\ Become(r, [Empty(rsp[r]) EXCEPT
           !.pc = "done", !.header = "none", !.wroteHeader = FALSE, !.bodyAllowed = TRUE,
           !.metadataBytes = 0, !.finalMetadataReserved = FALSE, !.once = FALSE])
    /\ release(rsp[r].reserved)

-----------------------------------------------------------------------------
HandlerStep(r) ==
    \/ SetHeader(r) \/ WriteHeaderFinal(r) \/ WriteHeaderInformational(r)
    \/ Write(r) \/ WriteDirect(r) \/ Upgrade(r) \/ Return(r) \/ Panic(r)

ProxyStep(r) ==
    \/ StoreInMemory(r) \/ StoreInFile(r) \/ CreateTempFails(r) \/ SpoolFails(r)
    \/ UpgradeCommit(r)
    \/ Conclude(r) \/ Validate(r) \/ Process(r) \/ Commit(r) \/ Flush(r) \/ Close(r)

StagingNext == \E r \in REQ : Start(r) \/ HandlerStep(r) \/ ProxyStep(r)

StagingSpec == StagingInit /\ [][StagingNext]_stagingVars

-----------------------------------------------------------------------------
(* Properties.                                                             *)

PC == {"idle", "backend", "storing", "upgrading", "returned", "validating",
       "processing", "committing", "flushing", "closing", "done"}

Rsp ==
    [pc : PC, header : HEADER, wroteHeader : BOOLEAN, bodyAllowed : BOOLEAN,
     informational : Seq(HEADER), mem : Nat, file : Nat \union {NoFile}, size : Nat, chunk : Nat,
     reserved : Nat, metadataBytes : Nat, finalMetadataReserved : BOOLEAN,
     writeErr : BOOLEAN, terminal : BOOLEAN, once : BOOLEAN, err : BOOLEAN, failed : BOOLEAN,
     status : {None, "backend", "badgateway", "error", "aborted"},
     sentInformational : Nat, sent : Nat, leaked : BOOLEAN,
     written : Nat, refused : BOOLEAN, mutated : BOOLEAN, cut : BOOLEAN]

\* The type of the staging state.
StagingTypeOK == rsp \in [REQ -> Rsp] /\ used \in Nat

\* The budget is exact: it is the sum of what the responses in flight have
\* reserved, and within the limit, through every failed, short or refused write
\* and every reset; when no response is in flight, nothing is reserved.
BudgetExact ==
    /\ used = MapThenSumSet(LAMBDA r : rsp[r].reserved, REQ)
    /\ used <= AggregateBytes
    /\ \A r \in REQ : rsp[r].pc \in {"idle", "done"} => rsp[r].reserved = 0

\* A response holds no more than it has reserved, and as long as no write failed
\* its reservation is exactly its body, the chunk being stored and its metadata.
StagedIsReserved ==
    \A r \in REQ :
        LET q == rsp[r] IN
        /\ Staged(r) + q.chunk <= q.reserved
        /\ ~q.writeErr /\ q.pc \notin {"closing", "done"} =>
              q.reserved = q.size + q.chunk + q.metadataBytes

\* "Exceeding any bound produces `502`, discards all staged output, and applies
\* no response-driven session mutation" (docs/code-walkthrough.md:100): so does
\* any write that failed, whatever the handler did after it, unless an upgrade
\* had already been sent or the handler panicked.
RefusedGivesNothing ==
    \A r \in REQ :
        LET q == rsp[r] IN
        q.refused /\ q.pc = "done" /\ ~q.terminal /\ q.status # "aborted" =>
            /\ q.status = "badgateway" /\ ~q.mutated
            /\ q.sent = 0 /\ q.sentInformational = 0

\* A staged response is sent whole or not at all: when the client gets it, the
\* handler succeeded, no write was refused, and the body has every byte the
\* handler wrote, in memory or spooled, unless FlushTo reported an error: the
\* client's connection broke or the spool file could no longer be read.
SentWhole ==
    \A r \in REQ :
        LET q == rsp[r] IN
        /\ q.pc = "done" /\ ~q.terminal /\ q.status = "backend"
        => /\ ~q.err /\ ~q.refused
           /\ q.sentInformational = Len(q.informational)
           /\ q.cut \/ q.sent = q.written

\* Processing is the last step that can fail: once a response may have changed
\* the session, wholly or in part, no handler error, limit, read-back failure or
\* upgrade follows, and the client, who had got nothing until then, gets the
\* handler's response.  The one exception is an error of the processing itself
\* that is fatal: then the answer is 502 and nothing of the handler's goes out.
NoFailureAfterProcessing ==
    \A r \in REQ :
        LET q == rsp[r] IN
        q.mutated =>
            /\ ~q.terminal /\ ~q.err /\ ~q.refused
            /\ q.pc = "committing" => q.status = None /\ q.sent = 0 /\ q.sentInformational = 0
            /\ q.pc # "committing" => q.status = IF q.failed THEN "badgateway" ELSE "backend"
            /\ q.failed => q.sent = 0 /\ q.sentInformational = 0

\* No header entry the proxy manages reaches the client from the handler, on the
\* normal path or through an upgrade.
NothingManagedSent == \A r \in REQ : ~rsp[r].leaked

=============================================================================
