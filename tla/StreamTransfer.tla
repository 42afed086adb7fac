---------------------------- MODULE StreamTransfer ----------------------------
(***************************************************************************)
(* Sending and receiving a message of known size over a TCP connection, as *)
(* in src/chapter2: a write or read operation may transfer fewer bytes     *)
(* than it was asked to, so the programs repeat it with the rest of the    *)
(* buffer until everything has been transferred.                           *)
(*                                                                         *)
(* The writer is one of                                                    *)
(*   "sync"   writingToTCPSockSync: a loop around write_some, of the       *)
(*            program or of asio::write                                    *)
(*   "async"  writingToTCPSockAsync: a callback that starts the next       *)
(*            async_write_some                                             *)
(*   "once"   writingToTCPSockAsyncEnhanced: one async_write_some          *)
(* and the reader, at the other end of the connection, one of the          *)
(* programs readingFromTCPSockSync, ...Async and ...AsyncEnhanced, or      *)
(*   "delim"  readFromSocketDelim: read_until the first '\n'               *)
(* The bytes of the message are numbered 1 .. MessageSize.                 *)
(***************************************************************************)
EXTENDS Naturals

CONSTANTS
    MessageSize,  \* buf.length() of the writer
    BufSize,      \* MESSAGE_SIZE of the reader
    Capacity,     \* bytes the connection holds before the reader takes them
    Delims,       \* where the first '\n' may be; beyond MessageSize: nowhere
    WriterKinds, ReaderKinds

Kinds == {"sync", "async", "once"}

ASSUME TransferAssumption ==
    /\ MessageSize \in Nat \ {0}
    /\ BufSize \in Nat \ {0}
    /\ Capacity \in Nat \ {0}
    /\ Delims \subseteq Nat \ {0}
    /\ WriterKinds \subseteq Kinds
    /\ ReaderKinds \subseteq Kinds \cup {"delim"}

VARIABLES
    wKind, rKind,   \* which programs run
    delim,          \* the byte of the message that is the first '\n'
    wire,           \* wire[k]: the k-th byte put into the connection; 0: none
    produced,       \* bytes put into the connection
    consumed,       \* bytes taken out of it
    broken,         \* the connection has been reset
    wPc, total_bytes_written, wOffset, wBytes,
    rPc, total_bytes_read, rOffset, rBytes,
    buf,            \* the reader's buffer; 0: never written
    message         \* what readFromSocketDelim returned; the bytes it took are
                    \* in its streambuf, wire[1] .. wire[consumed]

kinds == <<wKind, rKind, delim>>
netVars == <<wire, produced, consumed, broken>>
writerVars == <<wPc, total_bytes_written, wOffset, wBytes>>
readerVars == <<rPc, total_bytes_read, rOffset, rBytes, buf, message>>
vars == <<kinds, netVars, writerVars, readerVars>>

\* "op": the operation is in progress; "callback": its handler is queued.
WriterPcs == {"op", "callback", "done", "failed", "closed"}
ReaderPcs == {"op", "callback", "done", "failed", "closed"}

\* Both programs have connected their socket and started the first operation,
\* on the whole buffer.
Init ==
    /\ wKind \in WriterKinds
    /\ rKind \in ReaderKinds
    /\ delim \in Delims
    /\ wire = [k \in 1 .. MessageSize |-> 0]
    /\ produced = 0
    /\ consumed = 0
    /\ broken = FALSE
    /\ wPc = "op"
    /\ total_bytes_written = 0
    /\ wOffset = 0
    /\ wBytes = 0
    /\ rPc = "op"
    /\ total_bytes_read = 0
    /\ rOffset = 0
    /\ rBytes = 0
    /\ buf = [k \in 1 .. BufSize |-> 0]
    /\ message = <<>>

-----------------------------------------------------------------------------
(***************************************************************************)
(* The connection (external).                                              *)
(***************************************************************************)

\* n bytes from buf + offset on enter the connection: no more than are left of
\* the buffer, and no more than the connection has room for.
Put(n, offset) ==
    /\ ~broken
    /\ n <= MessageSize - offset
    /\ produced + n - consumed <= Capacity
    /\ wire' = [k \in 1 .. MessageSize |->
                   IF k > produced /\ k <= produced + n
                   THEN offset + (k - produced) ELSE wire[k]]
    /\ produced' = produced + n
    /\ UNCHANGED <<consumed, broken>>

\* The next n bytes of the connection enter the reader's buffer at offset.
Get(n, offset) ==
    /\ ~broken
    /\ n <= BufSize - offset
    /\ consumed + n <= produced
    /\ buf' = [k \in 1 .. BufSize |->
                  IF k > offset /\ k <= offset + n
                  THEN wire[consumed + (k - offset)] ELSE buf[k]]
    /\ consumed' = consumed + n
    /\ UNCHANGED <<wire, produced, broken>>

\* The connection is reset.
Break ==
    /\ ~broken
    /\ broken' = TRUE
    /\ UNCHANGED <<kinds, wire, produced, consumed, writerVars, readerVars>>

-----------------------------------------------------------------------------
(***************************************************************************)
(* The writer.                                                             *)
(***************************************************************************)

\* One turn of the loop of the synchronous writer.
WriteSome(n) ==
    /\ wKind = "sync"
    /\ wPc = "op"
    /\ Put(n, total_bytes_written)
    /\ total_bytes_written' = total_bytes_written + n
    /\ wPc' = IF total_bytes_written + n = MessageSize THEN "done" ELSE "op"
    /\ UNCHANGED <<kinds, wOffset, wBytes, readerVars>>

\* The pending async_write_some transfers n bytes and its callback is queued.
AsyncWritten(n) ==
    /\ wKind # "sync"
    /\ wPc = "op"
    /\ Put(n, wOffset)
    /\ wBytes' = n
    /\ wPc' = "callback"
    /\ UNCHANGED <<kinds, total_bytes_written, wOffset, readerVars>>

\* Mutant: bytes_transferred is taken for all that was asked for.
WriteCallbackStops ==
    /\ wKind = "async"
    /\ wPc = "callback"
    /\ total_bytes_written' = MessageSize
    /\ wPc' = "done"
    /\ UNCHANGED <<kinds, netVars, wOffset, wBytes, readerVars>>

\* The callback of writingToTCPSockAsync: the next operation gets the rest of
\* the buffer, unless everything is written.
WriteCallback ==
    /\ wKind = "async"
    /\ wPc = "callback"
    /\ total_bytes_written' = total_bytes_written + wBytes
    /\ wOffset' = total_bytes_written + wBytes
    /\ wPc' = IF total_bytes_written + wBytes = MessageSize THEN "done" ELSE "op"
    /\ UNCHANGED <<kinds, netVars, wBytes, readerVars>>

\* The callback of writingToTCPSockAsyncEnhanced counts nothing.
WriteOnceCallback ==
    /\ wKind = "once"
    /\ wPc = "callback"
    /\ wPc' = "done"
    /\ UNCHANGED <<kinds, netVars, total_bytes_written, wOffset, wBytes, readerVars>>

\* The operation fails, because the connection is broken or the reader is gone:
\* an exception ends the loop, a callback returns.
WriteFails ==
    /\ wPc = "op"
    /\ broken \/ rPc = "closed"
    /\ wPc' = "failed"
    /\ UNCHANGED <<kinds, netVars, total_bytes_written, wOffset, wBytes, readerVars>>

\* Mutant: the io_context is never run dry, main does not return after an error.
CloseWriterIfDone ==
    /\ wPc = "done"
    /\ wPc' = "closed"
    /\ UNCHANGED <<kinds, netVars, total_bytes_written, wOffset, wBytes, readerVars>>

\* main returns and the socket is closed: the reader will see the end.
CloseWriter ==
    /\ wPc \in {"done", "failed"}
    /\ wPc' = "closed"
    /\ UNCHANGED <<kinds, netVars, total_bytes_written, wOffset, wBytes, readerVars>>

-----------------------------------------------------------------------------
(***************************************************************************)
(* The reader.                                                             *)
(***************************************************************************)

\* Mutant: read_some is given the start of the buffer every time.
ReadSomeAtStart(n) ==
    /\ rKind = "sync"
    /\ rPc = "op"
    /\ Get(n, 0)
    /\ total_bytes_read' = total_bytes_read + n
    /\ rPc' = IF total_bytes_read + n >= BufSize THEN "done" ELSE "op"
    /\ UNCHANGED <<kinds, rOffset, rBytes, message, writerVars>>

\* One turn of the loop of the synchronous reader.
ReadSome(n) ==
    /\ rKind = "sync"
    /\ rPc = "op"
    /\ Get(n, total_bytes_read)
    /\ total_bytes_read' = total_bytes_read + n
    /\ rPc' = IF total_bytes_read + n = BufSize THEN "done" ELSE "op"
    /\ UNCHANGED <<kinds, rOffset, rBytes, message, writerVars>>

\* The pending async_read_some stores n bytes and its callback is queued.
AsyncRead(n) ==
    /\ rKind \in {"async", "once"}
    /\ rPc = "op"
    /\ Get(n, rOffset)
    /\ rBytes' = n
    /\ rPc' = "callback"
    /\ UNCHANGED <<kinds, total_bytes_read, rOffset, message, writerVars>>

\* Mutant: the callback of readingFromTCPSockAsync never asks for the rest.
ReadCallbackStops ==
    /\ rKind = "async"
    /\ rPc = "callback"
    /\ total_bytes_read' = total_bytes_read + rBytes
    /\ rPc' = "done"
    /\ UNCHANGED <<kinds, netVars, rOffset, rBytes, buf, message, writerVars>>

\* The callback of readingFromTCPSockAsync.
ReadCallback ==
    /\ rKind = "async"
    /\ rPc = "callback"
    /\ total_bytes_read' = total_bytes_read + rBytes
    /\ rOffset' = total_bytes_read + rBytes
    /\ rPc' = IF total_bytes_read + rBytes = BufSize THEN "done" ELSE "op"
    /\ UNCHANGED <<kinds, netVars, rBytes, buf, message, writerVars>>

\* The callback of readingFromTCPSockAsyncEnhanced.
ReadOnceCallback ==
    /\ rKind = "once"
    /\ rPc = "callback"
    /\ rPc' = "done"
    /\ UNCHANGED <<kinds, netVars, total_bytes_read, rOffset, rBytes, buf, message, writerVars>>

\* readFromSocketDelim: read_until takes what is there until a '\n' is among it,
\* and getline returns what is before the first one.
ReadUntil(n) ==
    /\ rKind = "delim"
    /\ rPc = "op"
    /\ ~broken /\ consumed + n <= produced
    /\ consumed' = consumed + n
    /\ IF \E k \in 1 .. consumed + n : wire[k] = delim
       THEN /\ \E d \in 1 .. consumed + n :
                   /\ wire[d] = delim
                   /\ \A k \in 1 .. d - 1 : wire[k] # delim
                   /\ message' = [k \in 1 .. d - 1 |-> wire[k]]
            /\ rPc' = "done"
       ELSE UNCHANGED <<message, rPc>>
    /\ UNCHANGED <<kinds, wire, produced, broken, total_bytes_read, rOffset, rBytes, buf,
                   writerVars>>

\* The operation fails: the connection is broken, or it is at its end.
ReadFails ==
    /\ rPc = "op"
    /\ broken \/ (wPc = "closed" /\ consumed = produced)
    /\ rPc' = "failed"
    /\ UNCHANGED <<kinds, netVars, total_bytes_read, rOffset, rBytes, buf, message, writerVars>>

\* main returns and the socket is closed.
CloseReader ==
    /\ rPc \in {"done", "failed"}
    /\ rPc' = "closed"
    /\ UNCHANGED <<kinds, netVars, total_bytes_read, rOffset, rBytes, buf, message, writerVars>>

-----------------------------------------------------------------------------
WriterStep == \/ \E n \in 1 .. MessageSize : WriteSome(n) \/ AsyncWritten(n)
              \/ WriteCallback
              \/ WriteOnceCallback
              \/ WriteFails
              \/ CloseWriter

ReaderStep == \/ \E n \in 1 .. BufSize : ReadSome(n) \/ AsyncRead(n)
              \/ \E n \in 1 .. MessageSize : ReadUntil(n)
              \/ ReadCallback
              \/ ReadOnceCallback
              \/ ReadFails
              \/ CloseReader

Next == WriterStep \/ ReaderStep \/ Break

Spec == Init /\ [][Next]_vars

\* Both programs keep running, and the connection moves bytes when it can.
FairSpec == Spec /\ WF_vars(WriterStep) /\ WF_vars(ReaderStep)

-----------------------------------------------------------------------------
(***************************************************************************)
(* Properties.                                                             *)
(***************************************************************************)

\* Every variable has its type, and the counters stay within the buffers.
TypeOK ==
    /\ wKind \in Kinds
    /\ rKind \in Kinds \cup {"delim"}
    /\ delim \in Nat \ {0}
    /\ wire \in [1 .. MessageSize -> Nat]
    /\ produced \in 0 .. MessageSize
    /\ consumed \in 0 .. produced
    /\ broken \in BOOLEAN
    /\ wPc \in WriterPcs
    /\ total_bytes_written \in 0 .. MessageSize
    /\ wOffset \in 0 .. MessageSize
    /\ wBytes \in 0 .. MessageSize
    /\ rPc \in ReaderPcs
    /\ total_bytes_read \in 0 .. BufSize
    /\ rOffset \in 0 .. BufSize
    /\ rBytes \in 0 .. BufSize
    /\ buf \in [1 .. BufSize -> Nat]
    /\ DOMAIN message \subseteq 1 .. MessageSize

\* What is in the connection is the message: no byte is left out, sent twice or
\* sent out of order by the repeated partial writes.
WireIsMessage == \A k \in 1 .. produced : wire[k] = k

\* The reader's buffer holds what it took from the connection, in order from
\* its first byte, and nothing beyond.
BufferIsStream ==
    rKind # "delim" =>
        \A k \in 1 .. BufSize : buf[k] = IF k <= consumed THEN k ELSE 0

\* A reader that reports success has what it waited for: one that loops a full
\* buffer, and readFromSocketDelim exactly the bytes before the first '\n', however
\* the message was cut into pieces and whatever came with the last one.
ReaderGetsAll ==
    rPc = "done" =>
        /\ rKind \in {"sync", "async"} => \A k \in 1 .. BufSize : buf[k] # 0
        /\ rKind = "delim" => message = [k \in 1 .. delim - 1 |-> k]

\* A reader fails over a connection that was never reset only at the end of a
\* stream too short for it, with every byte of the stream taken, and the stream of
\* a writer that loops is the whole message: its buffer is larger than that (as 7
\* bytes are for "Hello"), or there is no '\n'.  What the writer that writes once
\* leaves out is SuccessIsAll.
FailedReaderWasShort ==
    rPc = "failed" /\ ~broken =>
        /\ wPc = "closed" /\ consumed = produced
        /\ produced < IF rKind = "delim" THEN delim ELSE BufSize
        /\ wKind # "once" => produced = MessageSize

\* What the callbacks of the two ...AsyncEnhanced programs say of their single
\* operation: "all the data has been written to the socket", and "the buffer is
\* full with data read from the socket".
SuccessIsAll ==
    /\ wPc = "done" => produced = MessageSize
    /\ rPc = "done" /\ rKind # "delim" => consumed = BufSize

\* No program waits for ever: a writer held up by a full connection and a reader
\* held up by an empty one are released by the other's progress or end.
BothEnd == <>(wPc = "closed" /\ rPc = "closed")

=============================================================================
