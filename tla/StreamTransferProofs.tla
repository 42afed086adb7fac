------------------------- MODULE StreamTransferProofs -------------------------
(***************************************************************************)
(* The safety of the transfer loops for every size of message, buffer and  *)
(* connection.  The invariant ties the programs' counters to what the      *)
(* connection has really taken and given: between two operations the       *)
(* counter equals it and is the offset of the next operation; while a      *)
(* callback is queued it is behind by bytes_transferred.                   *)
(***************************************************************************)
EXTENDS StreamTransfer, TLAPS

\* The writer's counters.
WriterInv ==
    /\ wKind = "sync" =>
           /\ wPc # "callback"
           /\ produced = total_bytes_written
    /\ wKind = "async" =>
           /\ wPc = "op" => produced = total_bytes_written
           /\ wPc \in {"op", "callback"} => wOffset = total_bytes_written
           /\ wPc = "callback" => produced = total_bytes_written + wBytes
    /\ wKind = "once" => wOffset = 0 /\ (wPc = "op" => produced = 0)

\* The reader's counters.
ReaderInv ==
    /\ rKind # "delim" => consumed <= BufSize
    /\ rKind = "sync" =>
           /\ rPc # "callback"
           /\ consumed = total_bytes_read
    /\ rKind = "async" =>
           /\ rPc = "op" => consumed = total_bytes_read
           /\ rPc \in {"op", "callback"} => rOffset = total_bytes_read
           /\ rPc = "callback" => consumed = total_bytes_read + rBytes
    /\ rKind = "once" => rOffset = 0 /\ (rPc = "op" => consumed = 0)

\* A loop that reports success has moved as many bytes as it should.
DoneInv ==
    /\ wKind # "once" /\ wPc = "done" => produced = MessageSize
    /\ rKind \in {"sync", "async"} /\ rPc = "done" => consumed = BufSize

\* A writer fails only behind a reset or a reader that is gone, and a reader that
\* has not succeeded has not yet taken what it waits for.
EndInv ==
    /\ wPc = "failed" => broken \/ rPc = "closed"
    /\ wPc = "closed" /\ wKind # "once" =>
           produced = MessageSize \/ broken \/ rPc = "closed"
    /\ rPc \in {"op", "failed"} =>
           /\ rKind # "delim" => consumed < BufSize
           /\ rKind = "delim" => consumed < delim
    /\ rPc = "failed" /\ ~broken => wPc = "closed" /\ consumed = produced
    /\ rKind = "delim" => rPc # "callback"

\* What readFromSocketDelim returns.
DelimInv ==
    rKind = "delim" /\ rPc = "done" => message = [k \in 1 .. delim - 1 |-> k]

\* The inductive invariant.
TInv == /\ TypeOK
        /\ WriterInv
        /\ ReaderInv
        /\ DoneInv
        /\ WireIsMessage
        /\ BufferIsStream
        /\ EndInv
        /\ DelimInv

\* An operation of the writer that puts n bytes from where the connection ends
\* keeps the connection equal to the message.
LEMMA PutExtends ==
    ASSUME TInv, NEW n \in 1 .. MessageSize, Put(n, produced)
    PROVE  /\ WireIsMessage'
           /\ wire' \in [1 .. MessageSize -> Nat]
           /\ produced' \in 0 .. MessageSize
           /\ consumed' \in 0 .. produced'
    BY TransferAssumption DEF TInv, TypeOK, WireIsMessage, Put

\* An operation of the reader that gets n bytes to where its buffer ends keeps
\* the buffer equal to what was taken from the connection.
LEMMA GetExtends ==
    ASSUME TInv, rKind # "delim", NEW n \in 1 .. BufSize, Get(n, consumed)
    PROVE  /\ \A k \in 1 .. BufSize : buf'[k] = IF k <= consumed' THEN k ELSE 0
           /\ buf' \in [1 .. BufSize -> Nat]
           /\ consumed' \in 0 .. produced'
           /\ consumed' \in 0 .. BufSize
    BY TransferAssumption DEF TInv, TypeOK, WireIsMessage, BufferIsStream, Get

\* The invariant holds when the programs start.
LEMMA InitTInv == Init => TInv
<1> SUFFICES ASSUME Init PROVE TInv
    OBVIOUS
<1>1. TypeOK
    <2>1. /\ wKind \in Kinds /\ rKind \in Kinds \cup {"delim"} /\ broken \in BOOLEAN
          /\ delim \in Nat \ {0}
        BY TransferAssumption DEF Init
    <2>2. wPc \in WriterPcs /\ rPc \in ReaderPcs
        BY DEF Init, WriterPcs, ReaderPcs
    <2>3. wire \in [1 .. MessageSize -> Nat] /\ buf \in [1 .. BufSize -> Nat]
        BY DEF Init
    <2>4. DOMAIN message \subseteq 1 .. MessageSize
        BY DEF Init
    <2> QED
        BY <2>1, <2>2, <2>3, <2>4, TransferAssumption DEF Init, TypeOK
<1>2. WriterInv /\ ReaderInv /\ DoneInv
    BY TransferAssumption DEF Init, WriterInv, ReaderInv, DoneInv
<1>3. WireIsMessage /\ BufferIsStream
    BY TransferAssumption DEF Init, WireIsMessage, BufferIsStream
<1>4. EndInv /\ DelimInv
    BY TransferAssumption DEF Init, EndInv, DelimInv
<1> QED
    BY <1>1, <1>2, <1>3, <1>4 DEF TInv

\* The steps of the writer preserve the invariant.
LEMMA WriterPreserves == ASSUME TInv, WriterStep PROVE TInv'
<1>1. ASSUME NEW n \in 1 .. MessageSize, WriteSome(n) PROVE TInv'
    <2>1. Put(n, produced)
        BY <1>1 DEF WriteSome, TInv, WriterInv
    <2>2. BufferIsStream' /\ ReaderInv'
        BY <1>1 DEF WriteSome, Put, kinds, readerVars, TInv, BufferIsStream, ReaderInv
    <2>3. WriterInv' /\ DoneInv'
        BY <1>1 DEF WriteSome, Put, kinds, readerVars, TInv, TypeOK, WriterInv, DoneInv
    <2>4. TypeOK'
        BY <1>1, <2>1, PutExtends, TransferAssumption
            DEF WriteSome, Put, kinds, readerVars, TInv, TypeOK, WriterPcs
    <2>5. EndInv' /\ DelimInv'
        BY <1>1 DEF WriteSome, Put, kinds, readerVars, TInv, TypeOK, EndInv, DelimInv
    <2> QED
        BY <2>1, <2>2, <2>3, <2>4, <2>5, PutExtends DEF TInv
<1>2. ASSUME NEW n \in 1 .. MessageSize, AsyncWritten(n) PROVE TInv'
    <2>1. Put(n, produced)
        BY <1>2 DEF AsyncWritten, TInv, TypeOK, Kinds, WriterInv
    <2>2. BufferIsStream' /\ ReaderInv'
        BY <1>2 DEF AsyncWritten, Put, kinds, readerVars, TInv, BufferIsStream,
            ReaderInv
    <2>3. WriterInv' /\ DoneInv'
        BY <1>2 DEF AsyncWritten, Put, kinds, readerVars, TInv, TypeOK, Kinds,
            WriterInv, DoneInv
    <2>4. TypeOK'
        BY <1>2, <2>1, PutExtends, TransferAssumption
            DEF AsyncWritten, Put, kinds, readerVars, TInv, TypeOK, WriterPcs
    <2>5. EndInv' /\ DelimInv'
        BY <1>2 DEF AsyncWritten, Put, kinds, readerVars, TInv, TypeOK, EndInv, DelimInv
    <2> QED
        BY <2>1, <2>2, <2>3, <2>4, <2>5, PutExtends DEF TInv
<1>3. CASE WriteCallback
    <2>1. TypeOK'
        BY <1>3, TransferAssumption
            DEF WriteCallback, kinds, netVars, readerVars, TInv, TypeOK, WriterPcs, WriterInv
    <2>2. WriterInv' /\ ReaderInv' /\ DoneInv'
        BY <1>3 DEF WriteCallback, kinds, netVars, readerVars, TInv, TypeOK, WriterInv,
            ReaderInv, DoneInv
    <2>3. WireIsMessage' /\ BufferIsStream' /\ EndInv' /\ DelimInv'
        BY <1>3 DEF WriteCallback, kinds, netVars, readerVars, TInv, WireIsMessage,
            BufferIsStream, EndInv, DelimInv
    <2> QED
        BY <2>1, <2>2, <2>3 DEF TInv
<1>4. CASE WriteOnceCallback \/ WriteFails \/ CloseWriter
    <2>1. /\ UNCHANGED <<kinds, netVars, total_bytes_written, wOffset, wBytes, readerVars>>
          /\ wPc' \in WriterPcs
        BY <1>4 DEF WriteOnceCallback, WriteFails, CloseWriter, WriterPcs
    <2>2. TypeOK' /\ ReaderInv' /\ WireIsMessage' /\ BufferIsStream' /\ DelimInv'
        BY <2>1 DEF kinds, netVars, readerVars, TInv, TypeOK, ReaderInv, WireIsMessage,
            BufferIsStream, DelimInv
    <2>3. WriterInv' /\ DoneInv'
        BY <1>4 DEF WriteOnceCallback, WriteFails, CloseWriter, kinds, netVars,
            readerVars, TInv, TypeOK, WriterInv, DoneInv
    <2>4. EndInv'
        BY <1>4 DEF WriteOnceCallback, WriteFails, CloseWriter, kinds, netVars,
            readerVars, TInv, TypeOK, DoneInv, EndInv
    <2> QED
        BY <2>2, <2>3, <2>4 DEF TInv
<1> QED
    BY <1>1, <1>2, <1>3, <1>4 DEF WriterStep

\* read_until takes n more bytes into its streambuf.
LEMMA ReadUntilPreserves ==
    ASSUME TInv, NEW n \in 1 .. MessageSize, ReadUntil(n)
    PROVE  TInv'
<1>1. /\ consumed' \in 0 .. produced
      /\ consumed' = consumed + n
      /\ UNCHANGED <<wKind, rKind, delim, wire, produced, broken, total_bytes_read,
                     rOffset, rBytes, buf, wPc, total_bytes_written, wOffset, wBytes>>
    BY DEF ReadUntil, kinds, writerVars, TInv, TypeOK
<1>2. \A k \in 1 .. consumed' : wire[k] = k
    BY <1>1 DEF TInv, TypeOK, WireIsMessage
<1>3. CASE delim <= consumed'
    <2>1. wire[delim] = delim
        BY <1>1, <1>2, <1>3 DEF TInv, TypeOK
    <2>2. PICK d \in 1 .. consumed' :
              /\ wire[d] = delim
              /\ message' = [k \in 1 .. d - 1 |-> wire[k]]
              /\ rPc' = "done"
        BY <1>1, <1>3, <2>1 DEF ReadUntil, TInv, TypeOK
    <2>3. d = delim /\ \A k \in 1 .. d - 1 : wire[k] = k
        BY <1>1, <1>2, <2>2 DEF TInv, TypeOK
    <2>4. message' = [k \in 1 .. delim - 1 |-> k]
        BY <2>2, <2>3
    <2>5. DOMAIN message' \subseteq 1 .. MessageSize
        <3>1. DOMAIN message' = 1 .. delim - 1
            BY <2>4
        <3>2. delim \in Nat /\ produced \in 0 .. MessageSize
            BY DEF TInv, TypeOK
        <3>3. 1 .. delim - 1 \subseteq 1 .. MessageSize
            BY <1>1, <1>3, <3>2, TransferAssumption
        <3> QED
            BY <3>1, <3>3
    <2>6. TypeOK'
        BY <1>1, <2>2, <2>5 DEF TInv, TypeOK, ReaderPcs
    <2>7. WriterInv' /\ ReaderInv' /\ DoneInv' /\ EndInv'
        BY <1>1, <2>2 DEF ReadUntil, TInv, TypeOK, WriterInv, ReaderInv, DoneInv, EndInv
    <2>8. WireIsMessage' /\ BufferIsStream' /\ DelimInv'
        BY <1>1, <2>4 DEF ReadUntil, TInv, WireIsMessage, BufferIsStream, DelimInv
    <2> QED
        BY <2>6, <2>7, <2>8 DEF TInv
<1>4. CASE ~(delim <= consumed')
    <2>1. ~ \E k \in 1 .. consumed + n : wire[k] = delim
        BY <1>1, <1>2, <1>4 DEF TInv, TypeOK
    <2>2. UNCHANGED <<message, rPc>>
        BY <2>1 DEF ReadUntil
    <2>3. TypeOK'
        BY <1>1, <2>2 DEF TInv, TypeOK
    <2>4. WriterInv' /\ ReaderInv' /\ DoneInv'
        BY <1>1, <2>2 DEF ReadUntil, TInv, WriterInv, ReaderInv, DoneInv
    <2>5. EndInv'
        BY <1>1, <1>4, <2>2 DEF ReadUntil, TInv, TypeOK, EndInv
    <2>6. WireIsMessage' /\ BufferIsStream' /\ DelimInv'
        BY <1>1, <2>2 DEF ReadUntil, TInv, WireIsMessage, BufferIsStream, DelimInv
    <2> QED
        BY <2>3, <2>4, <2>5, <2>6 DEF TInv
<1> QED
    BY <1>3, <1>4

\* The steps of the reader preserve the invariant.
LEMMA ReaderPreserves == ASSUME TInv, ReaderStep PROVE TInv'
<1>1. ASSUME NEW n \in 1 .. BufSize, ReadSome(n) PROVE TInv'
    <2>1. Get(n, consumed) /\ rKind # "delim"
        BY <1>1 DEF ReadSome, TInv, ReaderInv
    <2>2. WireIsMessage' /\ WriterInv'
        BY <1>1 DEF ReadSome, Get, kinds, writerVars, TInv, WireIsMessage, WriterInv
    <2>3. ReaderInv' /\ DoneInv'
        BY <1>1, TransferAssumption
            DEF ReadSome, Get, kinds, writerVars, TInv, TypeOK, ReaderInv, DoneInv
    <2>4. TypeOK'
        BY <1>1, <2>1, GetExtends, TransferAssumption
            DEF ReadSome, Get, kinds, writerVars, TInv, TypeOK, ReaderPcs
    <2>5. EndInv' /\ DelimInv'
        BY <1>1, TransferAssumption
            DEF ReadSome, Get, kinds, writerVars, TInv, TypeOK, ReaderInv, EndInv, DelimInv
    <2>6. BufferIsStream'
        BY <2>1, GetExtends DEF BufferIsStream
    <2> QED
        BY <2>2, <2>3, <2>4, <2>5, <2>6 DEF TInv
<1>2. ASSUME NEW n \in 1 .. BufSize, AsyncRead(n) PROVE TInv'
    <2>1. Get(n, consumed) /\ rKind # "delim"
        BY <1>2 DEF AsyncRead, TInv, TypeOK, ReaderInv
    <2>2. WireIsMessage' /\ WriterInv'
        BY <1>2 DEF AsyncRead, Get, kinds, writerVars, TInv, WireIsMessage, WriterInv
    <2>3. ReaderInv' /\ DoneInv'
        BY <1>2, TransferAssumption
            DEF AsyncRead, Get, kinds, writerVars, TInv, TypeOK, ReaderInv, DoneInv
    <2>4. TypeOK'
        BY <1>2, <2>1, GetExtends, TransferAssumption
            DEF AsyncRead, Get, kinds, writerVars, TInv, TypeOK, ReaderPcs
    <2>5. EndInv' /\ DelimInv'
        BY <1>2 DEF AsyncRead, Get, kinds, writerVars, TInv, TypeOK, EndInv, DelimInv
    <2>6. BufferIsStream'
        BY <2>1, GetExtends DEF BufferIsStream
    <2> QED
        BY <2>2, <2>3, <2>4, <2>5, <2>6 DEF TInv
<1>3. CASE ReadCallback
    <2>1. TypeOK'
        BY <1>3, TransferAssumption
            DEF ReadCallback, kinds, netVars, writerVars, TInv, TypeOK, ReaderPcs, ReaderInv
    <2>2. WriterInv' /\ ReaderInv' /\ DoneInv'
        BY <1>3 DEF ReadCallback, kinds, netVars, writerVars, TInv, TypeOK, WriterInv,
            ReaderInv, DoneInv
    <2>3. WireIsMessage' /\ BufferIsStream' /\ DelimInv'
        BY <1>3 DEF ReadCallback, kinds, netVars, writerVars, TInv, WireIsMessage,
            BufferIsStream, DelimInv
    <2>4. EndInv'
        BY <1>3, TransferAssumption
            DEF ReadCallback, kinds, netVars, writerVars, TInv, TypeOK, ReaderInv, EndInv
    <2> QED
        BY <2>1, <2>2, <2>3, <2>4 DEF TInv
<1>4. CASE ReadOnceCallback \/ ReadFails \/ CloseReader
    <2>1. /\ UNCHANGED <<kinds, netVars, total_bytes_read, rOffset, rBytes, buf, message,
                         writerVars>>
          /\ rPc' \in ReaderPcs
        BY <1>4 DEF ReadOnceCallback, ReadFails, CloseReader, ReaderPcs
    <2>2. TypeOK' /\ WriterInv' /\ WireIsMessage' /\ BufferIsStream'
        BY <2>1 DEF kinds, netVars, writerVars, TInv, TypeOK, WriterInv, WireIsMessage,
            BufferIsStream
    <2>3. ReaderInv' /\ DoneInv'
        BY <1>4 DEF ReadOnceCallback, ReadFails, CloseReader, kinds, netVars,
            writerVars, TInv, TypeOK, ReaderInv, DoneInv
    <2>4. EndInv' /\ DelimInv'
        BY <1>4 DEF ReadOnceCallback, ReadFails, CloseReader, kinds, netVars,
            writerVars, TInv, TypeOK, EndInv, DelimInv
    <2> QED
        BY <2>2, <2>3, <2>4 DEF TInv
<1> QED
    BY <1>1, <1>2, <1>3, <1>4, ReadUntilPreserves DEF ReaderStep

\* The inductive invariant holds in every reachable state.
THEOREM TransferInvariant == Spec => []TInv
<1>1. TInv /\ [Next]_vars => TInv'
    <2> SUFFICES ASSUME TInv, [Next]_vars PROVE TInv'
        OBVIOUS
    <2>1. CASE Break \/ UNCHANGED vars
        <3>1. /\ UNCHANGED <<kinds, wire, produced, consumed, writerVars, readerVars>>
              /\ broken' \in BOOLEAN /\ (broken => broken')
            BY <2>1 DEF Break, vars, netVars, TInv, TypeOK
        <3> QED
            BY <3>1 DEF kinds, writerVars, readerVars, TInv, TypeOK, WriterInv,
                ReaderInv, DoneInv, WireIsMessage, BufferIsStream, EndInv, DelimInv
    <2> QED
        BY <2>1, WriterPreserves, ReaderPreserves DEF Next
<1> QED
    BY <1>1, InitTInv, PTL DEF Spec

\* The counters of the loops stay within their buffers.
THEOREM TransferTypeCorrect == Spec => []TypeOK
<1>1. TInv => TypeOK
    BY DEF TInv
<1> QED
    BY <1>1, TransferInvariant, PTL

\* The repeated partial writes put the message into the connection unchanged.
THEOREM TransferWireIsMessage == Spec => []WireIsMessage
<1>1. TInv => WireIsMessage
    BY DEF TInv
<1> QED
    BY <1>1, TransferInvariant, PTL

\* The repeated partial reads put the stream into the buffer unchanged.
THEOREM TransferBufferIsStream == Spec => []BufferIsStream
<1>1. TInv => BufferIsStream
    BY DEF TInv
<1> QED
    BY <1>1, TransferInvariant, PTL

\* A reader that reports success has what it waited for.
THEOREM TransferReaderGetsAll == Spec => []ReaderGetsAll
<1>1. TInv => ReaderGetsAll
    BY TransferAssumption DEF TInv, TypeOK, DoneInv, BufferIsStream, DelimInv, ReaderGetsAll
<1> QED
    BY <1>1, TransferInvariant, PTL

\* For every size of message, buffer and connection: over a connection that was
\* never reset a reader fails only at the end of a stream too short for it, and
\* the stream of a writer that loops is the whole message.
THEOREM TransferFailedReaderWasShort == Spec => []FailedReaderWasShort
<1>1. TInv => FailedReaderWasShort
    BY TransferAssumption DEF TInv, TypeOK, Kinds, EndInv, FailedReaderWasShort
<1> QED
    BY <1>1, TransferInvariant, PTL

=============================================================================
