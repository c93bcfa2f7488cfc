----------------------------- MODULE LineBuffer -----------------------------
(***************************************************************************)
(* src/client_manager.c: client_buffer_append and                          *)
(* client_buffer_extract_line, called by the reading half of a worker      *)
(* (src/worker.c): one SSL_read, one append, then extract until it fails.  *)
(* The buffer is a C array: what a shorter content leaves behind stays in  *)
(* it, and strchr stops only at the zero byte that both functions write    *)
(* behind the content.                                                     *)
(***************************************************************************)
EXTENDS Integers, Sequences, FiniteSets

CONSTANTS
  Byte, NL, NUL,      \* the bytes told apart: the newline, the zero byte, others
  SIZE,               \* sizeof(c->buffer), 2048
  READ_MAX,           \* sizeof(temp_buf) - 1, 1023
  MAX_LEN,            \* sizeof(complete_message), 1024
  MaxStream           \* bound: bytes the peer sends

ASSUME Bytes == NL \in Byte /\ NUL \in Byte /\ NL # NUL
ASSUME Sizes ==
  /\ SIZE \in Nat \ {0} /\ READ_MAX \in Nat \ {0} /\ MAX_LEN \in Nat \ {0}
  /\ MaxStream \in Nat

VARIABLES
  buffer, buffer_len,
  looping,            \* the worker is between the append and the failing extract
  sent,               \* history: bytes received since the last overflow
  lines,              \* history: lines extracted since the last overflow
  total               \* counts against MaxStream

lbVars == <<buffer, buffer_len, looping, sent, lines, total>>

Index == 0 .. SIZE - 1

\* malloc leaves the array as it finds it; client_add only resets the length.
lbInit ==
  /\ buffer \in [Index -> Byte]
  /\ buffer_len = 0
  /\ looping = FALSE
  /\ sent = <<>> /\ lines = <<>>
  /\ total = 0

\* Fault: the content is not terminated.
Terminate_Never(b, n) == b

Terminate(b, n) == [b EXCEPT ![n] = NUL]

\* memcpy of data behind the content.
Copy(data) ==
  [i \in Index |-> IF i \in buffer_len .. buffer_len + Len(data) - 1
                     THEN data[i - buffer_len + 1] ELSE buffer[i]]

Overflows(len) == buffer_len + len >= SIZE

\* A read that does not fit empties the buffer: old and new bytes are lost.
client_buffer_append(data) ==
  IF Overflows(Len(data))
    THEN /\ buffer_len' = 0
         /\ sent' = <<>> /\ lines' = <<>>
         /\ UNCHANGED buffer
    ELSE /\ buffer' = Terminate(Copy(data), buffer_len + Len(data))
         /\ buffer_len' = buffer_len + Len(data)
         /\ sent' = sent \o data
         /\ UNCHANGED lines

\* What one SSL_read may return.
Reads == UNION {[1 .. n -> Byte] : n \in 1 .. READ_MAX}

ssl_read ==
  /\ ~looping
  /\ \E data \in Reads :
       /\ total + Len(data) <= MaxStream
       /\ client_buffer_append(data)
       /\ total' = total + Len(data)
  /\ looping' = TRUE

\* strchr(buffer, '\n'): where the newline may be; at most one place.
Newline ==
  {i \in Index : buffer[i] = NL /\ \A j \in 0 .. i - 1 : buffer[j] \notin {NL, NUL}}

\* Fault: the newline stays in the buffer.
Consumed_NotNewline(i) == i

\* bytes_to_remove for a newline at i.
Consumed(i) == i + 1

Truncated(line) == SubSeq(line, 1, IF Len(line) < MAX_LEN - 1 THEN Len(line) ELSE MAX_LEN - 1)

\* memmove of the remaining bytes to the front.
Move(by, remaining) ==
  [k \in Index |-> IF k < remaining THEN buffer[k + by] ELSE buffer[k]]

client_buffer_extract_line ==
  /\ looping
  /\ buffer_len # 0
  /\ \E i \in Newline :
       LET remaining == buffer_len - Consumed(i)
       IN  /\ lines' = Append(lines, Truncated([k \in 1 .. i |-> buffer[k - 1]]))
           /\ buffer' = Terminate(Move(Consumed(i), remaining), remaining)
           /\ buffer_len' = remaining
  /\ UNCHANGED <<looping, sent, total>>

\* extract returns 0 and the worker re-arms the descriptor.
extract_fails ==
  /\ looping
  /\ buffer_len = 0 \/ Newline = {}
  /\ looping' = FALSE
  /\ UNCHANGED <<buffer, buffer_len, sent, lines, total>>

lbNext == ssl_read \/ client_buffer_extract_line \/ extract_fails

lbSpec == lbInit /\ [][lbNext]_lbVars

----------------------------------------------------------------------------

\* A search for the end of the content stops inside the array: a non-empty
\* content is followed by the zero byte (client_buffer_append line 136,
\* client_buffer_extract_line line 157), also after an overflow has emptied the
\* buffer without clearing it.  And buffer_len stays in its range: strchr never finds a
\* newline behind the content, where an earlier content or malloc may have left one.
ContentTerminated ==
  /\ buffer_len \in 0 .. SIZE - 1
  /\ buffer_len # 0 => buffer[buffer_len] = NUL

\* Where the content begins in the stream: the bytes up to there have been taken.
Contents == [k \in 1 .. buffer_len |-> buffer[k - 1]]
Taken == Len(sent) - buffer_len

\* A line of a stream s lies between o, its beginning or a newline, and the next newline,
\* p; and is the LineNo(s, p)-th.
IsLine(s, o, p) == /\ s[p] = NL /\ (o = 0 \/ s[o] = NL)
                   /\ \A q \in o + 1 .. p - 1 : s[q] # NL
LineNo(s, p) == Cardinality({q \in 1 .. p : s[q] = NL})

\* However the peer's bytes are cut into reads, the lines the worker has taken are the
\* lines of the stream, in order, none twice, none lost, each cut to what
\* complete_message holds; the content is what follows them, and holds no further line
\* when the worker waits for the next read; nothing that an overflow dropped or malloc
\* left comes back.  The stream counts from the last overflow and holds no zero byte.
LinesOfTheStream ==
  (\A k \in 1 .. Len(sent) : sent[k] # NUL) =>
    /\ Contents = SubSeq(sent, Taken + 1, Len(sent))
    /\ Taken = 0 \/ sent[Taken] = NL
    /\ Len(lines) = LineNo(sent, Taken)
    /\ \A p \in 1 .. Taken : \A o \in 0 .. p - 1 :
         IsLine(sent, o, p) => lines[LineNo(sent, p)] = Truncated(SubSeq(sent, o + 1, p - 1))
    /\ ~looping => \A k \in 1 .. buffer_len : Contents[k] # NL
=============================================================================
