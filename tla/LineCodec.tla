------------------------------- MODULE LineCodec -------------------------------
(***************************************************************************)
(* JSON-RPC over a byte stream (transport/async_rw.rs), as stdio and child *)
(* processes use it: tasks share a FramedWrite behind a lock and write one *)
(* message per line, the pipe hands the reader pieces of any size, and     *)
(* JsonRpcMessageCodec finds the lines again.  Each disjunct of the match  *)
(* in decode is an action; nothing else touches the buffer meanwhile.      *)
(***************************************************************************)
EXTENDS Naturals, Sequences, FiniteSets, SequencesExt

CONSTANTS
    Messages,       \* what is sent, each by a task of its own
    MaxLength,      \* max_length of the codec
    MaxNoise,       \* bound on the bytes another writer puts on the pipe
    None, Error, Newline, CarriageReturn, Brace, Junk

Blank == {Newline, CarriageReturn}
Noise == Blank \cup {Junk}
Bytes == Messages \cup Noise \cup {Brace}

ASSUME LineCodecAssumption ==
    /\ MaxLength \in Nat /\ MaxNoise \in Nat /\ IsFiniteSet(Messages)
    /\ Messages \cap (Noise \cup {Brace, None, Error}) = {}
    /\ Cardinality({Newline, CarriageReturn, Brace, Junk}) = 4

VARIABLES
    locked,         \* messages in the order their tasks took the lock
    holder, unwritten,
    pipe, broken, noise,
    taken,          \* every byte read so far
    buf, nextIndex, discarding,
    mode, eof, items

writer == <<locked, holder, unwritten>>
decoder == <<nextIndex, discarding>>
vars == <<writer, pipe, broken, noise, taken, buf, decoder, mode, eof, items>>

\* A message is as short as a line can be: its text and the brace that ends it.
Text(m) == <<m, Brace>>

EncodeBare(m) == Text(m)
Encode(m) == Append(Text(m), Newline)

\* JSON takes a carriage return for a blank.
Reads(line, m) ==
    \E i, j \in DOMAIN line :
        /\ i < j /\ line[i] = m /\ line[j] = Brace
        /\ \A k \in DOMAIN line \ {i, j} : line[k] = CarriageReturn

Parse(line) ==
    LET read == {m \in Messages : Reads(line, m)}
    IN IF read = {} THEN Error ELSE CHOOSE m \in read : TRUE

Init ==
    /\ locked = <<>> /\ holder = None /\ unwritten = <<>>
    /\ pipe = <<>> /\ broken = FALSE /\ noise = 0 /\ taken = <<>>
    /\ buf = <<>> /\ nextIndex = 0 /\ discarding = FALSE
    /\ mode = "read" /\ eof = FALSE /\ items = <<>>

(***************************************************************************)
(* AsyncRwTransport::send, in a task of its own.                           *)
(***************************************************************************)
Lock(m) ==
    /\ holder = None /\ ~Contains(locked, m) /\ holder' = m
    /\ locked' = Append(locked, m) /\ unwritten' = unwritten \o Encode(m)
    /\ UNCHANGED <<pipe, broken, noise, taken, buf, decoder, mode, eof, items>>

Flush ==
    /\ holder # None /\ ~broken /\ unwritten # <<>>
    /\ \E n \in 1 .. Len(unwritten) :
        pipe' = pipe \o SubSeq(unwritten, 1, n) /\ unwritten' = SubSeq(unwritten, n + 1, Len(unwritten))
    /\ UNCHANGED <<locked, holder, broken, noise, taken, buf, decoder, mode, eof, items>>

\* The send returns; on an error what was not written stays in the buffer.
Unlock ==
    /\ holder # None /\ (unwritten = <<>> \/ broken)
    /\ holder' = None
    /\ UNCHANGED <<locked, unwritten, pipe, broken, noise, taken, buf, decoder, mode, eof, items>>

\* The writing process ends or is killed with its transport; close waits for no send.
Break ==
    /\ ~broken /\ broken' = TRUE
    /\ UNCHANGED <<writer, pipe, noise, taken, buf, decoder, mode, eof, items>>

OtherBytes ==
    /\ noise < MaxNoise /\ ~broken /\ noise' = noise + 1
    /\ \E b \in Noise : pipe' = Append(pipe, b)
    /\ UNCHANGED <<writer, broken, taken, buf, decoder, mode, eof, items>>

(***************************************************************************)
(* FramedRead and the decoder.                                             *)
(***************************************************************************)
Read ==
    /\ mode \in {"read", "errored"} /\ ~eof /\ mode' = "decode"
    /\ \E n \in 1 .. Len(pipe) :
        LET piece == SubSeq(pipe, 1, n) IN
        /\ pipe' = SubSeq(pipe, n + 1, Len(pipe)) /\ buf' = buf \o piece /\ taken' = taken \o piece
    /\ UNCHANGED <<writer, broken, noise, decoder, eof, items>>

Finished == broken \/ (holder = None /\ Range(locked) = Messages)

ReadEof ==
    /\ mode \in {"read", "errored"} /\ ~eof /\ pipe = <<>> /\ Finished
    /\ eof' = TRUE /\ mode' = "decode"
    /\ UNCHANGED <<writer, pipe, broken, noise, taken, buf, decoder, items>>

Smaller(a, b) == IF a < b THEN a ELSE b
ReadToLimit == Smaller(MaxLength, Len(buf))
ReadTo == Smaller(MaxLength + 1, Len(buf))

Newlines == {i \in nextIndex + 1 .. ReadTo : buf[i] = Newline}
FirstNewline == CHOOSE i \in Newlines : \A j \in Newlines : i <= j
Advance(n) == buf' = SubSeq(buf, n + 1, Len(buf))

SameIndex == nextIndex
LineStart == 0

Emit(item) == items' = Append(items, item)

\* A reader may poll again after an error, the transport does not: receive returns None.
Fail(next) == Emit(Error) /\ (IF eof THEN mode' = "over" ELSE mode' \in {next, "over"})

StopDiscarding ==
    /\ mode = "decode" /\ discarding /\ Newlines # {}
    /\ Advance(FirstNewline) /\ discarding' = FALSE /\ nextIndex' = LineStart
    /\ UNCHANGED <<writer, pipe, broken, noise, taken, mode, eof, items>>

\* When nothing is left decode returns None, and the stream of an ended pipe ends.
Discard ==
    /\ mode = "decode" /\ discarding /\ Newlines = {}
    /\ Advance(ReadTo) /\ nextIndex' = LineStart
    /\ mode' = IF buf' # <<>> THEN mode ELSE IF eof THEN "over" ELSE "read"
    /\ UNCHANGED <<writer, pipe, broken, noise, taken, discarding, eof, items>>

FoundLine ==
    /\ mode = "decode" /\ ~discarding /\ Newlines # {}
    /\ nextIndex' = LineStart /\ Advance(FirstNewline)
    /\ LET item == Parse(SubSeq(buf, 1, FirstNewline - 1)) IN
       IF item = Error THEN Fail("errored") ELSE Emit(item) /\ UNCHANGED mode
    /\ UNCHANGED <<writer, pipe, broken, noise, taken, discarding, eof>>

LineTooLong ==
    /\ mode = "decode" /\ ~discarding /\ Newlines = {} /\ Len(buf) > MaxLength
    /\ discarding' = TRUE /\ Fail("errored")
    /\ UNCHANGED <<writer, pipe, broken, noise, taken, buf, nextIndex, eof>>

WaitForMore ==
    /\ mode = "decode" /\ ~discarding /\ Newlines = {} /\ Len(buf) <= MaxLength /\ ~eof
    /\ nextIndex' = ReadTo /\ mode' = "read"
    /\ UNCHANGED <<writer, pipe, broken, noise, taken, buf, discarding, eof, items>>

\* decode_eof takes the rest for a line.
LastLine ==
    /\ mode = "decode" /\ ~discarding /\ Newlines = {} /\ Len(buf) <= MaxLength /\ eof
    /\ nextIndex' = 0
    /\ IF buf \in {<<>>, <<CarriageReturn>>}
       THEN mode' = "over" /\ UNCHANGED <<buf, items>>
       ELSE /\ buf' = <<>>
            /\ IF Parse(buf) = Error THEN Fail("over") ELSE Emit(Parse(buf)) /\ UNCHANGED mode
    /\ UNCHANGED <<writer, pipe, broken, noise, taken, discarding, eof>>

Send == Flush \/ Unlock \/ \E m \in Messages : Lock(m)
Receive ==
    \/ Read \/ ReadEof \/ StopDiscarding \/ Discard \/ FoundLine \/ LineTooLong \/ WaitForMore \/ LastLine
Next == Send \/ Receive \/ Break \/ OtherBytes

Spec == Init /\ [][Next]_vars

(***************************************************************************)
(* What the reader should get: the outcome of each line of the bytes so    *)
(* far, whatever pieces they came in.                                      *)
(***************************************************************************)
Outcome(line) == IF Len(line) > MaxLength THEN Error ELSE Parse(line)

\* Where lines end, the number of the line that ends at i, and where the k-th begins and ends.
Ends(s) == {i \in DOMAIN s : s[i] = Newline}
Number(s, i) == Cardinality({j \in Ends(s) : j <= i})
End(s, k) == CHOOSE i \in Ends(s) : Number(s, i) = k
Begin(s, k) == IF k = 1 THEN 1 ELSE End(s, k - 1) + 1

Lines(s) == [k \in 1 .. Cardinality(Ends(s)) |-> Outcome(SubSeq(s, Begin(s, k), End(s, k) - 1))]
Rest(s) == SubSeq(s, Begin(s, Cardinality(Ends(s)) + 1), Len(s))

Reference(s, final) ==
    IF Len(Rest(s)) > MaxLength \/ (final /\ Rest(s) \notin {<<>>, <<CarriageReturn>>})
    THEN Append(Lines(s), Outcome(Rest(s))) ELSE Lines(s)

Failed == items # <<>> /\ Last(items) = Error

(***************************************************************************)
(* Properties.                                                             *)
(***************************************************************************)
\* Every variable has its type, and the index the decoder slices its buffer from lies
\* in the part it looks at: decode never panics (async_rw.rs 205-209).
TypeOK ==
    /\ locked \in Seq(Messages) /\ holder \in Messages \cup {None}
    /\ {unwritten, pipe, taken, buf} \subseteq Seq(Bytes)
    /\ {broken, discarding, eof} \subseteq BOOLEAN /\ noise \in 0 .. MaxNoise
    /\ mode \in {"read", "decode", "errored", "over"} /\ items \in Seq(Messages \cup {Error})
    /\ nextIndex \in 0 .. ReadTo

\* However the bytes were cut into pieces, whatever other bytes are among them and however
\* long a line is, the reader gets what the lines of those bytes amount to, in order, and
\* lacks none of it when it waits for more or the stream ends (async_rw.rs 198-275).
PiecesDoNotMatter ==
    /\ IsPrefix(items, Reference(taken, eof))
    /\ mode = "read" \/ (mode = "over" /\ ~Failed) => items = Reference(taken, eof)

\* Messages of concurrent tasks arrive whole, once, in the order their tasks took the
\* lock, and all of them unless the writer was cut off (async_rw.rs 99-108, 281-285).
FramesWhole ==
    noise = 0 /\ MaxLength > 1 =>
        /\ \A k \in DOMAIN items :
            \/ k \in DOMAIN locked /\ items[k] = locked[k]
            \/ items[k] = Error /\ k = Len(items) /\ broken
        /\ mode = "over" /\ ~broken => items = locked
=============================================================================
