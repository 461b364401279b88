----------------------------- MODULE SseDecoder -----------------------------
(***************************************************************************)
(* Decoder of gw-providers/src/sse.rs: it cuts a stream of byte chunks,    *)
(* which end anywhere, into the events of its lines.  Bytes are abstracted *)
(* to what process_line tells apart: "p" the field name `data:`, "D" the   *)
(* sentinel `[DONE]`, "x" anything else, NL the newline.                   *)
(***************************************************************************)
EXTENDS Naturals, Sequences, SequencesExt

CONSTANTS MaxBytes, \* bound: symbols the stream carries
          MaxChunk  \* bound: symbols of one chunk

VARIABLES received,     \* history: every byte that came
          ended,        \* history: how the byte stream ended, or "no"
          line_buf,     \* bytes without a newline yet
          ready,        \* items not yielded yet
          stream_ended, \* no byte will come
          saw_done,     \* the sentinel was seen
          flushed,      \* the rest of the buffer was processed
          finished,     \* nothing will be yielded any more
          yielded       \* the items yielded

source == <<received, ended>>
vars == <<source, line_buf, ready, stream_ended, saw_done, flushed, finished, yielded>>

NL == "n"
Byte == {"p", "D", "x", NL}

Done == [event |-> "Done", payload |-> <<>>]
Data(payload) == [event |-> "Data", payload |-> payload]
Failed(class) == [event |-> class, payload |-> <<>>]
Ends == {Done, Failed("Transport"), Failed("StreamReset")}

\* process_line: a line has one item or none.
process_line(line) ==
    IF Len(line) < 2 \/ Head(line) # "p" THEN <<>>
    ELSE IF Tail(line) = <<"D">> THEN <<Done>> ELSE <<Data(Tail(line))>>

\* ingest: every complete line of the buffer, up to the sentinel.
ingest[bytes \in Seq(Byte)] ==
    LET at == SelectInSeq(bytes, LAMBDA b : b = NL)
        item == process_line(SubSeq(bytes, 1, at - 1))
        rest == SubSeq(bytes, at + 1, Len(bytes))
    IN  IF at = 0 THEN [line_buf |-> bytes, items |-> <<>>]
        ELSE IF item = <<Done>> THEN [line_buf |-> rest, items |-> item]
        ELSE [line_buf |-> ingest[rest].line_buf, items |-> item \o ingest[rest].items]

--------------------------------------------------------------------------
(* next_item: one turn of its loop per step.                               *)

Yield ==
    /\ ~ finished /\ ready # <<>>
    /\ yielded' = Append(yielded, Head(ready)) /\ ready' = Tail(ready)
    /\ finished' = (Head(ready) \in Ends \ {Done})
    /\ UNCHANGED <<source, line_buf, stream_ended, saw_done, flushed>>

Finish ==
    /\ ~ finished /\ ready = <<>> /\ (saw_done \/ (stream_ended /\ flushed))
    /\ finished' = TRUE
    /\ UNCHANGED <<source, line_buf, ready, stream_ended, saw_done, flushed, yielded>>

\* The bytes ended without the sentinel.  A last line counts without its newline.
flush_terminal ==
    /\ ~ finished /\ ready = <<>> /\ ~ saw_done /\ stream_ended /\ ~ flushed
    /\ LET item == process_line(line_buf) IN
           /\ saw_done' = (item = <<Done>>)
           /\ ready' = IF item = <<Done>> THEN item
                       ELSE Append(item, Failed("StreamReset"))
    /\ line_buf' = <<>> /\ flushed' = TRUE
    /\ UNCHANGED <<source, stream_ended, finished, yielded>>

Wants == ~ finished /\ ready = <<>> /\ ~ saw_done /\ ~ stream_ended

\* Mutated: lines are looked for in chunks that end with one.
ChunkHoldsBack ==
    /\ Wants
    /\ \E n \in 0 .. MaxChunk : \E bytes \in [1 .. n -> Byte] :
           /\ Len(received) + n <= MaxBytes
           /\ received' = received \o bytes
           /\ LET in == IF n > 0 /\ bytes[n] = NL THEN ingest[line_buf \o bytes]
                        ELSE [line_buf |-> line_buf \o bytes, items |-> <<>>] IN
                  /\ line_buf' = in.line_buf /\ ready' = in.items
                  /\ saw_done' = Contains(in.items, Done)
    /\ UNCHANGED <<ended, stream_ended, flushed, finished, yielded>>
Chunk ==
    /\ Wants
    /\ \E n \in 0 .. MaxChunk : \E bytes \in [1 .. n -> Byte] :
           /\ Len(received) + n <= MaxBytes
           /\ received' = received \o bytes
           /\ LET in == ingest[line_buf \o bytes] IN
                  /\ line_buf' = in.line_buf /\ ready' = in.items
                  /\ saw_done' = Contains(in.items, Done)
    /\ UNCHANGED <<ended, stream_ended, flushed, finished, yielded>>

\* The connection fails, or closes.
ReadFails ==
    /\ Wants /\ ended' = "error" /\ stream_ended' = TRUE
    /\ ready' = <<Failed("Transport")>>
    /\ UNCHANGED <<received, line_buf, saw_done, flushed, finished, yielded>>

Close ==
    /\ Wants /\ ended' = "eof" /\ stream_ended' = TRUE
    /\ UNCHANGED <<received, line_buf, ready, saw_done, flushed, finished, yielded>>

Init == /\ received = <<>> /\ ended = "no" /\ line_buf = <<>> /\ ready = <<>>
        /\ stream_ended = FALSE /\ saw_done = FALSE /\ flushed = FALSE
        /\ finished = FALSE /\ yielded = <<>>

Decode == Yield \/ Finish \/ flush_terminal
Next == Decode \/ Chunk \/ ReadFails \/ Close

Spec == Init /\ [][Next]_vars

--------------------------------------------------------------------------
(* The reference: what the bytes mean, one after the other.                *)

Scan(text) ==
    FoldLeft(LAMBDA s, b :
                 IF Contains(s.items, Done) THEN s
                 ELSE IF b = NL
                 THEN [line |-> <<>>, items |-> s.items \o process_line(s.line)]
                 ELSE [s EXCEPT !.line = Append(@, b)],
             [line |-> <<>>, items |-> <<>>], text)

Meaning(text, end) ==
    LET s == Scan(text)
        last == process_line(s.line)
    IN  IF Contains(s.items, Done) \/ end = "no" THEN s.items
        ELSE IF end = "error" THEN Append(s.items, Failed("Transport"))
        ELSE s.items \o (IF last = <<Done>> THEN last
                         ELSE Append(last, Failed("StreamReset")))

(* Type invariant: the fields of Decoder. *)
TypeOK ==
    /\ received \in Seq(Byte) /\ Len(received) <= MaxBytes
    /\ ended \in {"no", "eof", "error"}
    /\ line_buf \in Seq(Byte)
    /\ \A items \in {ready, yielded} : \A n \in DOMAIN items :
           \/ items[n] \in Ends
           \/ items[n].event = "Data" /\ items[n].payload \in Seq(Byte)
    /\ {stream_ended, saw_done, flushed, finished} \subseteq BOOLEAN
    /\ stream_ended <=> ended # "no"

\* What the consumer gets depends on the bytes and their end only, never on where
\* the chunks were cut: each item in order, all of them once the decoder finished,
\* and before it asks for more bytes all that the bytes so far amount to, so that
\* no event waits in the buffer for the next chunk (ingest, flush_terminal).
ChunkingDoesNotMatter ==
    /\ TypeOK
    /\ IsPrefix(yielded, Meaning(received, ended))
    /\ finished => yielded = Meaning(received, ended)
    /\ Wants => yielded = Meaning(received, "no")
=============================================================================
