------------------------------- MODULE Terminal --------------------------------
(***************************************************************************)
(* A remote terminal (shared/commands/terminal.rs) over the object and     *)
(* chunk transports (svalin_rpc: object_transport.rs, chunked_transport.rs).*)
(*                                                                         *)
(* Each side is one loop around select!: it reads an object, or writes one *)
(* when there is input (the client) or output of the shell (the agent).    *)
(* An object is a length and a body, which travel separately; select! drops*)
(* the reading branch wherever it is when another branch is ready, and a   *)
(* length that was already taken from the stream is then forgotten.        *)
(* Writing is not part of the select!, so a side that waits for room in    *)
(* the stream neither reads nor sees a cancellation.                       *)
(*                                                                         *)
(* A length takes LengthBytes bytes with the top bit set, or one byte      *)
(* below 128.  The code has 4; TLC's numbers allow 2 to be tried.  A body  *)
(* is reduced to its size.                                                 *)
(***************************************************************************)
EXTENDS Integers, Sequences, SequencesExt

CONSTANTS
    LengthBytes,    \* bytes of an extended length (4 in the code)
    Sizes,          \* sizes of the objects the sides write
    PipeCap,        \* pieces that fit into a stream
    MaxInputs, MaxOutputs

VARIABLES
    client,     \* "run", "close" (writes Close) or "ended"
    agent,      \* "size" (reads the terminal's size), "run", "last" or "ended"
    writing,    \* [Sides -> pieces of its object that are not written yet]
    pipe,       \* [Sides -> pieces it wrote that are not read yet]
    got,        \* [Sides -> the length its read has taken, or <<>>]
    torn,       \* [Sides -> a length was forgotten]
    misread,    \* [Sides -> a body of another length was read]
    sent,       \* [Sides -> objects it began to write]
    received,   \* [Sides -> objects it read]
    cancelled,  \* [Sides -> its cancellation token]
    shell       \* the shell on the agent: "alive" or "exited"

vars == <<client, agent, writing, pipe, got, torn, misread, sent, received, cancelled, shell>>

Sides == {"client", "agent"}
Other(s) == IF s = "client" THEN "agent" ELSE "client"

\* What byte i of an extended length counts for, and the bit that marks one.
Weight(i) == <<1, 256, 65536, 16777216>>[LengthBytes - i + 1]
Top == 128 * Weight(1)

\* The code's length has four bytes, and it panics for sizes above Top.
LengthsFit == LengthBytes \in 2 .. 4 /\ Sizes \subseteq 0 .. Top /\ PipeCap \in Nat \ {0}

TypeOK ==
    /\ client \in {"run", "close", "ended"} /\ agent \in {"size", "run", "last", "ended"}
    /\ \A s \in Sides : /\ Len(writing[s]) <= 2 /\ Len(pipe[s]) <= PipeCap
                        /\ Len(got[s]) <= 1 /\ Len(received[s]) <= Len(sent[Other(s)])
    /\ torn \in [Sides -> BOOLEAN] /\ misread \in [Sides -> BOOLEAN]
    /\ cancelled \in [Sides -> BOOLEAN] /\ shell \in {"alive", "exited"}

-----------------------------------------------------------------------------
(* ChunkLength.                                                            *)

BigEndian(n) == [i \in 1..LengthBytes |-> (n \div Weight(i)) % 256]

FromUsizeShort128(n) == IF n <= 128 THEN <<n>> ELSE BigEndian((n % Top) + Top)

\* from_usize; a length above Top panics.
FromUsize(n) == IF n < 128 THEN <<n>> ELSE BigEndian((n % Top) + Top)

\* try_from_byte, from_4bytes, to_usize.  A first byte with its top bit set
\* takes the following ones, which then are of the body if there are none.
ToUsize(bytes) ==
    LET value(i) == IF i <= LengthBytes THEN bytes[i] * Weight(i) ELSE 0
    IN CASE bytes[1] < 128 -> bytes[1]
         [] Len(bytes) = LengthBytes -> (bytes[1] % 128) * Weight(1) + value(2) + value(3) + value(4)
         [] OTHER -> -1

-----------------------------------------------------------------------------
Object(kind, size) == [kind |-> kind, size |-> size]

\* write_object, write_chunk: the length, then the body.
Pieces(object) == <<[part |-> "length", bytes |-> FromUsize(object.size)],
                    [part |-> "body", object |-> object]>>

Write(s, object) ==
    /\ writing' = [writing EXCEPT ![s] = Pieces(object)]
    /\ sent' = [sent EXCEPT ![s] = Append(@, object)]

Init ==
    /\ client = "run" /\ agent = "size" /\ shell = "alive"
    /\ writing = [s \in Sides |-> IF s = "client" THEN Pieces(Object("size", 1)) ELSE <<>>]
    /\ sent = [s \in Sides |-> IF s = "client" THEN <<Object("size", 1)>> ELSE <<>>]
    /\ pipe = [s \in Sides |-> <<>>] /\ got = [s \in Sides |-> <<>>]
    /\ torn = [s \in Sides |-> FALSE] /\ misread = [s \in Sides |-> FALSE]
    /\ received = [s \in Sides |-> <<>>]
    /\ cancelled = [s \in Sides |-> FALSE]

Over(s) == IF s = "client" THEN client = "ended" ELSE agent = "ended"

\* The side is in its select!, or for the agent in its first read.
Selecting(s) ==
    /\ writing[s] = <<>>
    /\ IF s = "client" THEN client = "run" ELSE agent \in {"size", "run"}

\* Another branch is ready: the read is dropped.
DropRead(s) ==
    /\ torn' = [torn EXCEPT ![s] = @ \/ got[s] # <<>>]
    /\ got' = [got EXCEPT ![s] = <<>>]

\* A loop is left: the client still writes Close, the agent returns.
Leave(s) ==
    IF s = "client"
      THEN client' = "close" /\ UNCHANGED agent /\ Write(s, Object("close", 1))
      ELSE agent' = "ended" /\ UNCHANGED <<client, writing, sent>>

-----------------------------------------------------------------------------
(* The environment.                                                        *)

Cancel(s) ==
    /\ ~cancelled[s]
    /\ cancelled' = [cancelled EXCEPT ![s] = TRUE]
    /\ UNCHANGED <<client, agent, writing, pipe, got, torn, misread, sent, received, shell>>

ShellExits ==
    /\ agent \in {"run", "last"} /\ shell = "alive"
    /\ shell' = "exited"
    /\ UNCHANGED <<client, agent, writing, pipe, got, torn, misread, sent, received, cancelled>>

-----------------------------------------------------------------------------
(* Writing.                                                                *)

WritePieceUnbounded(s) ==
    /\ writing[s] # <<>> /\ ~Over(s) /\ ~Over(Other(s))
    /\ pipe' = [pipe EXCEPT ![s] = Append(@, Head(writing[s]))]
    /\ writing' = [writing EXCEPT ![s] = Tail(@)]
    /\ client' = IF s = "client" /\ client = "close" /\ Len(writing[s]) = 1 THEN "ended" ELSE client
    /\ agent' = IF s = "agent" /\ agent = "last" /\ Len(writing[s]) = 1 THEN "ended" ELSE agent
    /\ UNCHANGED <<got, torn, misread, sent, received, cancelled, shell>>

\* write_all waits for room; after the last object the side returns.
WritePiece(s) ==
    /\ writing[s] # <<>> /\ ~Over(s) /\ ~Over(Other(s)) /\ Len(pipe[s]) < PipeCap
    /\ pipe' = [pipe EXCEPT ![s] = Append(@, Head(writing[s]))]
    /\ writing' = [writing EXCEPT ![s] = Tail(@)]
    /\ client' = IF s = "client" /\ client = "close" /\ Len(writing[s]) = 1 THEN "ended" ELSE client
    /\ agent' = IF s = "agent" /\ agent = "last" /\ Len(writing[s]) = 1 THEN "ended" ELSE agent
    /\ UNCHANGED <<got, torn, misread, sent, received, cancelled, shell>>

\* The other end is gone: the write fails and the side returns the error.
WriteFails(s) ==
    /\ writing[s] # <<>> /\ ~Over(s) /\ Over(Other(s))
    /\ client' = IF s = "client" THEN "ended" ELSE client
    /\ agent' = IF s = "agent" THEN "ended" ELSE agent
    /\ UNCHANGED <<writing, pipe, got, torn, misread, sent, received, cancelled, shell>>

-----------------------------------------------------------------------------
(* Reading.                                                                *)

ReadLength(s) ==
    /\ Selecting(s) /\ ~torn[s] /\ got[s] = <<>> /\ pipe[Other(s)] # <<>>
    /\ got' = [got EXCEPT ![s] = <<Head(pipe[Other(s)]).bytes>>]
    /\ pipe' = [pipe EXCEPT ![Other(s)] = Tail(@)]
    /\ UNCHANGED <<client, agent, writing, torn, misread, sent, received, cancelled, shell>>

\* What the side does with an object it has read.  Input for a shell that has
\* exited is an error; starting the shell may fail.
Handle(s, kind) ==
    \/ /\ kind \in {"close", "none"}
       /\ Leave(s)
    \/ /\ kind = "size"
       /\ agent' \in {"run", "ended"} /\ UNCHANGED <<client, writing, sent>>
    \/ /\ kind = "input"
       /\ agent' = (IF shell = "exited" THEN "ended" ELSE agent)
       /\ UNCHANGED <<client, writing, sent>>
    \/ /\ kind = "output"
       /\ UNCHANGED <<client, agent, writing, sent>>

\* The body is there: it is an object if the length was the right one, and an
\* error otherwise.
ReadBody(s) ==
    LET object == Head(pipe[Other(s)]).object IN
    /\ Selecting(s) /\ got[s] # <<>> /\ pipe[Other(s)] # <<>>
    /\ pipe' = [pipe EXCEPT ![Other(s)] = Tail(@)]
    /\ got' = [got EXCEPT ![s] = <<>>]
    /\ IF ToUsize(got[s][1]) = object.size
         THEN /\ received' = [received EXCEPT ![s] = Append(@, object)]
              /\ Handle(s, object.kind)
              /\ UNCHANGED misread
         ELSE /\ misread' = [misread EXCEPT ![s] = TRUE]
              /\ Leave(s) /\ UNCHANGED received
    /\ UNCHANGED <<torn, cancelled, shell>>

\* Bytes that are taken for something they are not: they are swallowed, ...
ReadGarbage(s) ==
    /\ Selecting(s) /\ torn[s] /\ pipe[Other(s)] # <<>>
    /\ pipe' = [pipe EXCEPT ![Other(s)] = Tail(@)]
    /\ UNCHANGED <<client, agent, writing, got, torn, misread, sent, received, cancelled, shell>>

ReadFailsGarbled(s) ==
    /\ Selecting(s)
    /\ torn[s] /\ pipe[Other(s)] # <<>>
    /\ Leave(s)
    /\ UNCHANGED <<pipe, got, torn, misread, received, cancelled, shell>>

\* ... or are no object; also the end of the stream.
ReadFails(s) ==
    /\ Selecting(s)
    /\ (torn[s] /\ pipe[Other(s)] # <<>>) \/ (pipe[Other(s)] = <<>> /\ Over(Other(s)))
    /\ Leave(s)
    /\ UNCHANGED <<pipe, got, torn, misread, received, cancelled, shell>>

-----------------------------------------------------------------------------
(* The other branches.                                                     *)

SeeCancelledByAgent(s) ==
    /\ Selecting(s) /\ cancelled[s] /\ s = "agent" /\ agent = "run"
    /\ Leave(s)
    /\ UNCHANGED <<pipe, got, torn, misread, received, cancelled, shell>>

\* The token of the side, or for the client the end of its input.
SeeCancelled(s) ==
    /\ Selecting(s) /\ cancelled[s] /\ (s = "agent" => agent = "run")
    /\ Leave(s)
    /\ UNCHANGED <<pipe, got, torn, misread, received, cancelled, shell>>

ClientInput ==
    /\ Selecting("client") /\ Len(sent["client"]) <= MaxInputs
    /\ \E z \in Sizes : Write("client", Object("input", z))
    /\ DropRead("client")
    /\ UNCHANGED <<client, agent, pipe, misread, received, cancelled, shell>>

\* pty_reader.recv(); None once the shell has exited, and then the agent returns.
AgentOutput ==
    /\ Selecting("agent") /\ agent = "run"
    /\ IF shell = "alive"
         THEN /\ Len(sent["agent"]) < MaxOutputs
              /\ \E z \in Sizes : Write("agent", Object("output", z))
              /\ UNCHANGED agent
         ELSE Write("agent", Object("none", 1)) /\ agent' = "last"
    /\ DropRead("agent")
    /\ UNCHANGED <<client, pipe, misread, received, cancelled, shell>>

-----------------------------------------------------------------------------
Step(s) ==
    \/ WritePiece(s) \/ WriteFails(s) \/ ReadLength(s) \/ ReadBody(s) \/ ReadGarbage(s)
    \/ ReadFails(s)

Next ==
    \/ ShellExits \/ ClientInput \/ AgentOutput
    \/ \E s \in Sides : Cancel(s) \/ Step(s) \/ SeeCancelled(s)

\* The tasks run on, and select! takes each of its branches in turn.  Nobody has
\* to type, print, exit or cancel.
Fairness ==
    \A s \in Sides : WF_vars(Step(s)) /\ WF_vars(SeeCancelled(s))

Spec == Init /\ [][Next]_vars /\ Fairness

-----------------------------------------------------------------------------
\* What a side reads is what the other wrote, in order, as long as no length was
\* forgotten by select!, and every size but Top itself survives its encoding.
ReadsWhatWasWritten ==
    \A s \in Sides :
        \/ torn[s]
        \/ \E i \in DOMAIN sent[Other(s)] : sent[Other(s)][i].size = Top
        \/ ~misread[s] /\ IsPrefix(received[s], sent[Other(s)])

\* The two loops end together: whichever side returns, and whatever it was doing,
\* the other one does not stay behind with a shell or a window nobody uses.
BothEnd == (\E s \in Sides : Over(s)) ~> (\A s \in Sides : Over(s))

\* A cancelled side ends, unless both sides write to streams that are full: then
\* neither reads, and neither looks at its token.
Blocked == \A s \in Sides : writing[s] # <<>> /\ Len(pipe[s]) = PipeCap
CancelEnds == \A s \in Sides : cancelled[s] ~> (Over(s) \/ Blocked)
================================================================================
