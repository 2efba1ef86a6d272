---------------------------- MODULE ControlStream ----------------------------
(***************************************************************************)
(* The receiving end of a peering session's control stream: chunks of the  *)
(* byte stream are appended to controL_msg_buffer_, and after each one     *)
(* ProcessControlMessage handles at most one message.                      *)
(*                                                                         *)
(* A message of kind k has Size[k] units.  The buffer holds the messages   *)
(* that have arrived whole and then part units of the next one; how the    *)
(* units of a message divide into common header and body makes no          *)
(* difference, as either has to be there for the message to be handled.    *)
(***************************************************************************)
EXTENDS Naturals, Sequences

CONSTANTS
    Kind, Size,      \* the kinds of messages and their sizes
    Bad,             \* kinds whose parsing or handling throws
    Junk,            \* bytes taken for a message
    Inbound,         \* is the session one the relay accepted?
    MaxMessages,     \* bound: messages of a connection
    MaxConnections   \* bound: connections

ASSUME ControlStreamAssumption ==
    /\ Size \in [Kind -> Nat \ {0}]
    /\ Bad \subseteq Kind
    /\ Junk \notin Kind
    /\ Inbound \in BOOLEAN
    /\ MaxMessages \in Nat /\ MaxConnections \in Nat

VARIABLES
    connections,  \* how many connections there have been
    written,      \* the messages that the peer has written on this one
    arrived,      \* how many of them have arrived whole
    part,         \* units of the next one that have arrived
    buffer,       \* the whole messages in controL_msg_buffer_
    misread,      \* what follows them does not start with a common header
    handled       \* the messages handled on this connection

controlVars == <<connections, written, arrived, part, buffer, misread, handled>>

-----------------------------------------------------------------------------
ControlInit ==
    /\ connections = 1
    /\ written = <<>>
    /\ arrived = 0 /\ part = 0
    /\ buffer = <<>> /\ misread = FALSE
    /\ handled = <<>>

\* The peer sends a message.
SendControl(k) ==
    /\ Len(written) < MaxMessages
    /\ written' = Append(written, k)
    /\ UNCHANGED <<connections, arrived, part, buffer, misread, handled>>

\* Bug for the mutation runs: a message stays in the buffer until the next one.
ProcessKeepsMessage(buf, p) ==
    /\ handled' = Append(handled, IF buf = <<>> THEN Junk ELSE Head(buf))
    /\ buffer' = IF Len(buf) > 1 THEN Tail(buf) ELSE buf
    /\ misread' = misread

\* Bug for the mutation runs: the bytes of another message are erased.
ProcessErasesLast(buf, p) ==
    /\ handled' = IF buf = <<>> THEN handled ELSE Append(handled, Head(buf))
    /\ buffer' = IF buf = <<>> THEN buf ELSE SubSeq(buf, 1, Len(buf) - 1)
    /\ misread' = misread

\* ProcessControlMessage on a buffer with the messages of buf and p units more:
\* an exception, caught around all of it, clears the buffer, and what was there
\* of an incomplete message makes the rest of it look like a new one.
ProcessControlMessage(buf, p) ==
    \/ /\ buf # <<>> /\ Head(buf) \notin Bad
       /\ handled' = Append(handled, Head(buf))
       /\ buffer' = Tail(buf)
       /\ misread' = misread
    \/ /\ buf # <<>> /\ Head(buf) \in Bad
       /\ handled' = Append(handled, Head(buf))
       /\ buffer' = <<>>
       /\ misread' = (misread \/ p > 0)
    \/ /\ buf = <<>> /\ ~misread
       /\ UNCHANGED <<handled, misread>>
       /\ buffer' = buf
    \/ /\ buf = <<>> /\ misread
       /\ handled' \in {handled, Append(handled, Junk)}
       /\ UNCHANGED misread
       /\ buffer' = buf

\* OnRecvStream, one chunk: the next units of the stream, so that afterwards a
\* messages are there and p units of the one after them.
OnRecvStream(a, p) ==
    /\ \/ a > arrived
       \/ a = arrived /\ p > part
    /\ p > 0 => p < Size[written[a + 1]]
    /\ arrived' = a
    /\ part' = p
    /\ ProcessControlMessage(IF misread THEN buffer
                             ELSE buffer \o SubSeq(written, arrived + 1, a), p)
    /\ UNCHANGED <<connections, written>>

\* The connection is lost and the peers connect again.  The relay that accepts
\* makes a new PeerSession; the one that connects uses its own again, whose
\* Connect leaves the buffer as it is.
Connect ==
    /\ connections < MaxConnections
    /\ connections' = connections + 1
    /\ written' = <<>>
    /\ arrived' = 0 /\ part' = 0
    /\ handled' = <<>>
    /\ IF Inbound THEN buffer' = <<>> /\ misread' = FALSE
       ELSE buffer' = buffer /\ misread' = (misread \/ part > 0)

ControlNext ==
    \/ \E k \in Kind : SendControl(k)
    \/ \E a \in arrived..Len(written) :
          \/ OnRecvStream(a, 0)
          \/ a < Len(written) /\ \E p \in 1..(Size[written[a + 1]] - 1) : OnRecvStream(a, p)
    \/ Connect

ControlSpec == ControlInit /\ [][ControlNext]_controlVars

-----------------------------------------------------------------------------
(***************************************************************************)
(* Properties                                                              *)
(***************************************************************************)

\* The buffer holds messages of the connection that have arrived and were not
\* handled yet, in order, and only a part of the one that comes next.
TypeOK ==
    /\ written \in Seq(Kind)
    /\ handled \in Seq(Kind \cup {Junk})
    /\ arrived \in 0..Len(written)
    /\ part > 0 => arrived < Len(written) /\ part < Size[written[arrived + 1]]
    /\ Len(buffer) <= arrived
    /\ buffer = SubSeq(written, arrived - Len(buffer) + 1, arrived)

\* The stream keeps the promise of ControlChannel, however the bytes are cut
\* into chunks: messages are handled in order, none twice, and one is skipped
\* only when a handler threw.
Channel == INSTANCE ControlChannel WITH
    next <- arrived - Len(buffer) + 1, lost <- misread

ImplementsChannel == Channel!Spec

-----------------------------------------------------------------------------
(***************************************************************************)
(* What the repository's documents say and the code does not do            *)
(***************************************************************************)

\* src/docs/relay-protocol.md:1250: the connect response is the very first
\* message that the server sends on a connection, so that it is the first one
\* that the client handles there.  A message left in the buffer comes before.
FirstMessageFirst ==
    Bad = {} /\ handled # <<>> => arrived > 0 /\ handled[1] = written[1]
=============================================================================
