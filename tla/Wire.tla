-------------------------------- MODULE Wire --------------------------------
(***************************************************************************)
(* From a method of Groups or Messaging to the node that a receiver decodes *)
(* from the bytes: the builder, the encoder and the decoder in a row, with  *)
(* a channel between that may lose the end of the buffer or add to it.      *)
(* (dispatchNode encodes the node and sends it nowhere; the decoder reads   *)
(* what an encoder wrote in the tests.)                                     *)
(***************************************************************************)
EXTENDS Groups

CONSTANTS
  Args,      \* the arguments that name a chat
  Requests,  \* what the application asks for
  MaxExtra   \* bound: bytes added to the end of the buffer

\* JIDs with no separator inside a part, where parseJid would take it for the end of it.
PlainJids ==
  [user : Seq(Range(Words) \ Separators), server : Seq(Range(Words) \ {"@"}),
   agent : Numbers \cup {Absent}, device : Numbers \cup {Absent}]

\* A request for a chat is one of Messaging or of a group.
ASSUME RequestsAssumption ==
  \A r \in Requests : r.chat # NotAJid =>
    /\ r.chat \in PlainJids
    /\ \/ \E arg \in Args : r = MessageTo(arg)
       \/ \E arg \in Args, type \in {"get", "set"} : r = ForGroup(arg, type, r.node.content.nodes[1])

ASSUME ChannelAssumption == MaxExtra \in Nat

VARIABLES
  request,   \* the call under way
  stage,     \* how far it is
  buffer,    \* the bytes
  lost,      \* how many of the end are lost
  received   \* what decode returned

wireVars == <<request, stage, buffer, lost, received>>

WireInit ==
  /\ request \in Requests
  /\ stage = "built"
  /\ buffer = <<>> /\ lost = 0
  /\ received = Throws

\* dispatchNode: a throw of the encoder rejects the promise of the method.
Encode ==
  /\ stage = "built"
  /\ IF Encodable(request.node)
     THEN stage' = "encoded" /\ buffer' = BytesOf(request.node)
     ELSE stage' = "rejected" /\ UNCHANGED buffer
  /\ UNCHANGED <<request, lost, received>>

Cut ==
  /\ stage = "encoded"
  /\ \E n \in 1..Len(buffer) : lost' = n /\ buffer' = SubSeq(buffer, 1, Len(buffer) - n)
  /\ stage' = "sent"
  /\ UNCHANGED <<request, received>>

Extend ==
  /\ stage = "encoded"
  /\ \E n \in 0..MaxExtra : buffer' = buffer \o [k \in 1..n |-> k]
  /\ stage' = "sent"
  /\ UNCHANGED <<request, lost, received>>

Receive ==
  /\ stage = "sent"
  /\ received' = Decode(buffer)
  /\ stage' = "received"
  /\ UNCHANGED <<request, buffer, lost>>

WireNext == Encode \/ Cut \/ Extend \/ Receive

WireSpec == WireInit /\ [][WireNext]_wireVars

----------------------------------------------------------------------------

To(node) == node.attrs[CHOOSE k \in 1..Len(node.attrs) : node.attrs[k][1] = <<"to">>][2]

\* What is decoded from a whole buffer, whatever follows it, is the node that was built,
\* and the JID in it is, to the agent and device, the one that was meant.
Delivered ==
  stage = "received" /\ lost = 0 =>
    /\ received.value = request.node
    /\ request.chat # NotAJid => ParseJid(To(received.value)) = request.chat

\* The node with the last content in the buffer gone, for each one that ends it.
ContentClips(content, clipped) ==
  IF content = NoContent THEN {}
  ELSE {NoContent}
       \cup IF content.kind = "bytes" \/ content = Children(<<>>) THEN {}
            ELSE {Children(Append(Front(content.nodes), n)) : n \in clipped[Last(content.nodes)]}
Clips(node, clipped) == {[node EXCEPT !.content = c] : c \in ContentClips(node.content, clipped)}
Clipped[depth \in 0..MaxDepth] ==
  [node \in EncodableNodes[depth] |-> Clips(node, IF depth = 0 THEN <<>> ELSE Clipped[depth - 1])]

\* decode refuses a buffer that lost its end, wherever it was cut, unless all that is lost
\* is the content of the last node or of one around it: no other node is ever returned.
CutsRefused ==
  stage = "received" /\ lost > 0 => Thrown(received) \/ received.value \in Clipped[MaxDepth][request.node]

\* "full protection against ... truncated buffers": decode refuses every buffer that lost
\* its end.  This fails for those that CutsRefused excepts: readContent takes the end of the
\* data for a node without content, although the size of its list says that it has one.
TruncatedRefused == stage = "received" /\ lost > 0 => Thrown(received)
=============================================================================
