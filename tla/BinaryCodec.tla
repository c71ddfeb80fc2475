----------------------------- MODULE BinaryCodec -----------------------------
(***************************************************************************)
(* BinaryEncoder and BinaryDecoder of wazeko-protocol/src and the nodes     *)
(* they carry.                                                              *)
(*                                                                         *)
(* A byte is a number below Base, 256 in the code: lengths of one, two and  *)
(* four bytes are told apart by it as they are there.  A text is a sequence *)
(* of words and has one byte for each.  (A length of 2^31 or more, which    *)
(* the decoder would take for a negative one, is out of reach of both.)     *)
(* The attributes of a node are its entries in the order of insertion.      *)
(***************************************************************************)
EXTENDS Integers, Sequences, SequencesExt

CONSTANTS
  Base,     \* the number of bytes there are
  Words,    \* the words of texts, in a sequence
  Tokens,   \* SINGLE_BYTE_TOKENS: texts, the first of which is empty
  MaxDepth  \* bound: how deep nodes nest, each level a call on the stack

LIST_EMPTY == 0
LIST_8 == 1
LIST_16 == 2
BINARY_8 == 3
BINARY_32 == 4
TEXT == 5
TOKEN == 6

Byte == 0..Base - 1
Texts == Seq(Range(Words))

ASSUME CodecAssumption ==
  /\ Base \in Nat /\ TOKEN < Base
  /\ Words \in Texts /\ Len(Words) <= Base
  /\ Tokens \in Seq(Texts) /\ Len(Tokens) <= Base
  /\ MaxDepth \in Nat

NoContent == [kind |-> "none"]
Bytes(data) == [kind |-> "bytes", data |-> data]
Children(nodes) == [kind |-> "nodes", nodes |-> nodes]

\* ProtocolNodeBuilder: attr sets keys that differ here.
Node(tag, attrs, content) == [tag |-> tag, attrs |-> attrs, content |-> content]

Utf8(text) == [k \in 1..Len(text) |-> (CHOOSE i \in 1..Len(Words) : Words[i] = text[k]) - 1]
TextOf(bytes) == [k \in 1..Len(bytes) |-> Words[bytes[k] + 1]]

----------------------------------------------------------------------------
\* BinaryEncoder

TwoBytes(n) == <<(n \div Base) % Base, n % Base>>

\* slip: <= for < in the test of the size.
ListHeaderOneMore(size) ==
  IF size = 0 THEN <<LIST_EMPTY>>
  ELSE IF size <= Base THEN <<LIST_8, size % Base>>
  ELSE <<LIST_16>> \o TwoBytes(size)

ListHeader(size) ==
  IF size = 0 THEN <<LIST_EMPTY>>
  ELSE IF size < Base THEN <<LIST_8, size>>
  ELSE <<LIST_16>> \o TwoBytes(size)

\* The empty token is not in the map that getTokenIndex reads.
TokenIndexes(text) == {i \in 1..Len(Tokens) : Tokens[i] = text /\ text # <<>>}

WriteString(text) ==
  IF TokenIndexes(text) # {} THEN <<TOKEN, (CHOOSE i \in TokenIndexes(text) : TRUE) - 1>>
  ELSE <<TEXT>> \o TwoBytes(Len(text)) \o Utf8(text)

WriteBinary(data) ==
  (IF Len(data) < Base THEN <<BINARY_8, Len(data)>>
   ELSE <<BINARY_32>> \o TwoBytes(Len(data) \div (Base * Base)) \o TwoBytes(Len(data))) \o data

Attributes(attrs) == FlattenSeq([k \in 1..Len(attrs) |-> WriteString(attrs[k][1]) \o WriteString(attrs[k][2])])

\* encode throws when a string or a list has a length of more than two bytes.
Short(S) == {s \in Seq(S) : Len(s) < Base * Base}
ShortText == Short(Range(Words))

\* What the list of a node counts: its tag, its attributes, each of two texts, and its content.
NodeSize(node) == 1 + 2 * Len(node.attrs) + (IF node.content = NoContent THEN 0 ELSE 1)

\* Nodes that encode takes, with children of a set.  (The array that push extends has no
\* room for more bytes than half of what four bytes can count.)
NodesOver(children) ==
  {node \in [ tag : ShortText,
              attrs : Seq(ShortText \X ShortText),
              content : {NoContent}
                \cup [kind : {"bytes"}, data : {d \in Seq(Byte) : 2 * Len(d) < Base * Base * Base * Base}]
                \cup [kind : {"nodes"}, nodes : Short(children)] ] : NodeSize(node) < Base * Base}

\* The code of a node, where write is what writeNode makes of a child.
ContentCode(content, write) ==
  CASE content.kind = "none" -> <<>>
    [] content.kind = "bytes" -> WriteBinary(content.data)
    [] content.kind = "nodes" ->
         ListHeader(Len(content.nodes)) \o FlattenSeq([k \in 1..Len(content.nodes) |-> write[content.nodes[k]]])

NodeCode(node, write) ==
  ListHeader(NodeSize(node)) \o WriteString(node.tag) \o Attributes(node.attrs) \o ContentCode(node.content, write)

\* Both by how deep a node nests at most.
EncodableNodes[depth \in 0..MaxDepth] == NodesOver(IF depth = 0 THEN {} ELSE EncodableNodes[depth - 1])
WriteNode[depth \in 0..MaxDepth] ==
  [node \in EncodableNodes[depth] |-> NodeCode(node, IF depth = 0 THEN <<>> ELSE WriteNode[depth - 1])]

Encodable(node) == node \in EncodableNodes[MaxDepth]
BytesOf(node) == WriteNode[MaxDepth][node]

----------------------------------------------------------------------------
\* BinaryDecoder.  A read of the data at an offset gives a value and the next offset, or
\* throws.

Value(v, next) == [value |-> v, next |-> next]
Throws == Value(<<>>, 0)
Thrown(read) == read.next = 0
Then(read, Rest(_, _)) == IF Thrown(read) THEN Throws ELSE Rest(read.value, read.next)

Offsets(data) == 1..Len(data) + 1

ReadByte(data, at) == IF at > Len(data) THEN Throws ELSE Value(data[at], at + 1)

\* slip: no check, and what lies past the end reads as 0.  (No read tells offsets past it apart.)
ReadBytesUnchecked(data, at, n) ==
  Value([k \in 1..n |-> IF at + k - 1 <= Len(data) THEN data[at + k - 1] ELSE 0],
        IF at + n <= Len(data) THEN at + n ELSE Len(data) + 1)

ReadBytes(data, at, n) ==
  IF at + n - 1 > Len(data) THEN Throws ELSE Value(SubSeq(data, at, at + n - 1), at + n)

ReadTwo(data, at) ==
  Then(ReadBytes(data, at, 2), LAMBDA b, next : Value(b[1] * Base + b[2], next))
ReadFour(data, at) ==
  Then(ReadBytes(data, at, 4), LAMBDA b, next : Value(((b[1] * Base + b[2]) * Base + b[3]) * Base + b[4], next))

ReadListSize(data, at) ==
  Then(ReadByte(data, at),
       LAMBDA tag, next : CASE tag = LIST_EMPTY -> Value(0, next)
                            [] tag = LIST_8 -> ReadByte(data, next)
                            [] tag = LIST_16 -> ReadTwo(data, next)
                            [] OTHER -> Throws)

ReadString(data, at) ==
  Then(ReadByte(data, at),
       LAMBDA tag, next :
         CASE tag = TOKEN ->
                Then(ReadByte(data, next), LAMBDA i, rest : IF i < Len(Tokens) THEN Value(Tokens[i + 1], rest) ELSE Throws)
           [] tag = TEXT ->
                Then(ReadTwo(data, next), LAMBDA length, start :
                  Then(ReadBytes(data, start, length), LAMBDA bytes, rest : Value(TextOf(bytes), rest)))
           [] OTHER -> Throws)

ReadBinary(data, at) ==
  Then(IF data[at] = BINARY_8 THEN ReadByte(data, at + 1) ELSE ReadFour(data, at + 1),
       LAMBDA length, start :
         Then(ReadBytes(data, start, length), LAMBDA bytes, next : Value(Bytes(bytes), next)))

\* n reads, one after the other, of what read gives at an offset.
ReadMany(read, at, n) ==
  LET many[k \in 0..n] ==
        IF k = 0 THEN Value(<<>>, at)
        ELSE Then(many[k - 1], LAMBDA items, next :
               Then(read[next], LAMBDA item, rest : Value(Append(items, item), rest)))
  IN  many[n]

ReadAttribute(data, at) ==
  Then(ReadString(data, at), LAMBDA key, next :
    Then(ReadString(data, next), LAMBDA value, rest : Value(<<key, value>>, rest)))

\* At the end of the data there is no content, and nothing is thrown.
ReadContent(data, at, readChild) ==
  IF at > Len(data) THEN Value(NoContent, at)
  ELSE IF data[at] \in {LIST_EMPTY, LIST_8, LIST_16}
       THEN Then(ReadListSize(data, at), LAMBDA n, next :
              Then(ReadMany(readChild, next, n), LAMBDA nodes, rest : Value(Children(nodes), rest)))
  ELSE IF data[at] \in {BINARY_8, BINARY_32} THEN ReadBinary(data, at)
  ELSE Then(ReadString(data, at), LAMBDA text, next : Value(Bytes(Utf8(text)), next))

ReadNode(data, at, readChild) ==
  Then(ReadListSize(data, at), LAMBDA size, atTag :
    IF size = 0 THEN Throws
    ELSE Then(ReadString(data, atTag), LAMBDA tag, atAttrs :
      Then(ReadMany([p \in Offsets(data) |-> ReadAttribute(data, p)], atAttrs, (size - 1) \div 2), LAMBDA attrs, atContent :
        Then(IF (size - 1) % 2 = 1 THEN ReadContent(data, atContent, readChild) ELSE Value(NoContent, atContent),
             LAMBDA content, next : Value(Node(tag, attrs, content), next)))))

\* decode reads one node and leaves what follows it.
Decode(data) ==
  LET read[depth \in 0..MaxDepth] ==
        [at \in Offsets(data) |->
           ReadNode(data, at, IF depth = 0 THEN [p \in Offsets(data) |-> Throws] ELSE read[depth - 1])]
  IN  read[MaxDepth][1]
=============================================================================
