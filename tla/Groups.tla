------------------------------- MODULE Groups -------------------------------
(***************************************************************************)
(* The nodes that Groups (wazeko/src/groups.ts) and Messaging               *)
(* (messaging.ts) hand to dispatchNode, and the JID each is meant for.  The *)
(* methods keep no state; what they return besides is made up of constants  *)
(* and of their arguments.                                                  *)
(*                                                                         *)
(* An argument is a JID or a text.  Dates and random ids are left out of    *)
(* the nodes: the words "now" and "msgId" stand for them.                   *)
(***************************************************************************)
EXTENDS Jid, BinaryCodec

\* What an argument may be.
AsJid(jid) == [form |-> "jid", jid |-> jid, text |-> <<>>]
AsText(text) == [form |-> "text", jid |-> NotAJid, text |-> text]

Resolve(arg, OfText(_)) ==
  IF arg.form = "jid" THEN arg.jid
  ELSE IF Contains(arg.text, "@") THEN ParseJid(arg.text) ELSE OfText(arg.text)

ResolveJid(arg) == Resolve(arg, JidGroup)
ResolveUserJid(arg) == Resolve(arg, JidUser)

\* `${jid.user}@${jid.server}`
Address(jid) == jid.user \o <<"@">> \o jid.server

Attr(key, value) == <<(<<key>>), value>>
Leaf(tag, attrs) == Node(<<tag>>, attrs, NoContent)
Parent(tag, attrs, nodes) == Node(<<tag>>, attrs, Children(nodes))

Iq(type, to, node) ==
  Parent("iq", <<Attr("type", <<type>>), Attr("xmlns", <<"w:g2">>), Attr("to", to)>>, <<node>>)

Participants(args) ==
  [k \in 1..Len(args) |-> Leaf("participant", <<Attr("jid", Address(ResolveUserJid(args[k])))>>)]

\* A request: a node and the JID that its "to" must name, if it is for a chat.
Request(node, chat) == [node |-> node, chat |-> chat]
ForGroup(arg, type, node) ==
  LET jid == ResolveJid(arg)
  IN  Request(Iq(type, Address(jid), node), NewJid(jid.user, jid.server, Absent, Absent))

Create(subject, args) ==
  Request(Iq("set", <<"g.us">>, Parent("create", <<Attr("subject", subject)>>, Participants(args))), NotAJid)
JoinWithCode(code) == Request(Iq("set", <<"g.us">>, Leaf("accept", <<Attr("code", code)>>)), NotAJid)

Info(arg) == ForGroup(arg, "get", Leaf("query", <<Attr("request", <<"interactive">>)>>))
GetInviteCode(arg) == ForGroup(arg, "get", Leaf("invite", <<>>))
UpdateSubject(arg, subject) == ForGroup(arg, "set", Node(<<"subject">>, <<>>, Bytes(Utf8(subject))))
UpdateDescription(arg, description) ==
  ForGroup(arg, "set", Node(<<"description">>, <<Attr("id", <<"now">>)>>, Bytes(Utf8(description))))
\* addParticipants, removeParticipants, promoteParticipants, demoteParticipants
ChangeParticipants(arg, change, args) == ForGroup(arg, "set", Parent(change, <<>>, Participants(args)))
Leave(arg) ==
  ForGroup(arg, "set", Parent("leave", <<>>, <<Leaf("group", <<Attr("id", Address(ResolveJid(arg)))>>)>>))

\* Messaging.sendMessage takes every text for the number of a user.
Recipient(arg) == IF arg.form = "jid" THEN arg.jid ELSE JidUser(arg.text)
MessageTo(arg) ==
  Request(Leaf("message", <<Attr("id", <<"msgId">>), Attr("to", JidToString(Recipient(arg))),
                            Attr("type", <<"text">>)>>), Recipient(arg))
=============================================================================
