-------------------------------- MODULE MCWire --------------------------------
(***************************************************************************)
(* The requests for TLC: every method, with arguments of every form, and    *)
(* lists and texts one below, at and above the length of one byte.          *)
(***************************************************************************)
EXTENDS Wire

MCWords ==
  <<"_", ":", "@", "s.whatsapp.net", "g.us", "12", "34", "5", "6", "+", "x",
    "iq", "type", "set", "get", "to", "xmlns", "w:g2", "create", "subject", "participant",
    "jid", "query", "request", "interactive", "description", "id", "now", "add", "remove",
    "promote", "demote", "invite", "accept", "code", "leave", "group", "message", "msgId", "text">>
MCNumbers == {"12", "34", "5", "6"}
\* bound: some of the tokens
MCTokens ==
  << <<>>, <<"s.whatsapp.net">>, <<"type">>, <<"participant">>, <<"to">>, <<"subject">>,
     <<"set">>, <<"get">>, <<"message">>, <<"query">>, <<"iq">>, <<"group">> >>

Full(agent, device) == NewJid(<<"12">>, <<"s.whatsapp.net">>, agent, device)
Group == NewJid(<<"34">>, <<"g.us">>, Absent, Absent)
GroupArgs == {AsJid(Group), AsText(<<"34">>), AsText(<<"34", "@", "g.us">>), AsText(<<"12", "_", "5", ":", "6", "@", "g.us">>)}
UserArgs ==
  {AsJid(Full(agent, device)) : agent \in {Absent, "5"}, device \in {Absent, "6"}}
  \cup {AsText(<<"+", "12">>), AsText(<<"12", "@", "s.whatsapp.net">>)}

MCArgs == GroupArgs \cup UserArgs

Times(n, x) == [k \in 1..n |-> x]
Lengths == {0, 1, Base - 1, Base, Base + 1}
SomeTexts == {Times(n, "x") : n \in Lengths} \cup {<<"group">>}

MCRequests ==
  {Info(g) : g \in GroupArgs} \cup {GetInviteCode(g) : g \in GroupArgs} \cup {Leave(g) : g \in GroupArgs}
  \cup {UpdateSubject(AsJid(Group), t) : t \in SomeTexts} \cup {UpdateDescription(AsJid(Group), t) : t \in SomeTexts}
  \cup {Create(t, <<u>>) : t \in SomeTexts \cup {Times(Base * Base, "x")}, u \in UserArgs}
  \cup {ChangeParticipants(AsJid(Group), c, <<u>>) : c \in {"add", "remove", "promote", "demote"}, u \in UserArgs}
  \cup {ChangeParticipants(AsJid(Group), "add", Times(n, AsText(<<"12">>))) : n \in Lengths}
  \cup {JoinWithCode(t) : t \in SomeTexts}
  \cup {MessageTo(a) : a \in UserArgs \cup {AsJid(Group)}}
=============================================================================
