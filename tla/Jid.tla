--------------------------------- MODULE Jid ---------------------------------
(***************************************************************************)
(* The JIDs of wazeko-types/src/jid.ts and their texts.                     *)
(*                                                                         *)
(* A text is a sequence of words: the separators "_", ":", "@", the         *)
(* numbers, a whole run of digits each, and whatever else a text is made    *)
(* of.  No word has white space, so there is nothing to trim.               *)
(***************************************************************************)
EXTENDS Integers, Sequences, SequencesExt

CONSTANTS
  Numbers,  \* the words that are runs of digits
  Absent,   \* an undefined agent or device
  NotAJid   \* parseJid throws

Separators == {"_", ":", "@"}

ASSUME JidAssumption == Numbers \cap Separators = {}

NewJid(user, server, agent, device) ==
  [user |-> user, server |-> server, agent |-> agent, device |-> device]

\* jidUser drops whatever is not a digit.
JidUser(phone) ==
  NewJid(SelectSeq(phone, LAMBDA w : w \in Numbers), <<"s.whatsapp.net">>, Absent, Absent)
JidGroup(id) == NewJid(id, <<"g.us">>, Absent, Absent)

JidToString(j) ==
  j.user \o (IF j.agent # Absent THEN <<"_", j.agent>> ELSE <<>>)
         \o (IF j.device # Absent THEN <<":", j.device>> ELSE <<>>)
         \o <<"@">> \o j.server

\* text.split(separator)
Split(text, separator) ==
  LET parts[k \in 0..Len(text)] ==
        IF k = 0 THEN << <<>> >>
        ELSE IF text[k] = separator THEN Append(parts[k - 1], <<>>)
        ELSE Append(Front(parts[k - 1]), Append(Last(parts[k - 1]), text[k]))
  IN  parts[Len(text)]

ParseInt(text) == IF text # <<>> /\ text[1] \in Numbers THEN text[1] ELSE Absent

\* The second part, if there is one, of those that destructuring takes.
SecondInt(parts) == IF Len(parts) > 1 THEN ParseInt(parts[2]) ELSE Absent

ParseJid(text) ==
  LET parts == Split(text, "@")
      byColon == Split(parts[1], ":")
      byUnderscore == Split(byColon[1], "_")
  IN  IF text = <<>> \/ Len(parts) # 2 THEN NotAJid
      ELSE NewJid(byUnderscore[1], parts[2], SecondInt(byUnderscore), SecondInt(byColon))
=============================================================================
