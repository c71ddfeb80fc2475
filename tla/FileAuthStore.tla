--------------------------- MODULE FileAuthStore ---------------------------
(***************************************************************************)
(* FileAuthStore of wazeko-auth/src/store.ts: writeFile opens and truncates *)
(* credentials.json and then writes the text in place, from the start of    *)
(* the file.  Nothing serialises the calls, and the process may end between *)
(* two operations.  Opening, writing, reading and unlinking are atomic; a   *)
(* handle goes on writing to a file that has been unlinked, which nobody    *)
(* else can see.                                                            *)
(*                                                                         *)
(* MemoryAuthStore and KeyValAuthStore change one value in one step, and a  *)
(* load of theirs returns it: they have no intermediate states to model.    *)
(*                                                                         *)
(* A definition marked "slip" is a mistake that no specification uses: see  *)
(* MessageQueue.                                                            *)
(***************************************************************************)
EXTENDS AuthStore, Naturals

CONSTANTS
  Empty,      \* a file without text
  Torn,       \* a file with the text of one version and the tail of another
  Unknown     \* history: a writer was disturbed, or did not run to its end

ASSUME VersionsAssumption == {None, Empty, Torn, Refused} \cap Versions = {}

VARIABLES
  file,       \* credentials.json
  step,       \* the operation a call performs next
  text,       \* what a save writes
  attached,   \* the handle of a save is that of credentials.json
  result,     \* what the last load of a call returned
  solitary,   \* history: no other writer ran since this one began
  known       \* history: what the last writer left, if it ran alone to its end

fileVars == <<file, step, text, attached, result, solitary, known>>

Savers == {c \in Calls : step[c] = "write"}

FileTypeOK ==
  /\ file \in Versions \cup {None, Empty, Torn}
  /\ step \in [Calls -> {"idle", "write"}]
  /\ text \in [Calls -> Versions \cup {None}]
  /\ attached \in [Calls -> BOOLEAN]
  /\ result \in [Calls -> Versions \cup {None, Refused}]
  /\ solitary \in [Calls -> BOOLEAN]
  /\ known \in Versions \cup {None, Unknown}

FileInit ==
  /\ file = None
  /\ step = [c \in Calls |-> "idle"]
  /\ text = [c \in Calls |-> None]
  /\ attached = [c \in Calls |-> FALSE]
  /\ result = [c \in Calls |-> None]
  /\ solitary = [c \in Calls |-> FALSE]
  /\ known = None

----------------------------------------------------------------------------

\* writeFile opens the file, which creates or truncates it ...
OpenToSave(c, v, opened) ==
  /\ step[c] = "idle"
  /\ file' = opened
  /\ step' = [step EXCEPT ![c] = "write"]
  /\ text' = [text EXCEPT ![c] = v]
  /\ attached' = [attached EXCEPT ![c] = TRUE]
  /\ solitary' = [d \in Calls |-> d = c /\ Savers = {}]
  /\ UNCHANGED <<result, known>>

\* slip: the file is opened for writing and not truncated.
SaveInPlace(c, v) == OpenToSave(c, v, IF file = None THEN Empty ELSE file)

SavePlain(c, v) == OpenToSave(c, v, Empty)

\* ... and writes over what another save may have written since.
CallEnds(c) ==
  /\ step' = [step EXCEPT ![c] = "idle"]
  /\ text' = [text EXCEPT ![c] = None]
  /\ attached' = [attached EXCEPT ![c] = FALSE]
  /\ solitary' = [solitary EXCEPT ![c] = FALSE]

Over(old, v) == IF old \in {Empty, v} THEN {v} ELSE {v, Torn}

Write(c) ==
  /\ step[c] = "write"
  /\ IF attached[c] THEN file' \in Over(file, text[c]) ELSE UNCHANGED file
  /\ CallEnds(c)
  /\ known' = IF solitary[c] THEN text[c] ELSE Unknown
  /\ UNCHANGED result

\* load() reads and parses; without a file it returns null.
Parsed(t) == IF t \in {Empty, Torn} THEN Refused ELSE t

LoadPlain(c) ==
  /\ step[c] = "idle"
  /\ result' = [result EXCEPT ![c] = Parsed(file)]
  /\ UNCHANGED <<file, step, text, attached, solitary, known>>

\* clear() unlinks the file.
ClearPlain(c) ==
  /\ step[c] = "idle"
  /\ file' = None
  /\ attached' = [d \in Calls |-> FALSE]
  /\ solitary' = [d \in Calls |-> FALSE]
  /\ known' = IF Savers = {} THEN None ELSE Unknown
  /\ UNCHANGED <<step, text, result>>

\* External: an I/O error rejects the promise of a save.
SaveFails(c) ==
  /\ step[c] = "write"
  /\ CallEnds(c)
  /\ known' = Unknown
  /\ UNCHANGED <<file, result>>

\* External: the process ends and another one starts.
FileCrash ==
  /\ step' = [c \in Calls |-> "idle"]
  /\ text' = [c \in Calls |-> None]
  /\ attached' = [c \in Calls |-> FALSE]
  /\ solitary' = [c \in Calls |-> FALSE]
  /\ known' = IF Savers = {} THEN known ELSE Unknown
  /\ UNCHANGED <<file, result>>

----------------------------------------------------------------------------

\* A save or a clear that ran alone and to its end leaves what it wrote, whatever
\* crashes, failures and overlapping saves tore the file before it.
LastWriterLasts == Savers = {} /\ known # Unknown => file = known
=============================================================================
